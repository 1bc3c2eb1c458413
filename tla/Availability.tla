----------------------------- MODULE Availability -----------------------------
(***************************************************************************)
(* A person's reading of an official program page counts until its         *)
(* recheck_due_on (program_availability.py).  The scheduled watch warns of *)
(* readings about to lapse (harness/availability.py), the gate, the packet *)
(* journey and the published page stop at the date, and another watcher    *)
(* re-reads the pages themselves (program_registry.py).                    *)
(* Operators only: the files and the runs are in AvailabilityWatch.        *)
(***************************************************************************)
EXTENDS Calendar

CONSTANTS
    Schedules,      \* what currency.yml may declare: [crons, fires], see below
    Pages,          \* registered program pages
    MaxInterval,    \* MAX_RECHECK_INTERVAL_DAYS (31)
    Unreadable,     \* a file that is no record
    Absent          \* no file

\* A cron field is a set of terms.  A term v, a-b, a-b/s admits low, low+step,
\* ... up to high; a star is every value from 0 on.
Every == [low |-> 0, high |-> 60, step |-> 1]

ASSUME AvailabilityAssumption ==
    /\ Unreadable # Absent
    /\ MaxInterval \in Nat
    /\ \A s \in Schedules : s.fires \subseteq 0 .. Horizon

-----------------------------------------------------------------------------
(* The lead time, read out of the workflow's own schedule.                 *)

\* _cron_term_matches and _cron_field_matches
Admits(field, value) ==
    \E term \in field :
        value \in term.low .. term.high /\ (value - term.low) % term.step = 0

\* _cron_fires_on: two restricted day fields are alternatives.
FiresOn(cron, n) ==
    LET monthDay   == Admits(cron.dom, DateOf[n].day)
        weekDay    == Admits(cron.dow, (Weekday(n) + 1) % 7)
        restricted == {f \in {"dom", "dow"} : cron[f] # {Every}}
    IN  /\ Admits(cron.month, DateOf[n].month)
        /\ CASE restricted = {}      -> TRUE
             [] restricted = {"dom"} -> monthDay
             [] restricted = {"dow"} -> weekDay
             [] OTHER                -> monthDay \/ weekDay

CronHorizon == 366
NoInterval  == -1           \* None: no usable schedule

\* pairwise: from each fire to the next.
Gaps(fires) == {Min({k \in fires : k > n}) - n : n \in fires \ {Max(fires)}}

\* Mutant: the nominal gap.
ShortestInterval(crons, start) ==
    LET fires == {n \in start .. start + CronHorizon - 1 : \E c \in crons : FiresOn(c, n)}
    IN  IF Cardinality(fires) < 2 THEN NoInterval ELSE Min(Gaps(fires))

\* watch_interval_days: the longest gap of the year from start on.
Interval(crons, start) ==
    LET fires == {n \in start .. start + CronHorizon - 1 : \E c \in crons : FiresOn(c, n)}
    IN  IF Cardinality(fires) < 2 THEN NoInterval ELSE Max(Gaps(fires))

Leads == [s \in Schedules |-> [n \in Days |-> Interval(s.crons, n)]]

-----------------------------------------------------------------------------
(* Records.                                                                *)

\* The two dates of a record; the page's wording, the identifiers and the
\* fixed boundary text are what the loader compares with constants.
Readings == [checked : Days, due : Nat, sound : BOOLEAN]

IsReading(record) == record \notin {Unreadable, Absent}

\* load_program_availability: the strict reading that a packet may rest on.
Loads(record, day) ==
    /\ IsReading(record)
    /\ record.sound
    /\ record.checked <= day
    /\ record.due - record.checked \in 1 .. MaxInterval

\* normalizeProgramAvailability and programAvailabilityIsCurrent in the browser:
\* the same, and not past its date.
PageLoads(record, clock) ==
    /\ IsReading(record)
    /\ record.sound
    /\ record.checked <= clock /\ clock <= record.due
    /\ record.due > record.checked
    /\ record.due - record.checked <= MaxInterval

\* _reference_currency_blockers and evaluate_journey: a lapsed reading closes.
Counts(record, day) == Loads(record, day) /\ day <= record.due

\* Mutant: the deadline must fall before the next run, not on it.
DueBefore(record, day, lead) ==
    lead # NoInterval /\ IsReading(record) /\ record.due < day + lead

\* watch_availability, on the tolerant reading of the same two dates.
Due(record, day, lead) ==
    lead # NoInterval /\ IsReading(record) /\ record.due <= day + lead

\* availability_note: the run says something of the record.
Named(record, day, lead) ==
    record = Unreadable \/ lead = NoInterval \/ Due(record, day, lead)

-----------------------------------------------------------------------------
(* check_program_pages: an excerpt is looked for in what the page serves.  *)

\* main: 1 asks for a review, 2 says that nothing could be read.
ExitOf(seen) ==
    CASE \E p \in Pages : seen[p] = "changed"      -> 1
      [] Pages # {} /\ \A p \in Pages : seen[p] = "unverifiable" -> 2
      [] OTHER                                     -> 0
=============================================================================
