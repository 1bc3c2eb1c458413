-------------------------- MODULE AvailabilityWatch --------------------------
(***************************************************************************)
(* The availability record as a file that a person renews, and the two     *)
(* scheduled runs that look at it and at the program pages.  The day of    *)
(* the schedule, of the records and of the deadlines is the calendar's;    *)
(* GitHub starts a run on the day the schedule fires or, late, on the day  *)
(* after.                                                                  *)
(***************************************************************************)
EXTENDS Availability

CONSTANTS
    Spans,          \* days a person may write between checked_on and recheck_due_on
    MaxRenewals     \* bound: times the record is written

LongestGap == [s \in Schedules |-> Max(Gaps(s.fires))]

\* A schedule fires before and after the days that are looked at, and was not
\* silent for longer before the first of them than it is between two of its days.
ASSUME AvailabilityWatchAssumption ==
    /\ Spans \subseteq Nat /\ MaxRenewals \in Nat
    /\ \A s \in Schedules : \E first, last \in s.fires :
          /\ first < last /\ LastDay <= last
          /\ first <= FirstDay + LongestGap[s]

VARIABLES
    schedule,   \* currency.yml
    record,     \* the file in data/availability
    pending,    \* a run of the watch is owed since this day, or -1
    renewals,
    moved,      \* pages that no longer carry the expected excerpt
    proposed,   \* pages for which the last page run wrote an issue proposal
    written,    \* history: the day the record last became readable
    announced   \* history: a run has named the record since then

availabilityVars ==
    <<today, schedule, record, pending, renewals, moved, proposed, written, announced>>

NotOwed == -1

AvailabilityWatchTypeOK ==
    /\ today \in Days
    /\ IsReading(record) => record \in Readings
    /\ pending \in {NotOwed} \cup Days /\ written \in Days
    /\ renewals \in 0 .. MaxRenewals
    /\ moved \in SUBSET Pages /\ proposed \in SUBSET Pages

AvailabilityInit ==
    /\ today = FirstDay
    /\ schedule \in Schedules
    /\ record = Absent /\ written = FirstDay /\ announced = FALSE
    /\ pending = IF FirstDay \in schedule.fires THEN FirstDay ELSE NotOwed
    /\ renewals = 0
    /\ moved = {} /\ proposed = {}

\* A day ends; a run that is owed since the day before has been started.
DayEnds ==
    /\ pending \in {NotOwed, today}
    /\ NextDay
    /\ pending' = IF today' \in schedule.fires /\ pending = NotOwed THEN today' ELSE pending
    /\ UNCHANGED <<schedule, record, renewals, moved, proposed, written, announced>>

\* The watch runs.  A run started late, on a day that fires again, leaves that
\* day's own run owed.
WatchRun ==
    /\ pending # NotOwed
    /\ LET lead == Leads[schedule][today]
       IN  announced' = (announced \/ Named(record, today, lead))
    /\ pending' = IF pending < today /\ today \in schedule.fires THEN today ELSE NotOwed
    /\ UNCHANGED <<today, schedule, record, renewals, moved, proposed, written>>

\* A person reads the page and writes the record: rightly, or with a date in
\* the future, a span that is too long, or a wording that does not bind.
Write ==
    /\ renewals < MaxRenewals /\ renewals' = renewals + 1
    /\ \E span \in Spans, ahead \in {0, 1}, sound \in BOOLEAN :
          /\ today + ahead <= LastDay
          /\ record' = [checked |-> today + ahead, due |-> today + ahead + span,
                        sound |-> sound]
    /\ written' = today /\ announced' = FALSE
    /\ UNCHANGED <<today, schedule, pending, moved, proposed>>

\* An edit leaves a file that is no record; it is removed.
Break ==
    /\ renewals < MaxRenewals /\ renewals' = renewals + 1
    /\ IsReading(record)
    /\ record' \in {Unreadable, Absent}
    /\ announced' = FALSE
    /\ UNCHANGED <<today, schedule, pending, moved, proposed, written>>

\* A page changes or changes back.
PageMoves(p) ==
    /\ moved' = IF p \in moved THEN moved \ {p} ELSE moved \cup {p}
    /\ UNCHANGED <<today, schedule, record, pending, renewals, proposed, written, announced>>

\* The page watcher runs; the pages in `down` cannot be fetched.  It writes
\* proposals, never the record.
PageRun(down) ==
    LET seen == [p \in Pages |-> IF p \in down THEN "unverifiable"
                                 ELSE IF p \in moved THEN "changed" ELSE "unchanged"]
    IN  /\ proposed' = IF ExitOf(seen) = 1
                       THEN {p \in Pages : seen[p] = "changed"} ELSE {}
        /\ UNCHANGED <<today, schedule, record, pending, renewals, moved, written, announced>>

AvailabilityNext ==
    \/ DayEnds
    \/ WatchRun
    \/ Write
    \/ Break
    \/ \E p \in Pages : PageMoves(p)
    \/ \E down \in SUBSET Pages : PageRun(down)

AvailabilitySpec == AvailabilityInit /\ [][AvailabilityNext]_availabilityVars

-----------------------------------------------------------------------------
\* _CRON_HORIZON_DAYS: "A year covers every field shape the schedule can take".
\* The lead that a run computes on the day that fires, or on the day after,
\* reaches over the longest silence.
YearCovers ==
    \A s \in Schedules : \A f \in s.fires : \A day \in {f, f + 1} \cap Days :
        Leads[s][day] = NoInterval \/ f + LongestGap[s] <= day + Leads[s][day]

\* A reading that was in the tree for longer than the schedule is ever silent
\* has been named by a run before it lapses, even when runs start a day late:
\* "the notice has to reach one interval ahead" (harness/availability.py).
LapseAnnounced ==
    IsReading(record) /\ today > record.due /\ record.due - written > LongestGap[schedule]
        => announced
=============================================================================
