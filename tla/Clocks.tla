-------------------------------- MODULE Clocks --------------------------------
(***************************************************************************)
(* clocks.py: the review clocks of one application.  add_business_days     *)
(* walks from day to day over the closures that the agency supplied; where *)
(* it stops is the last day for a completeness notice, and from the day    *)
(* after it the agency's silence counts.                                   *)
(***************************************************************************)
EXTENDS Calendar

CONSTANTS
    CompletenessDays,   \* COMPLETENESS_BUSINESS_DAYS (15)
    DecisionDays,       \* DECISION_CALENDAR_DAYS (60)
    Received,           \* days on which an application may arrive
    Closures            \* the calendars of agencies: sets of closed days

ASSUME ClocksAssumption ==
    /\ CompletenessDays \in Nat /\ DecisionDays \in Nat
    /\ Received \subseteq Nat
    /\ \A closed \in Closures : closed \subseteq Nat

VARIABLES
    filing,     \* the arguments of adu_clocks; given: agency_closures is not None
    current,    \* add_business_days: the day that the loop has reached
    remaining,  \* and the business days that it has yet to pass
    status      \* the ClockStatus, or NotReturned

clockVars == <<today, filing, current, remaining, status>>

NotReturned == << >>

Filings ==
    {f \in [received : Received, given : BOOLEAN, closures : Closures \cup {{}},
            complete : BOOLEAN, dwelling : BOOLEAN] : f.given \/ f.closures = {}}

Statuses == [notice : Nat \cup {NoDate}, deemed : Nat \cup {NoDate},
             decision : Nat \cup {NoDate}]

ClocksTypeOK ==
    /\ filing \in Filings
    /\ current \in Nat /\ remaining \in 0 .. CompletenessDays
    /\ status \in {NotReturned} \cup Statuses

OpenDay(n) == Weekday(n) < 5 /\ n \notin filing.closures

ClocksInit ==
    /\ today = FirstDay
    /\ filing \in Filings
    /\ current = filing.received
    /\ remaining = CompletenessDays
    /\ status = NotReturned

\* Mutant: the day is looked at before the step to the next one.
PassDayEarly ==
    /\ filing.given /\ remaining > 0
    /\ current' = current + 1
    /\ remaining' = IF OpenDay(current) THEN remaining - 1 ELSE remaining
    /\ UNCHANGED <<today, filing, status>>

\* One turn of the loop of add_business_days.
PassDay ==
    /\ filing.given /\ remaining > 0
    /\ current' = current + 1
    /\ remaining' = IF OpenDay(current + 1) THEN remaining - 1 ELSE remaining
    /\ UNCHANGED <<today, filing, status>>

\* adu_clocks: no date without the agency's own calendar (completeness_deadline),
\* and no decision date without a complete application and a dwelling.
Return ==
    /\ status = NotReturned
    /\ filing.given => remaining = 0
    /\ status' = [notice   |-> IF filing.given THEN current ELSE NoDate,
                  deemed   |-> IF filing.given THEN current + 1 ELSE NoDate,
                  decision |-> IF filing.complete /\ filing.dwelling
                               THEN filing.received + DecisionDays ELSE NoDate]
    /\ UNCHANGED <<today, filing, current, remaining>>

ClocksNext == PassDay \/ Return

ClocksSpec == ClocksInit /\ [][ClocksNext]_clockVars

-----------------------------------------------------------------------------
\* The days after the receipt, up to n, on which the agency is open.
OpenUntil(n) == {k \in filing.received + 1 .. n : OpenDay(k)}

\* The agency has all of its business days: exactly CompletenessDays open days
\* lie after the receipt and before the day from which silence counts, and the
\* last day for a notice is one of them ("uses a 15-business-day
\* completeness-notice period", clocks.py).  Without a calendar nothing is
\* deemed.
AgencyHasItsDays ==
    status # NotReturned =>
        IF filing.given
        THEN /\ Cardinality(OpenUntil(status.deemed - 1)) = CompletenessDays
             /\ CompletenessDays > 0 => status.notice \in OpenUntil(status.deemed - 1)
        ELSE status.deemed = NoDate
=============================================================================
