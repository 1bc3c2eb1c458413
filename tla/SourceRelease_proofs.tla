------------------------- MODULE SourceRelease_proofs -------------------------
(***************************************************************************)
(* What the receipt validators guarantee for every set of sources, texts   *)
(* and rules and for every history of edits, commits and revisions.        *)
(***************************************************************************)
EXTENDS SourceRelease, PackageWriter, Integers, TLAPS

\* Calendar days do not run backwards.
LEMMA DaysAreMonotone ==
    ASSUME NEW a \in Nat, NEW b \in Nat, a <= b
    PROVE  /\ DayOf(a) \in Nat /\ DayOf(b) \in Nat
           /\ DayOf(a) <= DayOf(b)
<1> DEFINE q == a \div DayLength
           p == b \div DayLength
<1>1. DayLength \in Nat /\ DayLength > 0
  BY ReleaseAssumption
<1>2. /\ q \in Int /\ p \in Int
      /\ q * DayLength <= a /\ a < (q + 1) * DayLength
      /\ p * DayLength <= b /\ b < (p + 1) * DayLength
  BY <1>1, SMT
<1>3. q >= 0 /\ p >= 0
  BY <1>1, <1>2, SMT
<1>4. q <= p
  BY <1>1, <1>2, SMT
<1> QED
  BY <1>2, <1>3, <1>4 DEF DayOf

-----------------------------------------------------------------------------
(* Types.                                                                  *)

World == now \in Times /\ served \in Registries

Repository == log \in Seq(Registries) /\ Len(log) \in 1 .. MaxCommits

Files ==
    /\ snaps \in Seq(Snapshots(Times, DOMAIN log))
    /\ Len(snaps) <= MaxSnaps
    /\ snaps # << >>
    /\ \A i \in DOMAIN snaps : snaps[i].recorded = log[snaps[i].commit]

Ledger ==
    /\ DOMAIN ledger = {"worklist", "entries"}
    /\ DOMAIN ledger.entries \subseteq AllItems
    /\ \A i \in DOMAIN ledger.entries : ledger.entries[i] \in Entries(DayOf(now))

\* What the loaders check of a receipt alone: its dates are dates and its
\* resolutions are among the three.
ApprovalRead ==
    approval = NotRun \/
        /\ approval.status = "complete"
        /\ approval.decided \in Times
        /\ \A s \in DOMAIN approval.resolutions :
              approval.resolutions[s].resolution \in Resolutions

PublicationRead ==
    publication = NotRun \/
        /\ publication.status = "complete"
        /\ publication.started \in Times
        /\ publication.completed \in Times

RollbackRead ==
    rollback = NotRun \/
        /\ rollback.status = "complete"
        /\ rollback.triggered \in Times
        /\ rollback.completed \in Times

\* The inductive invariant: TypeOK, and the three receipts as they were read.
IInv == World /\ Repository /\ Files /\ Ledger /\ ApprovalRead /\ PublicationRead /\ RollbackRead

LEMMA IInvTypes == IInv => TypeOK
BY DEF IInv, World, Repository, Files, Ledger, ApprovalRead, PublicationRead, RollbackRead,
       TypeOK, NotRun

LEMMA ItemsAreItems ==
    ASSUME NEW snap
    PROVE  Items(snap) \subseteq AllItems
BY DEF Items, AllItems, ChangedIn, AffectedRules, AffectedCases

LEMMA LaterDaysTakeMore ==
    ASSUME NEW a \in Nat, NEW b \in Nat, a <= b
    PROVE  Entries(DayOf(a)) \subseteq Entries(DayOf(b))
<1>1. DayOf(a) \in Nat /\ DayOf(b) \in Nat /\ DayOf(a) <= DayOf(b)
  BY DaysAreMonotone
<1>2. 0 .. DayOf(a) \subseteq 0 .. DayOf(b)
  BY <1>1
<1> QED
  BY <1>2 DEF Entries

LEMMA InitTyped == Init => IInv
<1> SUFFICES ASSUME Init PROVE IInv
  OBVIOUS
<1>1. World /\ Repository
  <2>1. PICK registry \in Registries : log = <<registry>>
    BY DEF Init
  <2>2. log \in Seq(Registries) /\ Len(log) = 1
    BY <2>1
  <2>3. now \in Times /\ served \in Registries
    BY ReleaseAssumption DEF Init, Times
  <2> QED
    BY <2>2, <2>3, ReleaseAssumption DEF World, Repository
<1>2. Files
  <2>1. PICK snap \in [checked : {0}, commit : {1}, reviewed : BOOLEAN, recorded : {log[1]},
                       observed : {o \in [Sources -> Observed] :
                                      \A s \in Sources : o[s] \in {NoDigest, served[s]}}] :
            snaps = <<snap>>
    BY DEF Init
  <2>2. DOMAIN log = {1} /\ log[1] \in Registries
    BY DEF Init
  <2>4. Len(snaps) = 1 /\ DOMAIN snaps = {1} /\ snaps[1] = snap
    BY <2>1
  <2>3. snap \in Snapshots(Times, DOMAIN log)
    BY <2>2, ReleaseAssumption DEF Snapshots, Times
  <2>5. snaps \in Seq(Snapshots(Times, DOMAIN log))
    BY <2>1, <2>3
  <2>6. snap.recorded = log[snap.commit]
    OBVIOUS
  <2> QED
    BY <2>1, <2>4, <2>5, <2>6, ReleaseAssumption DEF Files
<1>3. Ledger
  <2>1. ledger = [worklist |-> Context, entries |-> [i \in Items(Context) |-> Open]]
    BY DEF Init, Template
  <2>2. DOMAIN ledger = {"worklist", "entries"}
    BY <2>1
  <2>3. ledger.entries = [i \in Items(Context) |-> Open]
    BY <2>1
  <2>4. Open \in Entries(DayOf(now))
    BY DEF Entries
  <2> QED
    BY <2>2, <2>3, <2>4, ItemsAreItems DEF Ledger
<1>4. ApprovalRead /\ PublicationRead /\ RollbackRead
  BY DEF Init, ApprovalRead, PublicationRead, RollbackRead
<1> QED
  BY <1>1, <1>2, <1>3, <1>4 DEF IInv

LEMMA StepTyped == IInv /\ [Next]_vars => IInv'
<1> SUFFICES ASSUME IInv, [Next]_vars PROVE IInv'
  OBVIOUS
<1> USE DEF IInv
<1>0. ASSUME UNCHANGED <<now, served, log, snaps, ledger>> PROVE (World /\ Repository /\ Files /\ Ledger)'
  BY <1>0 DEF World, Repository, Files, Ledger
<1>r. ASSUME UNCHANGED <<approval, publication, rollback>>
      PROVE  (ApprovalRead /\ PublicationRead /\ RollbackRead)'
  BY <1>r DEF ApprovalRead, PublicationRead, RollbackRead
<1>1. CASE Tick
  <2>1. now \in Nat /\ now' \in Nat /\ now <= now' /\ now' \in Times
    BY <1>1, ReleaseAssumption DEF Tick, World, Times
  <2>2. Entries(DayOf(now)) \subseteq Entries(DayOf(now'))
    BY <2>1, LaterDaysTakeMore
  <2>3. Ledger'
    BY <1>1, <2>2 DEF Tick, Ledger
  <2>4. (World /\ Repository /\ Files)'
    BY <1>1, <2>1 DEF Tick, World, Repository, Files
  <2> QED
    BY <1>1, <1>r, <2>3, <2>4 DEF Tick
<1>2. ASSUME NEW s \in Sources, NEW d \in Digests, Serve(s, d) PROVE IInv'
  <2>1. served' \in Registries
    BY <1>2 DEF Serve, World, Registries
  <2>2. (World /\ Repository /\ Files /\ Ledger)'
    BY <1>2, <2>1 DEF Serve, World, Repository, Files, Ledger
  <2> QED
    BY <1>2, <1>r, <2>2 DEF Serve
<1>3. ASSUME NEW registry \in Registries, Commit(registry) PROVE IInv'
  <2>1. log' = Append(log, registry) /\ log \in Seq(Registries) /\ Len(log) < MaxCommits
    BY <1>3 DEF Commit, Repository
  <2>2. /\ log' \in Seq(Registries) /\ Len(log') = Len(log) + 1
        /\ DOMAIN log \subseteq DOMAIN log'
        /\ \A c \in DOMAIN log : log'[c] = log[c]
    BY <2>1
  <2>3. Repository'
    BY <2>1, <2>2, ReleaseAssumption DEF Repository
  <2>4. \A i \in DOMAIN snaps : snaps[i] \in Snapshots(Times, DOMAIN log)
    BY DEF Files
  <2>5. \A i \in DOMAIN snaps : /\ snaps[i] \in Snapshots(Times, DOMAIN log')
                                /\ snaps[i].recorded = log'[snaps[i].commit]
    BY <2>2, <2>4 DEF Files, Snapshots
  <2>6. Files'
    <3>1. snaps' = snaps
      BY <1>3 DEF Commit
    <3>2. snaps \in Seq(Snapshots(Times, DOMAIN log'))
      BY <2>5 DEF Files
    <3> QED
      BY <2>5, <3>1, <3>2 DEF Files
  <2>7. (World /\ Ledger)'
    BY <1>3 DEF Commit, World, Ledger
  <2> QED
    BY <1>3, <1>r, <2>3, <2>6, <2>7 DEF Commit
<1>4. ASSUME NEW c \in DOMAIN log, NEW unread \in SUBSET Sources, Watch(c, unread) PROVE IInv'
  <2> DEFINE new == [checked |-> now, commit |-> c, reviewed |-> FALSE, recorded |-> log[c],
                     observed |-> [s \in Sources |-> IF s \in unread THEN NoDigest ELSE served[s]]]
  <2>1. snaps' = Append(snaps, new) /\ Len(snaps) < MaxSnaps
    BY <1>4 DEF Watch
  <2>2. log[c] \in Registries
    BY <1>4 DEF Repository
  <2>3. new.observed \in [Sources -> Observed]
    BY DEF World, Registries, Observed
  <2>4. new \in Snapshots(Times, DOMAIN log)
    BY <1>4, <2>2, <2>3 DEF Snapshots, World
  <2>5. new.recorded = log[new.commit]
    OBVIOUS
  <2> HIDE DEF new
  <2>6. Files'
    <3>1. snaps \in Seq(Snapshots(Times, DOMAIN log)) /\ log' = log
      BY <1>4 DEF Files, Watch
    <3>2. /\ snaps' \in Seq(Snapshots(Times, DOMAIN log)) /\ Len(snaps') = Len(snaps) + 1
          /\ \A i \in DOMAIN snaps' : snaps'[i] = new \/ (i \in DOMAIN snaps /\ snaps'[i] = snaps[i])
      BY <2>1, <2>4, <3>1
    <3>3. snaps' # << >>
      BY <3>2, <3>1
    <3>4. \A i \in DOMAIN snaps' : snaps'[i].recorded = log[snaps'[i].commit]
      BY <2>5, <3>2 DEF Files
    <3>5. Len(snaps') <= MaxSnaps
      BY <2>1, <3>1, <3>2, ReleaseAssumption
    <3> QED
      BY <3>1, <3>2, <3>3, <3>4, <3>5 DEF Files
  <2>7. (World /\ Repository /\ Ledger)'
    BY <1>4 DEF Watch, World, Repository, Ledger
  <2> QED
    BY <1>4, <1>r, <2>6, <2>7 DEF Watch
<1>5. ASSUME NEW i \in DOMAIN snaps, Review(i) PROVE IInv'
  <2>1. snaps' = [snaps EXCEPT ![i].reviewed = TRUE]
    BY <1>5 DEF Review
  <2>2. snaps[i] \in Snapshots(Times, DOMAIN log)
    BY <1>5 DEF Files
  <2>3. /\ [snaps[i] EXCEPT !.reviewed = TRUE] \in Snapshots(Times, DOMAIN log)
        /\ [snaps[i] EXCEPT !.reviewed = TRUE].recorded = snaps[i].recorded
        /\ [snaps[i] EXCEPT !.reviewed = TRUE].commit = snaps[i].commit
    BY <2>2 DEF Snapshots
  <2>4. /\ snaps' \in Seq(Snapshots(Times, DOMAIN log)) /\ Len(snaps') = Len(snaps)
        /\ DOMAIN snaps' = DOMAIN snaps
        /\ \A j \in DOMAIN snaps : snaps'[j] = IF j = i THEN [snaps[i] EXCEPT !.reviewed = TRUE] ELSE snaps[j]
    BY <1>5, <2>1, <2>3 DEF Files
  <2>5. Files'
    <3>1. log' = log
      BY <1>5 DEF Review
    <3>2. \A j \in DOMAIN snaps' : snaps'[j].recorded = log[snaps'[j].commit]
      BY <2>3, <2>4 DEF Files
    <3>3. snaps' # << >>
      BY <1>5, <2>4
    <3> QED
      BY <2>4, <3>1, <3>2, <3>3 DEF Files
  <2>6. (World /\ Repository /\ Ledger)'
    BY <1>5 DEF Review, World, Repository, Ledger
  <2> QED
    BY <1>5, <1>r, <2>5, <2>6 DEF Review
<1>6. ASSUME NEW item \in DOMAIN ledger.entries, NEW entry \in Entries(DayOf(now)), Decide(item, entry)
      PROVE  IInv'
  <2>1. ledger' = [ledger EXCEPT !.entries[item] = entry] /\ now' = now
    BY <1>6 DEF Decide
  <2>2. DOMAIN ledger' = {"worklist", "entries"}
    BY <2>1 DEF Ledger
  <2>3. ledger'.entries = [ledger.entries EXCEPT ![item] = entry]
    BY <2>1 DEF Ledger
  <2>4. Ledger'
    BY <1>6, <2>1, <2>2, <2>3 DEF Ledger
  <2>5. (World /\ Repository /\ Files)'
    BY <1>6 DEF Decide, World, Repository, Files
  <2> QED
    BY <1>6, <1>r, <2>4, <2>5 DEF Decide
<1>7. CASE Approve
  <2>1. PICK a \in ApprovalClaims : approval' = a
    BY <1>7 DEF Approve
  <2>2. /\ a.status = "complete" /\ a.decided \in Times
        /\ a.resolutions \in [ChangedIn(Context) -> [resolution : Resolutions, target : Observed]]
    BY DEF ApprovalClaims
  <2>3. \A s \in DOMAIN a.resolutions : a.resolutions[s].resolution \in Resolutions
    BY <2>2
  <2>4. ApprovalRead'
    BY <2>1, <2>2, <2>3 DEF ApprovalRead
  <2>5. (PublicationRead /\ RollbackRead)'
    BY <1>7 DEF Approve, PublicationRead, RollbackRead
  <2> QED
    BY <1>7, <1>0, <2>4, <2>5 DEF Approve
<1>8. CASE Publish
  <2>1. PICK p \in PublicationClaims : publication' = p
    BY <1>8 DEF Publish
  <2>2. p.status = "complete" /\ p.started \in Times /\ p.completed \in Times
    BY DEF PublicationClaims
  <2>3. PublicationRead'
    BY <2>1, <2>2 DEF PublicationRead
  <2>4. (ApprovalRead /\ RollbackRead)'
    BY <1>8 DEF Publish, ApprovalRead, RollbackRead
  <2> QED
    BY <1>8, <1>0, <2>3, <2>4 DEF Publish
<1>9. CASE RollBack
  <2>1. PICK r \in RollbackClaims : rollback' = r
    BY <1>9 DEF RollBack
  <2>2. r.status = "complete" /\ r.triggered \in Times /\ r.completed \in Times
    BY DEF RollbackClaims
  <2>3. RollbackRead'
    BY <2>1, <2>2 DEF RollbackRead
  <2>4. (ApprovalRead /\ PublicationRead)'
    BY <1>9 DEF RollBack, ApprovalRead, PublicationRead
  <2> QED
    BY <1>9, <1>0, <2>3, <2>4 DEF RollBack
<1>10. CASE UNCHANGED vars
  BY <1>10, <1>0, <1>r DEF vars
<1> QED
  BY <1>1, <1>2, <1>3, <1>4, <1>5, <1>6, <1>7, <1>8, <1>9, <1>10 DEF Next

\* The inductive invariant holds.
THEOREM Typed == Spec => []IInv
BY InitTyped, StepTyped, PTL DEF Spec

\* TypeOK: the files keep their kinds, and every snapshot records the registry
\* of its own commit, whatever lands after it.
THEOREM TypeCorrect == Spec => []TypeOK
BY Typed, IInvTypes, PTL

-----------------------------------------------------------------------------
(* What a validated chain means.                                           *)

LEMMA TargetsOfResolutions ==
    ASSUME IInv, ValidApproval(approval), NEW s \in ChangedIn(Context)
    PROVE  /\ approval.resolutions[s].resolution \in Resolutions
           /\ approval.resolutions[s].resolution = "retain_hold" =>
                 approval.resolutions[s].target = NoDigest
           /\ approval.resolutions[s].target \in
                 {Context.recorded[s], Context.observed[s], NoDigest}
<1>1. approval # NotRun
  BY DEF ValidApproval, NotRun
<1>2. s \in DOMAIN approval.resolutions
  BY DEF ValidApproval, ResolutionsFit
<1>3. approval.resolutions[s].resolution \in Resolutions
  BY <1>1, <1>2 DEF IInv, ApprovalRead
<1>4. approval.resolutions[s].target = TargetOf(Context, s, approval.resolutions[s].resolution)
  BY DEF ValidApproval, ResolutionsFit
<1>5. /\ TargetOf(Context, s, "retain_hold") = NoDigest
      /\ TargetOf(Context, s, "adopt_observed") = Context.observed[s]
      /\ TargetOf(Context, s, "restore_recorded") = Context.recorded[s]
  BY DEF TargetOf
<1> QED
  BY <1>3, <1>4, <1>5 DEF Resolutions

LEMMA Statuses ==
    ASSUME NEW state, NEW s \in ChangedIn(Context), Readable(state)
    PROVE  Status(state, s) \in {"changed", "unchanged"}
<1>1. s \in Sources
  BY DEF ChangedIn
<1> QED
  BY <1>1 DEF Readable, Status

LEMMA RetainedIsHeld == IInv => RetainedStaysHeld
<1> SUFFICES ASSUME IInv, ValidPublication(publication), NEW s \in ChangedIn(Context),
                    approval.resolutions[s].resolution = "retain_hold"
             PROVE  /\ s \in ChangedIn(publication.state)
                    /\ publication.state.observed[s] # log[publication.published][s]
                    /\ ~ReportsClear(publication)
  BY DEF RetainedStaysHeld
<1>1. ValidApproval(approval) /\ Readable(publication.state)
      /\ ShowsApproved(approval.resolutions, publication.state)
  BY DEF ValidPublication
<1>2. approval.resolutions[s].target = NoDigest
  BY <1>1, TargetsOfResolutions
<1>3. Status(publication.state, s) = "changed"
  BY <1>1, <1>2, Statuses DEF ShowsApproved
<1>4. s \in Sources /\ s \in ChangedIn(publication.state)
  BY <1>3 DEF ChangedIn
<1>5. publication.state.observed[s] # publication.state.recorded[s]
  BY <1>3 DEF Status
<1>6. publication.state.recorded = log[publication.published]
  BY DEF ValidPublication, TransitionSnapshot
<1>7. publication.hold = "retained_in_source_state"
  BY <1>3 DEF ValidPublication, HoldOf
<1> QED
  BY <1>4, <1>5, <1>6, <1>7 DEF ReportsClear

\* A hold that the approver retained is still a hold in the published state,
\* for any number of sources and whatever else was adopted with it.
THEOREM RetainedHoldPersists == Spec => []RetainedStaysHeld
BY Typed, RetainedIsHeld, PTL

LEMMA ClearIsApproved == IInv => ClearedOnApprovedText
<1> SUFFICES ASSUME IInv, ReportsClear(publication), NEW s \in ChangedIn(Context)
             PROVE  /\ approval.outcome = "approved_for_publication"
                    /\ log[publication.published][s] = approval.resolutions[s].target
                    /\ log[publication.published][s] \in {Context.recorded[s], Context.observed[s]}
                    /\ \E i \in DOMAIN snaps :
                          /\ snaps[i].observed[s] = log[publication.published][s]
                          /\ snaps[i].checked \in Context.checked .. publication.completed
  BY DEF ClearedOnApprovedText
<1> DEFINE state == publication.state
<1>1. /\ ValidApproval(approval) /\ Readable(state) /\ HoldOf(state) = "clear_in_source_state"
      /\ ShowsApproved(approval.resolutions, state) /\ TransitionSnapshot(state)
      /\ state.commit = publication.published
      /\ Context.checked <= state.checked /\ state.checked <= publication.completed
      /\ approval.outcome = "approved_for_publication"
  BY DEF ReportsClear, ValidPublication
<1>2. Status(state, s) = "unchanged"
  BY <1>1, Statuses DEF HoldOf
<1>3. /\ approval.resolutions[s].target # NoDigest
      /\ state.recorded[s] = approval.resolutions[s].target
      /\ state.observed[s] = approval.resolutions[s].target
  BY <1>1, <1>2 DEF ShowsApproved
<1>4. state.recorded = log[publication.published]
  BY <1>1 DEF TransitionSnapshot
<1>5. approval.resolutions[s].target \in {Context.recorded[s], Context.observed[s]}
  BY <1>1, <1>3, TargetsOfResolutions
<1>6. PICK i \in DOMAIN snaps : snaps[i] = state
  BY <1>1 DEF TransitionSnapshot
<1>7. /\ snaps[i] \in Snapshots(Times, DOMAIN log) /\ snaps[1] \in Snapshots(Times, DOMAIN log)
      /\ publication.completed \in Times
  <2>1. 1 \in DOMAIN snaps
    BY DEF IInv, Files
  <2>2. publication # NotRun
    BY DEF ReportsClear, ValidPublication, NotRun
  <2> QED
    BY <1>6, <2>1, <2>2 DEF IInv, Files, PublicationRead
<1>8. state.checked \in Nat /\ Context.checked \in Nat /\ publication.completed \in Nat
  BY <1>6, <1>7, ReleaseAssumption DEF Snapshots, Times, Context
<1>9. state.checked \in Context.checked .. publication.completed
  BY <1>1, <1>8
<1> QED
  BY <1>1, <1>3, <1>4, <1>5, <1>6, <1>9

\* A release is reported clear only when each changed text was approved, is in
\* the published registry and was seen being served after the change.
THEOREM ClearsOnApprovedText == Spec => []ClearedOnApprovedText
BY Typed, ClearIsApproved, PTL

LEMMA RestoresBaseline == IInv => RollbackRestores
<1> SUFFICES ASSUME IInv, ValidRollback(rollback), NEW s \in ChangedIn(Context)
             PROVE  \E i \in DOMAIN snaps :
                       /\ snaps[i].commit = publication.baseline
                       /\ snaps[i].observed[s] = log[publication.baseline][s]
                       /\ snaps[i].checked \in rollback.triggered .. rollback.completed
  BY DEF RollbackRestores
<1> DEFINE state == rollback.state
<1>1. /\ TransitionSnapshot(state) /\ state.commit = publication.baseline
      /\ Readable(state) /\ ShowsBaseline(state) /\ HoldOf(state) = "clear_in_source_state"
      /\ rollback.triggered <= state.checked /\ state.checked <= rollback.completed
      /\ publication.baseline = Context.commit
  BY DEF ValidRollback, ValidPublication
<1>2. Status(state, s) = "unchanged"
  BY <1>1, Statuses DEF HoldOf
<1>3. state.observed[s] = Context.recorded[s]
  BY <1>1, <1>2 DEF ShowsBaseline
<1>4. Context.recorded = log[publication.baseline]
  BY <1>1 DEF ValidRollback, ValidPublication, ValidApproval, ContextValid
<1>5. PICK i \in DOMAIN snaps : snaps[i] = state
  BY <1>1 DEF TransitionSnapshot
<1>6. snaps[i] \in Snapshots(Times, DOMAIN log) /\ rollback.triggered \in Times /\ rollback.completed \in Times
  <2>1. rollback # NotRun
    BY DEF ValidRollback, NotRun
  <2> QED
    BY <1>5, <2>1 DEF IInv, Files, RollbackRead
<1>7. state.checked \in rollback.triggered .. rollback.completed
  BY <1>1, <1>5, <1>6, ReleaseAssumption DEF Snapshots, Times
<1> QED
  BY <1>1, <1>3, <1>4, <1>5, <1>7

\* A rollback validates only if the baseline text of every changed source was
\* read again, against the baseline commit, after the rollback was triggered.
THEOREM RollbackReadsBaseline == Spec => []RollbackRestores
BY Typed, RestoresBaseline, PTL

\* A snapshot of the release was taken at some moment.
LEMMA StatesAreDated ==
    ASSUME IInv, NEW state, TransitionSnapshot(state)
    PROVE  state.checked \in Nat
<1>1. PICK i \in DOMAIN snaps : snaps[i] = state
  BY DEF TransitionSnapshot
<1>2. snaps[i] \in Snapshots(Times, DOMAIN log)
  BY <1>1 DEF IInv, Files
<1> QED
  BY <1>1, <1>2, ReleaseAssumption DEF Snapshots, Times

LEMMA InOrder == IInv => EvidenceInOrder
<1> SUFFICES ASSUME IInv, ValidRollback(rollback)
             PROVE  /\ Context.checked <= approval.decided
                    /\ \A i \in DOMAIN ledger.entries :
                          ledger.entries[i].decided <= DayOf(approval.decided)
                    /\ approval.decided <= publication.started
                    /\ publication.state.checked <= rollback.state.checked
                    /\ rollback.state.checked <= now
  BY DEF EvidenceInOrder
<1>1. ValidPublication(publication) /\ ValidApproval(approval)
  BY DEF ValidRollback, ValidPublication
<1>2. Context.checked <= approval.decided /\ ResolvedInTime(approval.decided)
  BY <1>1 DEF ValidApproval
<1>3. /\ approval.decided <= publication.started
      /\ TransitionSnapshot(publication.state)
      /\ publication.state.checked <= publication.completed
  BY <1>1 DEF ValidPublication
<1>4. /\ TransitionSnapshot(rollback.state)
      /\ publication.completed <= rollback.triggered
      /\ rollback.triggered <= rollback.state.checked
      /\ rollback.state.checked <= rollback.completed
      /\ rollback.completed <= now
  BY DEF ValidRollback
<1>5. publication # NotRun /\ rollback # NotRun
  BY <1>1 DEF ValidPublication, ValidRollback, NotRun
<1>6. /\ publication.completed \in Nat /\ rollback.triggered \in Nat
      /\ rollback.completed \in Nat /\ now \in Nat
  BY <1>5, ReleaseAssumption DEF IInv, PublicationRead, RollbackRead, World, Times
<1>7. publication.state.checked \in Nat /\ rollback.state.checked \in Nat
  BY <1>3, <1>4, StatesAreDated
<1>8. /\ publication.state.checked <= rollback.state.checked
      /\ rollback.state.checked <= now
  BY <1>3, <1>4, <1>6, <1>7
<1> QED
  BY <1>2, <1>3, <1>8 DEF ResolvedInTime

\* A chain that validates runs forward in time, from the change that was
\* noticed to the rollback that was seen to work, whatever was edited since.
THEOREM ChainRunsForward == Spec => []EvidenceInOrder
BY Typed, InOrder, PTL

LEMMA EditVoids == [Next]_vars =>
    (ValidApproval(approval) /\ ledger' # ledger =>
        ~ValidApproval(approval)' /\ ~ValidPublication(publication)')
<1> SUFFICES ASSUME [Next]_vars, ValidApproval(approval), ledger' # ledger
             PROVE  ~ValidApproval(approval)' /\ ~ValidPublication(publication)'
  OBVIOUS
<1>1. approval' = approval
  BY DEF Next, vars, Tick, Serve, Commit, Watch, Review, Decide, Approve, Publish, RollBack
<1>2. approval.binding.ledger = ledger
  BY DEF ValidApproval, Binding
<1>3. ~ValidApproval(approval)'
  BY <1>1, <1>2 DEF ValidApproval, Binding
<1> QED
  BY <1>3 DEF ValidPublication

\* No edit of the ledger survives an approval.
THEOREM LedgerEditsVoid == Spec => LedgerEditVoids
BY EditVoids, PTL DEF Spec, LedgerEditVoids

-----------------------------------------------------------------------------
(* The package writer.                                                     *)

\* The receipts are all parts but the last, which is the marker.
LEMMA PartsInOrder ==
    /\ Len(Receipts) \in Nat /\ Len(Parts) = Len(Receipts) + 1
    /\ \A i \in 1 .. Len(Receipts) : Parts[i] = Receipts[i] /\ Parts[i] # Marker
    /\ Parts[Len(Parts)] = Marker
    /\ Range(Parts) = {Parts[i] : i \in 1 .. Len(Parts)}
    /\ Range(Receipts) = {Parts[i] : i \in 1 .. Len(Receipts)}
<1> DEFINE Names == STRING \cup {Marker}
<1>1. Receipts \in Seq(Names) /\ Marker \in Names
  BY PackageWriterAssumption
<1> HIDE DEF Names
<1>2. /\ Len(Receipts) \in Nat /\ Len(Parts) = Len(Receipts) + 1
      /\ DOMAIN Parts = 1 .. Len(Parts) /\ DOMAIN Receipts = 1 .. Len(Receipts)
      /\ \A i \in 1 .. Len(Receipts) : Parts[i] = Receipts[i]
      /\ Parts[Len(Parts)] = Marker
  BY <1>1 DEF Parts
<1>3. \A i \in 1 .. Len(Receipts) : Receipts[i] # Marker
  BY <1>2, PackageWriterAssumption DEF Range
<1>4. Range(Parts) = {Parts[i] : i \in 1 .. Len(Parts)}
  BY <1>2 DEF Range
<1>5. Range(Receipts) = {Parts[i] : i \in 1 .. Len(Receipts)}
  BY <1>2 DEF Range
<1>6. QED
  BY <1>2, <1>3, <1>4, <1>5

LEMMA MarkerIsPart == Marker \in Range(Parts) /\ Range(Receipts) \subseteq Range(Parts)
BY PartsInOrder

\* A directory with one more name, with a name less, and with a name's bytes.
LEMMA OneMoreName ==
    ASSUME NEW files \in Directories, NEW name \in Range(Parts), NEW w \in Writers
    PROVE  [n \in DOMAIN files \cup {name} |->
               IF n = name THEN File(w, FALSE) ELSE files[n]] \in Directories
<1>1. PICK names \in SUBSET Range(Parts) : files \in [names -> [by : Writers, whole : BOOLEAN]]
  BY DEF Directories
<1>2. [n \in DOMAIN files \cup {name} |-> IF n = name THEN File(w, FALSE) ELSE files[n]]
        \in [names \cup {name} -> [by : Writers, whole : BOOLEAN]]
  BY <1>1 DEF File
<1>3. names \cup {name} \in SUBSET Range(Parts)
  BY <1>1
<1>4. QED
  BY <1>2, <1>3 DEF Directories

LEMMA OneNameLess ==
    ASSUME NEW files \in Directories, NEW name
    PROVE  [n \in DOMAIN files \ {name} |-> files[n]] \in Directories
<1>1. PICK names \in SUBSET Range(Parts) : files \in [names -> [by : Writers, whole : BOOLEAN]]
  BY DEF Directories
<1>2. [n \in DOMAIN files \ {name} |-> files[n]]
        \in [names \ {name} -> [by : Writers, whole : BOOLEAN]]
  BY <1>1
<1>3. names \ {name} \in SUBSET Range(Parts)
  BY <1>1
<1>4. QED
  BY <1>2, <1>3 DEF Directories

LEMMA SameNames ==
    ASSUME NEW files \in Directories, NEW name \in DOMAIN files, NEW w \in Writers
    PROVE  /\ [files EXCEPT ![name] = File(w, TRUE)] \in Directories
           /\ DOMAIN [files EXCEPT ![name] = File(w, TRUE)] = DOMAIN files
           /\ \A n \in DOMAIN files : [files EXCEPT ![name] = File(w, TRUE)][n] =
                 IF n = name THEN File(w, TRUE) ELSE files[n]
<1>1. PICK names \in SUBSET Range(Parts) : files \in [names -> [by : Writers, whole : BOOLEAN]]
  BY DEF Directories
<1>2. [files EXCEPT ![name] = File(w, TRUE)] \in [names -> [by : Writers, whole : BOOLEAN]]
  BY <1>1 DEF File
<1>3. QED
  BY <1>1, <1>2 DEF Directories

LEMMA EmptyDirectory == << >> \in Directories /\ DOMAIN << >> = {}
<1>1. << >> \in [{} -> [by : Writers, whole : BOOLEAN]]
  OBVIOUS
<1>2. {} \in SUBSET Range(Parts)
  OBVIOUS
<1>3. QED
  BY <1>1, <1>2 DEF Directories

-----------------------------------------------------------------------------
(* The invariant.                                                          *)

\* mkdir lets one process in, and the directory stays for as long as it is there.
Alone == \A w \in Writers : Busy(w) => There /\ \A v \in Writers : Busy(v) => v = w

\* What the process in it has done.
Written(w) ==
    /\ At(w) = "idle" => writer[w].part = 1
    /\ At(w) \in {"create", "write"} =>
          \A i \in 1 .. writer[w].part - 1 :
             Has(directory, Parts[i]) /\ directory[Parts[i]] = File(w, TRUE)
    /\ At(w) = "write" =>
          LET name == Parts[writer[w].part]
          IN  Has(directory, name) /\ directory[name] = File(w, FALSE)
    /\ At(w) \in {"sync", "sync parent"} => WholeBy(w)
    /\ At(w) = "sync parent" => since \subseteq {directory, NoDirectory}
    /\ At(w) = "cleanup" => undone \/ ~Has(directory, Marker)

\* In every state that a power cut may leave, a marker is the last that came.
Sealed(files) ==
    Has(files, Marker) =>
        \A name \in Range(Receipts) :
            Has(files, name) /\ files[name] = File(files[Marker].by, TRUE)

MarkerIsLast == ~undone => \A files \in since : Sealed(files)

\* What was reported is all that there is.
Settled ==
    reported # {} =>
        /\ since = {directory}
        /\ \A w \in Writers : ~Busy(w)
        /\ \A w \in reported : WholeBy(w)

PackageInv ==
    /\ PackageTypeOK
    /\ Alone
    /\ \A w \in Writers : Written(w)
    /\ MarkerIsLast
    /\ Settled

-----------------------------------------------------------------------------
(* Steps.                                                                  *)

\* One process goes to another place.
LEMMA Gone ==
    ASSUME PackageTypeOK, NEW w \in Writers, NEW place \in Places, GoTo(w, place)
    PROVE  /\ writer' \in [Writers -> [at : Places, part : 1 .. Len(Parts)]]
           /\ writer'[w].at = place /\ writer'[w].part = writer[w].part
           /\ \A v \in Writers \ {w} : writer'[v] = writer[v]
BY DEF PackageTypeOK, GoTo

\* A process that is in the directory is the only one, so what it does is
\* all that matters.
LEMMA OneAtWork ==
    ASSUME PackageInv, NEW w \in Writers, Busy(w), PackageTypeOK',
           \A v \in Writers \ {w} : writer'[v] = writer[v],
           Busy(w)' => There', Written(w)', MarkerIsLast', reported' = reported
    PROVE  PackageInv'
<1>1. \A v \in Writers \ {w} : ~Busy(v) /\ ~Busy(v)'
  BY DEF PackageInv, Alone, Busy, At
<1>2. reported = {}
  BY DEF PackageInv, Settled
<1>3. Alone'
  BY <1>1 DEF Alone
<1>4. \A v \in Writers : Written(v)'
  <2> SUFFICES ASSUME NEW v \in Writers, v # w PROVE Written(v)'
    OBVIOUS
  <2>1. At(v)' \in {"idle", "ended"} /\ writer'[v] = writer[v]
    BY <1>1 DEF Busy
  <2>2. At(v)' = "idle" => writer'[v].part = 1
    BY <2>1 DEF PackageInv, Written, At
  <2>3. QED
    BY <2>1, <2>2 DEF Written
<1>5. Settled'
  BY <1>2 DEF Settled
<1>6. QED
  BY <1>3, <1>4, <1>5 DEF PackageInv

LEMMA MakeDirectoryKeeps ==
    ASSUME PackageInv, NEW w \in Writers, MakeDirectory(w)
    PROVE  PackageInv'
<1> USE DEF PackageInv
<1>1. CASE There
  <2>1. GoTo(w, "ended") /\ UNCHANGED <<directory, since, reported, undone, cuts>>
    BY <1>1 DEF MakeDirectory, MayMake
  <2>2. /\ writer' \in [Writers -> [at : Places, part : 1 .. Len(Parts)]]
        /\ At(w)' = "ended" /\ \A v \in Writers \ {w} : writer'[v] = writer[v]
    BY <2>1, Gone DEF Places, At
  <2>3. PackageTypeOK'
    BY <2>1, <2>2 DEF PackageTypeOK
  <2>4. \A v \in Writers : Busy(v)' => Busy(v)
    BY <2>2 DEF Busy, At
  <2>5. Alone'
    BY <2>1, <2>4 DEF Alone, There
  <2>6. \A v \in Writers : Written(v)'
    <3>1. Written(w)'
      BY <2>2 DEF Written
    <3>2. \A v \in Writers \ {w} : Written(v)'
      BY <2>1, <2>2 DEF Written, At, Has, WholeBy
    <3>3. QED
      BY <3>1, <3>2
  <2>7. MarkerIsLast' /\ Settled'
    BY <2>1, <2>4 DEF MarkerIsLast, Settled, WholeBy, Has, Sealed
  <2>8. QED
    BY <2>3, <2>5, <2>6, <2>7
<1>2. CASE ~There
  <2>1. /\ directory' = << >> /\ since' = since \cup {<< >>}
        /\ GoTo(w, "create") /\ UNCHANGED <<reported, undone, cuts>>
    BY <1>2 DEF MakeDirectory, MayMake, Become
  <2>2. /\ writer' \in [Writers -> [at : Places, part : 1 .. Len(Parts)]]
        /\ At(w)' = "create" /\ writer'[w].part = writer[w].part
        /\ \A v \in Writers \ {w} : writer'[v] = writer[v]
    BY <2>1, Gone DEF Places, At
  <2>3. PackageTypeOK'
    BY <2>1, <2>2, EmptyDirectory DEF PackageTypeOK
  <2>4. \A v \in Writers : ~Busy(v)
    BY <1>2 DEF Alone
  <2>5. There'
    BY <2>1, EmptyDirectory, PackageWriterAssumption DEF There
  <2>6. Alone'
    BY <2>2, <2>4, <2>5 DEF Alone, Busy, At
  <2>7. reported = {}
    <3>1. ASSUME NEW v \in reported PROVE FALSE
      <4>1. WholeBy(v)
        BY DEF Settled
      <4>2. Has(directory, Marker)
        BY <4>1, MarkerIsPart DEF WholeBy
      <4>3. QED
        BY <4>2, <1>2 DEF Has, There
    <3>2. QED
      BY <3>1
  <2>8. \A v \in Writers : Written(v)'
    <3>1. Written(w)'
      <4>1. writer[w].part = 1
        BY DEF MakeDirectory, Written
      <4>2. \A i : i \notin 1 .. writer'[w].part - 1
        BY <4>1, <2>2
      <4>3. QED
        BY <4>2, <2>2 DEF Written
    <3>2. \A v \in Writers \ {w} : Written(v)'
      <4> SUFFICES ASSUME NEW v \in Writers \ {w} PROVE Written(v)'
        OBVIOUS
      <4>1. At(v)' \in {"idle", "ended"} /\ writer'[v] = writer[v]
        BY <2>2, <2>4 DEF Busy, At
      <4>2. At(v)' = "idle" => writer'[v].part = 1
        BY <4>1 DEF Written, At
      <4>3. QED
        BY <4>1, <4>2 DEF Written
    <3>3. QED
      BY <3>1, <3>2
  <2>9. MarkerIsLast' /\ Settled'
    BY <2>1, <2>7, EmptyDirectory DEF MarkerIsLast, Settled, Sealed, Has
  <2>10. QED
    BY <2>3, <2>6, <2>8, <2>9
<1>3. QED
  BY <1>1, <1>2

LEMMA CreateKeeps ==
    ASSUME PackageInv, NEW w \in Writers, Create(w)
    PROVE  PackageInv'
<1> USE DEF PackageInv
<1> DEFINE name == Parts[writer[w].part]
           files == [n \in DOMAIN directory \cup {name} |->
                        IF n = name THEN File(w, FALSE) ELSE directory[n]]
<1>1. /\ At(w) = "create" /\ There /\ ~Has(directory, name)
      /\ directory' = files /\ since' = since \cup {files}
      /\ GoTo(w, "write") /\ UNCHANGED <<reported, undone, cuts>>
  BY DEF Create, Become
<1>2. /\ writer' \in [Writers -> [at : Places, part : 1 .. Len(Parts)]]
      /\ At(w)' = "write" /\ writer'[w].part = writer[w].part
      /\ \A v \in Writers \ {w} : writer'[v] = writer[v]
  BY <1>1, Gone DEF Places, At
<1>3. writer[w].part \in 1 .. Len(Parts) /\ name \in Range(Parts)
  BY PartsInOrder DEF PackageTypeOK
<1>4. directory \in Directories /\ files \in Directories
  <2>1. directory \in Directories
    BY <1>1 DEF PackageTypeOK, There
  <2>2. QED
    BY <2>1, <1>3, OneMoreName
<1>5. /\ DOMAIN files = DOMAIN directory \cup {name}
      /\ files[name] = File(w, FALSE)
      /\ \A n \in DOMAIN directory : n # name => files[n] = directory[n]
  OBVIOUS
<1>6. files # NoDirectory /\ directory # NoDirectory
  BY <1>1, <1>4, PackageWriterAssumption DEF There
<1> HIDE DEF files
<1>7. PackageTypeOK'
  BY <1>1, <1>2, <1>4 DEF PackageTypeOK
<1>8. There'
  BY <1>1, <1>6 DEF There
<1>9. Written(w)'
  <2>1. Has(directory', name) /\ directory'[name] = File(w, FALSE)
    BY <1>1, <1>5, <1>6 DEF Has
  <2>2. ASSUME NEW i \in 1 .. writer[w].part - 1
        PROVE  Has(directory', Parts[i]) /\ directory'[Parts[i]] = File(w, TRUE)
    <3>1. Has(directory, Parts[i]) /\ directory[Parts[i]] = File(w, TRUE)
      BY <1>1 DEF Written
    <3>2. QED
      BY <3>1, <1>1, <1>5, <1>6 DEF Has
  <2>3. QED
    BY <2>1, <2>2, <1>2 DEF Written
<1>10. MarkerIsLast'
  <2> SUFFICES ASSUME ~undone PROVE Sealed(files)
    BY <1>1 DEF MarkerIsLast
  <2>1. CASE name = Marker
    <3>1. writer[w].part = Len(Parts)
      BY <2>1, <1>3, PartsInOrder
    <3>2. ASSUME NEW n \in Range(Receipts)
          PROVE  Has(files, n) /\ files[n] = File(w, TRUE)
      <4>1. PICK i \in 1 .. Len(Receipts) : n = Parts[i] /\ n # Marker
        BY PartsInOrder
      <4>2. i \in 1 .. writer[w].part - 1
        BY <3>1, PartsInOrder
      <4>3. Has(directory, n) /\ directory[n] = File(w, TRUE)
        BY <4>1, <4>2, <1>1 DEF Written
      <4>4. QED
        BY <4>1, <4>3, <1>5, <1>6, <2>1 DEF Has
    <3>3. files[Marker].by = w
      BY <2>1, <1>5 DEF File
    <3>4. QED
      BY <3>2, <3>3 DEF Sealed
  <2>2. CASE name # Marker
    <3>1. name \in Range(Receipts)
      BY <2>2, <1>3, PartsInOrder
    <3>2. ~Has(directory, Marker)
      BY <3>1, <1>1 DEF MarkerIsLast, Sealed, PackageTypeOK
    <3>3. QED
      BY <3>2, <2>2, <1>5, <1>6 DEF Sealed, Has
  <2>3. QED
    BY <2>1, <2>2
<1>11. QED
  BY <1>1, <1>2, <1>7, <1>8, <1>9, <1>10, OneAtWork DEF Busy

LEMMA WriteKeeps ==
    ASSUME PackageInv, NEW w \in Writers, Write(w)
    PROVE  PackageInv'
<1> USE DEF PackageInv
<1> DEFINE name == Parts[writer[w].part]
           Filled(files) == IF Has(files, name) /\ files[name] = File(w, FALSE)
                            THEN [files EXCEPT ![name] = File(w, TRUE)] ELSE files
<1>1. /\ At(w) = "write" /\ UNCHANGED <<reported, undone, cuts>>
      /\ directory' = Filled(directory) /\ since' = {Filled(files) : files \in since}
      /\ IF writer[w].part = Len(Parts) THEN GoTo(w, "sync")
         ELSE writer' = [writer EXCEPT ![w] = [at |-> "create", part |-> @.part + 1]]
  BY DEF Write
<1>2. writer[w].part \in 1 .. Len(Parts) /\ Len(Parts) \in Nat /\ name \in Range(Parts)
  BY PartsInOrder DEF PackageTypeOK
<1>3. /\ writer' \in [Writers -> [at : Places, part : 1 .. Len(Parts)]]
      /\ \A v \in Writers \ {w} : writer'[v] = writer[v]
      /\ \/ At(w)' = "sync" /\ writer[w].part = Len(Parts)
         \/ At(w)' = "create" /\ writer'[w].part = writer[w].part + 1
  <2>1. CASE writer[w].part = Len(Parts)
    BY <2>1, <1>1, Gone DEF Places, At
  <2>2. CASE writer[w].part # Len(Parts)
    <3>1. writer[w].part + 1 \in 1 .. Len(Parts)
      BY <2>2, <1>2
    <3>2. writer' = [writer EXCEPT ![w] = [at |-> "create", part |-> writer[w].part + 1]]
      BY <2>2, <1>1
    <3>3. writer \in [Writers -> [at : Places, part : 1 .. Len(Parts)]]
      BY DEF PackageTypeOK
    <3>4. QED
      BY <3>1, <3>2, <3>3 DEF Places, At
  <2>3. QED
    BY <2>1, <2>2
\* What filling in does to any state of the directory.
<1>4. ASSUME NEW files \in Directories \cup {NoDirectory}
      PROVE  /\ Filled(files) \in Directories \cup {NoDirectory}
             /\ \A n : Has(Filled(files), n) <=> Has(files, n)
             /\ \A n : Has(files, n) => \/ Filled(files)[n] = files[n]
                                        \/ /\ n = name /\ files[n] = File(w, FALSE)
                                           /\ Filled(files)[n] = File(w, TRUE)
  <2>1. CASE Has(files, name) /\ files[name] = File(w, FALSE)
    <3>1. files \in Directories /\ name \in DOMAIN files
      BY <2>1 DEF Has
    <3>2. /\ Filled(files) \in Directories /\ DOMAIN Filled(files) = DOMAIN files
          /\ \A n \in DOMAIN files :
                Filled(files)[n] = IF n = name THEN File(w, TRUE) ELSE files[n]
      BY <2>1, <3>1, SameNames
    <3>3. Filled(files) # NoDirectory /\ files # NoDirectory
      BY <3>1, <3>2, PackageWriterAssumption
    <3> HIDE DEF Filled
    <3>4. \A n : Has(Filled(files), n) <=> n \in DOMAIN files
      BY <3>2, <3>3 DEF Has
    <3>5. \A n : Has(files, n) <=> n \in DOMAIN files
      BY <3>3 DEF Has
    <3> HIDE DEF name
    <3>6. ASSUME NEW n, Has(files, n)
          PROVE  \/ Filled(files)[n] = files[n]
                 \/ /\ n = name /\ files[n] = File(w, FALSE)
                    /\ Filled(files)[n] = File(w, TRUE)
      <4>1. Filled(files)[n] = IF n = name THEN File(w, TRUE) ELSE files[n]
        BY <3>2, <3>5, <3>6
      <4>2. CASE n = name
        <5>1. files[n] = File(w, FALSE)
          BY <4>2, <2>1
        <5>2. QED
          BY <4>1, <4>2, <5>1
      <4>3. CASE n # name
        BY <4>1, <4>3
      <4>4. QED
        BY <4>2, <4>3
    <3>7. QED
      BY <3>2, <3>4, <3>5, <3>6
  <2>2. CASE ~(Has(files, name) /\ files[name] = File(w, FALSE))
    BY <2>2
  <2>3. QED
    BY <2>1, <2>2
<1>5. /\ Has(directory, name) /\ directory[name] = File(w, FALSE)
      /\ Has(directory', name) /\ directory'[name] = File(w, TRUE)
  <2>1. Has(directory, name) /\ directory[name] = File(w, FALSE)
    BY <1>1 DEF Written
  <2>2. directory \in Directories /\ name \in DOMAIN directory
    BY <2>1 DEF Has, PackageTypeOK
  <2>3. /\ directory' \in Directories /\ DOMAIN directory' = DOMAIN directory
        /\ directory'[name] = File(w, TRUE)
    BY <1>1, <2>1, <2>2, SameNames
  <2>4. directory' # NoDirectory
    BY <2>3, PackageWriterAssumption
  <2>5. Has(directory', name)
    BY <2>2, <2>3, <2>4 DEF Has
  <2>6. QED
    BY <2>1, <2>3, <2>5
<1> HIDE DEF Filled
<1>6. \A files \in since : files \in Directories \cup {NoDirectory}
  BY DEF PackageTypeOK
<1>7. PackageTypeOK'
  <2>1. directory' = Filled(directory) /\ since' = {Filled(files) : files \in since}
    BY <1>1
  <2>2. directory \in since
    BY DEF PackageTypeOK
  <2>3. directory' \in since'
    BY <2>1, <2>2
  <2>4. since' \subseteq Directories \cup {NoDirectory}
    <3>1. \A files \in since : Filled(files) \in Directories \cup {NoDirectory}
      BY <1>4, <1>6
    <3>2. QED
      BY <2>1, <3>1
  <2>5. QED
    BY <2>3, <2>4, <1>1, <1>3 DEF PackageTypeOK
<1>8. There'
  BY <1>5 DEF There, Has
<1>9. ASSUME NEW i \in 1 .. writer[w].part
      PROVE  Has(directory', Parts[i]) /\ directory'[Parts[i]] = File(w, TRUE)
  <2>1. CASE i = writer[w].part
    BY <2>1, <1>5
  <2>2. CASE i # writer[w].part
    <3>1. i \in 1 .. writer[w].part - 1
      BY <2>2, <1>2
    <3>2. Has(directory, Parts[i]) /\ directory[Parts[i]] = File(w, TRUE)
      BY <3>1, <1>1 DEF Written
    <3>3. directory \in Directories \cup {NoDirectory}
      BY DEF PackageTypeOK
    <3>4. Has(Filled(directory), Parts[i]) /\ Filled(directory)[Parts[i]] = File(w, TRUE)
      BY <3>2, <3>3, <1>4
    <3>5. QED
      BY <3>4, <1>1 DEF Has
  <2>3. QED
    BY <2>1, <2>2
<1>10. Written(w)'
  <2>1. CASE At(w)' = "sync" /\ writer[w].part = Len(Parts)
    <3>1. WholeBy(w)'
      BY <2>1, <1>9, PartsInOrder DEF WholeBy
    <3>2. QED
      BY <2>1, <3>1 DEF Written
  <2>2. CASE At(w)' = "create" /\ writer'[w].part = writer[w].part + 1
    <3>1. 1 .. writer'[w].part - 1 = 1 .. writer[w].part
      BY <2>2, <1>2
    <3>2. QED
      BY <2>2, <3>1, <1>9 DEF Written
  <2>3. QED
    BY <2>1, <2>2, <1>3
<1>11. MarkerIsLast'
  <2> SUFFICES ASSUME ~undone, NEW files \in since PROVE Sealed(Filled(files))
    BY <1>1 DEF MarkerIsLast
  <2>1. Sealed(files)
    BY DEF MarkerIsLast
  <2> SUFFICES ASSUME Has(Filled(files), Marker), NEW n \in Range(Receipts)
               PROVE  /\ Has(Filled(files), n)
                      /\ Filled(files)[n] = File(Filled(files)[Marker].by, TRUE)
    BY DEF Sealed
  <2>2. Has(files, Marker)
    BY <1>4, <1>6
  <2>3. Has(files, n) /\ files[n] = File(files[Marker].by, TRUE)
    BY <2>1, <2>2 DEF Sealed
  <2>4. Filled(files)[Marker].by = files[Marker].by
    BY <1>4, <1>6, <2>2 DEF File
  <2>5. Filled(files)[n] = files[n]
    BY <1>4, <1>6, <2>3 DEF File
  <2>6. QED
    BY <1>4, <1>6, <2>3, <2>4, <2>5
<1>12. QED
  BY <1>1, <1>3, <1>7, <1>8, <1>10, <1>11, OneAtWork DEF Busy

LEMMA SyncDirectoryKeeps ==
    ASSUME PackageInv, NEW w \in Writers, SyncDirectory(w)
    PROVE  PackageInv'
<1> USE DEF PackageInv
<1>1. /\ At(w) = "sync" /\ There
      /\ since' = {directory} \cup ({NoDirectory} \cap since)
      /\ GoTo(w, "sync parent") /\ UNCHANGED <<directory, reported, undone, cuts>>
  BY DEF SyncDirectory
<1>2. /\ writer' \in [Writers -> [at : Places, part : 1 .. Len(Parts)]]
      /\ At(w)' = "sync parent" /\ \A v \in Writers \ {w} : writer'[v] = writer[v]
  BY <1>1, Gone DEF Places, At
<1>3. PackageTypeOK'
  BY <1>1, <1>2 DEF PackageTypeOK
<1>4. Written(w)'
  BY <1>1, <1>2 DEF Written, WholeBy, Has
<1>5. MarkerIsLast'
  BY <1>1 DEF MarkerIsLast, PackageTypeOK
<1>6. QED
  BY <1>1, <1>2, <1>3, <1>4, <1>5, OneAtWork DEF Busy, There

LEMMA SyncParentKeeps ==
    ASSUME PackageInv, NEW w \in Writers, SyncParent(w)
    PROVE  PackageInv'
<1> USE DEF PackageInv
<1>1. /\ At(w) = "sync parent" /\ since' = {directory} \cup (since \ {NoDirectory})
      /\ GoTo(w, "ended") /\ reported' = reported \cup {w}
      /\ UNCHANGED <<directory, undone, cuts>>
  BY DEF SyncParent
<1>2. /\ writer' \in [Writers -> [at : Places, part : 1 .. Len(Parts)]]
      /\ At(w)' = "ended" /\ \A v \in Writers \ {w} : writer'[v] = writer[v]
  BY <1>1, Gone DEF Places, At
<1>3. PackageTypeOK'
  BY <1>1, <1>2 DEF PackageTypeOK
<1>4. since' = {directory} /\ WholeBy(w)
  BY <1>1 DEF Written
<1>5. \A v \in Writers : ~Busy(v)'
  BY <1>1, <1>2 DEF Alone, Busy, At
<1>6. reported' = {w}
  BY <1>1 DEF Settled, Busy
<1>7. Settled'
  BY <1>1, <1>4, <1>5, <1>6 DEF Settled, WholeBy, Has
<1>8. \A v \in Writers : Written(v)'
  <2> SUFFICES ASSUME NEW v \in Writers PROVE Written(v)'
    OBVIOUS
  <2>1. At(v)' \in {"idle", "ended"}
    BY <1>5 DEF Busy
  <2>2. At(v)' = "idle" => writer'[v].part = 1
    BY <1>2 DEF Written, At
  <2>3. QED
    BY <2>1, <2>2 DEF Written
<1>9. MarkerIsLast'
  BY <1>1, <1>4 DEF MarkerIsLast, PackageTypeOK
<1>10. Alone'
  BY <1>5 DEF Alone
<1>11. QED
  BY <1>3, <1>7, <1>8, <1>9, <1>10

LEMMA FailKeeps ==
    ASSUME PackageInv, NEW w \in Writers, Fail(w)
    PROVE  PackageInv'
<1> USE DEF PackageInv
<1>1. /\ Busy(w) /\ GoTo(w, "cleanup") /\ undone' = (undone \/ Has(directory, Marker))
      /\ UNCHANGED <<directory, since, reported, cuts>>
  BY DEF Fail
<1>2. /\ writer' \in [Writers -> [at : Places, part : 1 .. Len(Parts)]]
      /\ At(w)' = "cleanup" /\ \A v \in Writers \ {w} : writer'[v] = writer[v]
  BY <1>1, Gone DEF Places, At
<1>3. PackageTypeOK'
  BY <1>1, <1>2 DEF PackageTypeOK, Has
<1>4. Written(w)'
  BY <1>1, <1>2 DEF Written, Has
<1>5. MarkerIsLast'
  BY <1>1 DEF MarkerIsLast
<1>6. There
  BY <1>1 DEF Alone
<1>7. QED
  BY <1>1, <1>2, <1>3, <1>4, <1>5, <1>6, OneAtWork DEF There

LEMMA RemoveKeeps ==
    ASSUME PackageInv, NEW w \in Writers, Remove(w)
    PROVE  PackageInv'
<1> USE DEF PackageInv
<1>1. At(w) = "cleanup" /\ There /\ UNCHANGED <<reported, undone, cuts>>
  BY DEF Remove
<1>2. directory \in Directories
  BY <1>1 DEF There, PackageTypeOK
<1>3. ASSUME NEW name \in DOMAIN directory,
             Become([n \in DOMAIN directory \ {name} |-> directory[n]]), UNCHANGED writer
      PROVE  PackageInv'
  <2> DEFINE files == [n \in DOMAIN directory \ {name} |-> directory[n]]
  <2>1. files \in Directories /\ files # NoDirectory
    BY <1>2, OneNameLess, PackageWriterAssumption
  <2>2. Has(files, Marker) => Has(directory, Marker)
    BY <1>1 DEF Has, There
  <2>3. directory' = files /\ since' = since \cup {files}
    BY <1>3 DEF Become
  <2> HIDE DEF files
  <2>4. PackageTypeOK'
    BY <1>1, <1>3, <2>1, <2>3 DEF PackageTypeOK
  <2>5. ~undone => ~Has(files, Marker)
    BY <1>1, <2>2 DEF Written
  <2>6. Written(w)'
    BY <1>1, <1>3, <2>3, <2>5 DEF Written, At
  <2>7. MarkerIsLast'
    BY <1>1, <2>3, <2>5 DEF MarkerIsLast, Sealed
  <2>8. QED
    BY <1>1, <1>3, <2>1, <2>3, <2>4, <2>6, <2>7, OneAtWork DEF Busy, There
<1>4. CASE Become(NoDirectory) /\ GoTo(w, "ended")
  <2>1. directory' = NoDirectory /\ since' = since \cup {NoDirectory}
    BY <1>4 DEF Become
  <2>2. /\ writer' \in [Writers -> [at : Places, part : 1 .. Len(Parts)]]
        /\ At(w)' = "ended" /\ \A v \in Writers \ {w} : writer'[v] = writer[v]
    BY <1>4, Gone DEF Places, At
  <2>3. PackageTypeOK'
    BY <1>1, <2>1, <2>2 DEF PackageTypeOK
  <2>4. Written(w)'
    BY <2>2 DEF Written
  <2>5. MarkerIsLast'
    BY <1>1, <2>1 DEF MarkerIsLast, Sealed, Has
  <2>6. QED
    BY <1>1, <2>2, <2>3, <2>4, <2>5, OneAtWork DEF Busy
<1>5. QED
  BY <1>3, <1>4 DEF Remove

LEMMA DieKeeps ==
    ASSUME PackageInv, NEW w \in Writers, Die(w)
    PROVE  PackageInv'
<1> USE DEF PackageInv
<1>1. Busy(w) /\ GoTo(w, "ended") /\ UNCHANGED <<directory, since, reported, undone, cuts>>
  BY DEF Die
<1>2. /\ writer' \in [Writers -> [at : Places, part : 1 .. Len(Parts)]]
      /\ At(w)' = "ended" /\ \A v \in Writers \ {w} : writer'[v] = writer[v]
  BY <1>1, Gone DEF Places, At
<1>3. PackageTypeOK'
  BY <1>1, <1>2 DEF PackageTypeOK
<1>4. Written(w)' /\ MarkerIsLast'
  BY <1>1, <1>2 DEF Written, MarkerIsLast
<1>5. QED
  BY <1>1, <1>2, <1>3, <1>4, OneAtWork DEF Busy

LEMMA PowerCutKeeps ==
    ASSUME PackageInv, PowerCut
    PROVE  PackageInv'
<1> USE DEF PackageInv
<1>1. PICK files \in since : directory' = files /\ since' = {files}
  BY DEF PowerCut
<1>2. /\ UNCHANGED <<reported, undone>> /\ cuts' \in 0 .. MaxCuts
      /\ writer' = [w \in Writers |-> IF Busy(w) THEN [writer[w] EXCEPT !.at = "ended"]
                                                ELSE writer[w]]
  BY PackageWriterAssumption DEF PowerCut, PackageTypeOK
<1>3. /\ writer' \in [Writers -> [at : Places, part : 1 .. Len(Parts)]]
      /\ \A w \in Writers : /\ At(w)' \in {"idle", "ended"}
                            /\ At(w)' = "idle" => writer'[w].part = 1
  <2> SUFFICES ASSUME NEW w \in Writers
               PROVE  /\ writer'[w] \in [at : Places, part : 1 .. Len(Parts)]
                      /\ At(w)' \in {"idle", "ended"}
                      /\ At(w)' = "idle" => writer'[w].part = 1
    BY <1>2
  <2>1. writer[w] \in [at : Places, part : 1 .. Len(Parts)]
    BY DEF PackageTypeOK
  <2>2. CASE Busy(w)
    BY <1>2, <2>1, <2>2 DEF At, Places
  <2>3. CASE ~Busy(w)
    BY <1>2, <2>1, <2>3 DEF At, Busy, Written
  <2>4. QED
    BY <2>2, <2>3
<1>4. PackageTypeOK'
  BY <1>1, <1>2, <1>3 DEF PackageTypeOK
<1>5. \A w \in Writers : ~Busy(w)'
  BY <1>3 DEF Busy
<1>6. Alone' /\ \A w \in Writers : Written(w)'
  BY <1>3, <1>5 DEF Alone, Written
<1>7. MarkerIsLast'
  BY <1>1, <1>2 DEF MarkerIsLast
<1>8. Settled'
  BY <1>1, <1>2, <1>5 DEF Settled, WholeBy
<1>9. QED
  BY <1>4, <1>6, <1>7, <1>8

LEMMA TakeAwayKeeps ==
    ASSUME PackageInv, TakeAway
    PROVE  PackageInv'
<1> USE DEF PackageInv
<1>1. /\ There /\ ~Has(directory, Marker) /\ \A w \in Writers : ~Busy(w)
      /\ directory' = NoDirectory /\ since' = since \cup {NoDirectory}
      /\ UNCHANGED <<writer, reported, undone, cuts>>
  BY DEF TakeAway, Become
<1>2. reported = {}
  BY <1>1, MarkerIsPart DEF Settled, WholeBy
<1>3. PackageTypeOK'
  BY <1>1 DEF PackageTypeOK
<1>4. Alone'
  BY <1>1 DEF Alone, Busy, At
<1>5. ASSUME NEW w \in Writers PROVE Written(w)'
  <2>1. At(w)' \in {"idle", "ended"} /\ (At(w)' = "idle" => writer'[w].part = 1)
    BY <1>1 DEF Busy, At, Written
  <2>2. QED
    BY <2>1 DEF Written
<1>6. MarkerIsLast' /\ Settled'
  BY <1>1, <1>2 DEF MarkerIsLast, Settled, Sealed, Has
<1>7. QED
  BY <1>3, <1>4, <1>5, <1>6

LEMMA PackageInvariant == PackageSpec => []PackageInv
<1>1. PackageInit => PackageInv
  <2> SUFFICES ASSUME PackageInit PROVE PackageInv
    OBVIOUS
  <2>1. 1 \in 1 .. Len(Parts) /\ "idle" \in Places
    BY PartsInOrder DEF Places
  <2>2. PackageTypeOK
    <3>1. writer \in [Writers -> [at : Places, part : 1 .. Len(Parts)]]
      BY <2>1 DEF PackageInit
    <3>2. cuts \in 0 .. MaxCuts
      BY PackageWriterAssumption DEF PackageInit
    <3>3. QED
      BY <3>1, <3>2 DEF PackageInit, PackageTypeOK
  <2>3. \A w \in Writers : At(w) = "idle" /\ writer[w].part = 1
    BY DEF PackageInit, At
  <2>4. QED
    BY <2>2, <2>3 DEF PackageInit, PackageInv, Alone, Busy, Written, MarkerIsLast, Sealed,
                      Has, Settled
<1>2. PackageInv /\ [PackageNext]_packageVars => PackageInv'
  <2> SUFFICES ASSUME PackageInv, [PackageNext]_packageVars PROVE PackageInv'
    OBVIOUS
  <2>1. CASE UNCHANGED packageVars
    BY <2>1 DEF packageVars, PackageInv, PackageTypeOK, Alone, Busy, At, There, Written,
                WholeBy, MarkerIsLast, Settled
  <2>2. QED
    BY <2>1, MakeDirectoryKeeps, CreateKeeps, WriteKeeps, SyncDirectoryKeeps,
       SyncParentKeeps, FailKeeps, RemoveKeeps, DieKeeps, PowerCutKeeps, TakeAwayKeeps
       DEF PackageNext
<1>3. QED
  BY <1>1, <1>2, PTL DEF PackageSpec

\* The types of the writer's variables.
THEOREM PackageTypeCorrect == PackageSpec => []PackageTypeOK
<1>1. PackageInv => PackageTypeOK
  BY DEF PackageInv
<1>2. QED
  BY <1>1, PackageInvariant, PTL

\* A package that prepare reported survives every power cut and every other
\* process, and a marker seals the receipts of one process: mkdir is exclusive,
\* the marker comes last, and both syncs come before the report
\* (source_release_cli.py, _write_package_exclusive).
THEOREM ReportedPackageStays == PackageSpec => []PackageSurvives
<1>1. PackageInv => PackageSurvives
  <2> SUFFICES ASSUME PackageInv PROVE PackageSurvives
    OBVIOUS
  <2>1. \A w \in reported : WholeBy(w)
    BY DEF PackageInv, Settled
  <2>2. ~undone => Sealed(directory)
    BY DEF PackageInv, MarkerIsLast, PackageTypeOK
  <2>3. QED
    BY <2>1, <2>2 DEF PackageSurvives, Sealed
<1>2. QED
  BY <1>1, PackageInvariant, PTL

=============================================================================
