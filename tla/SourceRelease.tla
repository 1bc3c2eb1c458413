---------------------------- MODULE SourceRelease ----------------------------
(***************************************************************************)
(* source_release.py and its CLI: the approval, publication and rollback   *)
(* receipts around one changed-source snapshot.  The validators are pure:  *)
(* they read files that people keep editing while the law's publishers     *)
(* revise their pages and commits land.  The state is those files and that *)
(* world; an action that writes a receipt writes one that its validator    *)
(* accepts at that moment, and the properties ask the validators again     *)
(* in every later state.                                                   *)
(***************************************************************************)
EXTENDS SourceState, Sequences

CONSTANTS
    MaxTime,        \* bound on the clock
    DayLength,      \* timestamps per calendar day: ledger dates have no time
    MaxCommits,     \* bound on the commits of data/sources.json
    MaxSnaps        \* bound on the snapshots taken

ASSUME ReleaseAssumption ==
    /\ MaxTime \in Nat
    /\ DayLength \in Nat \ {0}
    /\ MaxCommits \in Nat \ {0}
    /\ MaxSnaps \in Nat \ {0}

VARIABLES
    now,            \* the clock of the person who runs the validators
    served,         \* what each publisher serves
    log,            \* the registries of the commits, oldest first
    snaps,          \* the source-state snapshots; the release is of the first
    ledger,         \* decision ledger of that snapshot's worklist
    approval, publication, rollback   \* the three receipts

vars == <<now, served, log, snaps, ledger, approval, publication, rollback>>

Resolutions == {"adopt_observed", "restore_recorded", "retain_hold"}
Outcomes    == {"approved_for_publication", "rejected"}
HoldStates  == {"clear_in_source_state", "retained_in_source_state"}

Times   == 0 .. MaxTime
Commits == 1 .. MaxCommits

DayOf(t) == t \div DayLength

\* A not_run receipt carries no evidence.
NotRun == [status |-> "not_run"]

\* The changed-source snapshot that the release is prepared for.
Context == snaps[1]

\* Mutant: the binding names the worklist's items, not what was decided.
BindingOfItems == [snapshot |-> Context, ledger |-> DOMAIN ledger.entries]

\* The ids and fingerprints of snapshot, worklist and ledger.  The worklist is
\* a function of the snapshot, so it adds nothing to the pair.
Binding == [snapshot |-> Context, ledger |-> ledger]

\* build_release_context: an open worklist of this snapshot, with the ledger
\* that covers it.
ContextValid ==
    /\ Context.recorded = log[Context.commit]
    /\ ChangedIn(Context) # {}
    /\ Covers(ledger, Context)

-----------------------------------------------------------------------------
(* Approval.                                                               *)

TargetOf(snap, s, resolution) ==
    [adopt_observed   |-> snap.observed[s],
     restore_recorded |-> snap.recorded[s],
     retain_hold      |-> NoDigest][resolution]

\* Mutant: the digest of a resolution is not compared with the snapshot.
ResolutionsUnchecked(resolutions) == DOMAIN resolutions = ChangedIn(Context)

\* One resolution per changed source, with the digest that it means.
ResolutionsFit(resolutions) ==
    /\ DOMAIN resolutions = ChangedIn(Context)
    /\ \A s \in ChangedIn(Context) :
          resolutions[s].target = TargetOf(Context, s, resolutions[s].resolution)

\* Mutant: the dates of the decisions are not compared with the approval.
ResolvedAnytime(decided) == Resolved(ledger)

ResolvedInTime(decided) ==
    /\ Resolved(ledger)
    /\ \A i \in DOMAIN ledger.entries : ledger.entries[i].decided <= DayOf(decided)

ValidApproval(a) ==
    /\ a.status = "complete"
    /\ ContextValid
    /\ a.binding = Binding
    /\ a.decided <= now
    /\ ResolutionsFit(a.resolutions)
    /\ a.outcome = "rejected" =>
          \A s \in DOMAIN a.resolutions : a.resolutions[s].resolution = "retain_hold"
    /\ Context.checked <= a.decided
    /\ ResolvedInTime(a.decided)

-----------------------------------------------------------------------------
(* Publication.                                                            *)

\* _validated_transition_snapshot: a snapshot file that binds the registry of
\* its commit and that a person marked reviewed.
TransitionSnapshot(state) ==
    /\ \E i \in DOMAIN snaps : snaps[i] = state
    /\ state.recorded = log[state.commit]
    /\ state.reviewed

\* A source that had changed may not become unreadable.
Readable(state) == \A s \in ChangedIn(Context) : Status(state, s) # "unverifiable"

HoldOf(state) ==
    IF \E s \in ChangedIn(Context) : Status(state, s) = "changed"
    THEN "retained_in_source_state" ELSE "clear_in_source_state"

\* Mutant: a resolution without a digest is skipped instead of refused.
ShowsApprovedOrNone(resolutions, state) ==
    \A s \in ChangedIn(Context) :
        Status(state, s) = "unchanged" /\ resolutions[s].target # NoDigest =>
            /\ state.recorded[s] = resolutions[s].target
            /\ state.observed[s] = resolutions[s].target

\* A source that is no longer held shows the digest that was approved for it.
ShowsApproved(resolutions, state) ==
    \A s \in ChangedIn(Context) : Status(state, s) = "unchanged" =>
        /\ resolutions[s].target # NoDigest
        /\ state.recorded[s] = resolutions[s].target
        /\ state.observed[s] = resolutions[s].target

ValidPublication(p) ==
    /\ p.status = "complete"
    /\ p.binding = Binding
    /\ p.approval = approval
    /\ approval.outcome = "approved_for_publication"
    /\ approval.decided <= p.started
    /\ p.started <= p.completed
    /\ p.completed <= now
    /\ p.baseline = Context.commit
    /\ p.published # p.baseline
    /\ TransitionSnapshot(p.state)
    /\ p.state.commit = p.published
    /\ Readable(p.state)
    /\ ShowsApproved(approval.resolutions, p.state)
    /\ p.hold = HoldOf(p.state)
    /\ Context.checked <= p.state.checked
    /\ p.state.checked <= p.completed
    /\ ValidApproval(approval)

\* The exit code of validate-publication is 0, and the summary says
\* "source_hold_clear": true.
ReportsClear(p) == ValidPublication(p) /\ p.hold = "clear_in_source_state"

-----------------------------------------------------------------------------
(* Rollback.                                                               *)

\* A source that is not held shows the digest of the baseline.
ShowsBaseline(state) ==
    \A s \in ChangedIn(Context) : Status(state, s) = "unchanged" =>
        /\ state.recorded[s] = Context.recorded[s]
        /\ state.observed[s] = Context.recorded[s]

\* Mutant: a rollback may leave the changed source on hold.
ValidRollbackOnHold(r) ==
    /\ r.status = "complete"
    /\ r.binding = Binding
    /\ r.publication = publication
    /\ publication.completed <= r.triggered
    /\ r.triggered <= r.completed
    /\ r.completed <= now
    /\ r.restored = publication.baseline
    /\ TransitionSnapshot(r.state)
    /\ r.state.commit = r.restored
    /\ Readable(r.state)
    /\ ShowsBaseline(r.state)
    /\ r.triggered <= r.state.checked
    /\ r.state.checked <= r.completed
    /\ ValidPublication(publication)

ValidRollback(r) ==
    /\ r.status = "complete"
    /\ r.binding = Binding
    /\ r.publication = publication
    /\ publication.completed <= r.triggered
    /\ r.triggered <= r.completed
    /\ r.completed <= now
    /\ r.restored = publication.baseline
    /\ TransitionSnapshot(r.state)
    /\ r.state.commit = r.restored
    /\ Readable(r.state)
    /\ ShowsBaseline(r.state)
    /\ HoldOf(r.state) = "clear_in_source_state"
    /\ r.triggered <= r.state.checked
    /\ r.state.checked <= r.completed
    /\ ValidPublication(publication)

-----------------------------------------------------------------------------
(* The world.                                                              *)

Tick == /\ now < MaxTime
        /\ now' = now + 1
        /\ UNCHANGED <<served, log, snaps, ledger, approval, publication, rollback>>

\* A publisher revises, or takes back, a text.
Serve(s, d) ==
    /\ d # served[s]
    /\ served' = [served EXCEPT ![s] = d]
    /\ UNCHANGED <<now, log, snaps, ledger, approval, publication, rollback>>

\* A commit records digests: of texts that were fetched, for any sources.
Commit(registry) ==
    /\ Len(log) < MaxCommits
    /\ registry # log[Len(log)]
    /\ log' = Append(log, registry)
    /\ UNCHANGED <<now, served, snaps, ledger, approval, publication, rollback>>

\* build_source_state_snapshot: the watch reads every source against the
\* checkout of commit c; the ones in unread do not answer.  Two runs that read
\* the same at the same time leave one snapshot.
Watch(c, unread) ==
    LET new == [checked |-> now, commit |-> c, reviewed |-> FALSE, recorded |-> log[c],
                observed |-> [s \in Sources |-> IF s \in unread THEN NoDigest ELSE served[s]]]
    IN  /\ Len(snaps) < MaxSnaps
        /\ \A i \in DOMAIN snaps : snaps[i] # new
        /\ snaps' = Append(snaps, new)
        /\ UNCHANGED <<now, served, log, ledger, approval, publication, rollback>>

\* A person adopts a proposed snapshot: the receipt status is part of the
\* file, so its fingerprint changes.
Review(i) ==
    /\ ~snaps[i].reviewed
    /\ snaps' = [snaps EXCEPT ![i].reviewed = TRUE]
    /\ UNCHANGED <<now, served, log, ledger, approval, publication, rollback>>

-----------------------------------------------------------------------------
(* The release.                                                            *)

\* A maintainer rewrites one entry of the ledger, to anything its loader takes.
Decide(item, entry) ==
    /\ ledger.entries[item] # entry
    /\ ledger' = [ledger EXCEPT !.entries[item] = entry]
    /\ UNCHANGED <<now, served, log, snaps, approval, publication, rollback>>

\* What a person may fill in: the evidence ids and the URL, which are compared
\* with nothing but themselves, are left out.
ApprovalClaims ==
    [status : {"complete"}, binding : {Binding}, outcome : Outcomes, decided : Times,
     resolutions : [ChangedIn(Context) -> [resolution : Resolutions, target : Observed]]]

PublicationClaims ==
    [status : {"complete"}, binding : {Binding}, approval : {approval}, started : Times,
     completed : Times, baseline : Commits, published : Commits,
     state : {snaps[i] : i \in DOMAIN snaps}, hold : HoldStates]

RollbackClaims ==
    [status : {"complete"}, binding : {Binding}, publication : {publication},
     triggered : Times, completed : Times, restored : Commits,
     state : {snaps[i] : i \in DOMAIN snaps}]

\* Bound: each receipt is filled in once, and a refused one stays a draft.
Approve ==
    /\ approval = NotRun
    /\ \E a \in ApprovalClaims : ValidApproval(a) /\ approval' = a
    /\ UNCHANGED <<now, served, log, snaps, ledger, publication, rollback>>

Publish ==
    /\ publication = NotRun
    /\ ValidApproval(approval)
    /\ \E p \in PublicationClaims : ValidPublication(p) /\ publication' = p
    /\ UNCHANGED <<now, served, log, snaps, ledger, approval, rollback>>

RollBack ==
    /\ rollback = NotRun
    /\ ValidPublication(publication)
    /\ \E r \in RollbackClaims : ValidRollback(r) /\ rollback' = r
    /\ UNCHANGED <<now, served, log, snaps, ledger, approval, publication>>

\* A release has just been prepared: some sources had changed when the first
\* snapshot was taken, at time 0 and against the only commit, its worklist has
\* a ledger with every item open, and the three receipts are not_run.
Init ==
    /\ now = 0
    /\ log \in {<<registry>> : registry \in Registries}
    /\ served \in Registries
    /\ snaps \in {<<snap>> : snap \in
           [checked : {0}, commit : {1}, reviewed : BOOLEAN, recorded : {log[1]},
            observed : {o \in [Sources -> Observed] :
                           \A s \in Sources : o[s] \in {NoDigest, served[s]}}]}
    /\ ChangedIn(Context) # {}
    /\ ledger = Template(Context)
    /\ approval = NotRun /\ publication = NotRun /\ rollback = NotRun

Next ==
    \/ Tick
    \/ \E s \in Sources, d \in Digests : Serve(s, d)
    \/ \E registry \in Registries : Commit(registry)
    \/ \E c \in DOMAIN log, unread \in SUBSET Sources : Watch(c, unread)
    \/ \E i \in DOMAIN snaps : Review(i)
    \/ \E item \in DOMAIN ledger.entries, entry \in Entries(DayOf(now)) : Decide(item, entry)
    \/ Approve \/ Publish \/ RollBack

Spec == Init /\ [][Next]_vars

-----------------------------------------------------------------------------
(* Properties.                                                             *)

\* The files and the world hold values of their kinds; every snapshot is of a
\* commit that exists and records what that commit records.
TypeOK ==
    /\ now \in Times
    /\ served \in Registries
    /\ log \in Seq(Registries) /\ Len(log) \in 1 .. MaxCommits
    /\ snaps \in Seq(Snapshots(Times, DOMAIN log)) /\ Len(snaps) <= MaxSnaps
    /\ \A i \in DOMAIN snaps : snaps[i].recorded = log[snaps[i].commit]
    /\ snaps # << >>
    /\ DOMAIN ledger.entries \subseteq AllItems
    /\ \A i \in DOMAIN ledger.entries : ledger.entries[i] \in Entries(DayOf(now))
    /\ \A r \in {approval, publication, rollback} : r.status \in {"not_run", "complete"}

\* When validate-publication reports the hold of the release clear, each text
\* that had changed is, in the registry of the published commit, the digest an
\* approval names for it, that text is not a made-up one but the recorded or
\* the observed text of the snapshot, and the publisher was seen serving it
\* after the change had been noticed and before the publication ended.
ClearedOnApprovedText ==
    ReportsClear(publication) =>
        \A s \in ChangedIn(Context) :
            LET text == log[publication.published][s] IN
            /\ approval.outcome = "approved_for_publication"
            /\ text = approval.resolutions[s].target
            /\ text \in {Context.recorded[s], Context.observed[s]}
            /\ \E i \in DOMAIN snaps :
                  /\ snaps[i].observed[s] = text
                  /\ snaps[i].checked \in Context.checked .. publication.completed

\* A source whose hold the approver chose to retain is still different from
\* the registry in the published state, so the page goes on holding it, and
\* the receipt never reports the release clear.
RetainedStaysHeld ==
    ValidPublication(publication) =>
        \A s \in ChangedIn(Context) :
            approval.resolutions[s].resolution = "retain_hold" =>
                /\ s \in ChangedIn(publication.state)
                /\ publication.state.observed[s] # log[publication.published][s]
                /\ ~ReportsClear(publication)

\* A rollback that validates has put the baseline registry back, and every
\* text that had changed was seen to be the baseline text again after the
\* rollback was triggered: a site never goes back to a text that its
\* publisher no longer serves.
RollbackRestores ==
    ValidRollback(rollback) =>
        \A s \in ChangedIn(Context) :
            \E i \in DOMAIN snaps :
                /\ snaps[i].commit = publication.baseline
                /\ snaps[i].observed[s] = log[publication.baseline][s]
                /\ snaps[i].checked \in rollback.triggered .. rollback.completed

\* The evidence of a release is in order, from the change to the rollback, in
\* every later state: no edit of a file can leave a chain that validates and
\* runs backwards.
EvidenceInOrder ==
    ValidRollback(rollback) =>
        /\ Context.checked <= approval.decided
        /\ \A i \in DOMAIN ledger.entries : ledger.entries[i].decided <= DayOf(approval.decided)
        /\ approval.decided <= publication.started
        /\ publication.state.checked <= rollback.state.checked
        /\ rollback.state.checked <= now

\* Any edit of the decision ledger, even of one resolved entry into another,
\* voids an approval that validated, and with it the receipts that rest on it.
LedgerEditVoids ==
    [][ValidApproval(approval) /\ ledger' # ledger =>
          ~ValidApproval(approval)' /\ ~ValidPublication(publication)']_vars
=============================================================================
