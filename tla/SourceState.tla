----------------------------- MODULE SourceState -----------------------------
(***************************************************************************)
(* source_state.py: a dated receipt of what every watched source served,   *)
(* compared with the digests that one commit of data/sources.json records, *)
(* and review_queue.py: the work items and the decision ledger derived     *)
(* from it.  Everything here is an operator on values; the files live in   *)
(* SourceRelease.                                                          *)
(***************************************************************************)
EXTENDS Naturals, FiniteSets

CONSTANTS
    Sources,        \* watched sources
    Digests,        \* texts a source can serve, named by their SHA-256
    NoDigest,       \* None: nothing could be read
    Rules,          \* encoded rules
    DependsOn,      \* the sources each rule depends on
    Cases,          \* golden cases
    CaseRules       \* the rules each golden case exercises

ASSUME SourceStateAssumption ==
    /\ NoDigest \notin Digests
    /\ DependsOn \in [Rules -> SUBSET Sources]
    /\ CaseRules \in [Cases -> SUBSET Rules]

Registries == [Sources -> Digests]
Observed   == Digests \cup {NoDigest}

\* One snapshot file.  Its fingerprint is a hash of all of it: two snapshots
\* have the same fingerprint exactly when they are the same record.
Snapshots(Times, Commits) ==
    [checked : Times, commit : Commits, reviewed : BOOLEAN,
     recorded : Registries, observed : [Sources -> Observed]]

\* The status is not free: it is derived from the two digests, and the loader
\* refuses a file whose status contradicts them.
Status(snap, s) ==
    IF snap.observed[s] = NoDigest THEN "unverifiable"
    ELSE IF snap.observed[s] = snap.recorded[s] THEN "unchanged"
    ELSE "changed"

ChangedIn(snap) == {s \in Sources : Status(snap, s) = "changed"}

AffectedRules(snap) == {r \in Rules : DependsOn[r] \cap ChangedIn(snap) # {}}

AffectedCases(snap) == {c \in Cases : CaseRules[c] \cap AffectedRules(snap) # {}}

\* build_review_worklist: one item per changed source, per rule that depends
\* on one, per golden case that exercises such a rule.
Items(snap) ==
    ({"source"} \X ChangedIn(snap)) \cup ({"rule"} \X AffectedRules(snap))
        \cup ({"golden"} \X AffectedCases(snap))

AllItems == ({"source"} \X Sources) \cup ({"rule"} \X Rules) \cup ({"golden"} \X Cases)

-----------------------------------------------------------------------------
(* The decision ledger.                                                    *)

\* An entry is open (unassigned or assigned: the release tells them no further
\* apart) or resolved.  Owner, role, dates, disposition and evidence id come
\* and go with the status; the one date that a release compares is kept.
Open == [status |-> "open", decided |-> 0]
ResolvedOn(day) == [status |-> "resolved", decided |-> day]

\* The entries the loader accepts on day today: no date lies in the future.
Entries(today) == {Open} \cup {ResolvedOn(day) : day \in 0 .. today}

\* decision_template: a complete ledger bound to the worklist of snap.
Template(snap) == [worklist |-> snap, entries |-> [i \in Items(snap) |-> Open]]

\* load_review_decisions: the ledger names this worklist and covers it exactly.
Covers(ledger, snap) ==
    /\ ledger.worklist = snap
    /\ DOMAIN ledger.entries = Items(snap)

Resolved(ledger) ==
    /\ ledger.entries # << >>
    /\ \A i \in DOMAIN ledger.entries : ledger.entries[i].status = "resolved"
=============================================================================
