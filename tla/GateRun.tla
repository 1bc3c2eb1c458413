-------------------------------- MODULE GateRun --------------------------------
(***************************************************************************)
(* beta_gate_cli.py: one run of `validate` or `recompute` over a working   *)
(* tree that people go on editing.  A run captures the tree place by place *)
(* and judges what it captured; `recompute --write` then replaces the      *)
(* profile and the record, judges the tree again and takes both back when  *)
(* it is refused.  A write of one file is all or nothing, and may fail; a  *)
(* run may be killed between two steps.                                    *)
(***************************************************************************)
EXTENDS BetaGate

CONSTANTS
    Places,         \* the names of the files, as a sequence of sets in path order
    Tampered,       \* the <<ledger, part>> that somebody fills in
    GateDays,       \* bound: the tree is edited until this day
    MaxGateEdits    \* bound: edits of the tree

ASSUME GateRunAssumption ==
    /\ \A p \in Tampered : p[1] \in Frozen
    /\ GateDays \in Days /\ MaxGateEdits \in Nat
    /\ Exported \subseteq DOMAIN FirstTree \ {"profile"}   \* no digest of itself
    /\ Places \in Seq(SUBSET DOMAIN GateTree)
    /\ UNION {Places[k] : k \in DOMAIN Places} = DOMAIN GateTree

VARIABLES
    repo,       \* the working tree
    anchor,     \* _EXPORT_PROFILE_V2_SHA256
    proc,       \* the run, see Idle
    gateEdits

gateVars == <<today, repo, anchor, proc, gateEdits>>

\* exit is that of the last run, next the number of places it has captured in
\* taken, draft and profile what it would write.  read is what it read of the
\* two files, originals what it takes back; before and edited are history: the
\* two files when it began, and what has been edited since.
Idle == [at |-> "idle", exit |-> "none", write |-> FALSE, day |-> FirstDay, next |-> 0,
         taken |-> << >>, draft |-> << >>, profile |-> << >>, read |-> << >>,
         attempt |-> 0, originals |-> << >>, before |-> << >>, edited |-> {}]

Steps == {"idle", "capture", "profile", "digests", "pins", "settle", "proposal", "record", "check",
          "restore"}

\* _NO_CHANGE, _CHANGES_PENDING and _INVALID; or an OSError that nobody handles.
Exits == {"none", "running", "killed", "clean", "pending", "invalid", "raised"}

GateRunTypeOK ==
    /\ DOMAIN repo = UNION {Places[k] : k \in DOMAIN Places}
    /\ proc.at \in Steps /\ proc.exit \in Exits
    /\ proc.at = "idle" <=> proc.exit # "running"
    /\ proc.next \in 0 .. Len(Places) /\ proc.attempt \in 0 .. 2
    /\ DOMAIN proc.taken \subseteq DOMAIN repo
    /\ proc.edited \in SUBSET {"outputs", "inputs"}

GateInit ==
    /\ today = FirstDay
    /\ repo = GateTree /\ anchor = FirstProfile
    /\ proc = Idle /\ gateEdits = 0

-----------------------------------------------------------------------------
(* People.                                                                 *)

\* The outcome of a run is of the tree it was about.
Touched(kind) ==
    IF proc.at = "idle" THEN Idle ELSE [proc EXCEPT !.edited = @ \cup {kind}]

\* The tree with the contents of some of its files replaced.
With(tree, files) ==
    [name \in DOMAIN tree |-> IF name \in DOMAIN files THEN files[name] ELSE tree[name]]

Edit(files, kind) ==
    /\ gateEdits < MaxGateEdits /\ gateEdits' = gateEdits + 1
    /\ \E name \in DOMAIN files : files[name] # repo[name]
    /\ repo' = With(repo, files)
    /\ proc' = Touched(kind)
    /\ UNCHANGED <<today, anchor>>

\* Somebody fills in a part of a planning ledger, and may carry it through:
\* into the summary of the external gate, its digests and the aggregate.
FillIn(id, p) ==
    LET ledger == [repo[id] EXCEPT !.executed = @ \cup {p}]
        told   == [repo.external_evidence_gate EXCEPT
                     !.summaries = Summaries(With(repo, [name \in {id} |-> ledger])),
                     !.executed = IF id = "external_evidence_gate" THEN @ \cup {p} ELSE @]
        both   == [name \in {id, "external_evidence_gate"} |->
                      IF name = "external_evidence_gate" THEN told ELSE ledger]
        bind   == Bindings(With(repo, both))
        gate   == [repo.gate EXCEPT !.bind = bind, !.aggregate.fingerprint = bind]
    IN  \/ Edit([name \in {id} |-> ledger], "inputs")
        \/ Edit([name \in {"gate"} \cup DOMAIN both |->
                    IF name = "gate" THEN gate ELSE both[name]], "outputs")

\* A snapshot of the registry is adopted, in which s serves something else or
\* cannot be read; or one that nobody has reviewed.
Snapshot(observed, reviewed) ==
    [source_state |-> [recorded |-> RegistryDigests(repo.registry),
                       observed |-> observed, reviewed |-> reviewed]]

Adopt(s) ==
    LET recorded == RegistryDigests(repo.registry)
    IN  \E seen \in (Digests \cup {NoDigest}) \ {recorded[s]} :
            Edit(Snapshot([recorded EXCEPT ![s] = seen], TRUE), "inputs")

AdoptUnreviewed == Edit(Snapshot(RegistryDigests(repo.registry), FALSE), "inputs")

\* A source is recorded anew; a rule is verified again.
Record(s)  == Edit([registry |-> [repo.registry EXCEPT ![s].on = today]], "inputs")
Verify(r)  == \E on \in {Undated, today} :
                 Edit([rules |-> [repo.rules EXCEPT ![r].verified = on]], "inputs")

\* A person enters a review of a rule.
EnterReview(r) ==
    LET entry == [rule |-> r, level |-> "human_reviewed", who |-> CHOOSE who \in People : TRUE,
                  on |-> today, cited |-> CitationPrint(repo.rules[r]),
                  whole |-> RulePrint(repo.rules[r])]
    IN  Edit([rule_verification |->
                SetToSeq({entry} \cup {Unreviewed(q) : q \in Rules \ {r}})], "inputs")

\* The program page is read again; a document is rewritten or removed.
Reread     == Edit([record |-> [repo.record EXCEPT !.checked = today, !.due = today + 1]], "inputs")
Rewrite(d) == \E text \in {Absent, CHOOSE t \in Texts : t # FirstText} :
                 Edit([docs |-> [repo.docs EXCEPT ![d] = text]], "inputs")

\* The gap in the packet is closed, the packet registered, and both outputs are
\* generated again (readiness_cli and resolve_journey).
CloseGap ==
    LET packet == [repo.packet EXCEPT !.inventory[1] = "present"]
        pins   == [repo.pins EXCEPT !.packet = packet]
        moved  == With(repo, [packet |-> packet, pins |-> pins])
    IN  Edit([packet |-> packet, pins |-> pins,
              reference_packet  |-> PacketOutput(moved),
              reference_journey |-> JourneyOutput(moved)], "inputs")

\* The profile is made to list the record as well.
ListRecord ==
    Edit([profile |-> [name \in DOMAIN repo.profile \cup {"gate"} |->
                          IF name = "gate" THEN FirstGate ELSE repo.profile[name]]], "outputs")

\* The maintainer copies the digest of the profile into the code.
AttestProfile ==
    /\ proc.at = "idle"
    /\ anchor # repo.profile
    /\ anchor' = repo.profile
    /\ proc' = Idle
    /\ UNCHANGED <<today, repo, gateEdits>>

GateDay ==
    /\ today < GateDays
    /\ NextDay
    /\ UNCHANGED <<repo, anchor, proc, gateEdits>>

-----------------------------------------------------------------------------
(* A run.                                                                  *)

Runs == UNCHANGED <<today, anchor, gateEdits>>
Reads(next) == proc' = next /\ UNCHANGED repo /\ Runs
Ended(exit) ==
    [Idle EXCEPT !.exit   = exit,
                 !.read   = IF exit = "clean"   THEN proc.read   ELSE << >>,
                 !.taken  = IF exit = "clean"   THEN proc.taken  ELSE << >>,
                 !.day    = IF exit = "clean"   THEN proc.day    ELSE FirstDay,
                 !.before = IF exit = "invalid" THEN proc.before ELSE << >>,
                 !.edited = proc.edited]
Exit(exit)  == Reads(Ended(exit))

Written == [name \in {"profile", "gate"} |-> repo[name]]

Begin(at, write) ==
    Reads([Idle EXCEPT !.at = at, !.exit = "running", !.write = write,
                       !.day = today, !.before = Written])

StartValidate  == proc.at = "idle" /\ Begin("capture", FALSE)
StartRecompute == proc.at = "idle" /\ \E write \in BOOLEAN : Begin("profile", write)

\* _capture_repository_tree and _repository_snapshot: one place after another.
\* _recompute_export_profile reads in this way too; of what it does not list,
\* nothing is used.
Captured == proc.next = Len(Places)
Capture ==
    /\ proc.at \in {"capture", "digests", "settle", "check"} /\ ~Captured
    /\ LET names == Places[proc.next + 1]
       IN  Reads([proc EXCEPT !.next = @ + 1,
                              !.taken = [name \in DOMAIN @ \cup names |->
                                            IF name \in names THEN repo[name] ELSE @[name]]])

\* _validate: the record is the captured one.
Validate ==
    /\ proc.at = "capture" /\ Captured
    /\ LET verdict == Verdict(proc.taken, proc.taken.gate, anchor, proc.day)
       IN  Exit(IF verdict = "valid" THEN "clean" ELSE "invalid")

\* _recompute_export_profile: the profile, and then the files it lists.
ReadProfile ==
    /\ proc.at = "profile"
    /\ Reads([proc EXCEPT !.at = "digests", !.profile = repo.profile, !.read = Written])

Reprofile ==
    /\ proc.at = "digests" /\ Captured
    /\ Reads([proc EXCEPT !.at = "pins", !.profile = Reprofiled(@, proc.taken),
                            !.next = 0, !.taken = << >>])

\* _recompute_binding_pins.  With a constant that does not fit the profile the
\* record is not looked at any further.
ReadPins ==
    /\ proc.at = "pins"
    /\ \/ FrozenMoved(repo) # {} /\ Exit("invalid")
       \/ /\ FrozenMoved(repo) = {}
          /\ LET known == [proc EXCEPT !.read.gate = repo.gate]
             IN  IF proc.profile # anchor
                 THEN Reads([known EXCEPT !.at = "proposal"])
                 ELSE Reads([known EXCEPT !.at = "settle", !.draft = Repin(repo),
                                          !.attempt = 1, !.day = today])

\* A second refusal for the aggregate ends the run.
MayCorrect == proc.attempt < 2

\* _validated_record_bytes: the validator corrects the aggregate once.
Settle ==
    /\ proc.at = "settle" /\ Captured
    /\ LET verdict == Verdict(proc.taken, proc.draft, anchor, proc.day)
           right   == Aggregate(proc.taken, proc.draft, proc.day)
       IN  CASE verdict = "valid" -> Reads([proc EXCEPT !.at = "proposal"])
             [] verdict = "mismatch" /\ MayCorrect ->
                   Reads([proc EXCEPT !.draft.aggregate = right, !.attempt = @ + 1,
                                      !.next = 0, !.taken = << >>, !.day = today])
             [] OTHER -> Exit("invalid")

Blocked   == proc.draft = << >>         \* blocked_on_export_profile_constant
NewRecord == ~Blocked /\ proc.draft # proc.read.gate

\* What _apply would write, of the two files.
Changes ==
    {name \in {"profile", "gate"} :
        IF name = "profile" THEN proc.profile # proc.read.profile ELSE NewRecord}

\* _recompute: a report only, or the first write; the originals are read now.
Propose ==
    /\ proc.at = "proposal" /\ ~proc.write
    /\ Exit(IF Changes = {} /\ ~Blocked THEN "clean" ELSE "pending")

WriteProfile ==
    /\ proc.at = "proposal" /\ proc.write
    /\ proc' = [proc EXCEPT !.at = "record",
                            !.originals = [name \in Changes |-> repo[name]]]
    /\ repo' = IF "profile" \in Changes THEN [repo EXCEPT !.profile = proc.profile] ELSE repo
    /\ Runs

WriteRecord ==
    /\ proc.at = "record"
    /\ proc' = [proc EXCEPT !.at = "check", !.next = 0, !.taken = << >>, !.day = today]
    /\ repo' = IF "gate" \in Changes THEN [repo EXCEPT !.gate = proc.draft] ELSE repo
    /\ Runs

\* What _apply has noted and not yet taken back.
ToRestore == DOMAIN proc.originals

\* Mutant: what is noted for the way back are the new bytes.
TakeBackProposed(name) ==
    /\ repo' = [repo EXCEPT ![name] = IF name = "profile" THEN proc.profile ELSE proc.draft]
    /\ proc' = [proc EXCEPT !.originals = [n \in ToRestore \ {name} |-> @[n]]]
    /\ Runs

\* `path.write_bytes(original)`.
TakeBack(name) ==
    /\ repo' = [repo EXCEPT ![name] = proc.originals[name]]
    /\ proc' = [proc EXCEPT !.originals = [n \in ToRestore \ {name} |-> @[n]]]
    /\ Runs

\* A write raises OSError.
WriteFails ==
    \/ /\ proc.at = "proposal" /\ proc.write /\ "profile" \in Changes
       /\ Reads([proc EXCEPT !.at = "restore",
                             !.originals = [name \in Changes |-> repo[name]]])
    \/ /\ proc.at = "record" /\ "gate" \in Changes
       /\ Reads([proc EXCEPT !.at = "restore"])
    \/ /\ proc.at = "restore" /\ ToRestore # {}      \* in the handler itself
       /\ Exit("raised")

\* _apply: a blocked proposal ends with the attestation still to come, any
\* other must be accepted as it now lies on disk.
Check ==
    /\ proc.at = "check"
    /\ \/ Blocked /\ Exit("pending")
       \/ /\ ~Blocked /\ Captured
          /\ LET verdict == Verdict(proc.taken, proc.taken.gate, anchor, proc.day)
             IN  IF verdict = "valid" THEN Exit("clean")
                 ELSE Reads([proc EXCEPT !.at = "restore"])

\* The handler takes back what was noted, the profile first, and then refuses.
Restore ==
    /\ proc.at = "restore"
    /\ \/ ToRestore = {} /\ Exit("invalid")
       \/ "profile" \in ToRestore /\ TakeBack("profile")
       \/ ToRestore = {"gate"} /\ TakeBack("gate")

Kill == proc.at # "idle" /\ Exit("killed")

People_ ==
    \/ \E p \in Tampered : FillIn(p[1], p[2])
    \/ \E s \in Sources : Adopt(s) \/ Record(s)
    \/ AdoptUnreviewed
    \/ \E r \in Rules : Verify(r) \/ EnterReview(r)
    \/ \E d \in BoundDocs \cup EvidenceDocs : Rewrite(d)
    \/ Reread
    \/ CloseGap
    \/ ListRecord
    \/ AttestProfile
    \/ GateDay

Tool ==
    \/ StartValidate \/ StartRecompute
    \/ Capture \/ Validate
    \/ ReadProfile \/ Reprofile \/ ReadPins \/ Settle \/ Propose
    \/ WriteProfile \/ WriteRecord \/ WriteFails \/ Check \/ Restore
    \/ Kill

GateNext == People_ \/ Tool

GateSpec == GateInit /\ [][GateNext]_gateVars

-----------------------------------------------------------------------------
\* A summary, or a record that was re-pinned and accepted, rests on planning
\* ledgers that say what they said when they were committed: nothing was run,
\* in the parts the validators look at and in those they do not, however
\* carefully the digests, the summaries and the aggregate were carried along
\* ("a coordinated rewrite of a favorable nested result").
NoFavorableSummary ==
    proc.exit = "clean" =>
        \A id \in Frozen : proc.taken[id] = FirstLedgers[id]

\* A refusal leaves the profile and the record as the run found them ("Nothing
\* was left written; the working tree is unchanged"), whatever else was edited
\* in the meantime and whichever write failed.
RefusalLeavesTree ==
    proc.exit = "invalid" /\ "outputs" \notin proc.edited => Written = proc.before

\* When `recompute` leaves with 0 and nothing was edited since it began, there
\* is nothing left to re-derive, and the tree is accepted as it lies on disk on
\* the day it was last looked at.
CleanMeansDerived ==
    proc.exit = "clean" /\ proc.read # << >> /\ proc.edited = {} =>
        /\ \A name \in DOMAIN repo.profile : repo.profile[name] = repo[name]
        /\ Verdict(repo, repo.gate, anchor, proc.day) = "valid"
=============================================================================
