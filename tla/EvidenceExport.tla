--------------------------- MODULE EvidenceExport ---------------------------
(***************************************************************************)
(* evidence_export.py, evidence_signature.py and their CLI: producers      *)
(* build and sign an evidence package from a checkout in which somebody    *)
(* goes on editing and committing, and consumers verify or restore the     *)
(* file they find at the agreed path.  Each process reads the same files   *)
(* several times and takes no lock.  Spec asks nobody to go on: a process  *)
(* that is killed takes no further step, and its temporary file or staging *)
(* directory, which has a name of its own, stays behind.                   *)
(*                                                                         *)
(* A file's bytes are named by what they say.  The profile of version v    *)
(* pins the digests of the data of version v, and of no other.             *)
(***************************************************************************)
EXTENDS Naturals, Sequences, FiniteSets

CONSTANTS
    Builders,       \* runs of build; each has a freeze id and a key of its own
    Earlier,        \* those that built their package from the first commit long ago
    Consumers,      \* runs of verify or restore
    Listed,         \* the builders named in the allowed-signers file
    Versions,       \* versions of the profile and of the data that it pins
    Sound,          \* the versions of the data that the canonical loaders take
    MaxCommits      \* bound on the commits
CONSTANTS NoFile, Altered, Other, Running   \* no file; bytes no builder wrote; a directory of another program; no exit code yet

ASSUME ExportAssumption ==
    /\ Listed \subseteq Builders
    /\ Earlier \subseteq Builders
    /\ Sound \subseteq Versions
    /\ MaxCommits \in Nat \ {0}
    /\ Builders \cap Consumers = {}
    /\ Running \notin 0 .. 255


VARIABLES
    tree,           \* the working tree: a profile and the data
    log,            \* committed trees; HEAD is the last
    archive,        \* the file at the archive path
    sidecar,        \* the file at <archive>.sig.json
    target,         \* the restore destination
    pc,             \* where each process is
    local,          \* what each process has read
    exit            \* exit code of each process, or Running

vars == <<tree, log, archive, sidecar, target, pc, local, exit>>
files == <<archive, sidecar, target>>
checkout == <<tree, log>>

Trees == [profile : Versions, data : Versions]

\* load_export_profile and _entry_payloads refuse data that the profile does
\* not pin.
Pinned(t) == t.data = t.profile

\* One deterministic archive for one freeze, commit and content.
Packages == [freeze : Builders, commit : 1 .. MaxCommits, content : Trees]


\* What a signature says beside the digest: package, freeze, commit, profile.
StatementOf(p) == [freeze |-> p.freeze, commit |-> p.commit, profile |-> p.content.profile]

Statements == [freeze : Builders, commit : 1 .. MaxCommits, profile : Versions]
SidecarFiles == [digest : Packages \cup {Altered}, signer : Builders, statement : Statements]

\* What a checked sidecar leaves behind: the digest, and what it is of.
Attested == [digest : Packages \cup {Altered}, of : Statements]

ASSUME NotPackages ==
    /\ {NoFile, Altered, Other} \cap Packages = {}
    /\ NoFile # Altered
    /\ NoFile \notin Attested

\* _verify_archive: member set, manifest, digests and canonical bytes.
Verifies(bytes) == bytes \in Packages /\ Pinned(bytes.content)

\* What a process holds in memory: a builder the profile, the files it packs and
\* the commit it compared them with, then the package it made; a consumer the
\* digest and the statement that it checked, then the package that it opened.
Memory ==
    [profile : Versions \cup {NoFile}, content : Trees \cup Packages \cup {NoFile},
     commit : 0 .. MaxCommits, made : Packages \cup {NoFile},
     bytes : Packages \cup {NoFile, Altered},
     statement : Attested \cup {NoFile},
     demanded : BOOLEAN, command : {"build", "verify", "restore"}]

Nothing == [profile |-> NoFile, content |-> NoFile, commit |-> 0, made |-> NoFile, bytes |-> NoFile,
            statement |-> NoFile, demanded |-> FALSE, command |-> "build"]

-----------------------------------------------------------------------------
(* The checkout.                                                           *)

Edit(t) ==
    /\ t # tree
    /\ tree' = t
    /\ UNCHANGED <<log, files, pc, local, exit>>

CommitTree ==
    /\ Len(log) < MaxCommits
    /\ tree # log[Len(log)]
    /\ log' = Append(log, tree)
    /\ UNCHANGED <<tree, files, pc, local, exit>>

-----------------------------------------------------------------------------
(* build_export and sign_archive.                                          *)

Go(p, label, code, l) ==
    /\ pc' = [pc EXCEPT ![p] = label]
    /\ local' = [local EXCEPT ![p] = l]
    /\ exit' = [exit EXCEPT ![p] = code]

Goto(p, label, l) == Go(p, label, Running, l)

\* What a process read dies with it, all but what the properties look back at.
Stop(p, code) ==
    Go(p, "done", code,
       [Nothing EXCEPT !.made = local[p].made,
                       !.demanded = local[p].demanded /\ code = 0,
                       !.content = IF code = 0 THEN local[p].content ELSE NoFile])

\* _output_path, and the profile.
Load(b) ==
    /\ pc[b] = "load"
    /\ IF archive = NoFile
       THEN Goto(b, "pins", [local[b] EXCEPT !.profile = tree.profile])
       ELSE Stop(b, 2)
    /\ UNCHANGED <<checkout, files>>

\* load_export_profile refuses data that the profile in memory does not pin,
\* the first time and when the checkout is replayed.
LoadEntries(b) ==
    /\ pc[b] \in {"pins", "repins"}
    /\ IF tree.data = local[b].profile
       THEN Goto(b, IF pc[b] = "pins" THEN "read" ELSE "loaders", local[b])
       ELSE Stop(b, 2)
    /\ UNCHANGED <<checkout, files>>

\* _entry_payloads reads everything again.  The data are pinned by the profile
\* in memory; the profile's own entry is pinned by nothing.
Read(b) ==
    /\ pc[b] = "read"
    /\ IF tree.data = local[b].profile
       THEN Goto(b, "head", [local[b] EXCEPT !.content = tree])
       ELSE Stop(b, 2)
    /\ UNCHANGED <<checkout, files>>

\* _verify_profile_matches_git_head: HEAD is read once, and every file is
\* compared with that commit.
BindHead(b) ==
    /\ pc[b] = "head"
    /\ IF local[b].content = log[Len(log)]
       THEN Goto(b, "replay", [local[b] EXCEPT !.commit = Len(log)])
       ELSE Stop(b, 2)
    /\ UNCHANGED <<checkout, files>>

\* validate_restored_evidence: the profile is read from the working tree once
\* more ...
Reload(b) ==
    /\ pc[b] = "replay"
    /\ Goto(b, "repins", [local[b] EXCEPT !.profile = tree.profile])
    /\ UNCHANGED <<checkout, files>>

\* Mutant: what is replayed is also what is packed.
ReplayRepacks(b) ==
    /\ pc[b] = "loaders"
    /\ IF tree.data \in Sound
       THEN Goto(b, "link", [local[b] EXCEPT !.content = tree])
       ELSE Stop(b, 2)
    /\ UNCHANGED <<checkout, files>>

\* ... then the data, and the loaders read them for themselves.
Replay(b) ==
    /\ pc[b] = "loaders"
    /\ IF tree.data \in Sound
       THEN Goto(b, "link", local[b])
       ELSE Stop(b, 2)
    /\ UNCHANGED <<checkout, files>>

PackageOf(b) == [freeze |-> b, commit |-> local[b].commit, content |-> local[b].content]

\* Mutant: the temporary file is moved over the path.
LinkReplacing(b) ==
    /\ pc[b] = "link"
    /\ archive' = PackageOf(b)
    /\ Go(b, "digest", Running, [Nothing EXCEPT !.made = PackageOf(b)])
    /\ UNCHANGED <<checkout, sidecar, target>>

\* _write_archive: a temporary file, verified, is linked to the path, which
\* must be free.  With --sign-key the archive is signed next.
Link(b) ==
    /\ pc[b] = "link"
    /\ IF Verifies(PackageOf(b)) /\ archive = NoFile
       THEN /\ archive' = PackageOf(b)
            /\ \E sign \in BOOLEAN :
                  Go(b, IF sign THEN "digest" ELSE "done", IF sign THEN Running ELSE 0,
                     [Nothing EXCEPT !.made = PackageOf(b)])
       ELSE Stop(b, 2) /\ UNCHANGED archive
    /\ UNCHANGED <<checkout, sidecar, target>>

\* sign_archive reads the file at the path again for its digest.
DigestBuilt(b) ==
    /\ pc[b] = "digest"
    /\ IF archive # NoFile
       THEN Goto(b, "sign", [local[b] EXCEPT !.bytes = archive])
       ELSE Stop(b, 2)
    /\ UNCHANGED <<checkout, files>>

\* The statement describes the package that was built, the digest the file
\* that was read.  An existing sidecar is not overwritten, though then the
\* archive stays behind unsigned.
Sign(b) ==
    /\ pc[b] = "sign"
    /\ IF sidecar = NoFile
       THEN /\ sidecar' = [digest |-> local[b].bytes, signer |-> b,
                           statement |-> StatementOf(local[b].made)]
            /\ Goto(b, "settle", local[b])
       ELSE Stop(b, 2) /\ UNCHANGED sidecar
    /\ UNCHANGED <<checkout, archive, target>>

\* _build asks check_signature for the state it reports, which reads the file
\* once more.  Whatever the state, the command succeeds.
Settle(b) ==
    /\ pc[b] = "settle"
    /\ Stop(b, IF archive # NoFile THEN 0 ELSE 2)
    /\ UNCHANGED <<checkout, files>>

-----------------------------------------------------------------------------
(* _read: verify and restore.                                              *)

\* check_signature, first the digest of the file ...
Digest(c) ==
    /\ pc[c] = "start"
    /\ IF archive = NoFile THEN Stop(c, 2)
       ELSE \E demanded \in BOOLEAN, command \in {"verify", "restore"} :
              Goto(c, "signature", [local[c] EXCEPT
                  !.bytes = archive, !.demanded = demanded, !.command = command])
    /\ UNCHANGED <<checkout, files>>

StateOf(digest, demanded) ==
    IF sidecar = NoFile THEN "absent"
    ELSE IF sidecar.digest # digest THEN "invalid"
    ELSE IF ~demanded THEN "not_checked"
    ELSE IF sidecar.signer \notin Listed THEN "unknown_signer"
    ELSE "verified"

SignatureCode(state) == [absent |-> 3, invalid |-> 4, unknown_signer |-> 5][state]

\* ... then the sidecar.  A state that was asked for and is not "verified"
\* ends the run before the archive is opened.
CheckSignature(c) ==
    LET state == StateOf(local[c].bytes, local[c].demanded)
        statement == IF sidecar = NoFile THEN NoFile
                     ELSE [digest |-> sidecar.digest, of |-> sidecar.statement]
    IN  /\ pc[c] = "signature"
        /\ IF local[c].demanded /\ state # "verified"
           THEN Stop(c, SignatureCode(state))
           ELSE Goto(c, "open", [local[c] EXCEPT !.statement = statement])
        /\ UNCHANGED <<checkout, files>>

\* Mutant: what was verified is restored without a replay.
OpenUnreplayed(c) ==
    /\ pc[c] = "open"
    /\ IF Verifies(archive) /\ (local[c].command = "restore" => target = NoFile)
       THEN Goto(c, IF local[c].command = "restore" THEN "rename" ELSE "match",
                 [local[c] EXCEPT !.content = archive])
       ELSE Stop(c, 2)
    /\ UNCHANGED <<checkout, files>>

\* verify_export, or restore_export up to its staging directory: the archive is
\* read again, once, and everything that follows works on those bytes.  For
\* restore the destination must be free and the loaders take the staged data.
Open(c) ==
    /\ pc[c] = "open"
    /\ IF /\ Verifies(archive)
          /\ local[c].command = "restore" => target = NoFile /\ archive.content.data \in Sound
       THEN Goto(c, IF local[c].command = "restore" THEN "rename" ELSE "match",
                 [local[c] EXCEPT !.content = archive])
       ELSE Stop(c, 2)
    /\ UNCHANGED <<checkout, files>>

\* _rename_no_replace.
Rename(c) ==
    /\ pc[c] = "rename"
    /\ IF target = NoFile
       THEN target' = local[c].content /\ Goto(c, "match", local[c])
       ELSE Stop(c, 2) /\ UNCHANGED target
    /\ UNCHANGED <<checkout, archive, sidecar>>

\* Mutant: the digest is compared, the package is not.
MatchesDigest(l) == l.statement # NoFile => l.statement.digest = l.bytes

\* statement_matches_manifest: the digest that was checked and the package
\* that was opened are the ones the sidecar names.
Matches(l) ==
    l.statement # NoFile =>
        l.statement = [digest |-> l.bytes, of |-> StatementOf(l.content)]

Match(c) ==
    /\ pc[c] = "match"
    /\ Stop(c, IF Matches(local[c]) THEN 0 ELSE 4)
    /\ UNCHANGED <<checkout, files>>

-----------------------------------------------------------------------------
(* Everybody else.                                                         *)

\* Somebody removes the archive, with its sidecar or without.
Discard ==
    /\ archive # NoFile
    /\ archive' = NoFile
    /\ sidecar' \in {sidecar, NoFile}
    /\ UNCHANGED <<checkout, target, pc, local, exit>>

\* Somebody puts a package back that was built earlier.
Swap(b) ==
    /\ local[b].made # NoFile
    /\ archive' = local[b].made
    /\ UNCHANGED <<checkout, sidecar, target, pc, local, exit>>

\* A byte changes on the way.
Alter ==
    /\ archive # NoFile
    /\ archive' = Altered
    /\ UNCHANGED <<checkout, sidecar, target, pc, local, exit>>

\* Another program takes the destination.
Appear ==
    /\ target = NoFile
    /\ target' = Other
    /\ UNCHANGED <<checkout, archive, sidecar, pc, local, exit>>

\* What is left of a builder that packed the first commit.
Past(b, t) == [Nothing EXCEPT !.made = [freeze |-> b, commit |-> 1, content |-> t]]

Init ==
    /\ tree \in {t \in Trees : Pinned(t) /\ (Earlier # {} => t.data \in Sound)}
    /\ log = <<tree>>
    /\ archive = NoFile /\ sidecar = NoFile /\ target = NoFile
    /\ pc = [p \in Builders \cup Consumers |->
               IF p \in Earlier THEN "done" ELSE IF p \in Builders THEN "load" ELSE "start"]
    /\ local = [p \in Builders \cup Consumers |->
                  IF p \in Earlier THEN Past(p, tree) ELSE Nothing]
    /\ exit = [p \in Builders \cup Consumers |-> IF p \in Earlier THEN 0 ELSE Running]

Build(b) ==
    \/ Load(b) \/ LoadEntries(b) \/ Read(b) \/ BindHead(b) \/ Reload(b) \/ Replay(b)
    \/ Link(b) \/ DigestBuilt(b) \/ Sign(b) \/ Settle(b)

Consume(c) == Digest(c) \/ CheckSignature(c) \/ Open(c) \/ Rename(c) \/ Match(c)

Next ==
    \/ CommitTree \/ Discard \/ Alter \/ Appear
    \/ \E t \in Trees : Edit(t)
    \/ \E b \in Builders : Build(b) \/ Swap(b)
    \/ \E c \in Consumers : Consume(c)

Spec == Init /\ [][Next]_vars

-----------------------------------------------------------------------------
(* Properties.                                                             *)

Processes == Builders \cup Consumers

\* Types of the variables.
TypeOK ==
    /\ tree \in Trees
    /\ log \in Seq(Trees) /\ Len(log) \in 1 .. MaxCommits
    /\ archive \in Packages \cup {NoFile, Altered}
    /\ sidecar \in SidecarFiles \cup {NoFile}
    /\ target \in Packages \cup {NoFile, Other}
    /\ pc \in [Processes -> {"load", "pins", "read", "head", "replay", "repins", "loaders",
                             "link", "digest", "sign", "settle", "start", "signature", "open", "rename", "match", "done"}]
    /\ local \in [Processes -> Memory]
    /\ exit \in [Processes -> {Running, 0, 2, 3, 4, 5}]

\* A package says what its commit holds: though the checkout is read again and
\* again while people edit and commit, the files at the archive path and in
\* the restored directory are, all of them, those of the one commit that the
\* manifest names, and the profile among them pins the others.
ArchiveIsCommit ==
    \A p \in {archive, target} : p \in Packages =>
        /\ p.commit \in DOMAIN log
        /\ p.content = log[p.commit]
        /\ Pinned(p.content)

\* A consumer who asked for a listed signer and is told that all is well opened
\* a package that such a signer built and whose statement it signed, although
\* the digest and the package are read from the path one after the other, the
\* signer too signed what it found there, and the file can be replaced at any
\* time.
VerifiedIsSigned ==
    \A c \in Consumers : exit[c] = 0 /\ local[c].demanded =>
        /\ local[c].content.freeze \in Listed
        /\ local[c].content = local[local[c].content.freeze].made

\* A restored directory is complete, verified and replayed by the loaders from
\* the moment it can be seen, however the processes are killed.
RestoredIsSound ==
    target \in Packages => Verifies(target) /\ target.content.data \in Sound

\* Neither build nor restore ever replaces or removes what another process put
\* at the archive path, at the sidecar or at the destination.
NothingReplaced ==
    [][(\E b \in Builders : Build(b)) \/ (\E c \in Consumers : Consume(c)) =>
          /\ archive # NoFile => archive' = archive
          /\ sidecar # NoFile => sidecar' = sidecar
          /\ target # NoFile => target' = target]_vars

\* "On failure, the command does not create, merge into, overwrite, or remove
\* the requested target" (docs/EXPORT-RESTORE.md): a restore that has put its
\* directory in place does not end with a failure of its own.
FailureLeavesNothing ==
    [][\A c \in Consumers :
          pc[c] = "match" /\ pc'[c] = "done" /\ local[c].command = "restore" =>
              exit'[c] = 0]_vars
=============================================================================
