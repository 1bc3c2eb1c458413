----------------------- MODULE EvidenceExport_proofs -----------------------
(***************************************************************************)
(* Proofs about EvidenceExport, for any number of builders, consumers,     *)
(* versions and commits.  The inductive invariant says what each process   *)
(* knows at each of its steps; a step of one process leaves what the others *)
(* know alone, because the log only grows and a package once made stays    *)
(* made.                                                                   *)
(***************************************************************************)
EXTENDS EvidenceExport, Evaluation, Integers, SequenceTheorems, TLAPS

BuilderLabels == {"load", "pins", "read", "head", "replay", "repins", "loaders", "link",
                  "digest", "sign", "settle", "done"}
ConsumerLabels == {"start", "signature", "open", "rename", "match", "done"}
ExitCodes == {Running, 0, 2, 3, 4, 5}

\* A package that says what its commit holds.
Genuine(commits, p) ==
    /\ p \in Packages
    /\ p.commit \in DOMAIN commits
    /\ p.content = commits[p.commit]
    /\ Pinned(p.content)

\* A statement about the package of the builder that signed it.
Signed(memory, st) ==
    /\ st \in Statements
    /\ memory[st.freeze].made # NoFile
    /\ st = StatementOf(memory[st.freeze].made)

\* What a builder knows when it is at a label with a memory m.
BuilderKnows(commits, b, label, m) ==
    /\ label \in BuilderLabels
    /\ label \in {"load", "pins", "read", "head", "replay", "repins", "loaders", "link"} =>
          m.made = NoFile
    /\ label \in {"head", "replay", "repins", "loaders", "link"} => m.content \in Trees
    /\ label \in {"replay", "repins", "loaders", "link"} =>
          m.commit \in DOMAIN commits /\ m.content = commits[m.commit]
    /\ m.made # NoFile => Genuine(commits, m.made) /\ m.made.freeze = b
    /\ label \in {"digest", "sign", "settle"} => m.made # NoFile
    /\ label = "sign" => m.bytes \in Packages \cup {Altered}

\* What a consumer knows.
ConsumerKnows(commits, memory, label, code, m) ==
    /\ label \in ConsumerLabels
    /\ label # "done" => code = Running
    /\ label \in {"rename", "match"} => Genuine(commits, m.content)
    /\ label = "rename" => m.content.content.data \in Sound
    /\ label \in {"open", "rename", "match"} /\ m.demanded =>
          m.statement # NoFile /\ Signed(memory, m.statement.of) /\ m.statement.of.freeze \in Listed
    /\ label = "done" /\ code = 0 /\ m.demanded =>
          /\ m.content \in Packages
          /\ m.content.freeze \in Listed
          /\ m.content = memory[m.content.freeze].made

FilesOK ==
    /\ archive \in Packages => Genuine(log, archive)
    /\ target \in Packages => Genuine(log, target) /\ target.content.data \in Sound
    /\ sidecar # NoFile => Signed(local, sidecar.statement) /\ sidecar.signer = sidecar.statement.freeze

Types ==
    /\ tree \in Trees
    /\ log \in Seq(Trees) /\ Len(log) \in 1 .. MaxCommits
    /\ archive \in Packages \cup {NoFile, Altered}
    /\ sidecar \in SidecarFiles \cup {NoFile}
    /\ target \in Packages \cup {NoFile, Other}
    /\ pc \in [Processes -> BuilderLabels \cup ConsumerLabels]
    /\ local \in [Processes -> Memory]
    /\ exit \in [Processes -> ExitCodes]

Inv ==
    /\ Types
    /\ FilesOK
    /\ \A b \in Builders : BuilderKnows(log, b, pc[b], local[b])
    /\ \A c \in Consumers : ConsumerKnows(log, local, pc[c], exit[c], local[c])

-----------------------------------------------------------------------------

\* The log only grows and every package that was made stays made.
Grows ==
    /\ log' \in Seq(Trees) /\ Len(log') \in 1 .. MaxCommits
    /\ \A i \in DOMAIN log : i \in DOMAIN log' /\ log'[i] = log[i]
    /\ \A b \in Builders : local[b].made # NoFile => local'[b].made = local[b].made

\* What is genuine stays genuine.
LEMMA GenuineStays ==
    ASSUME Grows, NEW p, Genuine(log, p)
    PROVE  Genuine(log', p)
BY DEF Grows, Genuine

\* What is signed stays signed.
LEMMA SignedStays ==
    ASSUME Grows, NEW st, Signed(local, st)
    PROVE  Signed(local', st)
BY DEF Grows, Signed, Statements

\* What a builder knows stays true.
LEMMA BuilderStays ==
    ASSUME Grows, NEW b, NEW label, NEW m, BuilderKnows(log, b, label, m)
    PROVE  BuilderKnows(log', b, label, m)
<1>1. m.made # NoFile => Genuine(log', m.made)
  BY GenuineStays DEF BuilderKnows
<1>2. label \in {"replay", "repins", "loaders", "link"} => m.commit \in DOMAIN log' /\ m.content = log'[m.commit]
  BY DEF BuilderKnows, Grows
<1>3. QED
  BY <1>1, <1>2 DEF BuilderKnows

\* What a consumer knows stays true.
LEMMA ConsumerStays ==
    ASSUME Grows, NEW label, NEW code, NEW m,
           ConsumerKnows(log, local, label, code, m)
    PROVE  ConsumerKnows(log', local', label, code, m)
<1>1. label \in {"rename", "match"} => Genuine(log', m.content)
  BY GenuineStays DEF ConsumerKnows
<1>2. label \in {"open", "rename", "match"} /\ m.demanded => Signed(local', m.statement.of)
  BY SignedStays DEF ConsumerKnows
<1>3. ASSUME label = "done", code = 0, m.demanded
      PROVE  m.content = local'[m.content.freeze].made
  <2>1. m.content \in Packages /\ m.content = local[m.content.freeze].made
    BY <1>3 DEF ConsumerKnows
  <2>2. m.content # NoFile /\ m.content.freeze \in Builders
    BY <2>1, NotPackages DEF Packages
  <2>3. QED
    BY <2>1, <2>2 DEF Grows
<1>4. QED
  BY <1>1, <1>2, <1>3 DEF ConsumerKnows

\* A step that leaves the files leaves what they say.
LEMMA FilesStay ==
    ASSUME Grows, FilesOK, UNCHANGED files
    PROVE  FilesOK'
<1>1. UNCHANGED <<archive, target, sidecar>>
  BY DEF files
<1>2. archive \in Packages => Genuine(log', archive)
  BY GenuineStays DEF FilesOK
<1>3. target \in Packages => Genuine(log', target)
  BY GenuineStays DEF FilesOK
<1>4. sidecar # NoFile => Signed(local', sidecar.statement)
  BY SignedStays DEF FilesOK
<1>5. QED
  BY <1>1, <1>2, <1>3, <1>4 DEF FilesOK

-----------------------------------------------------------------------------

\* A step of builder b that ends at a label with a memory m for which the
\* invariant holds keeps the invariant, whatever it does to the files, if it
\* leaves them right.
LEMMA BuilderStep ==
    ASSUME Inv, NEW b \in Builders, NEW label \in BuilderLabels, NEW code \in ExitCodes, NEW m \in Memory,
           Go(b, label, code, m), UNCHANGED checkout,
           archive' \in Packages \cup {NoFile, Altered}, sidecar' \in SidecarFiles \cup {NoFile},
           target' \in Packages \cup {NoFile, Other},
           local[b].made \in {NoFile, m.made},
           BuilderKnows(log, b, label, m),
           Grows => FilesOK'
    PROVE  Inv'
<1>1. b \in Processes /\ tree' = tree /\ log' = log
  BY DEF Processes, checkout
<1>2. Types'
  BY <1>1 DEF Inv, Types, Go
<1>3. local'[b] = m /\ pc'[b] = label /\ exit'[b] = code
  BY <1>1 DEF Inv, Types, Go
<1>4. \A q \in Processes : q # b => local'[q] = local[q] /\ pc'[q] = pc[q] /\ exit'[q] = exit[q]
  BY DEF Inv, Types, Go
<1>5. Grows
  BY <1>1, <1>3, <1>4 DEF Grows, Inv, Types, Processes
<1>6. ASSUME NEW q \in Builders PROVE BuilderKnows(log', q, pc'[q], local'[q])
  <2>1. CASE q = b
    BY <2>1, <1>1, <1>3
  <2>2. CASE q # b
    BY <2>2, <1>4, <1>5, BuilderStays DEF Inv, Processes
  <2>3. QED
    BY <2>1, <2>2
<1>7. ASSUME NEW c \in Consumers PROVE ConsumerKnows(log', local', pc'[c], exit'[c], local'[c])
  <2>1. c # b /\ c \in Processes
    BY ExportAssumption DEF Processes
  <2>2. QED
    BY <2>1, <1>4, <1>5, ConsumerStays DEF Inv
<1>8. QED
  BY <1>2, <1>5, <1>6, <1>7 DEF Inv

\* The same for a consumer, which makes no package.
LEMMA ConsumerStep ==
    ASSUME Inv, NEW c \in Consumers, NEW label \in ConsumerLabels, NEW code \in ExitCodes, NEW m \in Memory,
           Go(c, label, code, m), UNCHANGED checkout,
           archive' = archive, sidecar' = sidecar,
           target' \in Packages \cup {NoFile, Other},
           ConsumerKnows(log, local, label, code, m),
           Grows => FilesOK'
    PROVE  Inv'
<1>1. c \in Processes /\ tree' = tree /\ log' = log
  BY DEF Processes, checkout
<1>2. Types'
  BY <1>1 DEF Inv, Types, Go
<1>3. local'[c] = m /\ pc'[c] = label /\ exit'[c] = code
  BY <1>1 DEF Inv, Types, Go
<1>4. \A q \in Processes : q # c => local'[q] = local[q] /\ pc'[q] = pc[q] /\ exit'[q] = exit[q]
  BY DEF Inv, Types, Go
<1>5. \A q \in Builders : q # c /\ q \in Processes
  BY ExportAssumption DEF Processes
<1>6. Grows
  BY <1>1, <1>4, <1>5 DEF Grows, Inv, Types
<1>7. ASSUME NEW q \in Builders PROVE BuilderKnows(log', q, pc'[q], local'[q])
  BY <1>4, <1>5, <1>6, BuilderStays DEF Inv
<1>8. ASSUME NEW q \in Consumers PROVE ConsumerKnows(log', local', pc'[q], exit'[q], local'[q])
  <2>0. q \in Processes
    BY DEF Processes
  <2>1. CASE q = c
    BY <2>1, <1>3, <1>6, ConsumerStays
  <2>2. CASE q # c
    BY <2>0, <2>2, <1>4, <1>6, ConsumerStays DEF Inv
  <2>3. QED
    BY <2>1, <2>2
<1>9. QED
  BY <1>2, <1>6, <1>7, <1>8 DEF Inv

\* A step of anybody else keeps the invariant if it leaves the files right.
LEMMA OutsideStep ==
    ASSUME Inv, UNCHANGED <<pc, local, exit>>,
           tree' \in Trees, log' \in Seq(Trees), Len(log') \in 1 .. MaxCommits,
           \A i \in DOMAIN log : i \in DOMAIN log' /\ log'[i] = log[i],
           archive' \in Packages \cup {NoFile, Altered}, sidecar' \in SidecarFiles \cup {NoFile},
           target' \in Packages \cup {NoFile, Other},
           Grows => FilesOK'
    PROVE  Inv'
<1>1. Grows
  BY DEF Grows
<1>2. Types'
  BY DEF Inv, Types
<1>3. QED
  BY <1>1, <1>2, BuilderStays, ConsumerStays DEF Inv

\* What is left of the memory of a process that ends.
Left(p, code) ==
    [Nothing EXCEPT !.made = local[p].made,
                    !.demanded = local[p].demanded /\ code = 0,
                    !.content = IF code = 0 THEN local[p].content ELSE NoFile]

LEMMA LeftType ==
    ASSUME Types, NEW p \in Processes, NEW code
    PROVE  /\ Left(p, code) \in Memory
           /\ Left(p, code).made = local[p].made
           /\ Left(p, code).demanded = (local[p].demanded /\ code = 0)
           /\ code = 0 => Left(p, code).content = local[p].content
<1>1. local[p] \in Memory /\ 0 \in 0 .. MaxCommits
  BY ExportAssumption DEF Types
<1>2. (local[p].demanded /\ code = 0) \in BOOLEAN
  OBVIOUS
<1>3. Left(p, code) \in Memory
  <2>1. Left(p, code) = [Nothing EXCEPT !.made = local[p].made,
                                        !.demanded = local[p].demanded /\ code = 0,
                                        !.content = IF code = 0 THEN local[p].content
                                                    ELSE NoFile]
    BY DEF Left
  <2>2. Left(p, code) = [profile  |-> NoFile,
                         content  |-> IF code = 0 THEN local[p].content ELSE NoFile,
                         commit   |-> 0, made |-> local[p].made, bytes |-> NoFile,
                         statement |-> NoFile,
                         demanded |-> local[p].demanded /\ code = 0, command |-> "build"]
    BY <2>1 DEF Nothing
  <2>3. /\ (IF code = 0 THEN local[p].content ELSE NoFile) \in Trees \cup Packages \cup {NoFile}
        /\ local[p].made \in Packages \cup {NoFile}
    BY <1>1 DEF Memory
  <2>4. QED
    BY <1>1, <1>2, <2>2, <2>3 DEF Memory
<1>4. /\ Left(p, code).made = local[p].made
      /\ Left(p, code).demanded = (local[p].demanded /\ code = 0)
      /\ code = 0 => Left(p, code).content = local[p].content
  BY DEF Left, Nothing
<1>5. QED
  BY <1>3, <1>4

\* A builder may end at any step and with any code.
LEMMA BuilderStops ==
    ASSUME Inv, NEW b \in Builders, NEW code \in ExitCodes, Stop(b, code), UNCHANGED <<checkout, files>>
    PROVE  Inv'
<1>1. b \in Processes
  BY DEF Processes
<1>2. Go(b, "done", code, Left(b, code))
  BY DEF Stop, Left
<1>3. BuilderKnows(log, b, "done", Left(b, code))
  BY <1>1, LeftType DEF Inv, BuilderKnows, BuilderLabels
<1>4. UNCHANGED <<archive, sidecar, target>> /\ Left(b, code) \in Memory /\ "done" \in BuilderLabels
  BY <1>1, LeftType DEF files, Inv, BuilderLabels
<1>5. Grows => FilesOK'
  BY FilesStay DEF Inv
<1>6. local[b].made \in {NoFile, Left(b, code).made}
  BY <1>1, LeftType DEF Inv
<1>7. QED
  BY <1>2, <1>3, <1>4, <1>5, <1>6, BuilderStep DEF Inv, Types

\* A consumer may end at any step with a failure.
LEMMA ConsumerStops ==
    ASSUME Inv, NEW c \in Consumers, NEW code \in ExitCodes \ {0}, Stop(c, code), UNCHANGED <<checkout, files>>
    PROVE  Inv'
<1>1. c \in Processes
  BY DEF Processes
<1>2. Go(c, "done", code, Left(c, code))
  BY DEF Stop, Left
<1>3. ConsumerKnows(log, local, "done", code, Left(c, code))
  BY <1>1, LeftType DEF Inv, ConsumerKnows, ConsumerLabels
<1>4. UNCHANGED <<archive, sidecar, target>> /\ Left(c, code) \in Memory /\ "done" \in ConsumerLabels
  BY <1>1, LeftType DEF files, Inv, ConsumerLabels
<1>5. Grows => FilesOK'
  BY FilesStay DEF Inv
<1>6. QED
  BY <1>2, <1>3, <1>4, <1>5, ConsumerStep DEF Inv, Types

-----------------------------------------------------------------------------

\* A builder that goes on without touching a file.
LEMMA BuilderGoes ==
    ASSUME Inv, NEW b \in Builders, NEW label \in BuilderLabels, NEW m \in Memory,
           Goto(b, label, m), UNCHANGED <<checkout, files>>,
           m.made = local[b].made, BuilderKnows(log, b, label, m)
    PROVE  Inv'
<1>1. Go(b, label, Running, m) /\ Running \in ExitCodes
  BY DEF Goto, ExitCodes
<1>2. UNCHANGED <<archive, sidecar, target>>
  BY DEF files
<1>3. Grows => FilesOK'
  BY FilesStay DEF Inv
<1>4. QED
  BY <1>1, <1>2, <1>3, BuilderStep DEF Inv, Types

\* The steps of a builder.
LEMMA BuildKeeps ==
    ASSUME Inv, NEW b \in Builders, Build(b)
    PROVE  Inv'
<1> DEFINE m == local[b]
<1>0. b \in Processes /\ m \in Memory /\ BuilderKnows(log, b, pc[b], m) /\ tree \in Trees
      /\ {0, 2, Running} \subseteq ExitCodes
  BY DEF Processes, Inv, Types, ExitCodes
<1>1. CASE Load(b)
  <2> DEFINE n == [m EXCEPT !.profile = tree.profile]
  <2>1. n \in Memory /\ n.made = m.made
    BY <1>0 DEF Memory, Trees
  <2>2. BuilderKnows(log, b, "pins", n)
    BY <1>0, <1>1, <2>1 DEF BuilderKnows, BuilderLabels, Load
  <2>3. "pins" \in BuilderLabels
    BY DEF BuilderLabels
  <2>4. QED
    BY <1>0, <1>1, <2>1, <2>2, <2>3, BuilderGoes, BuilderStops DEF Load
<1>9. CASE LoadEntries(b)
  <2> DEFINE next == IF pc[b] = "pins" THEN "read" ELSE "loaders"
  <2>1. BuilderKnows(log, b, next, m)
    BY <1>0, <1>9 DEF BuilderKnows, BuilderLabels, LoadEntries
  <2>2. next \in BuilderLabels
    BY DEF BuilderLabels
  <2>3. QED
    BY <1>0, <1>9, <2>1, <2>2, BuilderGoes, BuilderStops DEF LoadEntries
<1>10. CASE Reload(b)
  <2> DEFINE n == [m EXCEPT !.profile = tree.profile]
  <2>1. n \in Memory /\ n.made = m.made /\ n.content = m.content /\ n.commit = m.commit
    BY <1>0 DEF Memory, Trees
  <2>2. BuilderKnows(log, b, "repins", n)
    BY <1>0, <1>10, <2>1 DEF BuilderKnows, BuilderLabels, Reload
  <2>3. "repins" \in BuilderLabels
    BY DEF BuilderLabels
  <2>4. QED
    BY <1>0, <1>10, <2>1, <2>2, <2>3, BuilderGoes DEF Reload
<1>2. CASE Read(b)
  <2> DEFINE n == [m EXCEPT !.content = tree]
  <2>1. n \in Memory /\ n.made = m.made /\ n.content = tree
    BY <1>0 DEF Memory
  <2>2. BuilderKnows(log, b, "head", n)
    BY <1>0, <1>2, <2>1 DEF BuilderKnows, BuilderLabels, Read
  <2>3. "head" \in BuilderLabels
    BY DEF BuilderLabels
  <2>4. QED
    BY <1>0, <1>2, <2>1, <2>2, <2>3, BuilderGoes, BuilderStops DEF Read
<1>3. CASE BindHead(b)
  <2> DEFINE n == [m EXCEPT !.commit = Len(log)]
  <2>0. Len(log) \in 1 .. MaxCommits /\ Len(log) \in DOMAIN log
    BY DEF Inv, Types
  <2>1. n \in Memory /\ n.made = m.made /\ n.content = m.content /\ n.commit = Len(log)
    BY <1>0, <2>0 DEF Memory
  <2>2. CASE m.content = log[Len(log)]
    <3>1. BuilderKnows(log, b, "replay", n)
      BY <1>0, <1>3, <2>0, <2>1, <2>2 DEF BuilderKnows, BuilderLabels, BindHead
    <3>2. "replay" \in BuilderLabels
      BY DEF BuilderLabels
    <3>3. QED
      BY <1>0, <1>3, <2>1, <2>2, <3>1, <3>2, BuilderGoes DEF BindHead
  <2>3. CASE m.content # log[Len(log)]
    BY <1>0, <1>3, <2>3, BuilderStops DEF BindHead
  <2>4. QED
    BY <2>2, <2>3
<1>4. CASE Replay(b)
  <2>1. BuilderKnows(log, b, "link", m)
    BY <1>0, <1>4 DEF BuilderKnows, BuilderLabels, Replay
  <2>2. "link" \in BuilderLabels
    BY DEF BuilderLabels
  <2>3. QED
    BY <1>0, <1>4, <2>1, <2>2, BuilderGoes, BuilderStops DEF Replay
<1>5. CASE Link(b)
  <2> DEFINE p == PackageOf(b)
             n == [Nothing EXCEPT !.made = p]
  <2>1. CASE Verifies(p) /\ archive = NoFile
    <3>1. Genuine(log, p) /\ p.freeze = b /\ p \in Packages
      BY <1>0, <1>5, <2>1 DEF Link, BuilderKnows, Genuine, Verifies, PackageOf
    <3>2. n \in Memory /\ n.made = p
      <4>1. 0 \in 0 .. MaxCommits /\ p \in Packages
        BY <3>1, ExportAssumption
      <4>2. QED
        BY <4>1 DEF Nothing, Memory
    <3>3. PICK sign \in BOOLEAN :
              Go(b, IF sign THEN "digest" ELSE "done", IF sign THEN Running ELSE 0, n)
      BY <1>5, <2>1 DEF Link
    <3>4. archive' = p /\ UNCHANGED <<checkout, sidecar, target>>
      BY <1>5, <2>1 DEF Link
    <3>5. /\ BuilderKnows(log, b, "digest", n)
          /\ BuilderKnows(log, b, "done", n)
          /\ {"digest", "done"} \subseteq BuilderLabels
      BY <3>1, <3>2, NotPackages DEF BuilderKnows, BuilderLabels
    <3>6. m.made = NoFile
      BY <1>0, <1>5 DEF BuilderKnows, Link
    <3>7. Grows => FilesOK'
      <4>1. Grows => Genuine(log', p)
        BY <3>1, GenuineStays
      <4>2. SUFFICES ASSUME Grows PROVE FilesOK'
        OBVIOUS
      <4>3. /\ target \in Packages => Genuine(log', target)
            /\ sidecar # NoFile => Signed(local', sidecar.statement)
        BY <4>2, GenuineStays, SignedStays DEF Inv, FilesOK
      <4>4. QED
        BY <3>4, <4>1, <4>2, <4>3 DEF Inv, FilesOK
    <3>8. QED
      <4>1. CASE sign
        BY <1>0, <3>1, <3>2, <3>3, <3>4, <3>5, <3>6, <3>7, <4>1, BuilderStep DEF Inv, Types
      <4>2. CASE ~sign
        BY <1>0, <3>1, <3>2, <3>3, <3>4, <3>5, <3>6, <3>7, <4>2, BuilderStep DEF Inv, Types
      <4>3. QED
        BY <4>1, <4>2
  <2>2. CASE ~(Verifies(p) /\ archive = NoFile)
    <3>1. Stop(b, 2) /\ UNCHANGED <<checkout, files>>
      BY <1>5, <2>2 DEF Link, files
    <3>2. QED
      BY <1>0, <3>1, BuilderStops
  <2>3. QED
    BY <2>1, <2>2
<1>6. CASE DigestBuilt(b)
  <2> DEFINE n == [m EXCEPT !.bytes = archive]
  <2>1. CASE archive # NoFile
    <3>1. archive \in Packages \cup {Altered}
      BY <2>1 DEF Inv, Types
    <3>2. n \in Memory /\ n.made = m.made /\ n.bytes = archive
      BY <1>0, <3>1 DEF Memory
    <3>3. BuilderKnows(log, b, "sign", n) /\ "sign" \in BuilderLabels
      BY <1>0, <1>6, <3>1, <3>2 DEF BuilderKnows, BuilderLabels, DigestBuilt
    <3>4. QED
      BY <1>0, <1>6, <2>1, <3>2, <3>3, BuilderGoes DEF DigestBuilt
  <2>2. CASE archive = NoFile
    BY <1>0, <1>6, <2>2, BuilderStops DEF DigestBuilt
  <2>3. QED
    BY <2>1, <2>2
<1>7. CASE Sign(b)
  <2> DEFINE s == [digest |-> m.bytes, signer |-> b, statement |-> StatementOf(m.made)]
  <2>1. CASE sidecar = NoFile
    <3>1. /\ m.made # NoFile /\ Genuine(log, m.made) /\ m.made.freeze = b
          /\ m.bytes \in Packages \cup {Altered}
      BY <1>0, <1>7 DEF BuilderKnows, Sign
    <3>2. m.made \in Packages
      BY <3>1 DEF Genuine
    <3>3. StatementOf(m.made) \in Statements /\ StatementOf(m.made).freeze = b
      BY <3>1, <3>2 DEF StatementOf, Statements, Packages, Trees
    <3>4. s \in SidecarFiles
      BY <3>1, <3>3 DEF SidecarFiles
    <3>5. /\ Goto(b, "settle", m) /\ sidecar' = s
          /\ UNCHANGED <<checkout, archive, target>>
      BY <1>7, <2>1 DEF Sign
    <3>6. BuilderKnows(log, b, "settle", m) /\ "settle" \in BuilderLabels
      BY <1>0, <3>1 DEF BuilderKnows, BuilderLabels
    <3>7. Signed(local, StatementOf(m.made))
      BY <3>1, <3>3 DEF Signed
    <3>8. Grows => FilesOK'
      <4>1. SUFFICES ASSUME Grows PROVE FilesOK'
        OBVIOUS
      <4>2. /\ target \in Packages => Genuine(log', target)
            /\ archive \in Packages => Genuine(log', archive)
            /\ Signed(local', StatementOf(m.made))
        BY <3>7, <4>1, GenuineStays, SignedStays DEF Inv, FilesOK
      <4>3. s.statement = StatementOf(m.made) /\ s.signer = b
        OBVIOUS
      <4>4. QED
        BY <3>3, <3>5, <4>1, <4>2, <4>3 DEF Inv, FilesOK
    <3>9. QED
      BY <1>0, <3>4, <3>5, <3>6, <3>8, BuilderStep DEF Inv, Types, Goto
  <2>2. CASE sidecar # NoFile
    <3>1. Stop(b, 2) /\ UNCHANGED <<checkout, files>>
      BY <1>7, <2>2 DEF Sign, files
    <3>2. QED
      BY <1>0, <3>1, BuilderStops
  <2>3. QED
    BY <2>1, <2>2
<1>8. CASE Settle(b)
  BY <1>0, <1>8, BuilderStops DEF Settle
<1>11. QED
  BY <1>1, <1>2, <1>3, <1>4, <1>5, <1>6, <1>7, <1>8, <1>9, <1>10 DEF Build

-----------------------------------------------------------------------------

\* Freeze, commit and profile determine a package that verifies.
LEMMA SamePackage ==
    ASSUME NEW p, NEW q, Genuine(log, p), Genuine(log, q), StatementOf(p) = StatementOf(q)
    PROVE  p = q
<1>1. p \in Packages /\ q \in Packages
  BY DEF Genuine
<1>2. p.freeze = q.freeze /\ p.commit = q.commit
  BY DEF StatementOf
<1>3. p.content = q.content
  BY <1>2 DEF Genuine
<1>4. QED
  BY <1>1, <1>2, <1>3 DEF Packages

\* A consumer that goes on without touching a file.
LEMMA ConsumerGoes ==
    ASSUME Inv, NEW c \in Consumers, NEW label \in ConsumerLabels, NEW m \in Memory,
           Goto(c, label, m), UNCHANGED <<checkout, files>>, ConsumerKnows(log, local, label, Running, m)
    PROVE  Inv'
<1>1. Go(c, label, Running, m) /\ Running \in ExitCodes
  BY DEF Goto, ExitCodes
<1>2. UNCHANGED <<archive, sidecar, target>>
  BY DEF files
<1>3. Grows => FilesOK'
  BY FilesStay DEF Inv
<1>4. QED
  BY <1>1, <1>2, <1>3, ConsumerStep DEF Inv, Types

\* The steps of a consumer.
LEMMA ConsumeKeeps ==
    ASSUME Inv, NEW c \in Consumers, Consume(c)
    PROVE  Inv'
<1> DEFINE m == local[c]
<1>0. /\ c \in Processes /\ m \in Memory /\ ConsumerKnows(log, local, pc[c], exit[c], m)
      /\ ExitCodes = {Running, 0, 2, 3, 4, 5}
      /\ \A code \in ExitCodes : code = Running => code # 0
  BY ExportAssumption DEF Processes, Inv, Types, ExitCodes
<1>1. CASE Digest(c)
  <2>1. CASE archive = NoFile
    BY <1>0, <1>1, <2>1, ConsumerStops DEF Digest
  <2>2. CASE archive # NoFile
    <3>1. PICK demanded \in BOOLEAN, command \in {"verify", "restore"} :
            Goto(c, "signature", [m EXCEPT !.bytes = archive, !.demanded = demanded, !.command = command])
      BY <1>1, <2>2 DEF Digest
    <3> DEFINE n == [m EXCEPT !.bytes = archive, !.demanded = demanded, !.command = command]
    <3>2. n \in Memory
      BY <1>0 DEF Memory, Inv, Types
    <3>3. ConsumerKnows(log, local, "signature", Running, n) /\ "signature" \in ConsumerLabels
      BY DEF ConsumerKnows, ConsumerLabels
    <3>4. QED
      BY <1>1, <3>1, <3>2, <3>3, ConsumerGoes DEF Digest
  <2>3. QED
    BY <2>1, <2>2
<1>2. CASE CheckSignature(c)
  <2> DEFINE state == StateOf(m.bytes, m.demanded)
             statement == IF sidecar = NoFile THEN NoFile
                          ELSE [digest |-> sidecar.digest, of |-> sidecar.statement]
             n == [m EXCEPT !.statement = statement]
  <2>1. CASE m.demanded /\ state # "verified"
    <3>1. state \in {"absent", "invalid", "unknown_signer"}
      BY <2>1 DEF StateOf
    <3>2. SignatureCode(state) \in ExitCodes \ {0}
      BY <3>1, <1>0, ExportAssumption DEF SignatureCode
    <3>3. QED
      BY <1>2, <2>1, <3>2, ConsumerStops DEF CheckSignature
  <2>2. CASE ~(m.demanded /\ state # "verified")
    <3>1. Goto(c, "open", n) /\ UNCHANGED <<checkout, files>>
      BY <1>2, <2>2 DEF CheckSignature
    <3>2. sidecar # NoFile => sidecar \in SidecarFiles /\ Signed(local, sidecar.statement)
                              /\ sidecar.signer = sidecar.statement.freeze
      BY DEF Inv, Types, FilesOK
    <3>3. n \in Memory /\ n.demanded = m.demanded /\ n.statement = statement
      BY <1>0, <3>2 DEF Memory, SidecarFiles, Attested
    <3>4. ASSUME m.demanded
          PROVE  statement # NoFile /\ Signed(local, statement.of) /\ statement.of.freeze \in Listed
      <4>1. state = "verified"
        BY <2>2, <3>4
      <4>2. sidecar # NoFile /\ sidecar.signer \in Listed
        BY <4>1 DEF StateOf
      <4>3. statement = [digest |-> sidecar.digest, of |-> sidecar.statement]
        BY <4>2
      <4>4. QED
        BY <3>2, <4>2, <4>3, NotPackages DEF Attested, SidecarFiles
    <3>5. ConsumerKnows(log, local, "open", Running, n) /\ "open" \in ConsumerLabels
      BY <3>3, <3>4 DEF ConsumerKnows, ConsumerLabels
    <3>6. QED
      BY <3>1, <3>3, <3>5, ConsumerGoes
  <2>3. QED
    BY <2>1, <2>2
<1>3. CASE Open(c)
  <2> DEFINE n == [m EXCEPT !.content = archive]
  <2>1. CASE /\ Verifies(archive)
             /\ m.command = "restore" => target = NoFile /\ archive.content.data \in Sound
    <3>1. archive \in Packages /\ Genuine(log, archive)
      BY <2>1 DEF Verifies, Inv, FilesOK
    <3>2. n \in Memory /\ n.content = archive /\ n.demanded = m.demanded /\ n.statement = m.statement
      BY <1>0, <3>1 DEF Memory
    <3>3. /\ m.command = "restore" => ConsumerKnows(log, local, "rename", Running, n)
          /\ m.command # "restore" => ConsumerKnows(log, local, "match", Running, n)
          /\ {"rename", "match"} \subseteq ConsumerLabels
      BY <1>0, <1>3, <2>1, <3>1, <3>2 DEF ConsumerKnows, ConsumerLabels, Open
    <3>4. QED
      BY <1>3, <2>1, <3>2, <3>3, ConsumerGoes DEF Open
  <2>2. CASE ~(/\ Verifies(archive)
               /\ m.command = "restore" => target = NoFile /\ archive.content.data \in Sound)
    <3>1. 2 \in ExitCodes \ {0}
      BY <1>0
    <3>2. QED
      BY <1>3, <2>2, <3>1, ConsumerStops DEF Open
  <2>3. QED
    BY <2>1, <2>2
<1>4. CASE Rename(c)
  <2>1. CASE target = NoFile
    <3>1. Genuine(log, m.content) /\ m.content.content.data \in Sound
      BY <1>0, <1>4 DEF ConsumerKnows, Rename
    <3>2. /\ Go(c, "match", Running, m) /\ target' = m.content
          /\ UNCHANGED <<checkout, archive, sidecar>>
      BY <1>4, <2>1 DEF Rename, Goto
    <3>3. m.content \in Packages
      BY <3>1 DEF Genuine
    <3>4. ConsumerKnows(log, local, "match", Running, m) /\ "match" \in ConsumerLabels
      BY <1>0, <1>4, <3>1 DEF ConsumerKnows, ConsumerLabels, Rename
    <3>5. Grows => FilesOK'
      <4>1. SUFFICES ASSUME Grows PROVE FilesOK'
        OBVIOUS
      <4>2. /\ Genuine(log', m.content)
            /\ archive \in Packages => Genuine(log', archive)
            /\ sidecar # NoFile => Signed(local', sidecar.statement)
        BY <3>1, <4>1, GenuineStays, SignedStays DEF Inv, FilesOK
      <4>3. QED
        BY <3>1, <3>2, <4>2 DEF Inv, FilesOK
    <3>6. QED
      BY <1>0, <3>2, <3>3, <3>4, <3>5, ConsumerStep
  <2>2. CASE target # NoFile
    <3>1. Stop(c, 2) /\ UNCHANGED <<checkout, files>> /\ 2 \in ExitCodes \ {0}
      BY <1>0, <1>4, <2>2 DEF Rename, files
    <3>2. QED
      BY <3>1, ConsumerStops
  <2>3. QED
    BY <2>1, <2>2
<1>5. CASE Match(c)
  <2>1. CASE ~Matches(m)
    <3>1. Stop(c, 4) /\ UNCHANGED <<checkout, files>> /\ 4 \in ExitCodes \ {0}
      BY <1>0, <1>5, <2>1 DEF Match
    <3>2. QED
      BY <3>1, ConsumerStops
  <2>2. CASE Matches(m)
    <3> DEFINE n == Left(c, 0)
    <3>1. Go(c, "done", 0, n) /\ UNCHANGED <<checkout, files>>
      BY <1>5, <2>2 DEF Match, Stop, Left
    <3>2. n \in Memory /\ n.content = m.content /\ n.demanded = m.demanded
      <4>1. Types
        BY DEF Inv
      <4>2. m.demanded \in BOOLEAN
        BY <1>0 DEF Memory
      <4>3. n \in Memory /\ n.demanded = (m.demanded /\ 0 = 0) /\ (0 = 0 => n.content = m.content)
        BY <1>0, <4>1, LeftType
      <4>4. QED
        BY <4>2, <4>3
    <3>3. Genuine(log, m.content)
      BY <1>0, <1>5 DEF ConsumerKnows, Match
    <3>4. ASSUME m.demanded
          PROVE  m.content.freeze \in Listed /\ m.content = local[m.content.freeze].made
      <4> DEFINE f == m.content.freeze
      <4>1. m.statement # NoFile /\ Signed(local, m.statement.of) /\ m.statement.of.freeze \in Listed
        BY <1>0, <1>5, <3>4 DEF ConsumerKnows, Match
      <4>2. m.statement.of = StatementOf(m.content)
        BY <2>2, <4>1 DEF Matches
      <4>3. f \in Listed /\ f \in Builders
        BY <4>1, <4>2, ExportAssumption DEF StatementOf
      <4>4. local[f].made # NoFile /\ StatementOf(m.content) = StatementOf(local[f].made)
        BY <4>1, <4>2 DEF Signed, StatementOf
      <4>5. Genuine(log, local[f].made)
        BY <4>3, <4>4 DEF Inv, BuilderKnows
      <4>6. m.content = local[f].made
        BY <3>3, <4>4, <4>5, SamePackage
      <4>7. QED
        BY <4>3, <4>6
    <3>5. ConsumerKnows(log, local, "done", 0, n) /\ "done" \in ConsumerLabels
      BY <3>2, <3>3, <3>4 DEF ConsumerKnows, ConsumerLabels, Genuine
    <3>6. Grows => FilesOK'
      BY <3>1, FilesStay DEF Inv
    <3>7. UNCHANGED <<archive, sidecar, target>>
      BY <3>1 DEF files
    <3>8. QED
      BY <1>0, <3>1, <3>2, <3>5, <3>6, <3>7, ConsumerStep DEF Inv, Types
  <2>3. QED
    BY <2>1, <2>2
<1>6. QED
  BY <1>1, <1>2, <1>3, <1>4, <1>5 DEF Consume

-----------------------------------------------------------------------------

\* Nobody outside reaches into a process, and what is put back at the archive
\* path was made by a builder.
LEMMA OutsideKeeps ==
    ASSUME Inv, CommitTree \/ Discard \/ Alter \/ Appear \/ (\E t \in Trees : Edit(t))
                \/ (\E b \in Builders : Swap(b))
    PROVE  Inv'
<1>0. /\ Types /\ FilesOK /\ log \in Seq(Trees) /\ Len(log) \in 1 .. MaxCommits /\ tree \in Trees
      /\ DOMAIN log = 1 .. Len(log)
  BY DEF Inv, Types
<1>1. CASE CommitTree
  <2>1. /\ log' \in Seq(Trees) /\ Len(log') = Len(log) + 1
        /\ \A i \in DOMAIN log : i \in DOMAIN log' /\ log'[i] = log[i]
    BY <1>0, <1>1, AppendProperties DEF CommitTree
  <2>2. Len(log') \in 1 .. MaxCommits
    <3>1. MaxCommits \in Nat /\ Len(log) \in Nat /\ Len(log) < MaxCommits
      BY <1>0, <1>1, ExportAssumption DEF CommitTree
    <3>2. QED
      BY <2>1, <3>1
  <2>3. UNCHANGED <<tree, files, pc, local, exit>> /\ UNCHANGED <<archive, sidecar, target>>
    BY <1>1 DEF CommitTree, files
  <2>4. Grows => FilesOK'
    BY <1>0, <2>3, FilesStay
  <2>5. QED
    BY <1>0, <2>1, <2>2, <2>3, <2>4, OutsideStep DEF Types
<1>2. CASE Discard \/ Alter
  <2>1. /\ archive' \in {NoFile, Altered} /\ sidecar' \in {sidecar, NoFile}
        /\ UNCHANGED <<tree, log, target, pc, local, exit>>
    BY <1>2 DEF Discard, Alter, checkout
  <2>2. Grows => FilesOK'
    <3>1. SUFFICES ASSUME Grows PROVE FilesOK'
      OBVIOUS
    <3>2. /\ target \in Packages => Genuine(log', target)
          /\ sidecar # NoFile => Signed(local', sidecar.statement)
      BY <1>0, <3>1, GenuineStays, SignedStays DEF FilesOK
    <3>3. QED
      BY <1>0, <2>1, <3>2, NotPackages DEF FilesOK
  <2>3. QED
    BY <1>0, <2>1, <2>2, OutsideStep DEF Types
<1>3. CASE Appear
  <2>1. target' = Other /\ UNCHANGED <<tree, log, archive, sidecar, pc, local, exit>>
    BY <1>3 DEF Appear, checkout
  <2>2. Grows => FilesOK'
    <3>1. SUFFICES ASSUME Grows PROVE FilesOK'
      OBVIOUS
    <3>2. /\ archive \in Packages => Genuine(log', archive)
          /\ sidecar # NoFile => Signed(local', sidecar.statement)
      BY <1>0, <3>1, GenuineStays, SignedStays DEF FilesOK
    <3>3. QED
      BY <1>0, <2>1, <3>2, NotPackages DEF FilesOK
  <2>3. QED
    BY <1>0, <2>1, <2>2, OutsideStep DEF Types
<1>4. CASE \E t \in Trees : Edit(t)
  <2>1. /\ tree' \in Trees /\ UNCHANGED <<log, files, pc, local, exit>>
        /\ UNCHANGED <<archive, sidecar, target>>
    BY <1>4 DEF Edit, files
  <2>2. Grows => FilesOK'
    BY <1>0, <2>1, FilesStay
  <2>3. QED
    BY <1>0, <2>1, <2>2, OutsideStep DEF Types
<1>5. CASE \E b \in Builders : Swap(b)
  <2>1. PICK b \in Builders : Swap(b)
    BY <1>5
  <2>2. archive' = local[b].made /\ UNCHANGED <<tree, log, sidecar, target, pc, local, exit>>
    BY <2>1 DEF Swap, checkout
  <2>3. Genuine(log, local[b].made)
    BY <2>1 DEF Swap, Inv, BuilderKnows
  <2>4. local[b].made \in Packages
    BY <2>3 DEF Genuine
  <2>5. Grows => FilesOK'
    <3>1. SUFFICES ASSUME Grows PROVE FilesOK'
      OBVIOUS
    <3>2. /\ Genuine(log', local[b].made)
          /\ target \in Packages => Genuine(log', target)
          /\ sidecar # NoFile => Signed(local', sidecar.statement)
      BY <1>0, <2>3, <3>1, GenuineStays, SignedStays DEF FilesOK
    <3>3. QED
      BY <1>0, <2>2, <3>2 DEF FilesOK
  <2>6. QED
    BY <1>0, <2>2, <2>4, <2>5, OutsideStep DEF Types
<1>6. QED
  BY <1>1, <1>2, <1>3, <1>4, <1>5

LEMMA InitInv == Init => Inv
<1> SUFFICES ASSUME Init PROVE Inv
  OBVIOUS
<1>1. tree \in Trees /\ log = <<tree>> /\ archive = NoFile /\ sidecar = NoFile /\ target = NoFile
  BY DEF Init
<1>2. log \in Seq(Trees) /\ Len(log) = 1 /\ Len(log) \in 1 .. MaxCommits
  BY <1>1, ExportAssumption
<1>3. Nothing \in Memory /\ Nothing.made = NoFile /\ Nothing.demanded = FALSE
  BY ExportAssumption DEF Nothing, Memory
<1>4. \A b \in Builders \ Earlier : pc[b] = "load" /\ local[b] = Nothing
  BY DEF Init
<1>5. \A c \in Consumers : pc[c] = "start" /\ local[c] = Nothing /\ exit[c] = Running
  BY ExportAssumption DEF Init
<1>11. ASSUME NEW b \in Earlier
       PROVE  /\ Past(b, tree) \in Memory
              /\ Past(b, tree).made \in Packages
              /\ Genuine(log, Past(b, tree).made) /\ Past(b, tree).made.freeze = b
  <2> DEFINE p == [freeze |-> b, commit |-> 1, content |-> tree]
  <2>1. p \in Packages
    BY <1>1, ExportAssumption DEF Packages
  <2>2. Past(b, tree).made = p /\ Past(b, tree) \in Memory
    BY <1>3, <2>1 DEF Past, Nothing, Memory
  <2>3. Genuine(log, p)
    BY <1>1, <2>1 DEF Genuine, Init
  <2>4. QED
    BY <2>1, <2>2, <2>3
<1>12. \A b \in Earlier : pc[b] = "done" /\ local[b] = Past(b, tree)
  BY ExportAssumption DEF Init
<1>6. Types
  <2>1. local \in [Processes -> Memory]
    BY <1>3, <1>11 DEF Init, Processes
  <2>2. pc \in [Processes -> BuilderLabels \cup ConsumerLabels]
    BY DEF Init, Processes, BuilderLabels, ConsumerLabels
  <2>3. exit \in [Processes -> ExitCodes]
    BY DEF Init, Processes, ExitCodes
  <2>4. QED
    BY <1>1, <1>2, <2>1, <2>2, <2>3 DEF Types
<1>7. FilesOK
  BY <1>1, NotPackages DEF FilesOK
<1>8. ASSUME NEW b \in Builders PROVE BuilderKnows(log, b, pc[b], local[b])
  <2>1. CASE b \in Earlier
    BY <2>1, <1>11, <1>12, ExportAssumption DEF BuilderKnows, BuilderLabels
  <2>2. CASE b \notin Earlier
    BY <2>2, <1>3, <1>4 DEF BuilderKnows, BuilderLabels
  <2>3. QED
    BY <2>1, <2>2
<1>9. \A c \in Consumers : ConsumerKnows(log, local, pc[c], exit[c], local[c])
  BY <1>5 DEF ConsumerKnows, ConsumerLabels
<1>10. QED
  BY <1>6, <1>7, <1>8, <1>9 DEF Inv

LEMMA NextInv == Inv /\ [Next]_vars => Inv'
<1> SUFFICES ASSUME Inv, [Next]_vars PROVE Inv'
  OBVIOUS
<1>1. CASE UNCHANGED vars
  <2>1. /\ UNCHANGED <<pc, local, exit, tree, log, archive, sidecar, target>>
        /\ UNCHANGED files
    BY <1>1 DEF vars, files
  <2>2. Grows => FilesOK'
    BY <2>1, FilesStay DEF Inv
  <2>3. QED
    BY <2>1, <2>2, OutsideStep DEF Inv, Types
<1>2. CASE Next
  BY <1>2, BuildKeeps, ConsumeKeeps, OutsideKeeps DEF Next
<1>3. QED
  BY <1>1, <1>2

\* The inductive invariant holds.
THEOREM Invariance == Spec => []Inv
BY InitInv, NextInv, PTL DEF Spec

-----------------------------------------------------------------------------

\* Every variable keeps its type.
THEOREM TypeCorrect == Spec => []TypeOK
<1>1. Inv => TypeOK
  BY DEF Inv, Types, TypeOK, BuilderLabels, ConsumerLabels, ExitCodes
<1>2. QED
  BY <1>1, Invariance, PTL

\* What is published says what the commit that it names holds.
THEOREM ArchivesAreCommits == Spec => []ArchiveIsCommit
<1>1. Inv => ArchiveIsCommit
  BY DEF Inv, FilesOK, ArchiveIsCommit, Genuine
<1>2. QED
  BY <1>1, Invariance, PTL

\* What is accepted was built and described by a listed signer.
THEOREM VerifiedMeansSigned == Spec => []VerifiedIsSigned
<1>1. Inv => VerifiedIsSigned
  <2> SUFFICES ASSUME Inv, NEW c \in Consumers, exit[c] = 0, local[c].demanded
               PROVE  /\ local[c].content.freeze \in Listed
                      /\ local[c].content = local[local[c].content.freeze].made
    BY DEF VerifiedIsSigned
  <2>1. ConsumerKnows(log, local, pc[c], exit[c], local[c]) /\ exit[c] # Running
    BY ExportAssumption DEF Inv
  <2>2. QED
    BY <2>1 DEF ConsumerKnows
<1>2. QED
  BY <1>1, Invariance, PTL

\* A refiles directory that can be seen verifies and was replayed.
THEOREM RestoredIsReplayed == Spec => []RestoredIsSound
<1>1. Inv => RestoredIsSound
  BY DEF Inv, FilesOK, RestoredIsSound, Genuine, Verifies
<1>2. QED
  BY <1>1, Invariance, PTL

\* No step of build, verify or restore replaces a file.
THEOREM NoStepReplaces == Spec => NothingReplaced
<1> DEFINE A == (\E b \in Builders : Build(b)) \/ (\E c \in Consumers : Consume(c)) =>
                  /\ archive # NoFile => archive' = archive
                  /\ sidecar # NoFile => sidecar' = sidecar
                  /\ target # NoFile => target' = target
<1>1. ASSUME NEW b \in Builders, Build(b)
      PROVE  /\ archive # NoFile => archive' = archive
             /\ sidecar # NoFile => sidecar' = sidecar
             /\ target' = target
  BY <1>1 DEF Build, Load, LoadEntries, Read, BindHead, Reload, Replay, Link, DigestBuilt, Sign,
                Settle, files, checkout
<1>2. ASSUME NEW c \in Consumers, Consume(c)
      PROVE  archive' = archive /\ sidecar' = sidecar /\ (target # NoFile => target' = target)
  BY <1>2 DEF Consume, Digest, CheckSignature, Open, Rename, Match, files, checkout
<1>3. [A]_vars
  BY <1>1, <1>2
<1>4. QED
  BY <1>3, PTL DEF NothingReplaced

-----------------------------------------------------------------------------
(* The evaluation of the scanner.                                          *)

FileNames  == {"scanner", "checks", "evaluator", "plan", "cases", "key", "predictions", "result"}
CaseFields == {"freeze", "frozen", "retrieved", "passage", "source"}
KeyFields  == {"freeze", "cases", "checks", "people", "seen", "first", "second", "recorded",
               "final", "lawAsOf", "reviewed", "adjudicated", "unblinded"}

ReceiptFields == {"plan", "cases", "key", "predictions", "at", "cells", "misstated"}
RunFields  == {"at", "exit", "command", "amended", "code", "dated", "plan", "cases",
               "evaluator", "found", "key", "predictions", "shown"}

\* A label is the one that a reader gives to the passage it is of, or none.
Honest(key) ==
    \A p \in DOMAIN key.final :
        key.final[p] \in {RightLabels[key.cases.passage[p[1]]][p[2]], "reference_abstain"}

\* Predictions are what the plan's scanner finds, unless files were edited meanwhile.
FoundBlind(predictions) ==
    predictions.amended \/
    \A c \in CaseNames : predictions.found[c] =
        Finds[predictions.plan.scanner][predictions.plan.checks][predictions.cases.passage[c]]

\* A key and predictions that a command took.
TakenKey(key, plan, cases) == key # None /\ Honest(key) /\ KeyLoads(key, plan, cases)

TakenPredictions(predictions, plan, cases) ==
    /\ predictions # None /\ FoundBlind(predictions)
    /\ PredictionsLoad(predictions, plan, cases, predictions.evaluator)

\* The score of what a receipt names.
Scored(result) ==
    Score(result.plan, result.cases, result.key, result.predictions, result.at)

\* A receipt is the score of files that load.
Receipt(result) ==
    /\ ChecksOf[result.plan.checks] = result.plan.ids
    /\ CasesLoad(result.cases, result.plan)
    /\ TakenKey(result.key, result.plan, result.cases)
    /\ TakenPredictions(result.predictions, result.plan, result.cases)
    /\ Scorable(result.key, result.predictions, result.at)
    /\ ~result.misstated => result = Scored(result)

DiskInv ==
    /\ DOMAIN disk = FileNames /\ DOMAIN disk.cases = CaseFields
    /\ disk.key # None => DOMAIN disk.key = KeyFields /\ Honest(disk.key)
    /\ disk.predictions # None => FoundBlind(disk.predictions)
    /\ disk.result # None => DOMAIN disk.result = ReceiptFields /\ Receipt(disk.result)

\* How far a command has come.
AfterPlan  == {"cases", "hash", "scan", "predicted", "key", "predictions", "score", "compare"}
AfterCases == AfterPlan \ {"cases"}
AfterKey   == {"predictions", "score", "compare"}

\* What a command has read loaded when it was read.
ReadInv ==
    /\ DOMAIN run = RunFields
    /\ run.at \in {"none", "plan"} \cup AfterPlan
    /\ run.at # "none" => run.exit = "running"
    /\ run.at \in {"hash", "scan", "predicted"} => run.command = "predict"
    /\ run.at = "score" => run.command = "score"
    /\ run.at \in AfterPlan => ChecksOf[run.plan.checks] = run.plan.ids
    /\ run.at \in AfterCases => CasesLoad(run.cases, run.plan)
    /\ run.at \in AfterKey => TakenKey(run.key, run.plan, run.cases)
    /\ run.at \in {"score", "compare"} => TakenPredictions(run.predictions, run.plan, run.cases)

\* As long as nobody writes, it is also what is there.
CurrentInv ==
    run.at # "none" /\ ~run.amended =>
        /\ run.code = disk.scanner
        /\ run.at \in AfterPlan => run.plan = disk.plan
        /\ run.at \in AfterCases => run.cases = disk.cases
        /\ run.at \in {"scan", "predicted"} =>
              disk.scanner = run.plan.scanner /\ disk.checks = run.plan.checks
        /\ run.at = "predicted" =>
              \A c \in CaseNames :
                  run.found[c] = Finds[run.code][disk.checks][run.cases.passage[c]]
        /\ run.at \in AfterKey => run.key = disk.key
        /\ run.at \in {"score", "compare"} =>
              run.predictions = disk.predictions
                /\ run.predictions.evaluator = disk.evaluator

\* What was accepted is a receipt.
ShownInv ==
    run.exit = "accepted" => Receipt(run.shown) /\ run.shown.cells = Scored(run.shown).cells

EvaluationInv == DiskInv /\ ReadInv /\ CurrentInv /\ ShownInv

-----------------------------------------------------------------------------
(* People.                                                                 *)

\* What a command has read does not depend on the files.
LEMMA WhatPeopleDo ==
    ASSUME EvaluationInv, NEW stored, Put(stored), DiskInv'
    PROVE  EvaluationInv'
<1> USE DEF EvaluationInv
<1>1. CASE run.at = "none"
  <2>1. run' = Stopped
    BY <1>1 DEF Put
  <2>2. ReadInv' /\ CurrentInv' /\ ShownInv'
    BY <2>1 DEF ReadInv, CurrentInv, ShownInv, Stopped, RunFields, AfterPlan, AfterCases, AfterKey
  <2>3. QED
    BY <2>2
<1>2. CASE run.at # "none"
  <2>1. run' = [run EXCEPT !.amended = TRUE]
    BY <1>2 DEF Put
  <2>2. /\ DOMAIN run' = DOMAIN run /\ run'.amended
        /\ \A field \in RunFields \ {"amended"} : run'[field] = run[field]
    BY <2>1 DEF ReadInv, RunFields
  <2>3. /\ run'.at = run.at /\ run'.exit = run.exit /\ run'.command = run.command
        /\ run'.plan = run.plan /\ run'.cases = run.cases /\ run'.key = run.key
        /\ run'.predictions = run.predictions /\ run'.dated = run.dated
        /\ run'.found = run.found /\ run'.shown = run.shown
    BY <2>2 DEF RunFields
  <2>4. ReadInv'
    BY <2>2, <2>3 DEF ReadInv
  <2>5. CurrentInv' /\ ShownInv'
    BY <2>2, <2>3 DEF CurrentInv, ShownInv
  <2>6. QED
    BY <2>4, <2>5
<1>3. QED
  BY <1>1, <1>2

\* People end no command.
LEMMA PutEndsNothing ==
    ASSUME EvaluationInv, NEW stored, Put(stored), run.at # "none"
    PROVE  run'.exit = run.exit
<1>1. run' = [run EXCEPT !.amended = TRUE] /\ DOMAIN run = RunFields
  BY DEF Put, EvaluationInv, ReadInv
<1>2. QED
  BY <1>1 DEF RunFields

LEMMA EditCodeKeeps ==
    ASSUME EvaluationInv, NEW name \in {"scanner", "checks", "evaluator"}, NEW code,
           EditCode(name, code)
    PROVE  EvaluationInv'
<1>1. Put([disk EXCEPT ![name] = code])
  BY DEF EditCode, Amend
<1>2. disk' = [disk EXCEPT ![name] = code]
  BY <1>1 DEF Put
<1>3. DiskInv'
  BY <1>2 DEF EvaluationInv, DiskInv, FileNames
<1>4. QED
  BY <1>1, <1>3, WhatPeopleDo

LEMMA ReplanKeeps ==
    ASSUME EvaluationInv, Replan
    PROVE  EvaluationInv'
<1> DEFINE plan == PlanFor(disk.scanner, disk.checks)
<1>1. Put([disk EXCEPT !.plan = plan])
  BY DEF Replan, Amend
<1> HIDE DEF plan
<1>2. disk' = [disk EXCEPT !.plan = plan]
  BY <1>1 DEF Put
<1>3. DiskInv'
  BY <1>2 DEF EvaluationInv, DiskInv, FileNames
<1>4. QED
  BY <1>1, <1>3, WhatPeopleDo

LEMMA ChangeCaseKeeps ==
    ASSUME EvaluationInv, NEW c \in CaseNames, ChangeCase(c)
    PROVE  EvaluationInv'
<1>1. PICK passage \in Excerpts, source \in Documents, again \in BOOLEAN :
         Put([disk EXCEPT !.cases = Recast(c, passage, source, again)])
  BY DEF ChangeCase, Amend
<1>2. DOMAIN disk = FileNames /\ DOMAIN disk.cases = CaseFields
  BY DEF EvaluationInv, DiskInv
<1>3. disk' = [disk EXCEPT !.cases = Recast(c, passage, source, again)]
  BY <1>1 DEF Put
<1>4. DOMAIN Recast(c, passage, source, again) = CaseFields
  BY <1>2 DEF Recast, CaseFields
<1>5. /\ DOMAIN disk' = FileNames /\ DOMAIN disk'.cases = CaseFields
      /\ disk'.key = disk.key /\ disk'.predictions = disk.predictions
      /\ disk'.result = disk.result
  BY <1>2, <1>3, <1>4 DEF FileNames
<1>6. DiskInv'
  BY <1>5 DEF EvaluationInv, DiskInv
<1>7. QED
  BY <1>1, <1>6, WhatPeopleDo

LEMMA LabelKeeps ==
    ASSUME EvaluationInv, Label
    PROVE  EvaluationInv'
<1> DEFINE right == [p \in PairsOf(disk.plan) |-> RightLabels[disk.cases.passage[p[1]]][p[2]]]
<1>1. PICK way :
         Put([disk EXCEPT !.key =
                  [freeze |-> disk.cases.freeze, cases |-> disk.cases, checks |-> disk.checks,
                   people |-> way.people, seen |-> way.seen, first |-> right,
                   second |-> [p \in DOMAIN right |->
                                 IF p \in way.slip THEN "reference_abstain" ELSE right[p]],
                   recorded |-> way.slip, final |-> right, lawAsOf |-> now,
                   reviewed |-> now, adjudicated |-> now, unblinded |-> None]])
  BY DEF Label, Amend
<1>2. \A p \in DOMAIN right : right[p] = RightLabels[disk.cases.passage[p[1]]][p[2]]
  OBVIOUS
<1> HIDE DEF right
<1> DEFINE key == [freeze |-> disk.cases.freeze, cases |-> disk.cases, checks |-> disk.checks,
                   people |-> way.people, seen |-> way.seen, first |-> right,
                   second |-> [p \in DOMAIN right |->
                                 IF p \in way.slip THEN "reference_abstain" ELSE right[p]],
                   recorded |-> way.slip, final |-> right, lawAsOf |-> now,
                   reviewed |-> now, adjudicated |-> now, unblinded |-> None]
<1>3. DOMAIN key = KeyFields /\ Honest(key)
  BY <1>2 DEF KeyFields, Honest
<1>4. disk' = [disk EXCEPT !.key = key]
  BY <1>1 DEF Put
<1> HIDE DEF key
<1>5. DiskInv'
  BY <1>3, <1>4 DEF EvaluationInv, DiskInv, FileNames
<1>6. QED
  BY <1>1, <1>5, WhatPeopleDo

LEMMA ReadjudicateKeeps ==
    ASSUME EvaluationInv, Readjudicate
    PROVE  EvaluationInv'
<1>1. disk.key # None
  BY DEF Readjudicate
<1>2. PICK p \in DOMAIN disk.key.final :
         Put([disk EXCEPT !.key.final[p] = "reference_abstain", !.key.adjudicated = now])
  BY DEF Readjudicate, Amend
<1>3. DOMAIN disk = FileNames /\ DOMAIN disk.key = KeyFields /\ Honest(disk.key)
  BY <1>1 DEF EvaluationInv, DiskInv
<1>4. /\ DOMAIN disk' = FileNames /\ DOMAIN disk'.key = KeyFields
      /\ disk'.cases = disk.cases /\ disk'.predictions = disk.predictions
      /\ disk'.result = disk.result
      /\ disk'.key.cases = disk.key.cases
      /\ disk'.key.final = [disk.key.final EXCEPT ![p] = "reference_abstain"]
  BY <1>2, <1>3 DEF Put, FileNames, KeyFields
<1>5. Honest(disk'.key)
  BY <1>3, <1>4 DEF Honest
<1>6. DiskInv'
  BY <1>4, <1>5 DEF EvaluationInv, DiskInv
<1>7. QED
  BY <1>2, <1>6, WhatPeopleDo

LEMMA UnblindKeeps ==
    ASSUME EvaluationInv, Unblind
    PROVE  EvaluationInv'
<1>1. disk.key # None /\ Put([disk EXCEPT !.key.unblinded = now])
  BY DEF Unblind
<1>2. DOMAIN disk = FileNames /\ DOMAIN disk.key = KeyFields /\ Honest(disk.key)
  BY <1>1 DEF EvaluationInv, DiskInv
<1>3. /\ DOMAIN disk' = FileNames /\ DOMAIN disk'.key = KeyFields
      /\ disk'.cases = disk.cases /\ disk'.predictions = disk.predictions
      /\ disk'.result = disk.result
      /\ disk'.key.cases = disk.key.cases /\ disk'.key.final = disk.key.final
  BY <1>1, <1>2 DEF Put, FileNames, KeyFields
<1>4. DiskInv'
  BY <1>2, <1>3 DEF EvaluationInv, DiskInv, Honest
<1>5. QED
  BY <1>1, <1>4, WhatPeopleDo

LEMMA MisstateKeeps ==
    ASSUME EvaluationInv, Misstate
    PROVE  EvaluationInv'
<1>1. disk.result # None
  BY DEF Misstate
<1>2. PICK p, cell :
         Put([disk EXCEPT !.result.cells[p] = cell, !.result.misstated = TRUE])
  BY DEF Misstate, Amend
<1>3. DOMAIN disk = FileNames /\ DOMAIN disk.result = ReceiptFields /\ Receipt(disk.result)
  BY <1>1 DEF EvaluationInv, DiskInv
<1>4. /\ DOMAIN disk' = FileNames /\ DOMAIN disk'.result = ReceiptFields
      /\ disk'.cases = disk.cases /\ disk'.predictions = disk.predictions
      /\ disk'.key = disk.key
      /\ disk'.result.misstated
      /\ disk'.result.plan = disk.result.plan /\ disk'.result.cases = disk.result.cases
      /\ disk'.result.key = disk.result.key /\ disk'.result.at = disk.result.at
      /\ disk'.result.predictions = disk.result.predictions
  BY <1>2, <1>3 DEF Put, FileNames, ReceiptFields
<1>5. Receipt(disk'.result)
  BY <1>3, <1>4 DEF Receipt
<1>6. DiskInv'
  BY <1>4, <1>5 DEF EvaluationInv, DiskInv
<1>7. QED
  BY <1>2, <1>6, WhatPeopleDo

LEMMA PutAsideKeeps ==
    ASSUME EvaluationInv, NEW name \in {"key", "predictions", "result"}, PutAside(name)
    PROVE  EvaluationInv'
<1>1. Put([disk EXCEPT ![name] = None])
  BY DEF PutAside, Amend
<1>2. disk' = [disk EXCEPT ![name] = None]
  BY <1>1 DEF Put
<1>3. DiskInv'
  BY <1>2 DEF EvaluationInv, DiskInv, FileNames
<1>4. QED
  BY <1>1, <1>3, WhatPeopleDo

-----------------------------------------------------------------------------
(* The commands.                                                           *)

\* A command that ends without accepting leaves nothing to account for.
LEMMA EndKeeps ==
    ASSUME EvaluationInv, NEW code, code # "accepted", run' = End(code), DiskInv'
    PROVE  EvaluationInv'
<1>1. run' = [Stopped EXCEPT !.exit = code]
  BY DEF End
<1>2. /\ DOMAIN run' = RunFields /\ run'.at = "none" /\ run'.exit = code
  BY <1>1 DEF Stopped, RunFields
<1>3. ReadInv' /\ CurrentInv' /\ ShownInv'
  BY <1>2 DEF ReadInv, CurrentInv, ShownInv, AfterPlan, AfterCases, AfterKey
<1>4. QED
  BY <1>3 DEF EvaluationInv

LEMMA RefuseKeeps ==
    ASSUME EvaluationInv, Refuse
    PROVE  EvaluationInv'
<1>1. disk' = disk /\ run' = End("refused")
  BY DEF Refuse, Step
<1>2. DiskInv'
  BY <1>1 DEF EvaluationInv, DiskInv
<1>3. QED
  BY <1>1, <1>2, EndKeeps

LEMMA StartKeeps ==
    ASSUME EvaluationInv, NEW command, Start(command)
    PROVE  EvaluationInv'
<1>1. disk' = disk
      /\ run' = [Stopped EXCEPT !.at = "plan", !.exit = "running", !.command = command,
                                !.code = disk.scanner, !.dated = now]
  BY DEF Start, Step
<1>2. /\ DOMAIN run' = RunFields /\ run'.at = "plan" /\ run'.exit = "running"
      /\ run'.code = disk.scanner
  BY <1>1 DEF Stopped, RunFields
<1>3. ReadInv' /\ CurrentInv' /\ ShownInv'
  BY <1>1, <1>2 DEF ReadInv, CurrentInv, ShownInv, AfterPlan, AfterCases, AfterKey
<1>4. DiskInv'
  BY <1>1 DEF EvaluationInv, DiskInv
<1>5. QED
  BY <1>3, <1>4 DEF EvaluationInv

LEMMA ReadPlanKeeps ==
    ASSUME EvaluationInv, ReadPlan
    PROVE  EvaluationInv'
<1>1. CASE Refuse
  BY <1>1, RefuseKeeps
<1>2. CASE PlanLoads(disk) /\ Step([run EXCEPT !.at = "cases", !.plan = disk.plan])
  <2>1. disk' = disk /\ run' = [run EXCEPT !.at = "cases", !.plan = disk.plan]
    BY <1>2 DEF Step
  <2>2. run.at = "plan" /\ DOMAIN run = RunFields /\ run.exit = "running"
        /\ (~run.amended => run.code = disk.scanner)
    BY DEF ReadPlan, EvaluationInv, ReadInv, CurrentInv
  <2>3. /\ DOMAIN run' = RunFields /\ run'.at = "cases" /\ run'.plan = disk.plan
        /\ run'.exit = "running" /\ run'.code = run.code /\ run'.amended = run.amended
    BY <2>1, <2>2 DEF RunFields
  <2>4. ChecksOf[disk.plan.checks] = disk.plan.ids
    BY <1>2 DEF PlanLoads
  <2>5. ReadInv' /\ CurrentInv' /\ ShownInv'
    BY <2>1, <2>2, <2>3, <2>4
       DEF ReadInv, CurrentInv, ShownInv, AfterPlan, AfterCases, AfterKey
  <2>6. DiskInv'
    BY <2>1 DEF EvaluationInv, DiskInv
  <2>7. QED
    BY <2>5, <2>6 DEF EvaluationInv
<1>3. QED
  BY <1>1, <1>2 DEF ReadPlan

LEMMA ReadCasesKeeps ==
    ASSUME EvaluationInv, ReadCases
    PROVE  EvaluationInv'
<1>1. CASE Refuse
  BY <1>1, RefuseKeeps
<1>2. CASE /\ CasesLoad(disk.cases, run.plan)
           /\ Step([run EXCEPT !.at = IF run.command = "predict" THEN "hash" ELSE "key",
                               !.cases = disk.cases])
  <2>1. disk' = disk
        /\ run' = [run EXCEPT !.at = IF run.command = "predict" THEN "hash" ELSE "key",
                              !.cases = disk.cases]
    BY <1>2 DEF Step
  <2>2. run.at = "cases" /\ DOMAIN run = RunFields /\ run.exit = "running"
        /\ ChecksOf[run.plan.checks] = run.plan.ids
        /\ (~run.amended => run.code = disk.scanner /\ run.plan = disk.plan)
    BY DEF ReadCases, EvaluationInv, ReadInv, CurrentInv, AfterPlan
  <2>3. /\ DOMAIN run' = RunFields /\ run'.cases = disk.cases /\ run'.plan = run.plan
        /\ run'.at \in {"hash", "key"} /\ (run'.at = "hash" => run.command = "predict")
        /\ run'.exit = "running" /\ run'.code = run.code /\ run'.amended = run.amended
        /\ run'.command = run.command
    BY <2>1, <2>2 DEF RunFields
  <2>4. ReadInv' /\ CurrentInv' /\ ShownInv'
    BY <1>2, <2>1, <2>2, <2>3
       DEF ReadInv, CurrentInv, ShownInv, AfterPlan, AfterCases, AfterKey
  <2>5. DiskInv'
    BY <2>1 DEF EvaluationInv, DiskInv
  <2>6. QED
    BY <2>4, <2>5 DEF EvaluationInv
<1>3. QED
  BY <1>1, <1>2 DEF ReadCases

LEMMA HashCodeKeeps ==
    ASSUME EvaluationInv, HashCode
    PROVE  EvaluationInv'
<1>1. CASE Refuse
  BY <1>1, RefuseKeeps
<1>2. CASE /\ run.cases.frozen <= run.dated
           /\ disk.scanner = run.plan.scanner /\ disk.checks = run.plan.checks
           /\ Step([run EXCEPT !.at = "scan", !.evaluator = disk.evaluator])
  <2>1. disk' = disk /\ run' = [run EXCEPT !.at = "scan", !.evaluator = disk.evaluator]
    BY <1>2 DEF Step
  <2>2. run.at = "hash" /\ DOMAIN run = RunFields /\ run.exit = "running"
        /\ run.command = "predict"
        /\ ChecksOf[run.plan.checks] = run.plan.ids /\ CasesLoad(run.cases, run.plan)
        /\ (~run.amended => /\ run.code = disk.scanner /\ run.plan = disk.plan
                            /\ run.cases = disk.cases)
    BY DEF HashCode, EvaluationInv, ReadInv, CurrentInv, AfterPlan, AfterCases
  <2>3. /\ DOMAIN run' = RunFields /\ run'.cases = run.cases /\ run'.plan = run.plan
        /\ run'.at = "scan" /\ run'.command = run.command /\ run'.dated = run.dated
        /\ run'.exit = "running" /\ run'.code = run.code /\ run'.amended = run.amended
    BY <2>1, <2>2 DEF RunFields
  <2>4. ReadInv' /\ CurrentInv' /\ ShownInv'
    BY <1>2, <2>1, <2>2, <2>3
       DEF ReadInv, CurrentInv, ShownInv, AfterPlan, AfterCases, AfterKey
  <2>5. DiskInv'
    BY <2>1 DEF EvaluationInv, DiskInv
  <2>6. QED
    BY <2>4, <2>5 DEF EvaluationInv
<1>3. QED
  BY <1>1, <1>2 DEF HashCode

\* What a scan finds are ids of the registry, which is the plan's as it is read again.
LEMMA ScanKeeps ==
    ASSUME EvaluationInv, Scan
    PROVE  EvaluationInv'
<1> DEFINE found == [c \in CaseNames |-> Finds[run.code][disk.checks][run.cases.passage[c]]]
<1>1. CASE Refuse
  BY <1>1, RefuseKeeps
<1>2. CASE /\ ChecksOf[disk.checks] = run.plan.ids
           /\ Step([run EXCEPT !.at = "predicted", !.found = found])
  <2>1. disk' = disk /\ run' = [run EXCEPT !.at = "predicted", !.found = found]
    BY <1>2 DEF Step
  <2>2. run.at = "scan" /\ DOMAIN run = RunFields /\ run.exit = "running"
        /\ run.command = "predict"
        /\ ChecksOf[run.plan.checks] = run.plan.ids /\ CasesLoad(run.cases, run.plan)
        /\ (~run.amended => /\ run.code = disk.scanner /\ run.plan = disk.plan
                            /\ run.cases = disk.cases
                            /\ disk.scanner = run.plan.scanner
                            /\ disk.checks = run.plan.checks)
    BY DEF Scan, EvaluationInv, ReadInv, CurrentInv, AfterPlan, AfterCases
  <2>3. /\ DOMAIN found = CaseNames
        /\ \A c \in CaseNames :
              found[c] = Finds[run.code][disk.checks][run.cases.passage[c]]
    OBVIOUS
  <2> HIDE DEF found
  <2>4. /\ DOMAIN run' = RunFields /\ run'.cases = run.cases /\ run'.plan = run.plan
        /\ run'.at = "predicted" /\ run'.command = run.command /\ run'.dated = run.dated
        /\ run'.exit = "running" /\ run'.code = run.code /\ run'.amended = run.amended
        /\ run'.found = found
    BY <2>1, <2>2 DEF RunFields
  <2>5. ReadInv'
    BY <2>1, <2>2, <2>3, <2>4 DEF ReadInv, AfterPlan, AfterCases, AfterKey
  <2>6. CurrentInv' /\ ShownInv'
    BY <2>1, <2>2, <2>3, <2>4 DEF CurrentInv, ShownInv, AfterPlan, AfterCases, AfterKey
  <2>7. DiskInv'
    BY <2>1 DEF EvaluationInv, DiskInv
  <2>8. QED
    BY <2>5, <2>6, <2>7 DEF EvaluationInv
<1>3. QED
  BY <1>1, <1>2 DEF Scan

LEMMA ReadKeyKeeps ==
    ASSUME EvaluationInv, ReadKey
    PROVE  EvaluationInv'
<1>1. CASE Refuse
  BY <1>1, RefuseKeeps
<1>2. CASE /\ disk.key # None /\ KeyLoads(disk.key, run.plan, run.cases)
           /\ Step([run EXCEPT !.at = "predictions", !.key = disk.key])
  <2>1. disk' = disk /\ run' = [run EXCEPT !.at = "predictions", !.key = disk.key]
    BY <1>2 DEF Step
  <2>2. run.at = "key" /\ DOMAIN run = RunFields /\ run.exit = "running"
        /\ ChecksOf[run.plan.checks] = run.plan.ids /\ CasesLoad(run.cases, run.plan)
        /\ Honest(disk.key)
        /\ (~run.amended => /\ run.code = disk.scanner /\ run.plan = disk.plan
                            /\ run.cases = disk.cases)
    BY <1>2 DEF ReadKey, EvaluationInv, DiskInv, ReadInv, CurrentInv, AfterPlan, AfterCases
  <2>3. /\ DOMAIN run' = RunFields /\ run'.cases = run.cases /\ run'.plan = run.plan
        /\ run'.at = "predictions" /\ run'.key = disk.key
        /\ run'.exit = "running" /\ run'.code = run.code /\ run'.amended = run.amended
    BY <2>1, <2>2 DEF RunFields
  <2>4. ReadInv' /\ CurrentInv' /\ ShownInv'
    BY <1>2, <2>1, <2>2, <2>3
       DEF ReadInv, CurrentInv, ShownInv, TakenKey, AfterPlan, AfterCases, AfterKey
  <2>5. DiskInv'
    BY <2>1 DEF EvaluationInv, DiskInv
  <2>6. QED
    BY <2>4, <2>5 DEF EvaluationInv
<1>3. QED
  BY <1>1, <1>2 DEF ReadKey

LEMMA ReadPredictionsKeeps ==
    ASSUME EvaluationInv, ReadPredictions
    PROVE  EvaluationInv'
<1>1. CASE Refuse
  BY <1>1, RefuseKeeps
<1>2. CASE /\ disk.predictions # None
           /\ PredictionsLoad(disk.predictions, run.plan, run.cases, disk.evaluator)
           /\ Step([run EXCEPT !.at = IF run.command = "score" THEN "score" ELSE "compare",
                               !.predictions = disk.predictions])
  <2>1. disk' = disk
        /\ run' = [run EXCEPT !.at = IF run.command = "score" THEN "score" ELSE "compare",
                              !.predictions = disk.predictions]
    BY <1>2 DEF Step
  <2>2. run.at = "predictions" /\ DOMAIN run = RunFields /\ run.exit = "running"
        /\ ChecksOf[run.plan.checks] = run.plan.ids /\ CasesLoad(run.cases, run.plan)
        /\ TakenKey(run.key, run.plan, run.cases)
        /\ FoundBlind(disk.predictions)
        /\ (~run.amended => /\ run.code = disk.scanner /\ run.plan = disk.plan
                            /\ run.cases = disk.cases /\ run.key = disk.key)
    BY <1>2 DEF ReadPredictions, EvaluationInv, DiskInv, ReadInv, CurrentInv,
                AfterPlan, AfterCases, AfterKey
  <2>3. /\ DOMAIN run' = RunFields /\ run'.cases = run.cases /\ run'.plan = run.plan
        /\ run'.at \in {"score", "compare"} /\ (run'.at = "score" => run.command = "score")
        /\ run'.key = run.key /\ run'.command = run.command
        /\ run'.exit = "running" /\ run'.code = run.code /\ run'.amended = run.amended
        /\ run'.predictions = disk.predictions
    BY <2>1, <2>2 DEF RunFields
  <2>4. TakenPredictions(disk.predictions, run.plan, run.cases)
        /\ disk.predictions.evaluator = disk.evaluator
    BY <1>2, <2>2 DEF TakenPredictions, PredictionsLoad
  <2>5. ReadInv' /\ CurrentInv' /\ ShownInv'
    BY <2>1, <2>2, <2>3, <2>4
       DEF ReadInv, CurrentInv, ShownInv, AfterPlan, AfterCases, AfterKey
  <2>6. DiskInv'
    BY <2>1 DEF EvaluationInv, DiskInv
  <2>7. QED
    BY <2>5, <2>6 DEF EvaluationInv
<1>3. QED
  BY <1>1, <1>2 DEF ReadPredictions

LEMMA WritePredictionsKeeps ==
    ASSUME EvaluationInv, WritePredictions
    PROVE  EvaluationInv'
<1> DEFINE predictions ==
      [freeze |-> run.cases.freeze, plan |-> run.plan, cases |-> run.cases,
       evaluator |-> run.evaluator, found |-> run.found, at |-> run.dated,
       amended |-> run.amended]
<1>1. CASE Refuse
  BY <1>1, RefuseKeeps
<1>2. CASE disk' = [disk EXCEPT !.predictions = predictions] /\ run' = End("written")
  <2>1. FoundBlind(predictions)
    BY DEF FoundBlind, EvaluationInv, CurrentInv, WritePredictions, AfterPlan
  <2> HIDE DEF predictions
  <2>2. DiskInv'
    BY <1>2, <2>1 DEF EvaluationInv, DiskInv, FileNames
  <2>3. QED
    BY <1>2, <2>2, EndKeeps
<1>3. QED
  BY <1>1, <1>2 DEF WritePredictions

LEMMA WriteResultKeeps ==
    ASSUME EvaluationInv, WriteResult
    PROVE  EvaluationInv'
<1> DEFINE result == Score(run.plan, run.cases, run.key, run.predictions, run.dated)
<1>1. CASE Refuse
  BY <1>1, RefuseKeeps
<1>2. CASE /\ Scorable(run.key, run.predictions, run.dated)
           /\ disk' = [disk EXCEPT !.result = result]
           /\ run' = [Stopped EXCEPT !.exit = "accepted", !.shown = result]
  <2>1. /\ ChecksOf[run.plan.checks] = run.plan.ids /\ CasesLoad(run.cases, run.plan)
        /\ TakenKey(run.key, run.plan, run.cases)
        /\ TakenPredictions(run.predictions, run.plan, run.cases)
    BY DEF WriteResult, EvaluationInv, ReadInv, AfterPlan, AfterCases, AfterKey
  <2>2. /\ DOMAIN result = ReceiptFields /\ result = Scored(result)
        /\ result.plan = run.plan /\ result.cases = run.cases /\ result.key = run.key
        /\ result.predictions = run.predictions /\ result.at = run.dated
    BY DEF Score, Scored, ReceiptFields
  <2> HIDE DEF result
  <2>3. Receipt(result) /\ result.cells = Scored(result).cells
    BY <1>2, <2>1, <2>2 DEF Receipt
  <2>4. DiskInv'
    BY <1>2, <2>2, <2>3 DEF EvaluationInv, DiskInv, FileNames
  <2>5. DOMAIN run' = RunFields /\ run'.at = "none" /\ run'.shown = result
    BY <1>2 DEF Stopped, RunFields
  <2>6. ReadInv' /\ CurrentInv' /\ ShownInv'
    BY <2>3, <2>5 DEF ReadInv, CurrentInv, ShownInv, AfterPlan, AfterCases, AfterKey
  <2>7. QED
    BY <2>4, <2>6 DEF EvaluationInv
<1>3. QED
  BY <1>1, <1>2 DEF WriteResult

\* The stored receipt is the score of what was read, whoever wrote into it.
LEMMA CompareResultKeeps ==
    ASSUME EvaluationInv, CompareResult
    PROVE  EvaluationInv'
<1> DEFINE result == disk.result
           score == Score(run.plan, run.cases, run.key, run.predictions, result.at)
<1>1. CASE Refuse
  BY <1>1, RefuseKeeps
<1>2. CASE /\ disk.result # None /\ [score EXCEPT !.misstated = result.misstated] = result
           /\ Step([Stopped EXCEPT !.exit = "accepted", !.shown = result])
  <2>1. disk' = disk /\ run' = [Stopped EXCEPT !.exit = "accepted", !.shown = result]
    BY <1>2 DEF Step
  <2>2. Receipt(result)
    BY <1>2 DEF EvaluationInv, DiskInv
  <2>3. /\ result.plan = run.plan /\ result.cases = run.cases /\ result.key = run.key
        /\ result.predictions = run.predictions /\ result.cells = score.cells
    BY <1>2 DEF Score
  <2>4. result.cells = Scored(result).cells
    BY <2>3 DEF Scored
  <2> HIDE DEF result
  <2>5. DOMAIN run' = RunFields /\ run'.at = "none" /\ run'.shown = result
    BY <2>1 DEF Stopped, RunFields
  <2>6. ReadInv' /\ CurrentInv' /\ ShownInv'
    BY <2>2, <2>4, <2>5 DEF ReadInv, CurrentInv, ShownInv, AfterPlan, AfterCases, AfterKey
  <2>7. DiskInv'
    BY <2>1 DEF EvaluationInv, DiskInv
  <2>8. QED
    BY <2>6, <2>7 DEF EvaluationInv
<1>3. QED
  BY <1>1, <1>2 DEF CompareResult, CompareAsOf

-----------------------------------------------------------------------------
(* The evaluation.                                                         *)

LEMMA InitEvaluationInv ==
    ASSUME EvaluationInit
    PROVE  EvaluationInv
<1>1. /\ run = Stopped /\ disk.key = None /\ disk.predictions = None /\ disk.result = None
      /\ DOMAIN disk = FileNames /\ DOMAIN disk.cases = CaseFields
  BY DEF EvaluationInit, FileNames, CaseFields
<1>2. DOMAIN run = RunFields /\ run.at = "none" /\ run.exit = "none"
  BY <1>1 DEF Stopped, RunFields
<1>3. QED
  BY <1>1, <1>2 DEF EvaluationInv, DiskInv, ReadInv, CurrentInv, ShownInv,
                    AfterPlan, AfterCases, AfterKey

LEMMA NextEvaluationInv ==
    ASSUME EvaluationInv, [EvaluationNext]_evaluationVars
    PROVE  EvaluationInv'
<1>1. CASE Edits
  <2>1. CASE Moment
    BY <2>1 DEF Moment, EvaluationInv, DiskInv, ReadInv, CurrentInv, ShownInv
  <2>2. QED
    BY <1>1, <2>1, EditCodeKeeps, ReplanKeeps, ChangeCaseKeeps, LabelKeeps,
       ReadjudicateKeeps, UnblindKeeps, MisstateKeeps, PutAsideKeeps DEF Edits
<1>2. CASE \E command \in {"predict", "score", "validate"} : Start(command)
  BY <1>2, StartKeeps
<1>3. CASE \/ ReadPlan \/ ReadCases \/ HashCode \/ Scan \/ WritePredictions
           \/ ReadKey \/ ReadPredictions \/ WriteResult \/ CompareResult
  BY <1>3, ReadPlanKeeps, ReadCasesKeeps, HashCodeKeeps, ScanKeeps, WritePredictionsKeeps,
     ReadKeyKeeps, ReadPredictionsKeeps, WriteResultKeeps, CompareResultKeeps
<1>4. CASE UNCHANGED evaluationVars
  BY <1>4 DEF evaluationVars, EvaluationInv, DiskInv, ReadInv, CurrentInv, ShownInv
<1>5. QED
  BY <1>1, <1>2, <1>3, <1>4 DEF EvaluationNext

LEMMA EvaluationInvariant == EvaluationSpec => []EvaluationInv
<1>1. QED
  BY InitEvaluationInv, NextEvaluationInv, PTL DEF EvaluationSpec

\* A result that score writes or validate-result accepts is of one corpus, whatever
\* people edit between and during the commands: the loaders compare enough of what
\* each file says it is of.
THEOREM AcceptedResultIsOfOneCorpus == EvaluationSpec => []ResultOfOneCorpus
<1>1. ASSUME EvaluationInv PROVE ResultOfOneCorpus
  <2> SUFFICES ASSUME run.exit = "accepted" PROVE ResultOfOneCorpus
    BY DEF ResultOfOneCorpus
  <2> DEFINE result == run.shown
             finds  == Finds[result.plan.scanner][result.plan.checks]
  <2>1. Receipt(result) /\ result.cells = Scored(result).cells
    BY <1>1 DEF EvaluationInv, ShownInv
  <2>2. /\ result.key.cases = result.cases
        /\ DOMAIN result.key.final = PairsOf(result.plan)
        /\ Honest(result.key)
    BY <2>1 DEF Receipt, TakenKey, KeyLoads, KeyIsOf
  <2>3. /\ result.predictions.plan = result.plan /\ result.predictions.cases = result.cases
        /\ FoundBlind(result.predictions)
    BY <2>1 DEF Receipt, TakenPredictions, PredictionsLoad, PredictedFor
  <2>4. result.predictions.at < result.key.unblinded
    BY <2>1 DEF Receipt, Scorable
  <2>5. result.cells = [p \in PairsOf(result.plan) |->
                          Cell(result.key.final[p], p[2] \in result.predictions.found[p[1]])]
    BY <2>1 DEF Scored, Score
  <2>6. \A p \in PairsOf(result.plan) : p[1] \in CaseNames
    BY DEF PairsOf
  <2> HIDE DEF result
  <2>7. ASSUME NEW p \in PairsOf(result.plan)
        PROVE  LET passage == result.cases.passage[p[1]]
                   label   == result.key.final[p]
                   cells   == {Cell(label, b) : b \in
                                 IF result.predictions.amended THEN BOOLEAN
                                 ELSE {p[2] \in finds[passage]}}
               IN  /\ label \in {RightLabels[passage][p[2]], "reference_abstain"}
                   /\ result.cells[p] \in cells
    <3> DEFINE passage == result.cases.passage[p[1]]
               label   == result.key.final[p]
               seen    == p[2] \in result.predictions.found[p[1]]
    <3>1. label \in {RightLabels[passage][p[2]], "reference_abstain"}
      BY <2>2 DEF Honest
    <3>2. result.cells[p] = Cell(label, seen)
      BY <2>5
    <3>3. seen \in BOOLEAN
      OBVIOUS
    <3>4. ~result.predictions.amended => seen = (p[2] \in finds[passage])
      BY <2>3, <2>6 DEF FoundBlind
    <3> HIDE DEF seen
    <3>5. QED
      BY <3>1, <3>2, <3>3, <3>4
  <2>8. DOMAIN result.cells = PairsOf(result.plan)
    BY <2>5
  <2>9. QED
    BY <2>4, <2>7, <2>8 DEF ResultOfOneCorpus, result
<1>2. QED
  BY <1>1, EvaluationInvariant, PTL

\* validate-result refuses a receipt, at whatever moment, only when a file it was
\* scored from has changed or somebody wrote into it.
THEOREM ReceiptsAreStable == EvaluationSpec => ReceiptRevalidates
<1> DEFINE Stands ==
      run.at # "none" /\ run'.exit = "refused" /\ run.command = "validate"
        /\ ~run.amended /\ disk.result # None /\ ScoredFrom(disk.result)
<1>1. ASSUME EvaluationInv, [EvaluationNext]_evaluationVars
      PROVE  [Stands => disk.result.misstated]_evaluationVars
  <2> SUFFICES ASSUME EvaluationNext, Stands, ~disk.result.misstated PROVE FALSE
    BY <1>1
  <2> DEFINE result == disk.result
  <2>1. Receipt(result) /\ result = Scored(result)
    BY <1>1 DEF EvaluationInv, DiskInv, Receipt
  <2>2. /\ disk.plan = result.plan /\ disk.cases = result.cases
        /\ disk.key = result.key /\ disk.predictions = result.predictions
        /\ disk.scanner = result.plan.scanner /\ disk.checks = result.plan.checks
        /\ disk.evaluator = result.predictions.evaluator
    BY DEF ScoredFrom
  <2>3. run.exit = "running" /\ run'.exit = "refused" /\ run.command = "validate"
        /\ run.at \notin {"none", "hash", "scan", "predicted", "score"}
    BY <1>1 DEF EvaluationInv, ReadInv
  <2>4. ~Edits
    <3>1. ASSUME NEW stored, Put(stored) PROVE FALSE
      BY <1>1, <2>3, <3>1, PutEndsNothing
    <3>2. ~Moment
      BY <2>3 DEF Moment
    <3>3. QED
      BY <3>1, <3>2 DEF Edits, EditCode, Replan, ChangeCase, Label, Readjudicate, Unblind,
                        Misstate, PutAside, Amend
  <2>5. ~ReadPlan
    <3>1. PlanLoads(disk)
      BY <2>1, <2>2 DEF PlanLoads, Receipt
    <3>2. [run EXCEPT !.at = "cases", !.plan = disk.plan].exit = run.exit
      BY <1>1 DEF EvaluationInv, ReadInv, RunFields
    <3>3. QED
      BY <2>3, <3>1, <3>2 DEF ReadPlan, Step
  <2>6. ~ReadCases
    <3>1. run.at = "cases" => CasesLoad(disk.cases, run.plan)
      BY <1>1, <2>1, <2>2 DEF Receipt, EvaluationInv, CurrentInv, AfterPlan
    <3>2. \A at : [run EXCEPT !.at = at, !.cases = disk.cases].exit = run.exit
      BY <1>1 DEF EvaluationInv, ReadInv, RunFields
    <3>3. SUFFICES ASSUME ReadCases PROVE FALSE
      OBVIOUS
    <3>4. CasesLoad(disk.cases, run.plan)
      BY <3>1, <3>3 DEF ReadCases
    <3>5. \E at : run' = [run EXCEPT !.at = at, !.cases = disk.cases]
      BY <3>3, <3>4 DEF ReadCases, Step
    <3>6. QED
      BY <2>3, <3>2, <3>5
  <2>7. ~ReadKey
    <3>1. run.at = "key" => disk.key # None /\ KeyLoads(disk.key, run.plan, run.cases)
      BY <1>1, <2>1, <2>2 DEF Receipt, TakenKey, EvaluationInv, CurrentInv, AfterPlan, AfterCases
    <3>2. [run EXCEPT !.at = "predictions", !.key = disk.key].exit = run.exit
      BY <1>1 DEF EvaluationInv, ReadInv, RunFields
    <3>3. QED
      BY <2>3, <3>1, <3>2 DEF ReadKey, Step
  <2>8. ~ReadPredictions
    <3>1. run.at = "predictions" =>
             disk.predictions # None
               /\ PredictionsLoad(disk.predictions, run.plan, run.cases, disk.evaluator)
      BY <1>1, <2>1, <2>2
         DEF Receipt, TakenPredictions, EvaluationInv, CurrentInv, AfterPlan, AfterCases
    <3>2. \A at : [run EXCEPT !.at = at, !.predictions = disk.predictions].exit = run.exit
      BY <1>1 DEF EvaluationInv, ReadInv, RunFields
    <3>3. SUFFICES ASSUME ReadPredictions PROVE FALSE
      OBVIOUS
    <3>4. \E at : run' = [run EXCEPT !.at = at, !.predictions = disk.predictions]
      BY <3>1, <3>3 DEF ReadPredictions, Step
    <3>5. QED
      BY <2>3, <3>2, <3>4
  <2>9. ~CompareResult
    <3> DEFINE score == Score(run.plan, run.cases, run.key, run.predictions, result.at)
    <3>1. run.at = "compare" =>
             /\ run.plan = result.plan /\ run.cases = result.cases
             /\ run.key = result.key /\ run.predictions = result.predictions
      BY <1>1, <2>2 DEF EvaluationInv, CurrentInv, AfterPlan, AfterCases, AfterKey
    <3>2. run.at = "compare" => score = result /\ Scorable(run.key, run.predictions, result.at)
      BY <2>1, <3>1 DEF Scored, Receipt
    <3>3. run.at = "compare" => [score EXCEPT !.misstated = result.misstated] = result
      BY <3>2 DEF Score
    <3>4. [Stopped EXCEPT !.exit = "accepted", !.shown = result].exit = "accepted"
      BY DEF Stopped
    <3>5. QED
      BY <2>3, <3>2, <3>3, <3>4 DEF CompareResult, CompareAsOf, Step
  <2>10. QED
    BY <2>3, <2>4, <2>5, <2>6, <2>7, <2>8, <2>9
       DEF EvaluationNext, Start, HashCode, Scan, WritePredictions, WriteResult
<1>2. QED
  BY <1>1, EvaluationInvariant, PTL DEF EvaluationSpec, ReceiptRevalidates

=============================================================================
