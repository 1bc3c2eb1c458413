-------------------------- MODULE SourceWatch_proofs --------------------------
(***************************************************************************)
(* Proofs about SourceWatch for every registry, rule set, number of        *)
(* overlapping runs, retry budget and bound.                               *)
(***************************************************************************)
EXTENDS SourceWatch, FiniteSetTheorems, TLAPS

\* The position of a run in the registry names a source.
LEMMA PositionIsSource ==
    ASSUME NEW i \in 1..Len(Order)
    PROVE  Order[i] \in Sources
BY DEF Sources

\* A step that changes only the records of one run keeps the type when the new
\* record has it.
LEMMA OneRun ==
    ASSUME run \in [Runs -> RunRecords], NEW k \in Runs, NEW r \in RunRecords,
           run' = [run EXCEPT ![k] = r]
    PROVE  run' \in [Runs -> RunRecords]
OBVIOUS

\* What Classify makes of a run that is fetching.
LEMMA ClassifyType ==
    ASSUME TypeOK, NEW k \in Runs, NEW s \in Sources, NEW reading \in Readings,
           Fetching(k, s), Classify(k, s, reading)
    PROVE  run' \in [Runs -> RunRecords]
<1> DEFINE r == [run[k] EXCEPT !.seen[s] = reading, !.at = @ + 1, !.tries = 0]
<1>1. run[k] \in RunRecords
  BY DEF TypeOK
<1>2. run[k].at \in 1..Len(Order) /\ Len(Order) \in Nat
  BY <1>1, WatchAssumption DEF RunRecords, Fetching
<1>a. run[k].at + 1 \in 1..(Len(Order) + 1) /\ 0 \in 0..(Attempts - 1)
  BY <1>2, WatchAssumption
<1>3. [run[k].seen EXCEPT ![s] = reading] \in [Sources -> Readings]
  BY <1>1 DEF RunRecords
<1>4. r \in RunRecords
  BY <1>1, <1>a, <1>3 DEF RunRecords
<1>5. run' = [run EXCEPT ![k] = r]
  BY <1>1 DEF Classify, TypeOK
<1> HIDE DEF r
<1>6. QED
  BY <1>4, <1>5, OneRun DEF TypeOK

\* A run at rest.
LEMMA IdleType == Idle \in RunRecords
<1>1. 1 \in 1..(Len(Order) + 1) /\ 0 \in 0..(Attempts - 1)
  BY WatchAssumption
<1>2. 0 \in Versions /\ 0 \in Days
  BY WatchAssumption DEF Versions, Days
<1>3. QED
  BY <1>1, <1>2 DEF Idle, RunRecords, Steps, Readings

-----------------------------------------------------------------------------
\* Every variable keeps its type; in particular a fetch loop never runs past
\* its retry budget nor past the end of the registry (harness/watch.py:441-466).
THEOREM TypeCorrect == Spec => []TypeOK
<1> USE WatchAssumption
<1>1. Init => TypeOK
  <2>1. 0 \in Versions /\ 0 \in Days
    BY DEF Versions, Days
  <2>2. QED
    BY <2>1, IdleType DEF Init, TypeOK
<1>2. TypeOK /\ [Next]_vars => TypeOK'
  <2> SUFFICES ASSUME TypeOK, [Next]_vars PROVE TypeOK'
    OBVIOUS
  <2> DEFINE World == /\ day \in Days /\ doc \in [Sources -> Versions]
                      /\ reach \in [Sources -> {"up", "down", "gone"}]
             Repo == /\ recorded \in [Sources -> Versions]
                     /\ fetchedOn \in [Sources -> Days]
                     /\ verifiedOn \in [Rules -> Days \cup {Undated}]
                     /\ golden \in BOOLEAN /\ commits \in 0..MaxCommits
             RunsTyped == run \in [Runs -> RunRecords]
             Github == /\ open \subseteq 1..filed /\ filed \in 0..MaxIssues
                       /\ aborts \in 0..MaxAborts
  <2>a. World /\ Repo /\ RunsTyped /\ Github
    BY DEF TypeOK
  <2>b. World' /\ Repo' /\ RunsTyped' /\ Github' => TypeOK'
    BY DEF TypeOK
  <2>c. UNCHANGED world_vars => World'
    BY <2>a DEF world_vars
  <2>d. UNCHANGED repo_vars => Repo'
    BY <2>a DEF repo_vars
  <2>e. UNCHANGED github_vars => Github'
    BY <2>a DEF github_vars
  <2>f. UNCHANGED run => RunsTyped'
    BY <2>a
  <2>g. open \subseteq 1..MaxIssues /\ filed \in Nat
    BY <2>a
  <2>1. ASSUME NEW k \in Runs, Trigger(k) PROVE TypeOK'
    <3> DEFINE r == [Idle EXCEPT !.pc = "fetching", !.recorded = recorded,
                        !.verifiedOn = verifiedOn, !.golden = golden, !.day = day]
    <3>1. r \in RunRecords
      BY IdleType, <2>a DEF RunRecords, Steps
    <3>2. run' = [run EXCEPT ![k] = r]
      BY <2>1 DEF Trigger
    <3> HIDE DEF r
    <3>3. RunsTyped'
      BY <2>a, <3>1, <3>2, OneRun
    <3> HIDE DEF World, Repo, RunsTyped, Github
    <3>4. QED
      BY <2>1, <2>b, <2>c, <2>d, <2>e, <3>3 DEF Trigger
  <2>2. ASSUME NEW k \in Runs, Read(k) \/ NotFound(k) PROVE TypeOK'
    <3>1. RunsTyped'
      BY <2>2, ClassifyType DEF Read, NotFound, Readings
    <3> HIDE DEF World, Repo, RunsTyped, Github
    <3>2. QED
      BY <2>2, <2>b, <2>c, <2>d, <2>e, <3>1 DEF Read, NotFound
  <2>3. ASSUME NEW k \in Runs, NoAnswer(k) PROVE TypeOK'
    <3>1. PICK s \in Sources :
             /\ Fetching(k, s)
             /\ IF run[k].tries + 1 < Attempts
                THEN run' = [run EXCEPT ![k].tries = @ + 1]
                ELSE Classify(k, s, "transport")
      BY <2>3 DEF NoAnswer
    <3>2. ASSUME run[k].tries + 1 < Attempts PROVE RunsTyped'
      <4> DEFINE r == [run[k] EXCEPT !.tries = @ + 1]
      <4>1. run[k] \in RunRecords
        BY <2>a
      <4>a. run[k].tries \in 0..(Attempts - 1)
        BY <4>1 DEF RunRecords
      <4>2. run[k].tries + 1 \in 0..(Attempts - 1)
        <5>1. Attempts \in Nat
          OBVIOUS
        <5> HIDE WatchAssumption
        <5>2. QED
          BY <5>1, <4>a, <3>2
      <4>3. r \in RunRecords
        BY <4>1, <4>2 DEF RunRecords
      <4>4. run' = [run EXCEPT ![k] = r]
        BY <2>a, <3>1, <3>2
      <4> HIDE DEF r
      <4>5. QED
        BY <2>a, <4>3, <4>4, OneRun
    <3>3. ASSUME ~ (run[k].tries + 1 < Attempts) PROVE RunsTyped'
      BY <3>1, <3>3, ClassifyType DEF Readings
    <3>4. RunsTyped'
      BY <3>2, <3>3
    <3> HIDE DEF World, Repo, RunsTyped, Github
    <3>5. QED
      BY <2>3, <2>b, <2>c, <2>d, <2>e, <3>4 DEF NoAnswer
  <2>h. ASSUME NEW k \in Runs, NEW p \in Steps, NEW F \in SUBSET (1..MaxIssues)
        PROVE  [run[k] EXCEPT !.pc = p, !.found = F] \in RunRecords
    <3>1. run[k] \in RunRecords
      BY <2>a
    <3>2. QED
      BY <3>1 DEF RunRecords
  <2>4. ASSUME NEW k \in Runs, Report(k) PROVE TypeOK'
    <3>1. run[k] \in RunRecords
      BY <2>a
    <3>2. [run[k] EXCEPT !.pc = "reported"] \in RunRecords
      BY <3>1 DEF RunRecords, Steps
    <3>3. RunsTyped'
      BY <2>4, <2>a, <3>1, <3>2, IdleType, OneRun DEF Report
    <3> HIDE DEF World, Repo, RunsTyped, Github
    <3>4. QED
      BY <2>4, <2>b, <2>c, <2>d, <2>e, <3>3 DEF Report
  <2>5. ASSUME NEW k \in Runs, ListOpen(k) \/ ListCleared(k) PROVE TypeOK'
    <3>1. PICK p \in {"listed", "clearing"} :
             run' = [run EXCEPT ![k].pc = p, ![k].found = open]
      BY <2>5 DEF ListOpen, ListCleared
    <3>2. run' = [run EXCEPT ![k] = [run[k] EXCEPT !.pc = p, !.found = open]]
      BY <2>a, <3>1
    <3>3. RunsTyped'
      <4>1. p \in Steps
        BY DEF Steps
      <4>2. QED
        BY <2>a, <2>g, <2>h, <3>2, <4>1, OneRun
    <3> HIDE DEF World, Repo, RunsTyped, Github
    <3>4. QED
      BY <2>5, <2>b, <2>c, <2>d, <2>e, <3>3 DEF ListOpen, ListCleared
  <2>6. ASSUME NEW k \in Runs, File(k) PROVE TypeOK'
    <3>1. RunsTyped'
      BY <2>6, <2>a, IdleType, OneRun DEF File
    <3>2. Github'
      <4>1. CASE UNCHANGED <<open, filed>>
        BY <2>6, <4>1, <2>a DEF File
      <4>2. CASE filed < MaxIssues /\ filed' = filed + 1 /\ open' = open \cup {filed + 1}
        <5>1. filed' \in 0..MaxIssues /\ open \subseteq 1..filed' /\ filed' \in 1..filed'
          BY <4>2, <2>a
        <5>2. QED
          BY <5>1, <4>2, <2>6, <2>a DEF File
      <4>3. QED
        BY <2>6, <4>1, <4>2 DEF File
    <3> HIDE DEF World, Repo, RunsTyped, Github
    <3>3. QED
      BY <2>6, <2>b, <2>c, <2>d, <3>1, <3>2 DEF File
  <2>7. ASSUME NEW k \in Runs, Close(k) PROVE TypeOK'
    <3>1. RunsTyped'
      <4>1. CASE run' = [run EXCEPT ![k] = Idle]
        BY <4>1, <2>a, IdleType, OneRun
      <4>2. CASE \E i \in run[k].found : run' = [run EXCEPT ![k].found = @ \ {i}]
        <5>1. PICK i \in run[k].found : run' = [run EXCEPT ![k].found = @ \ {i}]
          BY <4>2
        <5>2. run[k] \in RunRecords
          BY <2>a
        <5>3. [run[k] EXCEPT !.found = @ \ {i}] \in RunRecords
          BY <5>2 DEF RunRecords
        <5>4. run' = [run EXCEPT ![k] = [run[k] EXCEPT !.found = @ \ {i}]]
          BY <2>a, <5>1
        <5>5. QED
          BY <2>a, <5>3, <5>4, OneRun
      <4>3. QED
        BY <2>7, <4>1, <4>2 DEF Close
    <3>2. Github'
      BY <2>7, <2>a DEF Close
    <3> HIDE DEF World, Repo, RunsTyped, Github
    <3>3. QED
      BY <2>7, <2>b, <2>c, <2>d, <3>1, <3>2 DEF Close
  <2>8. ASSUME NEW k \in Runs, Abort(k) PROVE TypeOK'
    <3>1. RunsTyped'
      BY <2>8, <2>a, IdleType, OneRun DEF Abort
    <3>2. Github'
      BY <2>8, <2>a DEF Abort
    <3> HIDE DEF World, Repo, RunsTyped, Github
    <3>3. QED
      BY <2>8, <2>b, <2>c, <2>d, <3>1, <3>2 DEF Abort
  <2>13. ASSUME NEW k \in Runs, Die(k) PROVE TypeOK'
    <3> DEFINE r == [run[k] EXCEPT !.pc = "reported", !.died = TRUE]
    <3>1. run[k] \in RunRecords
      BY <2>a
    <3>2. r \in RunRecords
      BY <3>1 DEF RunRecords, Steps
    <3>3. run' = [run EXCEPT ![k] = r]
      BY <2>13, <2>a DEF Die
    <3> HIDE DEF r
    <3>4. RunsTyped'
      BY <2>a, <3>2, <3>3, OneRun
    <3>5. Github'
      BY <2>13, <2>a DEF Die
    <3> HIDE DEF World, Repo, RunsTyped, Github
    <3>6. QED
      BY <2>13, <2>b, <2>c, <2>d, <3>4, <3>5 DEF Die
  <2>9. ASSUME (\E s \in Sources : Revise(s) \/ Answer(s)) \/ NextDay PROVE TypeOK'
    <3>1. World'
      <4>1. ASSUME NEW s \in Sources, Revise(s) PROVE World'
        <5>1. doc[s] + 1 \in Versions
          <6>1. doc[s] \in 0 .. MaxVersion /\ doc[s] < MaxVersion
            BY <4>1, <2>a DEF Revise, Versions
          <6>2. QED
            BY <6>1, WatchAssumption DEF Versions
        <5>2. QED
          BY <4>1, <5>1, <2>a DEF Revise
      <4>2. ASSUME NEW s \in Sources, Answer(s) PROVE World'
        BY <4>2, <2>a DEF Answer
      <4>3. CASE NextDay
        <5>1. day + 1 \in Days
          BY <4>3, <2>a DEF NextDay, Days
        <5>2. QED
          BY <4>3, <5>1, <2>a DEF NextDay
      <4>4. QED
        BY <2>9, <4>1, <4>2, <4>3
    <3>2. UNCHANGED <<repo_vars, run, github_vars>>
      BY <2>9 DEF Revise, Answer, NextDay
    <3> HIDE DEF World, Repo, RunsTyped, Github
    <3>3. QED
      BY <2>b, <2>d, <2>e, <2>f, <3>1, <3>2
  <2>10. ASSUME NEW S \in SUBSET Sources, NEW R \in SUBSET Rules, NEW g \in BOOLEAN,
                Commit(S, R, g)
         PROVE  TypeOK'
    <3>1. Repo'
      BY <2>10, <2>a DEF Commit
    <3>2. UNCHANGED <<world_vars, run, github_vars>>
      BY <2>10 DEF Commit
    <3> HIDE DEF World, Repo, RunsTyped, Github
    <3>3. QED
      BY <2>b, <2>c, <2>e, <2>f, <3>1, <3>2
  <2>11. CASE UNCHANGED vars
    <3>1. UNCHANGED <<world_vars, repo_vars, run, github_vars>>
      BY <2>11 DEF vars
    <3> HIDE DEF World, Repo, RunsTyped, Github
    <3>2. QED
      BY <3>1, <2>b, <2>c, <2>d, <2>e, <2>f
  <2>12. QED
    BY <2>1, <2>2, <2>3, <2>4, <2>5, <2>6, <2>7, <2>8, <2>9, <2>10, <2>11, <2>13
       DEF Next, Elsewhere, RunStep
<1>3. QED
  BY <1>1, <1>2, PTL DEF Spec

-----------------------------------------------------------------------------
(* What every run knows: the readings it has taken are of documents as they *)
(* were served, later steps only follow a finished fetch loop, and the      *)
(* branch it is on is the one its exit code chose.                          *)
ReadingsTaken(k) ==
    /\ \A i \in 1..Len(Order) : i < run[k].at => run[k].seen[Order[i]] # "none"
    /\ \A s \in Sources : run[k].recorded[s] <= doc[s]
    /\ \A s \in Sources : run[k].seen[s] = "changed" => run[k].recorded[s] < doc[s]

BranchTaken(k) ==
    /\ run[k].pc \in {"reported", "listed", "clearing"}
         => run[k].at > Len(Order) \/ run[k].died
    /\ run[k].pc = "listed" => Exit(k) = 1
    /\ run[k].pc = "clearing" => Exit(k) = 0

RunInv ==
    /\ \A s \in Sources : recorded[s] <= doc[s]
    /\ \A k \in Runs : ReadingsTaken(k) /\ BranchTaken(k)

\* The exit code depends on what was read and checked out, not on the step.
LEMMA ExitSame ==
    ASSUME NEW k, run'[k].seen = run[k].seen, run'[k].verifiedOn = run[k].verifiedOn,
           run'[k].day = run[k].day, run'[k].golden = run[k].golden,
           run'[k].died = run[k].died
    PROVE  Exit(k)' = Exit(k)
<1>1. ChangedIn(k)' = ChangedIn(k) /\ UnverifiableIn(k)' = UnverifiableIn(k)
  BY DEF ChangedIn, UnverifiableIn
<1>2. StaleIn(k)' = StaleIn(k)
  BY <1>1 DEF StaleIn, Aged
<1>3. QED
  BY <1>1, <1>2 DEF Exit, NeedsReview

LEMMA SameRun ==
    ASSUME NEW k \in Runs, ReadingsTaken(k), BranchTaken(k), run'[k] = run[k],
           \A s \in Sources : doc'[s] >= doc[s],
           TypeOK, TypeOK'
    PROVE  ReadingsTaken(k)' /\ BranchTaken(k)'
<1>1. BranchTaken(k)'
  <2>1. Exit(k)' = Exit(k)
    BY ExitSame
  <2>2. QED
    BY <2>1 DEF BranchTaken
<1>2. ReadingsTaken(k)'
  <2>1. \A s \in Sources : /\ run[k].recorded[s] \in Int /\ doc[s] \in Int
                           /\ doc'[s] \in Int
    BY DEF TypeOK, RunRecords, Versions
  <2>2. QED
    BY <2>1 DEF ReadingsTaken
<1>3. QED
  BY <1>1, <1>2

LEMMA IdleSound ==
    ASSUME NEW k \in Runs, run'[k] = Idle, TypeOK'
    PROVE  ReadingsTaken(k)' /\ BranchTaken(k)'
<1>1. Idle.pc = "idle" /\ Idle.at = 1 /\ \A s \in Sources : /\ Idle.recorded[s] = 0
                                                            /\ Idle.seen[s] = "none"
  BY DEF Idle
<1>2. \A s \in Sources : 0 <= doc'[s]
  BY DEF TypeOK, Versions
<1>3. \A i \in 1..Len(Order) : ~ (i < 1)
  BY WatchAssumption
<1>4. QED
  BY <1>1, <1>2, <1>3 DEF ReadingsTaken, BranchTaken

\* The step that notes one reading.
LEMMA ClassifySound ==
    ASSUME TypeOK, RunInv, NEW k \in Runs, NEW s \in Sources, NEW reading \in Readings,
           Fetching(k, s), Classify(k, s, reading), reading # "none",
           reading = "changed" => run[k].recorded[s] < doc[s], UNCHANGED doc
    PROVE  ReadingsTaken(k)' /\ BranchTaken(k)'
<1>1. run[k] \in RunRecords /\ run \in [Runs -> RunRecords]
  BY DEF TypeOK
<1>2. run[k].at \in 1..Len(Order) /\ Len(Order) \in Nat
  BY <1>1, WatchAssumption DEF RunRecords, Fetching
<1>3. /\ run'[k].seen = [run[k].seen EXCEPT ![s] = reading]
      /\ run'[k].at = run[k].at + 1
      /\ run'[k].pc = "fetching" /\ run'[k].recorded = run[k].recorded
  BY <1>1 DEF Classify, Fetching, RunRecords
<1>4. run[k].seen \in [Sources -> Readings]
  BY <1>1 DEF RunRecords
<1>5. \A i \in 1..Len(Order) : i < run'[k].at => run'[k].seen[Order[i]] # "none"
  <2> SUFFICES ASSUME NEW i \in 1..Len(Order), i < run'[k].at
               PROVE  run'[k].seen[Order[i]] # "none"
    OBVIOUS
  <2>1. i < run[k].at \/ i = run[k].at
    BY <1>2, <1>3
  <2>2. Order[i] \in Sources
    BY PositionIsSource
  <2>3. CASE i = run[k].at
    BY <2>3, <1>3, <1>4 DEF Fetching
  <2>4. CASE i < run[k].at
    <3>1. run[k].seen[Order[i]] # "none"
      BY <2>4 DEF RunInv, ReadingsTaken
    <3>2. QED
      BY <3>1, <2>2, <1>3, <1>4
  <2>5. QED
    BY <2>1, <2>3, <2>4
<1>6. \A u \in Sources : run'[k].seen[u] = "changed" => run'[k].recorded[u] < doc'[u]
  BY <1>3, <1>4 DEF RunInv, ReadingsTaken
<1>7. QED
  BY <1>3, <1>5, <1>6 DEF RunInv, ReadingsTaken, BranchTaken

LEMMA RunInvariant == Spec => []RunInv
<1>1. Init => RunInv
  <2> SUFFICES ASSUME Init PROVE RunInv
    OBVIOUS
  <2>1. \A k \in Runs : run[k] = Idle
    BY DEF Init
  <2>2. Idle.pc = "idle" /\ Idle.at = 1 /\ \A s \in Sources : /\ Idle.recorded[s] = 0
                                                              /\ Idle.seen[s] = "none"
    BY DEF Idle
  <2>3. \A s \in Sources : recorded[s] = 0 /\ doc[s] = 0
    BY DEF Init
  <2>4. \A i \in 1..Len(Order) : ~ (i < 1)
    BY WatchAssumption
  <2>5. QED
    BY <2>1, <2>2, <2>3, <2>4 DEF RunInv, ReadingsTaken, BranchTaken
<1>2. TypeOK /\ TypeOK' /\ RunInv /\ [Next]_vars => RunInv'
  <2> SUFFICES ASSUME TypeOK, TypeOK', RunInv, [Next]_vars PROVE RunInv'
    OBVIOUS
  <2>a. run \in [Runs -> RunRecords] /\ \A s \in Sources : doc[s] \in Nat
    BY DEF TypeOK, Versions
  <2>b. ASSUME NEW k \in Runs, UNCHANGED <<world_vars, recorded>>,
               ReadingsTaken(k)' /\ BranchTaken(k)',
               \A j \in Runs \ {k} : run'[j] = run[j]
        PROVE  RunInv'
    <3>1. \A s \in Sources : doc'[s] >= doc[s]
      BY <2>a, <2>b DEF world_vars
    <3>2. \A j \in Runs : ReadingsTaken(j)' /\ BranchTaken(j)'
      BY <2>b, <3>1, SameRun DEF RunInv
    <3>3. QED
      BY <2>b, <3>2 DEF RunInv, world_vars
  <2>c. ASSUME NEW k \in Runs, UNCHANGED <<world_vars, recorded>>,
               run' = [run EXCEPT ![k] = Idle]
        PROVE  RunInv'
    <3>1. run'[k] = Idle /\ \A j \in Runs \ {k} : run'[j] = run[j]
      BY <2>a, <2>c
    <3>2. QED
      BY <2>b, <2>c, <3>1, IdleSound
  <2>1. ASSUME NEW k \in Runs, Trigger(k) PROVE RunInv'
    <3>1. /\ run'[k].pc = "fetching" /\ run'[k].at = 1 /\ run'[k].recorded = recorded
          /\ \A s \in Sources : run'[k].seen[s] = "none"
          /\ \A j \in Runs \ {k} : run'[j] = run[j]
      BY <2>1, <2>a DEF Trigger, Idle
    <3>2. doc' = doc /\ recorded' = recorded /\ UNCHANGED world_vars
      BY <2>1 DEF Trigger, world_vars, repo_vars
    <3>3. \A i \in 1..Len(Order) : ~ (i < 1)
      BY WatchAssumption
    <3>4. ReadingsTaken(k)' /\ BranchTaken(k)'
      BY <3>1, <3>2, <3>3 DEF RunInv, ReadingsTaken, BranchTaken
    <3>5. QED
      BY <2>b, <3>1, <3>2, <3>4
  <2>2. ASSUME NEW k \in Runs, Read(k) PROVE RunInv'
    <3> DEFINE reading(s) == IF doc[s] = run[k].recorded[s] THEN "unchanged" ELSE "changed"
    <3>1. PICK s \in Sources : Fetching(k, s) /\ Classify(k, s, reading(s))
      BY <2>2 DEF Read
    <3>2. UNCHANGED <<world_vars, recorded>> /\ UNCHANGED doc
      BY <2>2 DEF Read, world_vars, repo_vars
    <3>3. run[k].recorded[s] \in Nat /\ run[k].recorded[s] <= doc[s]
      BY <2>a DEF RunInv, ReadingsTaken, RunRecords, Versions
    <3>4. /\ reading(s) \in Readings /\ reading(s) # "none"
          /\ reading(s) = "changed" => run[k].recorded[s] < doc[s]
      BY <2>a, <3>3 DEF Readings
    <3> HIDE DEF reading
    <3>5. ReadingsTaken(k)' /\ BranchTaken(k)'
      BY <3>1, <3>2, <3>4, ClassifySound
    <3>6. \A j \in Runs \ {k} : run'[j] = run[j]
      BY <3>1, <2>a DEF Classify
    <3>7. QED
      BY <2>b, <3>2, <3>5, <3>6
  <2>3. ASSUME NEW k \in Runs, NotFound(k) PROVE RunInv'
    <3>1. PICK s \in Sources : Fetching(k, s) /\ Classify(k, s, "not_found")
      BY <2>3 DEF NotFound
    <3>2. UNCHANGED <<world_vars, recorded>> /\ UNCHANGED doc
      BY <2>3 DEF NotFound, world_vars, repo_vars
    <3>3. ReadingsTaken(k)' /\ BranchTaken(k)'
      BY <3>1, <3>2, ClassifySound DEF Readings
    <3>4. \A j \in Runs \ {k} : run'[j] = run[j]
      BY <3>1, <2>a DEF Classify
    <3>5. QED
      BY <2>b, <3>2, <3>3, <3>4
  <2>4. ASSUME NEW k \in Runs, NoAnswer(k) PROVE RunInv'
    <3>1. PICK s \in Sources :
             /\ Fetching(k, s)
             /\ IF run[k].tries + 1 < Attempts
                THEN run' = [run EXCEPT ![k].tries = @ + 1]
                ELSE Classify(k, s, "transport")
      BY <2>4 DEF NoAnswer
    <3>2. UNCHANGED <<world_vars, recorded>> /\ UNCHANGED doc
      BY <2>4 DEF NoAnswer, world_vars, repo_vars
    <3>3. ASSUME run' = [run EXCEPT ![k].tries = @ + 1]
          PROVE  ReadingsTaken(k)' /\ BranchTaken(k)'
      <4>1. /\ run'[k].pc = run[k].pc /\ run'[k].at = run[k].at
            /\ run'[k].seen = run[k].seen /\ run'[k].recorded = run[k].recorded
            /\ run[k].pc = "fetching"
        BY <2>a, <3>1, <3>3 DEF RunRecords, Fetching
      <4>2. QED
        BY <3>2, <4>1 DEF RunInv, ReadingsTaken, BranchTaken
    <3>4. ASSUME Classify(k, s, "transport")
          PROVE  ReadingsTaken(k)' /\ BranchTaken(k)'
      BY <3>1, <3>2, <3>4, ClassifySound DEF Readings
    <3>5. \A j \in Runs \ {k} : run'[j] = run[j]
      BY <3>1, <2>a DEF Classify
    <3>6. QED
      BY <2>b, <3>1, <3>2, <3>3, <3>4, <3>5
  <2>d. ASSUME NEW k \in Runs, UNCHANGED <<world_vars, recorded>>,
               run'[k].seen = run[k].seen, run'[k].recorded = run[k].recorded,
               run'[k].at = run[k].at, run'[k].verifiedOn = run[k].verifiedOn,
               run'[k].day = run[k].day, run'[k].golden = run[k].golden,
               run'[k].died = run[k].died,
               run[k].at > Len(Order) \/ run[k].died,
               run'[k].pc = "listed" => Exit(k) = 1,
               run'[k].pc = "clearing" => Exit(k) = 0,
               \A j \in Runs \ {k} : run'[j] = run[j]
        PROVE  RunInv'
    <3>1. Exit(k)' = Exit(k)
      BY <2>d, ExitSame
    <3>2. doc' = doc
      BY <2>d DEF world_vars
    <3>3. ReadingsTaken(k)' /\ BranchTaken(k)'
      BY <2>d, <3>1, <3>2 DEF RunInv, ReadingsTaken, BranchTaken
    <3>4. QED
      BY <2>b, <2>d, <3>3
  <2>5. ASSUME NEW k \in Runs, Report(k) PROVE RunInv'
    <3>1. UNCHANGED <<world_vars, recorded>>
      BY <2>5 DEF Report, repo_vars
    <3>2. CASE run' = [run EXCEPT ![k] = Idle]
      BY <2>c, <3>1, <3>2
    <3>3. CASE run' = [run EXCEPT ![k] = [@ EXCEPT !.pc = "reported"]]
      <4>1. /\ run'[k].seen = run[k].seen /\ run'[k].recorded = run[k].recorded
            /\ run'[k].at = run[k].at /\ run'[k].verifiedOn = run[k].verifiedOn
            /\ run'[k].day = run[k].day /\ run'[k].golden = run[k].golden
            /\ run'[k].died = run[k].died
            /\ run'[k].pc = "reported"
            /\ \A j \in Runs \ {k} : run'[j] = run[j]
        BY <2>a, <3>3 DEF RunRecords
      <4>2. QED
        BY <2>5, <2>d, <3>1, <4>1 DEF Report, Finished
    <3>4. QED
      BY <2>5, <3>2, <3>3 DEF Report
  <2>6. ASSUME NEW k \in Runs, ListOpen(k) \/ ListCleared(k) PROVE RunInv'
    <3>1. UNCHANGED <<world_vars, recorded>>
      BY <2>6 DEF ListOpen, ListCleared, repo_vars
    <3>2. PICK p \in {"listed", "clearing"} :
             /\ run' = [run EXCEPT ![k].pc = p, ![k].found = open]
             /\ run[k].pc = "reported"
             /\ p = "listed" => Exit(k) = 1
             /\ p = "clearing" => Exit(k) = 0
      BY <2>6 DEF ListOpen, ListCleared
    <3>3. /\ run'[k].seen = run[k].seen /\ run'[k].recorded = run[k].recorded
          /\ run'[k].at = run[k].at /\ run'[k].verifiedOn = run[k].verifiedOn
          /\ run'[k].day = run[k].day /\ run'[k].golden = run[k].golden
          /\ run'[k].died = run[k].died
          /\ run'[k].pc = p
          /\ \A j \in Runs \ {k} : run'[j] = run[j]
      BY <2>a, <3>2 DEF RunRecords
    <3>4. run[k].at > Len(Order) \/ run[k].died
      BY <3>2 DEF RunInv, BranchTaken
    <3>5. QED
      BY <2>d, <3>1, <3>2, <3>3, <3>4
  <2>7. ASSUME NEW k \in Runs, File(k) \/ Abort(k) PROVE RunInv'
    BY <2>7, <2>c DEF File, Abort, repo_vars
  <2>13. ASSUME NEW k \in Runs, Die(k) PROVE RunInv'
    <3>1. UNCHANGED <<world_vars, recorded>> /\ doc' = doc
      BY <2>13 DEF Die, repo_vars, world_vars
    <3>2. /\ run'[k].seen = run[k].seen /\ run'[k].recorded = run[k].recorded
          /\ run'[k].at = run[k].at /\ run'[k].died /\ run'[k].pc = "reported"
          /\ \A j \in Runs \ {k} : run'[j] = run[j]
      BY <2>13, <2>a DEF Die, RunRecords
    <3>3. ReadingsTaken(k)' /\ BranchTaken(k)'
      BY <3>1, <3>2 DEF RunInv, ReadingsTaken, BranchTaken
    <3>4. QED
      BY <2>b, <3>1, <3>2, <3>3
  <2>8. ASSUME NEW k \in Runs, Close(k) PROVE RunInv'
    <3>1. UNCHANGED <<world_vars, recorded>>
      BY <2>8 DEF Close, repo_vars
    <3>2. CASE run' = [run EXCEPT ![k] = Idle]
      BY <2>c, <3>1, <3>2
    <3>3. ASSUME NEW i \in run[k].found, run' = [run EXCEPT ![k].found = @ \ {i}]
          PROVE  RunInv'
      <4>1. /\ run'[k].seen = run[k].seen /\ run'[k].recorded = run[k].recorded
            /\ run'[k].at = run[k].at /\ run'[k].verifiedOn = run[k].verifiedOn
            /\ run'[k].day = run[k].day /\ run'[k].golden = run[k].golden
            /\ run'[k].died = run[k].died
            /\ run'[k].pc = "clearing"
            /\ \A j \in Runs \ {k} : run'[j] = run[j]
        BY <2>8, <2>a, <3>3 DEF Close, RunRecords
      <4>2. (run[k].at > Len(Order) \/ run[k].died) /\ Exit(k) = 0
        BY <2>8 DEF Close, RunInv, BranchTaken
      <4>3. QED
        BY <2>d, <3>1, <4>1, <4>2
    <3>4. QED
      BY <2>8, <3>2, <3>3 DEF Close
  <2>e. ASSUME UNCHANGED run, \A s \in Sources : doc'[s] >= doc[s],
               \A s \in Sources : recorded'[s] <= doc'[s]
        PROVE  RunInv'
    BY <2>e, SameRun DEF RunInv
  <2>f. \A s \in Sources : recorded[s] \in Nat /\ recorded[s] <= doc[s]
    BY DEF RunInv, TypeOK, Versions
  <2>9. ASSUME NEW s \in Sources, Revise(s) PROVE RunInv'
    <3>1. doc' = [doc EXCEPT ![s] = @ + 1] /\ UNCHANGED <<run, recorded>>
      BY <2>9 DEF Revise, repo_vars
    <3>2. \A u \in Sources : doc'[u] >= doc[u]
      BY <2>a, <3>1 DEF TypeOK
    <3>3. QED
      BY <2>a, <2>e, <2>f, <3>1, <3>2 DEF TypeOK
  <2>10. ASSUME (\E s \in Sources : Answer(s)) \/ NextDay \/ UNCHANGED vars PROVE RunInv'
    <3>1. UNCHANGED <<run, doc, recorded>>
      BY <2>10 DEF Answer, NextDay, repo_vars, vars, world_vars
    <3>2. QED
      BY <2>a, <2>e, <2>f, <3>1
  <2>11. ASSUME NEW S \in SUBSET Sources, NEW R \in SUBSET Rules, NEW g \in BOOLEAN,
                Commit(S, R, g)
         PROVE  RunInv'
    <3>1. /\ UNCHANGED <<run, doc>>
          /\ recorded' = [s \in Sources |-> IF s \in S THEN doc[s] ELSE recorded[s]]
      BY <2>11 DEF Commit, world_vars
    <3>2. QED
      BY <2>a, <2>e, <2>f, <3>1
  <2>12. QED
    BY <2>1, <2>2, <2>3, <2>4, <2>5, <2>6, <2>7, <2>8, <2>9, <2>10, <2>11, <2>13
       DEF Next, Elsewhere, RunStep
<1>3. QED
  BY <1>1, <1>2, TypeCorrect, PTL DEF Spec

\* An issue is closed only by a run that read every watched source at its
\* recorded digest and found every dated rule in its window and the golden
\* cases as expected (currency.yml:333-378).
THEOREM ClosesOnReading == Spec => ClosedOnReading
<1>1. TypeOK /\ RunInv /\ [Next]_vars =>
        (open \ open' # {} =>
           \E k \in Runs :
              /\ run[k].pc = "clearing" /\ run[k].golden
              /\ \A s \in Sources : run[k].seen[s] = "unchanged"
              /\ \A r \in Rules : run[k].verifiedOn[r] # Undated
                                    => run[k].day - run[k].verifiedOn[r] \in 0..MaxAge)
  <2> SUFFICES ASSUME TypeOK, RunInv, [Next]_vars, open \ open' # {}
               PROVE  \E k \in Runs :
                        /\ run[k].pc = "clearing" /\ run[k].golden
                        /\ \A s \in Sources : run[k].seen[s] = "unchanged"
                        /\ \A r \in Rules :
                             run[k].verifiedOn[r] # Undated
                               => run[k].day - run[k].verifiedOn[r] \in 0..MaxAge
    OBVIOUS
  <2>1. PICK k \in Runs : Close(k)
    BY DEF Next, Elsewhere, RunStep, Trigger, Read, NotFound, NoAnswer, Report, ListOpen,
           File, ListCleared, Die, Abort, Revise, Answer, NextDay, Commit, github_vars, vars
  <2>2. run[k].pc = "clearing" /\ run[k].at > Len(Order) /\ Exit(k) = 0 /\ ReadingsTaken(k)
    BY <2>1 DEF Close, RunInv, BranchTaken, Exit, NeedsReview
  <2>3. /\ ChangedIn(k) = {} /\ UnverifiableIn(k) = {} /\ StaleIn(k) = {}
        /\ run[k].golden
    BY <2>2 DEF Exit, NeedsReview
  <2>4. run[k] \in RunRecords
    BY DEF TypeOK
  <2>5. ASSUME NEW s \in Sources PROVE run[k].seen[s] = "unchanged"
    <3>1. PICK i \in 1..Len(Order) : s = Order[i]
      BY DEF Sources
    <3>2. i < run[k].at
      BY <2>2, <2>4, WatchAssumption DEF RunRecords
    <3>3. run[k].seen[s] # "none"
      BY <2>2, <3>1, <3>2 DEF ReadingsTaken
    <3>4. run[k].seen[s] \in Readings
      BY <2>4 DEF RunRecords
    <3>5. QED
      BY <2>3, <3>3, <3>4 DEF ChangedIn, UnverifiableIn, Readings
  <2>6. ASSUME NEW r \in Rules, run[k].verifiedOn[r] # Undated
        PROVE  run[k].day - run[k].verifiedOn[r] \in 0..MaxAge
    <3>1. run[k].day \in Int /\ run[k].verifiedOn[r] \in Int
      BY <2>4 DEF RunRecords, Days, Undated
    <3>2. ~Aged(run[k].verifiedOn[r], run[k].day)
      BY <2>3, <2>6 DEF StaleIn
    <3>3. MaxAge \in Nat
      BY WatchAssumption
    <3>4. QED
      BY <3>1, <3>2, <3>3 DEF Aged
  <2>7. QED
    BY <2>2, <2>3, <2>5, <2>6
<1>2. QED
  BY <1>1, TypeCorrect, RunInvariant, PTL DEF Spec, ClosedOnReading

\* An issue is filed only for a document that was read and differs from its
\* record, a rule past its window or a golden regression: never because a
\* source did not answer or was withdrawn (harness/watch.py:441-466).
THEOREM FilesOnEvidence == Spec => FiledOnEvidence
<1>1. TypeOK /\ RunInv /\ [Next]_vars =>
        \A k \in Runs : File(k) /\ open' # open => ReallyMoved(k)
  <2> SUFFICES ASSUME TypeOK, RunInv, NEW k \in Runs, File(k) PROVE ReallyMoved(k)
    OBVIOUS
  <2>1. Exit(k) = 1 /\ ReadingsTaken(k)
    BY DEF File, RunInv, BranchTaken
  <2>2. NeedsReview(k)
    BY <2>1 DEF Exit
  <2>3. CASE ChangedIn(k) # {}
    <3>1. PICK s \in Sources : run[k].seen[s] = "changed"
      BY <2>3 DEF ChangedIn
    <3>2. QED
      BY <2>1, <3>1 DEF ReadingsTaken, ReallyMoved
  <2>4. CASE ChangedIn(k) = {} /\ StaleIn(k) # {}
    BY <2>4 DEF StaleIn, ReallyMoved
  <2>5. QED
    BY <2>2, <2>3, <2>4 DEF NeedsReview, ReallyMoved
<1>2. QED
  BY <1>1, TypeCorrect, RunInvariant, PTL DEF Spec, FiledOnEvidence
----------------------------------------------------------------
\* An attempt at a source leaves a run where it is, in its loop.
LEMMA AttemptKeepsPlace ==
    ASSUME TypeOK, NEW k \in Runs, Read(k) \/ NotFound(k) \/ NoAnswer(k)
    PROVE  /\ run[k].pc = "fetching" /\ run'[k].pc = "fetching"
           /\ UNCHANGED <<open, filed, aborts>>
<1>a. run \in [Runs -> RunRecords] /\ run[k] \in RunRecords
  BY DEF TypeOK
<1>1. PICK s \in Sources : Fetching(k, s)
  BY DEF Read, NotFound, NoAnswer
<1>2. run[k].pc = "fetching"
  BY <1>1 DEF Fetching
<1>3. ASSUME NEW t \in Sources, NEW reading, Classify(k, t, reading)
      PROVE  run'[k].pc = "fetching"
  BY <1>3, <1>a, <1>2 DEF Classify, RunRecords
<1>4. ASSUME run' = [run EXCEPT ![k].tries = @ + 1]
      PROVE  run'[k].pc = "fetching"
  BY <1>4, <1>a, <1>2 DEF RunRecords
<1>5. run'[k].pc = "fetching"
  <2>1. CASE Read(k) \/ NotFound(k)
    BY <2>1, <1>3 DEF Read, NotFound
  <2>2. CASE NoAnswer(k)
    <3>1. \/ run' = [run EXCEPT ![k].tries = @ + 1]
          \/ \E t \in Sources : Classify(k, t, "transport")
      BY <2>2 DEF NoAnswer
    <3>2. QED
      BY <3>1, <1>3, <1>4
  <2>3. QED
    BY <2>1, <2>2
<1>6. UNCHANGED <<open, filed, aborts>>
  BY DEF Read, NotFound, NoAnswer, github_vars
<1>7. QED
  BY <1>2, <1>5, <1>6

\* A run that ends at its report, without an abort, has exit code 2.
LEMMA EndsAtReport ==
    ASSUME TypeOK, [Next]_vars, NEW k \in Runs,
           run[k].pc = "fetching", run'[k].pc = "idle", aborts' = aborts
    PROVE  Exit(k) = 2
<1>a. run \in [Runs -> RunRecords] /\ aborts \in Nat
  BY DEF TypeOK
<1>1. ASSUME NEW j \in Runs, j # k, RunStep(j) \/ Die(j) \/ Abort(j) PROVE FALSE
  <2>1. run'[k] = run[k]
    BY <1>1, <1>a DEF RunStep, Trigger, Read, NotFound, NoAnswer, Classify, Report,
                       ListOpen, File, ListCleared, Close, Die, Abort
  <2>2. QED
    BY <2>1
<1>2. CASE Trigger(k) \/ ListOpen(k) \/ File(k) \/ ListCleared(k) \/ Close(k)
  BY <1>2 DEF Trigger, ListOpen, File, ListCleared, Close
<1>3. CASE Read(k) \/ NotFound(k) \/ NoAnswer(k)
  BY <1>3, AttemptKeepsPlace
<1>4. CASE Die(k) \/ Abort(k)
  BY <1>4, <1>a DEF Die, Abort
<1>5. CASE Report(k)
  <2>1. CASE Exit(k) = 2
    BY <2>1
  <2>2. CASE Exit(k) # 2
    BY <1>5, <1>a, <2>2 DEF Report, RunRecords
  <2>3. QED
    BY <2>1, <2>2
<1>6. CASE UNCHANGED run
  BY <1>6
<1>7. QED
  BY <1>1, <1>2, <1>3, <1>4, <1>5, <1>6
     DEF Next, Elsewhere, RunStep, Revise, Answer, NextDay, Commit, vars

\* What a run could not read never hides what it found: when it ends without
\* looking at the issues, every dated rule is in its window, the golden cases
\* replay and no source changed (harness/__main__.py:416-426).
THEOREM FindingsAreReported == Spec => NothingSwallowed
<1>1. TypeOK /\ [Next]_vars =>
        \A k \in Runs :
          run[k].pc = "fetching" /\ run'[k].pc = "idle" /\ aborts' = aborts =>
              /\ \A s \in Sources : run[k].seen[s] # "changed"
              /\ run[k].golden
              /\ \A r \in Rules : run[k].verifiedOn[r] # Undated
                                  => run[k].day - run[k].verifiedOn[r] \in 0..MaxAge
  <2> SUFFICES ASSUME TypeOK, [Next]_vars, NEW k \in Runs,
                      run[k].pc = "fetching", run'[k].pc = "idle", aborts' = aborts
               PROVE  /\ \A s \in Sources : run[k].seen[s] # "changed"
                      /\ run[k].golden
                      /\ \A r \in Rules : run[k].verifiedOn[r] # Undated
                             => run[k].day - run[k].verifiedOn[r] \in 0..MaxAge
    OBVIOUS
  <2>1. Exit(k) = 2
    BY EndsAtReport
  <2>2. ChangedIn(k) = {} /\ StaleIn(k) = {} /\ run[k].golden
    BY <2>1 DEF Exit, NeedsReview
  <2>3. \A s \in Sources : run[k].seen[s] # "changed"
    BY <2>2 DEF ChangedIn
  <2>4. ASSUME NEW r \in Rules, run[k].verifiedOn[r] # Undated
        PROVE  run[k].day - run[k].verifiedOn[r] \in 0..MaxAge
    <3>1. run[k].day \in Int /\ run[k].verifiedOn[r] \in Int
      BY DEF TypeOK, RunRecords, Days, Undated
    <3>2. ~Aged(run[k].verifiedOn[r], run[k].day)
      BY <2>2, <2>4 DEF StaleIn
    <3>3. MaxAge \in Nat
      BY WatchAssumption
    <3>4. QED
      BY <3>1, <3>2, <3>3 DEF Aged
  <2>5. QED
    BY <2>2, <2>3, <2>4
<1>2. QED
  BY <1>1, TypeCorrect, PTL DEF Spec, NothingSwallowed

-----------------------------------------------------------------------------
(* With one run at a time, what a run listed is what is open when it files. *)
OneIssueInv ==
    /\ \A i, j \in open : i = j
    /\ \A k \in Runs : run[k].pc = "listed" => run[k].found = open

\* A set without two members has at most one.
LEMMA AtMostOne ==
    ASSUME NEW S, \A i, j \in S : i = j
    PROVE  Cardinality(S) <= 1
<1>1. CASE S = {}
  BY <1>1, FS_EmptySet
<1>2. CASE S # {}
  <2>1. PICK i \in S : TRUE
    BY <1>2
  <2>2. S = {i}
    BY <2>1
  <2>3. Cardinality(S) = 1
    BY <2>2, FS_Singleton
  <2>4. QED
    BY <2>3
<1>3. QED
  BY <1>1, <1>2

\* However many runs report a condition, one after the other, there is one
\* open issue: the run that files looked, and nobody else files meanwhile
\* (currency.yml:137-151).
THEOREM OneIssueAtATime ==
    ASSUME NEW only, Runs = {only}
    PROVE  Spec => []OneOpenIssue
<1>1. Init => OneIssueInv
  BY DEF Init, OneIssueInv, Idle
<1>2. TypeOK /\ OneIssueInv /\ [Next]_vars => OneIssueInv'
  <2> SUFFICES ASSUME TypeOK, OneIssueInv, [Next]_vars PROVE OneIssueInv'
    OBVIOUS
  <2>a. run \in [Runs -> RunRecords] /\ only \in Runs
    BY DEF TypeOK
  <2>b. ASSUME UNCHANGED open,
               run'[only].pc = "listed" => run[only].pc = "listed"
                                             /\ run'[only].found = run[only].found
        PROVE  OneIssueInv'
    BY <2>b DEF OneIssueInv
  <2>1. CASE Trigger(only) \/ Die(only) \/ Abort(only) \/ Report(only)
    <3>1. UNCHANGED open
      BY <2>1 DEF Trigger, Die, Abort, Report, github_vars
    <3>2. run'[only].pc # "listed"
      <4>1. CASE Trigger(only)
        BY <4>1, <2>a DEF Trigger, Idle
      <4>2. CASE Die(only) \/ Abort(only)
        BY <4>2, <2>a DEF Die, Abort, Idle, RunRecords
      <4>3. CASE Report(only)
        <5>1. \/ run' = [run EXCEPT ![only] = Idle]
              \/ run' = [run EXCEPT ![only] = [run[only] EXCEPT !.pc = "reported"]]
          BY <4>3 DEF Report
        <5>2. run[only] \in RunRecords
          BY <2>a
        <5>3. QED
          BY <5>1, <5>2, <2>a DEF Idle, RunRecords
      <4>4. QED
        BY <2>1, <4>1, <4>2, <4>3
    <3>3. QED
      BY <2>b, <3>1, <3>2
  <2>2. CASE Read(only) \/ NotFound(only) \/ NoAnswer(only)
    <3>1. UNCHANGED open /\ run'[only].pc = "fetching"
      BY <2>2, <2>a, AttemptKeepsPlace
    <3>2. QED
      BY <2>b, <3>1
  <2>3. CASE ListOpen(only) \/ ListCleared(only)
    <3>1. UNCHANGED open /\ run'[only].found = open
      BY <2>3, <2>a DEF ListOpen, ListCleared, RunRecords, github_vars
    <3>2. QED
      BY <3>1 DEF OneIssueInv
  <2>4. CASE File(only)
    <3>1. run'[only].pc = "idle"
      BY <2>4, <2>a DEF File, Idle
    <3>2. run[only].found = open
      BY <2>4, <2>a DEF File, OneIssueInv
    <3>3. \A i, j \in open' : i = j
      BY <2>4, <3>2 DEF File, OneIssueInv
    <3>4. QED
      BY <3>1, <3>3 DEF OneIssueInv
  <2>5. CASE Close(only)
    <3>1. run'[only].pc # "listed" /\ open' \subseteq open
      BY <2>5, <2>a DEF Close, Idle, RunRecords
    <3>2. QED
      BY <3>1 DEF OneIssueInv
  <2>6. CASE UNCHANGED <<open, run>>
    BY <2>6 DEF OneIssueInv
  <2>7. QED
    BY <2>1, <2>2, <2>3, <2>4, <2>5, <2>6
       DEF Next, Elsewhere, RunStep, Revise, Answer, NextDay, Commit, vars, github_vars
<1>3. OneIssueInv => OneOpenIssue
  BY AtMostOne DEF OneIssueInv, OneOpenIssue
<1>4. QED
  BY <1>1, <1>2, <1>3, TypeCorrect, PTL DEF Spec
=============================================================================
