-------------------------- MODULE AiBudget_proofs --------------------------
(***************************************************************************)
(* Proofs about AiBudget for every number of threads, clients, instances,  *)
(* cap, limit, window and day length.                                      *)
(***************************************************************************)
EXTENDS AiBudget, WellFoundedInduction, SequenceTheorems, FiniteSetTheorems,
        TLAPS

LEMMA MinOfNaturals ==
    ASSUME NEW S \in SUBSET Nat, S # {}
    PROVE  Min(S) \in S /\ \A y \in S : Min(S) <= y
<1> DEFINE R == {ss \in Nat \X Nat : ss[1] < ss[2]}
<1>0. IsWellFoundedOn(R, Nat)
  BY NatLessThanWellFounded DEF OpToRel
<1> HIDE DEF R
<1>1. PICK x \in S : \A y \in S : ~ (<<y, x>> \in R)
  BY <1>0, WFMin
<1>2. ASSUME NEW y \in S PROVE x <= y
  <2>1. x \in Nat /\ y \in Nat
    OBVIOUS
  <2>2. ~ (<<y, x>> \in R)
    BY <1>1
  <2>3. ~ (y < x)
    BY <2>1, <2>2, Zenon DEF R
  <2>4. QED
    BY <2>1, <2>3
<1>3. QED
  BY <1>2 DEF Min

\* Pruning the stale head of a deque leaves a deque of moments, no longer
\* than it was.
LEMMA DropStaleType ==
    ASSUME NEW w \in Seq(Times), NEW m \in Times
    PROVE  /\ DropStale(w, m) \in Seq(Times)
           /\ Len(DropStale(w, m)) <= Len(w)
<1> DEFINE live == {k \in 1..Len(w) : m - w[k] < Window}
<1>1. CASE live = {}
  BY <1>1, EmptySeq, LenProperties DEF DropStale
<1>2. CASE live # {}
  <2>1. Min(live) \in live
    <3>1. live \in SUBSET Nat
      OBVIOUS
    <3>2. QED
      BY <3>1, <1>2, MinOfNaturals
  <2>2. DropStale(w, m) = SubSeq(w, Min(live), Len(w))
    BY <1>2 DEF DropStale
  <2>3. Min(live) \in 1..Len(w) /\ Len(w) \in Nat
    BY <2>1, LenProperties
  <2>4. \A i \in Min(live)..Len(w) : w[i] \in Times
    BY <2>3, ElementOfSeq
  <2>5. QED
    BY <2>2, <2>3, <2>4, SubSeqProperties
<1>3. QED
  BY <1>1, <1>2

LEMMA RemoveFirstType ==
    ASSUME NEW w \in Seq(Times), NEW m
    PROVE  RemoveFirst(w, m) \in Seq(Times)
<1> DEFINE hits == {i \in 1..Len(w) : w[i] = m}
<1>1. CASE hits = {}
  BY <1>1 DEF RemoveFirst
<1>2. CASE hits # {}
  <2>1. SelectInSeq(w, LAMBDA v : v = m) = Min(hits)
    BY <1>2 DEF SelectInSeq
  <2>2. Min(hits) \in hits
    <3>1. hits \in SUBSET Nat
      OBVIOUS
    <3>2. QED
      BY <3>1, <1>2, MinOfNaturals
  <2>3. RemoveFirst(w, m) = RemoveAt(w, Min(hits))
    BY <1>2, <2>1 DEF RemoveFirst
  <2>4. Min(hits) \in 1..Len(w) /\ Len(w) \in Nat
    BY <2>2, LenProperties
  <2> HIDE DEF hits
  <2>a. \A i \in 1..Len(w) : w[i] \in Times
    BY ElementOfSeq
  <2>5. SubSeq(w, 1, Min(hits) - 1) \in Seq(Times)
    <3>1. \A i \in 1..(Min(hits) - 1) : w[i] \in Times
      BY <2>4, <2>a
    <3>2. QED
      BY <2>4, <3>1, SubSeqProperties
  <2>6. SubSeq(w, Min(hits) + 1, Len(w)) \in Seq(Times)
    <3>1. \A i \in (Min(hits) + 1)..Len(w) : w[i] \in Times
      BY <2>4, <2>a
    <3>2. QED
      BY <2>4, <3>1, SubSeqProperties
  <2>7. QED
    BY <2>3, <2>5, <2>6, ConcatProperties DEF RemoveAt
<1>3. QED
  BY <1>1, <1>2

LEMMA ReservedType ==
    ASSUME NEW ws \in [Clients -> Seq(Times)], NEW keys \in SUBSET Clients,
           NEW c \in Clients, NEW m \in Times
    PROVE  /\ Reserved(ws, keys, c, m).windows \in [Clients -> Seq(Times)]
           /\ Reserved(ws, keys, c, m).known \in SUBSET Clients
<1> DEFINE filled == [ws EXCEPT ![c] = Append(DropStale(@, m), m)]
<1>1. DropStale(ws[c], m) \in Seq(Times)
  BY DropStaleType
<1>2. filled \in [Clients -> Seq(Times)]
  BY <1>1, AppendProperties
<1>3. <<>> \in Seq(Times)
  BY EmptySeq
<1>4. QED
  BY <1>2, <1>3 DEF Reserved, Fresh

-----------------------------------------------------------------------------
\* Every variable keeps its type: in particular neither counter ever leaves
\* 0..Cap, whichever backend is configured (ai/budget.py:41-96).
THEOREM TypeCorrect == BudgetSpec => []BudgetTypeOK
<1> USE BudgetAssumption
<1>1. BudgetInit => BudgetTypeOK
  BY EmptySeq DEF BudgetInit, BudgetTypeOK, Calls, CallOK, Steps, Idle, Times, NoDay
<1>2. BudgetTypeOK /\ [BudgetNext]_budgetVars => BudgetTypeOK'
  <2> SUFFICES ASSUME BudgetTypeOK, [BudgetNext]_budgetVars PROVE BudgetTypeOK'
    OBVIOUS
  <2> DEFINE CallsTyped == call \in [Threads -> Calls] /\ \A t \in Threads : CallOK(call[t])
             WindowsTyped == /\ windows \in [Instances -> [Clients -> Seq(Times)]]
                             /\ known \in [Instances -> SUBSET Clients]
             MemoryTyped == /\ counterDay \in [Instances -> Days \cup {NoDay}]
                            /\ count \in [Instances -> 0..Cap]
             TableTyped == table \in [Days -> 0..Cap]
             HistoryTyped == /\ admitted \in [Days -> Nat]
                             /\ kept \in [Instances -> [Clients -> [Times -> Nat]]]
             ClockTyped == now \in Times /\ restarts \in 0..MaxRestarts
  <2>a. CallsTyped /\ WindowsTyped /\ MemoryTyped /\ TableTyped /\ HistoryTyped /\ ClockTyped
    BY DEF BudgetTypeOK
  <2>b. /\ CallsTyped' /\ WindowsTyped' /\ MemoryTyped' /\ TableTyped'
        /\ HistoryTyped' /\ ClockTyped'
        => BudgetTypeOK'
    BY DEF BudgetTypeOK
  <2>c. ASSUME NEW t \in Threads, call[t].pc # "idle"
        PROVE  /\ call[t].client \in Clients /\ call[t].moment \in Times
               /\ InstanceOf[t] \in Instances
               /\ call[t].pc = "counting" => call[t].day \in Days
    BY <2>a, <2>c DEF Calls, CallOK
  <2>d. ASSUME NEW t \in Threads, call[t].pc # "idle",
               NEW p \in Steps \ {"idle", "counting"}, call' = [call EXCEPT ![t].pc = p]
        PROVE  CallsTyped'
    <3>1. call'[t] = [call[t] EXCEPT !.pc = p] /\ \A u \in Threads \ {t} : call'[u] = call[u]
      BY <2>a, <2>d
    <3>2. call[t] \in Calls /\ CallOK(call[t])
      BY <2>a
    <3>3. call'[t] \in Calls /\ CallOK(call'[t])
      BY <3>1, <3>2, <2>d DEF Calls, CallOK
    <3>4. call' \in [Threads -> Calls]
      BY <2>a, <2>d, <3>3
    <3>5. QED
      BY <2>a, <3>1, <3>3, <3>4
  <2>e. ASSUME NEW t \in Threads, Return(t) PROVE CallsTyped'
    BY <2>a, <2>e DEF Calls, CallOK, Return, Idle, Steps, Times
  <2>f. ASSUME NEW t \in Threads, call[t].pc # "idle", Keep(t)
        PROVE  kept' \in [Instances -> [Clients -> [Times -> Nat]]]
    BY <2>a, <2>c, <2>f DEF Keep
  <2>g. ASSUME NEW t \in Threads, call[t].pc = "counting", Accept(t) \/ Refuse(t)
        PROVE  CallsTyped' /\ HistoryTyped'
    <3>1. CASE Accept(t)
      <4>1. CallsTyped'
        <5>1. call' = [call EXCEPT ![t].pc = "charged"]
          BY <3>1 DEF Accept
        <5>2. "charged" \in Steps \ {"idle", "counting"} /\ call[t].pc # "idle"
          BY <2>g DEF Steps
        <5> HIDE DEF CallsTyped
        <5>3. QED
          BY <2>d, <5>1, <5>2
      <4>2. call[t].client \in Clients /\ call[t].moment \in Times /\ call[t].day \in Days
            /\ InstanceOf[t] \in Instances
        BY <2>c, <2>g
      <4>3. admitted' \in [Days -> Nat]
        <5>1. admitted' = [admitted EXCEPT ![call[t].day] = @ + 1]
          BY <3>1 DEF Accept
        <5>2. admitted \in [Days -> Nat]
          BY <2>a
        <5>3. QED
          BY <4>2, <5>1, <5>2
      <4>4. kept' \in [Instances -> [Clients -> [Times -> Nat]]]
        BY <2>f, <2>g, <3>1 DEF Accept
      <4>5. QED
        BY <4>1, <4>3, <4>4
    <3>2. CASE Refuse(t)
      <4>1. call' = [call EXCEPT ![t].pc = "refused"] /\ UNCHANGED history_vars
        BY <3>2 DEF Refuse
      <4>2. "refused" \in Steps \ {"idle", "counting"} /\ call[t].pc # "idle"
        BY <2>g DEF Steps
      <4>3. HistoryTyped'
        BY <2>a, <4>1 DEF history_vars
      <4> HIDE DEF CallsTyped
      <4>4. QED
        BY <2>d, <4>1, <4>2, <4>3
    <3>3. QED
      BY <2>g, <3>1, <3>2
  <2> HIDE DEF CallsTyped, WindowsTyped, MemoryTyped, TableTyped, HistoryTyped, ClockTyped
  <2>1. ASSUME NEW t \in Threads, Arrive(t) PROVE BudgetTypeOK'
    <3>1. CallsTyped'
      BY <2>1, <2>a DEF Arrive, CallsTyped, ClockTyped, Calls, CallOK, Steps, NoDay
    <3>2. QED
      BY <2>1, <2>a, <2>b, <3>1 DEF Arrive, WindowsTyped, MemoryTyped, TableTyped,
         HistoryTyped, ClockTyped, window_vars, counter_vars, history_vars
  <2>2. ASSUME NEW t \in Threads, Reserve(t) PROVE BudgetTypeOK'
    <3>1. CallsTyped'
      BY <2>2, <2>d DEF Reserve, Steps
    <3>2. WindowsTyped'
      <4>1. /\ call[t].client \in Clients /\ call[t].moment \in Times
            /\ InstanceOf[t] \in Instances
        BY <2>2, <2>c DEF Reserve
      <4>2. /\ windows[InstanceOf[t]] \in [Clients -> Seq(Times)]
            /\ known[InstanceOf[t]] \in SUBSET Clients
        BY <2>a, <4>1 DEF WindowsTyped
      <4>3. QED
        BY <2>2, <2>a, <4>1, <4>2, ReservedType DEF Reserve, WindowsTyped
    <3>3. QED
      BY <2>2, <2>a, <2>b, <3>1, <3>2 DEF Reserve, MemoryTyped, TableTyped,
         HistoryTyped, ClockTyped, counter_vars, history_vars
  <2>3. ASSUME NEW t \in Threads, RefuseRate(t) PROVE BudgetTypeOK'
    <3>1. CallsTyped'
      BY <2>3, <2>e DEF RefuseRate
    <3>2. WindowsTyped'
      <4>1. /\ call[t].client \in Clients /\ call[t].moment \in Times
            /\ InstanceOf[t] \in Instances
        BY <2>3, <2>c DEF RefuseRate
      <4>2. DropStale(windows[InstanceOf[t]][call[t].client], call[t].moment) \in Seq(Times)
        BY <2>a, <4>1, DropStaleType DEF WindowsTyped
      <4>3. QED
        BY <2>3, <2>a, <4>1, <4>2 DEF RefuseRate, WindowsTyped
    <3>3. QED
      BY <2>3, <2>a, <2>b, <3>1, <3>2 DEF RefuseRate, MemoryTyped, TableTyped,
         HistoryTyped, ClockTyped, counter_vars, history_vars
  <2>4. ASSUME NEW t \in Threads, ReadDay(t) PROVE BudgetTypeOK'
    <3>1. DayOf[now] \in Days
      BY <2>a DEF Days, ClockTyped
    <3>2. CallsTyped'
      <4> DEFINE r == [call[t] EXCEPT !.pc = "counting", !.day = DayOf[now]]
      <4>1. call[t] \in Calls /\ CallOK(call[t]) /\ call[t].pc = "reserved"
        BY <2>4, <2>a DEF ReadDay, CallsTyped
      <4>2. r \in Calls /\ CallOK(r)
        BY <4>1, <3>1 DEF Calls, CallOK, Steps
      <4>3. call' = [call EXCEPT ![t] = r]
        BY <2>4, <2>a DEF ReadDay, CallsTyped
      <4> HIDE DEF r
      <4>4. QED
        BY <2>a, <4>2, <4>3 DEF CallsTyped
    <3>3. QED
      BY <2>4, <2>a, <2>b, <3>2 DEF ReadDay, WindowsTyped, MemoryTyped, TableTyped,
         HistoryTyped, ClockTyped, window_vars, counter_vars, history_vars
  <2>5. ASSUME NEW t \in Threads, Count(t), CountMemory(t) PROVE BudgetTypeOK'
    <3>1. call[t].day \in Days /\ InstanceOf[t] \in Instances
      BY <2>5, <2>c DEF CountMemory, Counted
    <3>2. CallsTyped' /\ HistoryTyped'
      BY <2>5, <2>g DEF Count, CountMemory, Counted
    <3>3. MemoryTyped'
      <4> DEFINE i    == InstanceOf[t]
                 base == IF counterDay[i] = call[t].day THEN count[i] ELSE 0
      <4>1. /\ counterDay' = [counterDay EXCEPT ![i] = call[t].day]
            /\ \/ base < Cap /\ count' = [count EXCEPT ![i] = base + 1]
               \/ base >= Cap /\ count' = [count EXCEPT ![i] = base]
        BY <2>5 DEF CountMemory, Counted, Rolled
      <4>2. base \in 0 .. Cap
        BY <2>a, <3>1, BudgetAssumption DEF MemoryTyped
      <4> HIDE DEF base
      <4>3. counterDay' \in [Instances -> Days \cup {NoDay}]
        BY <2>a, <3>1, <4>1 DEF MemoryTyped
      <4>4. count' \in [Instances -> 0 .. Cap]
        <5>1. base < Cap => base + 1 \in 0 .. Cap
          BY <4>2, BudgetAssumption
        <5>2. QED
          BY <2>a, <3>1, <4>1, <4>2, <5>1 DEF MemoryTyped
      <4>5. QED
        BY <4>3, <4>4 DEF MemoryTyped
    <3>4. QED
      BY <2>5, <2>a, <2>b, <3>2, <3>3 DEF Count, CountMemory, WindowsTyped, TableTyped,
         ClockTyped, window_vars
  <2>6. ASSUME NEW t \in Threads, Count(t), CountDynamo(t) PROVE BudgetTypeOK'
    <3>1. call[t].day \in Days
      BY <2>6, <2>c DEF CountDynamo
    <3>2. CallsTyped' /\ HistoryTyped'
      BY <2>6, <2>g DEF Count, CountDynamo
    <3>3. TableTyped'
      BY <2>6, <2>a, <3>1 DEF CountDynamo, TableTyped
    <3>4. QED
      BY <2>6, <2>a, <2>b, <3>2, <3>3 DEF Count, CountDynamo, WindowsTyped, MemoryTyped,
         ClockTyped, window_vars
  <2>7. ASSUME NEW t \in Threads, CounterError(t) PROVE BudgetTypeOK'
    <3>1. call[t].day \in Days
      BY <2>7, <2>c DEF CounterError
    <3>2. CallsTyped' /\ HistoryTyped'
      BY <2>7, <2>a, <2>e, <2>f DEF CounterError, HistoryTyped
    <3>3. TableTyped'
      BY <2>7, <2>a, <3>1 DEF CounterError, TableTyped
    <3>4. QED
      BY <2>7, <2>a, <2>b, <3>2, <3>3 DEF CounterError, WindowsTyped, MemoryTyped,
         ClockTyped, window_vars
  <2>8. ASSUME NEW t \in Threads, RollBack(t) PROVE BudgetTypeOK'
    <3>1. CallsTyped'
      BY <2>8, <2>e DEF RollBack
    <3>2. WindowsTyped'
      <4>1. call[t].client \in Clients /\ InstanceOf[t] \in Instances
        BY <2>8, <2>c DEF RollBack
      <4>2. RemoveFirst(windows[InstanceOf[t]][call[t].client], call[t].moment) \in Seq(Times)
        BY <2>a, <4>1, RemoveFirstType DEF WindowsTyped
      <4>3. QED
        BY <2>8, <2>a, <4>1, <4>2 DEF RollBack, WindowsTyped
    <3>3. QED
      BY <2>8, <2>a, <2>b, <3>1, <3>2 DEF RollBack, MemoryTyped, TableTyped,
         HistoryTyped, ClockTyped, counter_vars, history_vars
  <2>9. ASSUME NEW t \in Threads, Respond(t) PROVE BudgetTypeOK'
    <3>1. CallsTyped'
      BY <2>9, <2>e DEF Respond
    <3>2. QED
      BY <2>9, <2>a, <2>b, <3>1 DEF Respond, WindowsTyped, MemoryTyped, TableTyped,
         HistoryTyped, ClockTyped, window_vars, counter_vars, history_vars
  <2>10. ASSUME NEW i \in Instances, RestartInstance(i) PROVE BudgetTypeOK'
    <3>1. CallsTyped'
      BY <2>10, <2>a DEF RestartInstance, CallsTyped, Calls, CallOK, Steps, Idle, Times
    <3>2. WindowsTyped'
      BY <2>10, <2>a, EmptySeq DEF RestartInstance, WindowsTyped
    <3>3. MemoryTyped'
      BY <2>10, <2>a DEF RestartInstance, MemoryTyped
    <3>4. HistoryTyped'
      BY <2>10, <2>a DEF RestartInstance, HistoryTyped
    <3>5. TableTyped' /\ ClockTyped'
      BY <2>10, <2>a DEF RestartInstance, TableTyped, ClockTyped
    <3>6. QED
      BY <2>b, <3>1, <3>2, <3>3, <3>4, <3>5
  <2>11. CASE Tick
    <3>1. ClockTyped'
      BY <2>11, <2>a DEF Tick, ClockTyped, Times
    <3>2. QED
      BY <2>11, <2>a, <2>b, <3>1 DEF Tick, CallsTyped, WindowsTyped, MemoryTyped,
         TableTyped, HistoryTyped, window_vars, counter_vars, history_vars
  <2>12. CASE UNCHANGED budgetVars
    BY <2>12 DEF budgetVars, BudgetTypeOK
  <2>13. QED
    BY <2>1, <2>2, <2>3, <2>4, <2>5, <2>6, <2>7, <2>8, <2>9, <2>10, <2>11, <2>12
       DEF BudgetNext, Count
<1>3. QED
  BY <1>1, <1>2, PTL DEF BudgetSpec

-----------------------------------------------------------------------------
\* The strengthening that makes the cap inductive: nobody is let through for a
\* day without an addition to that day's shared item.
CoveredByTable == \A d \in Days : admitted[d] <= table[d]

LEMMA AdmissionsCovered ==
    ASSUME Backend = "dynamo"
    PROVE  BudgetSpec => []CoveredByTable
<1>1. BudgetInit => CoveredByTable
  BY DEF BudgetInit, CoveredByTable
<1>2. BudgetTypeOK /\ CoveredByTable /\ [BudgetNext]_budgetVars => CoveredByTable'
  <2> SUFFICES ASSUME BudgetTypeOK, CoveredByTable, [BudgetNext]_budgetVars PROVE CoveredByTable'
    OBVIOUS
  <2>a. admitted \in [Days -> Nat] /\ table \in [Days -> 0..Cap] /\ Cap \in Nat
    BY BudgetAssumption DEF BudgetTypeOK
  <2>1. ASSUME UNCHANGED <<table, admitted>> PROVE CoveredByTable'
    BY <2>1 DEF CoveredByTable
  <2>2. ASSUME NEW t \in Threads, CountDynamo(t) PROVE CoveredByTable'
    BY <2>a, <2>2 DEF CountDynamo, Accept, Refuse, CoveredByTable, history_vars
  <2>3. ASSUME NEW t \in Threads, CounterError(t) PROVE CoveredByTable'
    BY <2>a, <2>3 DEF CounterError, CoveredByTable
  <2>4. ASSUME NEW t \in Threads, CountMemory(t) PROVE FALSE
    BY <2>4, Backend = "dynamo" DEF CountMemory
  <2>5. ASSUME NEW t \in Threads, Arrive(t) \/ Reserve(t) \/ RefuseRate(t) \/ ReadDay(t)
                                  \/ RollBack(t) \/ Respond(t)
        PROVE  UNCHANGED <<table, admitted>>
    BY <2>5 DEF Arrive, Reserve, RefuseRate, ReadDay, RollBack, Respond, counter_vars, history_vars
  <2>6. ASSUME NEW i \in Instances, RestartInstance(i) PROVE UNCHANGED <<table, admitted>>
    BY <2>6 DEF RestartInstance
  <2>7. CASE Tick \/ UNCHANGED budgetVars
    BY <2>1, <2>7 DEF Tick, budgetVars, counter_vars, history_vars
  <2>8. QED
    BY <2>1, <2>2, <2>3, <2>4, <2>5, <2>6, <2>7 DEF BudgetNext, Count
<1>3. QED
  BY <1>1, <1>2, TypeCorrect, PTL DEF BudgetSpec

\* With the shared table the daily cap holds whatever the interleaving of the
\* instances' threads, through midnights, lost responses and restarts
\* (ai/budget.py:1-9, 57-96).
THEOREM DynamoDailyCap ==
    ASSUME Backend = "dynamo"
    PROVE  BudgetSpec => []DailyCapHard
<1>1. BudgetTypeOK /\ CoveredByTable => DailyCapHard
  <2> SUFFICES ASSUME BudgetTypeOK, CoveredByTable, NEW d \in Days PROVE admitted[d] <= Cap
    BY DEF DailyCapHard
  <2>1. admitted[d] \in Nat /\ table[d] \in 0..Cap /\ admitted[d] <= table[d]
    BY DEF BudgetTypeOK, CoveredByTable
  <2>2. QED
    BY <2>1, BudgetAssumption
<1>2. QED
  BY <1>1, TypeCorrect, AdmissionsCovered, PTL

\* With the shared table every behaviour of the budget is one of DailyCap: a
\* step lets one more request through below the cap, or changes nothing the
\* promise is about (ai/budget.py:57-96, 109-147).
THEOREM DynamoImplementsDailyCap ==
    ASSUME Backend = "dynamo"
    PROVE  BudgetSpec => ImplementsDailyCap
<1>1. BudgetInit => Promise!CapInit
  BY DEF BudgetInit, Promise!CapInit
<1>2. BudgetTypeOK /\ CoveredByTable /\ [BudgetNext]_budgetVars => [Promise!CapNext]_admitted
  <2> SUFFICES ASSUME BudgetTypeOK, CoveredByTable, [BudgetNext]_budgetVars PROVE [Promise!CapNext]_admitted
    OBVIOUS
  <2>1. ASSUME NEW t \in Threads, CountDynamo(t) PROVE [Promise!CapNext]_admitted
    <3>1. CASE UNCHANGED admitted
      BY <3>1
    <3>2. CASE Accept(t) /\ table[call[t].day] < Cap
      <4> DEFINE d == call[t].day
      <4>1. d \in Days
        BY <2>1 DEF CountDynamo, BudgetTypeOK, CallOK
      <4>2. admitted[d] \in Nat /\ table[d] \in 0..Cap /\ admitted[d] <= table[d]
        BY <4>1 DEF BudgetTypeOK, CoveredByTable
      <4>3. admitted[d] < Cap
        BY <3>2, <4>2, BudgetAssumption
      <4>4. Promise!Admit(d)
        BY <3>2, <4>3 DEF Accept, Promise!Admit
      <4>5. QED
        BY <4>1, <4>4 DEF Promise!CapNext
    <3>3. QED
      BY <2>1, <3>1, <3>2 DEF CountDynamo, Refuse, history_vars
  <2>2. ASSUME NEW t \in Threads, CountMemory(t) PROVE FALSE
    BY <2>2, Backend = "dynamo" DEF CountMemory
  <2>3. ASSUME NEW t \in Threads, Arrive(t) \/ Reserve(t) \/ RefuseRate(t) \/ ReadDay(t)
                                  \/ CounterError(t) \/ RollBack(t) \/ Respond(t)
        PROVE  UNCHANGED admitted
    BY <2>3 DEF Arrive, Reserve, RefuseRate, ReadDay, CounterError, RollBack, Respond, history_vars
  <2>4. ASSUME NEW i \in Instances, RestartInstance(i) PROVE UNCHANGED admitted
    BY <2>4 DEF RestartInstance
  <2>5. CASE Tick \/ UNCHANGED budgetVars
    BY <2>5 DEF Tick, budgetVars, history_vars
  <2>6. QED
    BY <2>1, <2>2, <2>3, <2>4, <2>5 DEF BudgetNext, Count
<1>3. QED
  BY <1>1, <1>2, TypeCorrect, AdmissionsCovered, PTL DEF BudgetSpec, ImplementsDailyCap, Promise!CapSpec

-----------------------------------------------------------------------------
(* The places that calls hold.                                             *)

(* The entries of a deque that carry one moment.                           *)

Places(w, m) == {k \in 1..Len(w) : w[k] = m}
Entries(w, m) == Cardinality(Places(w, m))

LEMMA EntriesCounted ==
    ASSUME NEW w \in Seq(Times), NEW m
    PROVE  IsFiniteSet(Places(w, m)) /\ Entries(w, m) \in Nat
<1>1. IsFiniteSet(1..Len(w))
  BY LenProperties, FS_Interval
<1>2. QED
  BY <1>1, FS_Subset, FS_CardinalityType DEF Places, Entries

LEMMA EntriesOfAppend ==
    ASSUME NEW w \in Seq(Times), NEW v \in Times, NEW m
    PROVE  Entries(Append(w, v), m) = IF m = v THEN Entries(w, m) + 1 ELSE Entries(w, m)
<1>1. Len(w) \in Nat
  BY LenProperties
<1>2. Len(Append(w, v)) = Len(w) + 1 /\ Append(w, v)[Len(w) + 1] = v
      /\ \A k \in 1..Len(w) : Append(w, v)[k] = w[k]
  BY AppendProperties
<1>3. Places(Append(w, v), m) = IF m = v THEN Places(w, m) \cup {Len(w) + 1} ELSE Places(w, m)
  BY <1>1, <1>2 DEF Places
<1>4. Len(w) + 1 \notin Places(w, m)
  BY <1>1 DEF Places
<1>5. QED
  BY <1>3, <1>4, EntriesCounted, FS_AddElement DEF Entries

\* Pruning drops a head of stale entries.
LEMMA DropStaleShifts ==
    ASSUME NEW w \in Seq(Times), NEW v \in Times
    PROVE  \E d \in 0..Len(w) :
              /\ Len(DropStale(w, v)) = Len(w) - d
              /\ \A k \in 1..(Len(w) - d) : DropStale(w, v)[k] = w[k + d]
              /\ \A k \in 1..d : ~(v - w[k] < Window)
<1> DEFINE live == {k \in 1..Len(w) : v - w[k] < Window}
<1>1. Len(w) \in Nat
  BY LenProperties
<1>2. CASE live = {}
  <2>1. DropStale(w, v) = <<>> /\ \A k \in 1..Len(w) : ~(v - w[k] < Window)
    BY <1>2 DEF DropStale
  <2>2. Len(DropStale(w, v)) = 0
    BY <2>1, EmptySeq
  <2> WITNESS Len(w) \in 0..Len(w)
  <2>3. QED
    BY <1>1, <2>1, <2>2
<1>3. CASE live # {}
  <2>1. Min(live) \in live /\ \A k \in live : Min(live) <= k
    <3>1. live \in SUBSET Nat
      OBVIOUS
    <3>2. QED
      BY <3>1, <1>3, MinOfNaturals
  <2>2. DropStale(w, v) = SubSeq(w, Min(live), Len(w))
    BY <1>3 DEF DropStale
  <2>3. Min(live) \in 1..Len(w)
    BY <2>1
  <2>4. \A k \in 1..Len(w) : k < Min(live) => ~(v - w[k] < Window)
    BY <1>1, <2>1, <2>3
  <2>5. \A k \in Min(live)..Len(w) : w[k] \in Times
    BY <1>1, <2>3, ElementOfSeq
  <2> HIDE DEF live
  <2>6. /\ Len(DropStale(w, v)) = Len(w) - Min(live) + 1
        /\ \A k \in 1..(Len(w) - Min(live) + 1) :
              DropStale(w, v)[k] = w[Min(live) + k - 1]
    BY <1>1, <2>2, <2>3, <2>5, SubSeqProperties
  <2> DEFINE d == Min(live) - 1
  <2>7. d \in 0..Len(w)
    BY <1>1, <2>3
  <2>8. Len(DropStale(w, v)) = Len(w) - d
    BY <1>1, <2>3, <2>6
  <2>9. \A k \in 1..(Len(w) - d) : DropStale(w, v)[k] = w[k + d]
    <3>1. ASSUME NEW k \in 1..(Len(w) - d) PROVE DropStale(w, v)[k] = w[k + d]
      <4>1. k \in 1..(Len(w) - Min(live) + 1) /\ Min(live) + k - 1 = k + d
        BY <1>1, <2>3
      <4>2. QED
        BY <2>6, <4>1
    <3>2. QED
      BY <3>1
  <2>10. \A k \in 1..d : ~(v - w[k] < Window)
    BY <1>1, <2>3, <2>4
  <2>11. QED
    BY <2>7, <2>8, <2>9, <2>10
<1>4. QED
  BY <1>2, <1>3

\* Pruning at a moment adds no entry, and keeps every entry that is recent then.
LEMMA EntriesOfDropStale ==
    ASSUME NEW w \in Seq(Times), NEW v \in Times, NEW m
    PROVE  /\ Entries(DropStale(w, v), m) <= Entries(w, m)
           /\ v - m < Window => Entries(DropStale(w, v), m) = Entries(w, m)
<1> DEFINE x == DropStale(w, v)
<1>1. PICK d \in 0..Len(w) : /\ Len(x) = Len(w) - d
                             /\ \A k \in 1..(Len(w) - d) : x[k] = w[k + d]
                             /\ \A k \in 1..d : ~(v - w[k] < Window)
  BY DropStaleShifts
<1>2. Len(w) \in Nat /\ x \in Seq(Times)
  BY LenProperties, DropStaleType
<1> HIDE DEF x
<1> DEFINE f == [k \in Places(x, m) |-> k + d]
<1>3. f \in Injection(Places(x, m), Places(w, m))
  <2>1. ASSUME NEW k \in Places(x, m) PROVE k \in Nat /\ k + d \in Places(w, m)
    BY <1>1, <1>2 DEF Places
  <2>2. f \in [Places(x, m) -> Places(w, m)]
    BY <2>1
  <2>3. \A a, b \in Places(x, m) : f[a] = f[b] => a = b
    BY <2>1, <1>1, <1>2
  <2> HIDE DEF f
  <2>4. QED
    BY <2>2, <2>3, Zenon DEF Injection, IsInjective
<1>4. ASSUME v - m < Window PROVE f \in Surjection(Places(x, m), Places(w, m))
  <2>1. ASSUME NEW k \in Places(w, m) PROVE \E j \in Places(x, m) : f[j] = k
    <3>1. k \in 1..Len(w) /\ w[k] = m
      BY DEF Places
    <3>2. k \notin 1..d
      BY <1>1, <1>4, <3>1
    <3>3. k - d \in 1..(Len(w) - d)
      BY <1>2, <3>1, <3>2
    <3>4. x[k - d] = w[(k - d) + d]
      BY <1>1, <3>3
    <3>5. (k - d) + d = k
      BY <1>2, <3>1
    <3>6. k - d \in Places(x, m)
      BY <1>1, <3>1, <3>3, <3>4, <3>5 DEF Places
    <3>7. QED
      BY <3>5, <3>6
  <2>2. f \in [Places(x, m) -> Places(w, m)]
    BY <1>3 DEF Injection
  <2>3. QED
    BY <2>1, <2>2 DEF Surjection
<1>5. IsFiniteSet(Places(w, m))
  BY EntriesCounted
<1> HIDE DEF f
<1>6. QED
  BY <1>3, <1>4, <1>5, FS_Injection DEF Entries, x

\* remove() takes one entry of its moment out, and no other.
LEMMA EntriesOfRemoveFirst ==
    ASSUME NEW w \in Seq(Times), NEW v, NEW m
    PROVE  /\ Len(RemoveFirst(w, v)) <= Len(w)
           /\ Entries(RemoveFirst(w, v), m) =
                 IF m = v /\ Entries(w, v) > 0 THEN Entries(w, m) - 1 ELSE Entries(w, m)
<1> DEFINE hits == {i \in 1..Len(w) : w[i] = v}
<1>0. Len(w) \in Nat
  BY LenProperties
<1>1. CASE hits = {}
  <2>1. RemoveFirst(w, v) = w
    BY <1>1 DEF RemoveFirst
  <2>2. Entries(w, v) = 0
    BY <1>1, FS_EmptySet DEF Entries, Places
  <2>3. QED
    BY <1>0, <2>1, <2>2
<1>2. CASE hits # {}
  <2> DEFINE j == Min(hits)
             x == RemoveFirst(w, v)
  <2>1. SelectInSeq(w, LAMBDA u : u = v) = Min(hits)
    BY <1>2 DEF SelectInSeq
  <2>2. j \in 1..Len(w) /\ w[j] = v
    <3>1. hits \in SUBSET Nat
      OBVIOUS
    <3>2. Min(hits) \in hits
      BY <3>1, <1>2, MinOfNaturals
    <3>3. QED
      BY <3>2
  <2>3. x = RemoveAt(w, j)
    BY <1>2, <2>1 DEF RemoveFirst
  <2> HIDE DEF hits, j
  <2>a. \A i \in 1..Len(w) : w[i] \in Times
    BY ElementOfSeq
  <2>4. /\ SubSeq(w, 1, j - 1) \in Seq(Times) /\ Len(SubSeq(w, 1, j - 1)) = j - 1
        /\ \A i \in 1..(j - 1) : SubSeq(w, 1, j - 1)[i] = w[i]
    <3>1. \A i \in 1..(j - 1) : w[i] \in Times
      BY <1>0, <2>2, <2>a
    <3>2. j - 1 \in Int /\ (1 <= j - 1 => (j - 1) - 1 + 1 = j - 1) /\ (~(1 <= j - 1) => j - 1 = 0)
          /\ (j - 1) - 1 + 1 = j - 1
      BY <1>0, <2>2
    <3>3. \A i \in 1..(j - 1) : 1 + i - 1 = i
      BY <3>2
    <3>4. QED
      BY <3>1, <3>2, <3>3, SubSeqProperties
  <2>5. /\ SubSeq(w, j + 1, Len(w)) \in Seq(Times)
        /\ Len(SubSeq(w, j + 1, Len(w))) = Len(w) - j
        /\ \A i \in 1..(Len(w) - j) : SubSeq(w, j + 1, Len(w))[i] = w[j + i]
    <3>1. \A i \in (j + 1)..Len(w) : w[i] \in Times
      BY <1>0, <2>2, <2>a
    <3>2. j + 1 \in Int /\ Len(w) - (j + 1) + 1 = Len(w) - j
          /\ (~(j + 1 <= Len(w)) => Len(w) - j = 0)
      BY <1>0, <2>2
    <3>3. \A i \in 1..(Len(w) - j) : (j + 1) + i - 1 = j + i
      BY <1>0, <2>2
    <3>4. QED
      BY <1>0, <3>1, <3>2, <3>3, SubSeqProperties
  <2>6. /\ Len(x) = Len(w) - 1
        /\ \A i \in 1..(Len(w) - 1) : x[i] = IF i < j THEN w[i] ELSE w[i + 1]
    <3>1. Len(x) = (j - 1) + (Len(w) - j)
          /\ \A i \in 1..((j - 1) + (Len(w) - j)) :
                x[i] = IF i <= j - 1 THEN SubSeq(w, 1, j - 1)[i]
                       ELSE SubSeq(w, j + 1, Len(w))[i - (j - 1)]
      <4> DEFINE before == SubSeq(w, 1, j - 1)
                 after  == SubSeq(w, j + 1, Len(w))
      <4>1. x = before \o after
        BY <2>3 DEF RemoveAt
      <4>2. /\ before \in Seq(Times) /\ Len(before) = j - 1
            /\ after \in Seq(Times) /\ Len(after) = Len(w) - j
        BY <2>4, <2>5
      <4> HIDE DEF before, after, x
      <4>3. /\ Len(x) = Len(before) + Len(after)
            /\ \A i \in 1..(Len(before) + Len(after)) :
                  x[i] = IF i <= Len(before) THEN before[i] ELSE after[i - Len(before)]
        BY <4>1, <4>2, ConcatProperties
      <4>4. /\ Len(x) = (j - 1) + (Len(w) - j)
            /\ \A i \in 1..((j - 1) + (Len(w) - j)) :
                  x[i] = IF i <= j - 1 THEN before[i] ELSE after[i - (j - 1)]
        BY <4>2, <4>3
      <4>5. QED
        BY <4>4 DEF before, after
    <3>2. (j - 1) + (Len(w) - j) = Len(w) - 1
      BY <1>0, <2>2
    <3>3. ASSUME NEW i \in 1..(Len(w) - 1) PROVE x[i] = IF i < j THEN w[i] ELSE w[i + 1]
      <4>1. CASE i < j
        <5>1. i \in 1..(j - 1) /\ i <= j - 1
          BY <2>2, <4>1
        <5>2. QED
          BY <2>4, <3>1, <3>2, <4>1, <5>1
      <4>2. CASE ~(i < j)
        <5>1. i - (j - 1) \in 1..(Len(w) - j) /\ ~(i <= j - 1) /\ j + (i - (j - 1)) = i + 1
          BY <1>0, <2>2, <4>2
        <5>2. QED
          BY <2>5, <3>1, <3>2, <4>2, <5>1
      <4>3. QED
        BY <4>1, <4>2
    <3>4. QED
      BY <3>1, <3>2, <3>3
  <2> HIDE DEF x
  <2> DEFINE S == Places(w, m) \ {j}
             f == [k \in Places(x, m) |-> IF k < j THEN k ELSE k + 1]
  <2>7. f \in [Places(x, m) -> S]
    <3>1. ASSUME NEW k \in Places(x, m) PROVE (IF k < j THEN k ELSE k + 1) \in S
      BY <1>0, <2>2, <2>6 DEF Places
    <3>2. QED
      BY <3>1
  <2>8. f \in Injection(Places(x, m), S)
    BY <1>0, <2>2, <2>6, <2>7 DEF Places, Injection, IsInjective
  <2>9. f \in Surjection(Places(x, m), S)
    <3>1. ASSUME NEW k \in S PROVE \E i \in Places(x, m) : f[i] = k
      <4>1. k \in 1..Len(w) /\ w[k] = m /\ k # j
        BY DEF Places
      <4>2. CASE k < j
        <5>1. k \in 1..(Len(w) - 1) /\ x[k] = w[k]
          BY <1>0, <2>2, <2>6, <4>1, <4>2
        <5>2. k \in Places(x, m)
          BY <2>6, <4>1, <5>1 DEF Places
        <5>3. QED
          BY <4>2, <5>2
      <4>3. CASE ~(k < j)
        <5>1. k - 1 \in 1..(Len(w) - 1) /\ ~(k - 1 < j) /\ (k - 1) + 1 = k
          BY <1>0, <2>2, <4>1, <4>3
        <5>2. x[k - 1] = w[k]
          BY <2>6, <5>1
        <5>3. k - 1 \in Places(x, m)
          BY <2>6, <4>1, <5>1, <5>2 DEF Places
        <5>4. QED
          BY <5>1, <5>3
      <4>4. QED
        BY <4>2, <4>3
    <3>2. QED
      BY <2>7, <3>1 DEF Surjection
  <2> HIDE DEF f
  <2>10. IsFiniteSet(Places(w, m)) /\ IsFiniteSet(S)
         /\ Cardinality(S) = IF j \in Places(w, m) THEN Entries(w, m) - 1 ELSE Entries(w, m)
    BY EntriesCounted, FS_RemoveElement DEF Entries
  <2>11. Entries(x, m) = Cardinality(S)
    BY <2>8, <2>9, <2>10, FS_Injection DEF Entries
  <2>12. j \in Places(w, m) <=> m = v
    BY <2>2 DEF Places
  <2>13. Entries(w, v) > 0
    <3>1. j \in Places(w, v) /\ IsFiniteSet(Places(w, v)) /\ Entries(w, v) \in Nat
      BY <2>2, EntriesCounted DEF Places
    <3>2. Entries(w, v) # 0
      BY <3>1, FS_EmptySet DEF Entries
    <3>3. QED
      BY <3>1, <3>2
  <2>14. QED
    BY <1>0, <2>6, <2>10, <2>11, <2>12, <2>13 DEF x
<1>3. QED
  BY <1>1, <1>2

-----------------------------------------------------------------------------
(* What a client owes: the slots that its requests hold.                   *)

Flying(i, c, m) ==
    {t \in Threads : /\ InstanceOf[t] = i
                     /\ call[t].pc \in {"reserved", "counting", "refused"}
                     /\ call[t].client = c /\ call[t].moment = m}

Debt(i, c, m) == kept[i][c][m] + InFlight(i, c, m)

\* No stamp is of the future, no deque is longer than the limit, and what is not
\* in the dictionary is empty.
WindowsInv ==
    /\ \A t \in Threads : call[t].moment <= now
    /\ \A i \in Instances, c \in Clients :
          /\ Len(windows[i][c]) <= PerClient
          /\ c \notin known[i] => windows[i][c] = <<>>

\* Every entry stands for a slot that is held ...
NoMore ==
    \A i \in Instances, c \in Clients, m \in Times :
        Entries(windows[i][c], m) <= Debt(i, c, m)

\* ... and every slot held since a recent moment has an entry.
NoFewer ==
    \A i \in Instances, c \in Clients, m \in Times :
        now - m < Window => Debt(i, c, m) <= Entries(windows[i][c], m)

SlotsInv == WindowsInv /\ NoMore

LEMMA FlyingCounted ==
    ASSUME NEW i, NEW c, NEW m
    PROVE  IsFiniteSet(Flying(i, c, m)) /\ InFlight(i, c, m) = Cardinality(Flying(i, c, m))
           /\ InFlight(i, c, m) \in Nat
<1>1. IsFiniteSet(Flying(i, c, m))
  BY BudgetAssumption, FS_Subset DEF Flying
<1>2. InFlight(i, c, m) = Cardinality(Flying(i, c, m))
  BY DEF InFlight, Flying
<1>3. QED
  BY <1>1, <1>2, FS_CardinalityType

LEMMA DebtCounted ==
    ASSUME BudgetTypeOK, NEW i \in Instances, NEW c \in Clients, NEW m \in Times
    PROVE  Debt(i, c, m) \in Nat /\ windows[i][c] \in Seq(Times)
           /\ Entries(windows[i][c], m) \in Nat /\ kept[i][c][m] \in Nat
<1>1. kept[i][c][m] \in Nat /\ windows[i][c] \in Seq(Times)
  BY DEF BudgetTypeOK
<1>2. QED
  BY <1>1, FlyingCounted, EntriesCounted DEF Debt

\* A step of one thread that is in flight neither before nor after, or both,
\* with the same stamp.
LEMMA FlyingStays ==
    ASSUME NEW t \in Threads,
           \A u \in Threads \ {t} : call'[u] = call[u],
           \/ /\ call[t].pc \in {"reserved", "counting", "refused"}
              /\ call'[t].pc \in {"reserved", "counting", "refused"}
              /\ call'[t].client = call[t].client /\ call'[t].moment = call[t].moment
           \/ /\ call[t].pc \notin {"reserved", "counting", "refused"}
              /\ call'[t].pc \notin {"reserved", "counting", "refused"}
    PROVE  \A i, c, m : InFlight(i, c, m)' = InFlight(i, c, m)
<1> SUFFICES ASSUME NEW i, NEW c, NEW m PROVE InFlight(i, c, m)' = InFlight(i, c, m)
  OBVIOUS
<1>1. Flying(i, c, m)' = Flying(i, c, m)
  BY DEF Flying
<1>2. InFlight(i, c, m) = Cardinality(Flying(i, c, m))
      /\ InFlight(i, c, m)' = Cardinality(Flying(i, c, m)')
  BY DEF InFlight, Flying
<1>3. QED
  BY <1>1, <1>2

\* A thread that takes off holds one more slot, one that lands holds one less.
LEMMA FlyingTakesOff ==
    ASSUME NEW t \in Threads,
           \A u \in Threads \ {t} : call'[u] = call[u],
           call[t].pc \notin {"reserved", "counting", "refused"},
           call'[t].pc \in {"reserved", "counting", "refused"}
    PROVE  \A i, c, m :
              InFlight(i, c, m)' =
                 IF /\ i = InstanceOf[t] /\ c = call'[t].client /\ m = call'[t].moment
                 THEN InFlight(i, c, m) + 1 ELSE InFlight(i, c, m)
<1> SUFFICES ASSUME NEW i, NEW c, NEW m
             PROVE  InFlight(i, c, m)' =
                 IF /\ i = InstanceOf[t] /\ c = call'[t].client /\ m = call'[t].moment
                 THEN InFlight(i, c, m) + 1 ELSE InFlight(i, c, m)
  OBVIOUS
<1>1. Flying(i, c, m)' =
         IF /\ i = InstanceOf[t] /\ c = call'[t].client /\ m = call'[t].moment
         THEN Flying(i, c, m) \cup {t} ELSE Flying(i, c, m)
  BY DEF Flying
<1>2. t \notin Flying(i, c, m)
  BY DEF Flying
<1>3. InFlight(i, c, m)' = Cardinality(Flying(i, c, m)')
  BY DEF InFlight, Flying
<1>a. /\ IsFiniteSet(Flying(i, c, m)) /\ Cardinality(Flying(i, c, m)) = InFlight(i, c, m)
  BY FlyingCounted
<1>4. Cardinality(Flying(i, c, m) \cup {t}) = InFlight(i, c, m) + 1
  BY <1>2, <1>a, FS_AddElement
<1>5. CASE /\ i = InstanceOf[t] /\ c = call'[t].client /\ m = call'[t].moment
  BY <1>1, <1>3, <1>4, <1>5, <1>a
<1>6. CASE ~(/\ i = InstanceOf[t] /\ c = call'[t].client /\ m = call'[t].moment)
  BY <1>1, <1>3, <1>a, <1>6
<1>7. QED
  BY <1>5, <1>6

LEMMA FlyingLands ==
    ASSUME NEW t \in Threads,
           \A u \in Threads \ {t} : call'[u] = call[u],
           call[t].pc \in {"reserved", "counting", "refused"},
           call'[t].pc \notin {"reserved", "counting", "refused"}
    PROVE  \A i, c, m :
              /\ InFlight(i, c, m)' =
                   IF /\ i = InstanceOf[t] /\ c = call[t].client /\ m = call[t].moment
                   THEN InFlight(i, c, m) - 1 ELSE InFlight(i, c, m)
              /\ (/\ i = InstanceOf[t] /\ c = call[t].client /\ m = call[t].moment)
                   => InFlight(i, c, m) > 0
<1> SUFFICES ASSUME NEW i, NEW c, NEW m
             PROVE  /\ InFlight(i, c, m)' =
                         IF /\ i = InstanceOf[t] /\ c = call[t].client /\ m = call[t].moment
                         THEN InFlight(i, c, m) - 1 ELSE InFlight(i, c, m)
                    /\ (/\ i = InstanceOf[t] /\ c = call[t].client /\ m = call[t].moment)
                         => InFlight(i, c, m) > 0
  OBVIOUS
<1>1. Flying(i, c, m)' =
         IF /\ i = InstanceOf[t] /\ c = call[t].client /\ m = call[t].moment
         THEN Flying(i, c, m) \ {t} ELSE Flying(i, c, m)
  BY DEF Flying
<1>2. (/\ i = InstanceOf[t] /\ c = call[t].client /\ m = call[t].moment)
         <=> t \in Flying(i, c, m)
  BY DEF Flying
<1>3. InFlight(i, c, m)' = Cardinality(Flying(i, c, m)')
  BY DEF InFlight, Flying
<1>4. InFlight(i, c, m) # 0 <=> Flying(i, c, m) # {}
  BY FlyingCounted, FS_EmptySet
<1>a. /\ IsFiniteSet(Flying(i, c, m)) /\ Cardinality(Flying(i, c, m)) = InFlight(i, c, m)
      /\ InFlight(i, c, m) \in Nat
  BY FlyingCounted
<1>b. t \in Flying(i, c, m) => Cardinality(Flying(i, c, m) \ {t}) = InFlight(i, c, m) - 1
  BY <1>a, FS_RemoveElement
<1>5. /\ t \in Flying(i, c, m) => Cardinality(Flying(i, c, m) \ {t}) = InFlight(i, c, m) - 1
      /\ Cardinality(Flying(i, c, m)) = InFlight(i, c, m) /\ InFlight(i, c, m) \in Nat
  BY <1>a, <1>b
<1>6. CASE /\ i = InstanceOf[t] /\ c = call[t].client /\ m = call[t].moment
  <2>1. t \in Flying(i, c, m)
    BY <1>2, <1>6
  <2>2. InFlight(i, c, m)' = InFlight(i, c, m) - 1
    BY <1>1, <1>3, <1>5, <1>6, <2>1
  <2>3. InFlight(i, c, m) > 0
    BY <1>4, <1>5, <2>1
  <2>4. QED
    BY <1>6, <2>2, <2>3
<1>7. CASE ~(/\ i = InstanceOf[t] /\ c = call[t].client /\ m = call[t].moment)
  BY <1>1, <1>3, <1>5, <1>7
<1>8. QED
  BY <1>6, <1>7

\* A step that moves no slot and touches no deque.
LEMMA SlotsStay ==
    ASSUME BudgetTypeOK, SlotsInv, UNCHANGED <<windows, known>>, now' \in {now, now + 1},
           \A t \in Threads : call'[t].moment \in {call[t].moment, 0, now},
           \A i \in Instances, c \in Clients, m \in Times : Debt(i, c, m)' = Debt(i, c, m)
    PROVE  SlotsInv' /\ (NoFewer => NoFewer')
<1>1. now \in Nat /\ Times \subseteq Nat /\ Window \in Nat
      /\ \A t \in Threads : call[t].moment \in Nat
  BY BudgetAssumption DEF BudgetTypeOK, Times, Calls
<1>2. WindowsInv'
  BY <1>1 DEF SlotsInv, WindowsInv
<1>3. NoMore'
  BY DEF SlotsInv, NoMore
<1>4. ASSUME NoFewer PROVE NoFewer'
  <2> SUFFICES ASSUME NEW i \in Instances, NEW c \in Clients, NEW m \in Times,
                      now' - m < Window
               PROVE  Debt(i, c, m)' <= Entries(windows[i][c], m)
    BY DEF NoFewer
  <2>1. m \in Nat
    BY <1>1
  <2>2. now - m < Window
    <3>1. CASE now' = now
      BY <3>1
    <3>2. CASE now' = now + 1
      <4>1. (now + 1) - m < Window
        BY <3>2
      <4>2. QED
        BY <1>1, <2>1, <4>1
    <3>3. QED
      BY <3>1, <3>2
  <2>3. QED
    BY <1>4, <2>2 DEF NoFewer
<1>5. QED
  BY <1>2, <1>3, <1>4 DEF SlotsInv

\* A charge that goes through keeps its slot for good.
LEMMA KeptDebt ==
    ASSUME BudgetTypeOK, NEW t \in Threads, call[t].pc = "counting", Keep(t),
           call' = [call EXCEPT ![t].pc = "charged"] \/ Return(t)
    PROVE  \A i \in Instances, c \in Clients, m \in Times : Debt(i, c, m)' = Debt(i, c, m)
<1> SUFFICES ASSUME NEW i \in Instances, NEW c \in Clients, NEW m \in Times
             PROVE  Debt(i, c, m)' = Debt(i, c, m)
  OBVIOUS
<1>1. /\ \A u \in Threads \ {t} : call'[u] = call[u]
      /\ call'[t].pc \notin {"reserved", "counting", "refused"}
  BY DEF BudgetTypeOK, Calls, Return, Idle
<1>2. InFlight(i, c, m)' =
         IF /\ i = InstanceOf[t] /\ c = call[t].client /\ m = call[t].moment
         THEN InFlight(i, c, m) - 1 ELSE InFlight(i, c, m)
  BY <1>1, FlyingLands
<1>3. call[t].client \in Clients /\ call[t].moment \in Times /\ InstanceOf[t] \in Instances
  BY BudgetAssumption DEF BudgetTypeOK, Calls, CallOK
<1>4. kept'[i][c][m] =
         IF /\ i = InstanceOf[t] /\ c = call[t].client /\ m = call[t].moment
         THEN kept[i][c][m] + 1 ELSE kept[i][c][m]
  <2>1. kept \in [Instances -> [Clients -> [Times -> Nat]]]
    BY DEF BudgetTypeOK
  <2>2. kept' = [kept EXCEPT ![InstanceOf[t]][call[t].client][call[t].moment] = @ + 1]
    BY DEF Keep
  <2>3. kept'[i] = IF i = InstanceOf[t]
                   THEN [kept[i] EXCEPT ![call[t].client][call[t].moment] = @ + 1] ELSE kept[i]
    BY <1>3, <2>1, <2>2
  <2>4. kept'[i][c] = IF i = InstanceOf[t] /\ c = call[t].client
                      THEN [kept[i][c] EXCEPT ![call[t].moment] = @ + 1] ELSE kept[i][c]
    BY <1>3, <2>1, <2>3
  <2>5. kept[i][c] \in [Times -> Nat]
    BY <2>1
  <2>6. QED
    BY <1>3, <2>4, <2>5
<1>5. kept[i][c][m] \in Nat /\ InFlight(i, c, m) \in Nat
  BY DebtCounted, FlyingCounted
<1>6. Debt(i, c, m)' = kept'[i][c][m] + InFlight(i, c, m)'
  BY DEF Debt
<1>7. QED
  BY <1>2, <1>4, <1>5, <1>6 DEF Debt

LEMMA SameDebt ==
    ASSUME UNCHANGED kept, \A i, c, m : InFlight(i, c, m)' = InFlight(i, c, m)
    PROVE  \A i \in Instances, c \in Clients, m \in Times : Debt(i, c, m)' = Debt(i, c, m)
BY DEF Debt

LEMMA QuietSteps ==
    ASSUME BudgetTypeOK, SlotsInv, NEW t \in Threads,
           Arrive(t) \/ ReadDay(t) \/ Count(t) \/ CounterError(t)
             \/ Respond(t)
    PROVE  SlotsInv' /\ (NoFewer => NoFewer')
<1> USE DEF BudgetTypeOK, Calls
<1>1. CASE Arrive(t)
  <2>1. /\ \A u \in Threads \ {t} : call'[u] = call[u]
        /\ call[t].pc = "idle" /\ call'[t].pc = "received" /\ call'[t].moment = now
    BY <1>1 DEF Arrive
  <2>2. UNCHANGED <<windows, known, now, kept>>
    BY <1>1 DEF Arrive, window_vars, history_vars
  <2>3. \A i, c, m : InFlight(i, c, m)' = InFlight(i, c, m)
    BY <2>1, FlyingStays
  <2>4. \A u \in Threads : call'[u].moment \in {call[u].moment, 0, now}
    BY <2>1
  <2>5. QED
    BY <2>2, <2>3, <2>4, SameDebt, SlotsStay
<1>2. CASE ReadDay(t)
  <2>1. /\ \A u \in Threads \ {t} : call'[u] = call[u]
        /\ call[t].pc = "reserved" /\ call'[t].pc = "counting"
        /\ call'[t].moment = call[t].moment /\ call'[t].client = call[t].client
    BY <1>2 DEF ReadDay
  <2>2. UNCHANGED <<windows, known, now, kept>>
    BY <1>2 DEF ReadDay, window_vars, history_vars
  <2>3. \A i, c, m : InFlight(i, c, m)' = InFlight(i, c, m)
    BY <2>1, FlyingStays
  <2>4. \A u \in Threads : call'[u].moment \in {call[u].moment, 0, now}
    BY <2>1
  <2>5. QED
    BY <2>2, <2>3, <2>4, SameDebt, SlotsStay
<1>3. CASE Respond(t)
  <2>1. /\ \A u \in Threads \ {t} : call'[u] = call[u]
        /\ call[t].pc = "charged" /\ call'[t].pc = "idle" /\ call'[t].moment = 0
    BY <1>3 DEF Respond, Return, Idle
  <2>2. UNCHANGED <<windows, known, now, kept>>
    BY <1>3 DEF Respond, window_vars, history_vars
  <2>3. \A i, c, m : InFlight(i, c, m)' = InFlight(i, c, m)
    BY <2>1, FlyingStays
  <2>4. \A u \in Threads : call'[u].moment \in {call[u].moment, 0, now}
    BY <2>1
  <2>5. QED
    BY <2>2, <2>3, <2>4, SameDebt, SlotsStay
<1>4. ASSUME call[t].pc = "counting", Refuse(t), UNCHANGED <<windows, known, now>>
      PROVE  SlotsInv' /\ (NoFewer => NoFewer')
  <2>1. /\ \A u \in Threads \ {t} : call'[u] = call[u]
        /\ call'[t].pc = "refused"
        /\ call'[t].moment = call[t].moment /\ call'[t].client = call[t].client
        /\ UNCHANGED kept
    BY <1>4 DEF Refuse, history_vars
  <2>2. \A i, c, m : InFlight(i, c, m)' = InFlight(i, c, m)
    BY <1>4, <2>1, FlyingStays
  <2>3. \A u \in Threads : call'[u].moment \in {call[u].moment, 0, now}
    BY <2>1
  <2>4. QED
    BY <1>4, <2>1, <2>2, <2>3, SameDebt, SlotsStay
<1>5. ASSUME call[t].pc = "counting", Keep(t), UNCHANGED <<windows, known, now>>,
             call' = [call EXCEPT ![t].pc = "charged"] \/ Return(t)
      PROVE  SlotsInv' /\ (NoFewer => NoFewer')
  <2>1. \A u \in Threads \ {t} : call'[u] = call[u]
    BY <1>5 DEF Return
  <2>2. call'[t].moment \in {call[t].moment, 0}
    <3>1. CASE call' = [call EXCEPT ![t].pc = "charged"]
      BY <3>1
    <3>2. CASE Return(t)
      BY <3>2 DEF Return, Idle
    <3>3. QED
      BY <1>5, <3>1, <3>2
  <2>3. \A u \in Threads : call'[u].moment \in {call[u].moment, 0, now}
    BY <2>1, <2>2
  <2>4. QED
    BY <1>5, <2>3, KeptDebt, SlotsStay
<1>6. CASE Count(t) \/ CounterError(t)
  <2>1. UNCHANGED <<windows, known, now>> /\ call[t].pc = "counting"
    BY <1>6 DEF Count, CountMemory, CountDynamo, CounterError, window_vars
  <2>2. \/ Refuse(t)
        \/ Keep(t) /\ (call' = [call EXCEPT ![t].pc = "charged"] \/ Return(t))
    BY <1>6 DEF Count, CountMemory, CountDynamo, CounterError, Accept
  <2>3. QED
    BY <1>4, <1>5, <2>1, <2>2
<1>7. QED
  BY <1>1, <1>2, <1>3, <1>6

\* A refusal by the rate prunes, which takes no recent entry away.
LEMMA RefuseRateKeeps ==
    ASSUME BudgetTypeOK, SlotsInv, NEW t \in Threads, RefuseRate(t)
    PROVE  SlotsInv' /\ (NoFewer => NoFewer')
<1> DEFINE i == InstanceOf[t]
           c == call[t].client
           v == call[t].moment
           w == windows[i][c]
<1>1. i \in Instances /\ c \in Clients /\ v \in Times /\ w \in Seq(Times) /\ v <= now
      /\ call[t].pc = "received"
  BY BudgetAssumption DEF RefuseRate, BudgetTypeOK, Calls, CallOK, SlotsInv, WindowsInv
<1>2. /\ \A u \in Threads \ {t} : call'[u] = call[u]
      /\ call'[t].pc = "idle" /\ call'[t].moment = 0
      /\ UNCHANGED <<now, kept>>
      /\ windows' = [windows EXCEPT ![i][c] = DropStale(@, v)]
      /\ known' = [known EXCEPT ![i] = @ \cup {c}]
  BY DEF RefuseRate, Return, Idle, BudgetTypeOK, history_vars
<1>3. \A j, d, m : InFlight(j, d, m)' = InFlight(j, d, m)
  BY <1>1, <1>2, FlyingStays
<1>4. \A j \in Instances, d \in Clients, m \in Times : Debt(j, d, m)' = Debt(j, d, m)
  BY <1>2, <1>3, SameDebt
<1>5. \A j \in Instances, d \in Clients :
         windows'[j][d] = IF j = i /\ d = c THEN DropStale(w, v) ELSE windows[j][d]
  BY <1>1, <1>2 DEF BudgetTypeOK
<1> HIDE DEF i, c, v, w
<1>6. now \in Nat /\ \A m \in Times : m \in Nat
  BY BudgetAssumption DEF BudgetTypeOK, Times
<1>7. WindowsInv'
  <2>1. \A u \in Threads : call'[u].moment <= now
    BY <1>2, <1>6 DEF SlotsInv, WindowsInv
  <2>2. ASSUME NEW j \in Instances, NEW d \in Clients
        PROVE  /\ Len(windows'[j][d]) <= PerClient
               /\ d \notin known'[j] => windows'[j][d] = <<>>
    <3>1. Len(windows[j][d]) <= PerClient /\ (d \notin known[j] => windows[j][d] = <<>>)
      BY DEF SlotsInv, WindowsInv
    <3>2. CASE j = i /\ d = c
      <4>1. c \in known'[i]
        BY <1>1, <1>2 DEF BudgetTypeOK
      <4>2. Len(DropStale(w, v)) <= Len(w) /\ Len(w) \in Nat /\ Len(DropStale(w, v)) \in Nat
        BY <1>1, DropStaleType, LenProperties
      <4>3. QED
        BY <1>5, <3>1, <3>2, <4>1, <4>2, BudgetAssumption DEF w
    <3>3. CASE ~(j = i /\ d = c)
      BY <1>2, <1>5, <3>1, <3>3 DEF BudgetTypeOK
    <3>4. QED
      BY <3>2, <3>3
  <2>3. QED
    BY <1>2, <2>1, <2>2 DEF WindowsInv
<1>8. ASSUME NEW j \in Instances, NEW d \in Clients, NEW m \in Times
      PROVE  /\ Entries(windows'[j][d], m) <= Entries(windows[j][d], m)
             /\ now - m < Window => Entries(windows'[j][d], m) = Entries(windows[j][d], m)
  <2>1. Entries(windows[j][d], m) \in Nat /\ Debt(j, d, m) \in Nat
    BY DebtCounted
  <2>2. CASE j = i /\ d = c
    <3>1. /\ Entries(DropStale(w, v), m) <= Entries(w, m)
          /\ v - m < Window => Entries(DropStale(w, v), m) = Entries(w, m)
      BY <1>1, EntriesOfDropStale
    <3>2. now - m < Window => v - m < Window
      BY <1>1, <1>6, BudgetAssumption
    <3>3. QED
      BY <1>5, <2>2, <3>1, <3>2 DEF w
  <2>3. CASE ~(j = i /\ d = c)
    BY <1>5, <2>1, <2>3
  <2>4. QED
    BY <2>2, <2>3
<1>9. NoMore'
  <2>1. ASSUME NEW j \in Instances, NEW d \in Clients, NEW m \in Times
        PROVE  Entries(windows'[j][d], m) <= Debt(j, d, m)'
    <3>1. Entries(windows[j][d], m) <= Debt(j, d, m) /\ Entries(windows[j][d], m) \in Nat
          /\ Debt(j, d, m) \in Nat
      BY DebtCounted DEF SlotsInv, NoMore
    <3>2. Entries(windows'[j][d], m) <= Entries(windows[j][d], m)
          /\ Entries(windows'[j][d], m) \in Nat
      BY <1>1, <1>5, <1>8, EntriesCounted, DropStaleType DEF BudgetTypeOK
    <3>3. QED
      BY <1>4, <3>1, <3>2
  <2>2. QED
    BY <2>1 DEF NoMore
<1>10. NoFewer => NoFewer'
  BY <1>2, <1>4, <1>8 DEF NoFewer
<1>11. QED
  BY <1>7, <1>9, <1>10 DEF SlotsInv

\* What was reserved has an entry, and dropping idle clients adds none.
LEMMA ReserveKeeps ==
    ASSUME BudgetTypeOK, SlotsInv, NEW t \in Threads, Reserve(t)
    PROVE  SlotsInv' /\ (WindowsSuffice /\ NoFewer => NoFewer')
<1> DEFINE i == InstanceOf[t]
           c == call[t].client
           v == call[t].moment
           w == windows[i][c]
           x == Append(DropStale(w, v), v)
           filled == [windows[i] EXCEPT ![c] = x]
           grown  == known[i] \cup {c}
           left   == IF Cardinality(grown) > MaxWindows THEN Fresh(filled, grown, v) ELSE grown
<1>a. call[t].pc = "received" /\ i \in Instances /\ c \in Clients /\ v \in Times
  BY BudgetAssumption DEF Reserve, BudgetTypeOK, Calls, CallOK
<1>1. i \in Instances /\ c \in Clients /\ v \in Times /\ w \in Seq(Times) /\ v <= now
      /\ call[t].pc = "received"
  BY <1>a DEF BudgetTypeOK, SlotsInv, WindowsInv
<1>2. /\ \A u \in Threads \ {t} : call'[u] = call[u]
      /\ call'[t].pc = "reserved" /\ call'[t].moment = v /\ call'[t].client = c
      /\ UNCHANGED <<now, kept>>
  BY DEF Reserve, BudgetTypeOK, Calls, history_vars
<1>3. /\ Len(DropStale(w, v)) < PerClient
      /\ windows' = [windows EXCEPT ![i] = [k \in Clients |-> IF k \in left THEN filled[k] ELSE <<>>]]
      /\ known' = [known EXCEPT ![i] = left]
  BY DEF Reserve, Reserved
<1>4. \A j, d, m :
         InFlight(j, d, m)' = IF j = i /\ d = c /\ m = v THEN InFlight(j, d, m) + 1
                              ELSE InFlight(j, d, m)
  BY <1>1, <1>2, FlyingTakesOff
<1>5. ASSUME NEW j \in Instances, NEW d \in Clients, NEW m \in Times
      PROVE  Debt(j, d, m)' = IF j = i /\ d = c /\ m = v THEN Debt(j, d, m) + 1 ELSE Debt(j, d, m)
  <2>1. kept[j][d][m] \in Nat /\ InFlight(j, d, m) \in Nat
    BY DebtCounted, FlyingCounted
  <2>2. Debt(j, d, m)' = kept[j][d][m] + InFlight(j, d, m)'
    BY <1>2 DEF Debt
  <2>3. QED
    BY <1>4, <2>1, <2>2 DEF Debt
<1>6. windows[i] \in [Clients -> Seq(Times)] /\ known[i] \in SUBSET Clients
  BY <1>1 DEF BudgetTypeOK
<1>7. left \subseteq grown /\ (WindowsSuffice => left = grown)
  <2>1. grown \in SUBSET Clients
    BY <1>1, <1>6
  <2>2. ASSUME WindowsSuffice PROVE ~(Cardinality(grown) > MaxWindows)
    <3>1. IsFiniteSet(Clients) /\ Cardinality(Clients) <= MaxWindows
      BY <2>2 DEF WindowsSuffice
    <3>2. IsFiniteSet(grown) /\ Cardinality(grown) <= Cardinality(Clients)
      BY <2>1, <3>1, FS_Subset
    <3>3. Cardinality(grown) \in Nat /\ Cardinality(Clients) \in Nat /\ MaxWindows \in Nat
      BY <3>1, <3>2, FS_CardinalityType, BudgetAssumption
    <3>4. QED
      BY <3>1, <3>2, <3>3
  <2>3. QED
    BY <2>2 DEF Fresh
<1>8. \A k \in Clients : filled[k] = IF k = c THEN x ELSE windows[i][k]
  BY <1>1, <1>6
<1> HIDE DEF i, c, v, w, x, filled, left
<1>9. ASSUME NEW j \in Instances, NEW d \in Clients
      PROVE  /\ windows'[j][d] = CASE j # i -> windows[j][d]
                                   [] j = i /\ d \notin left -> <<>>
                                   [] j = i /\ d \in left /\ d = c -> x
                                   [] j = i /\ d \in left /\ d # c -> windows[j][d]
             /\ known'[j] = IF j = i THEN left ELSE known[j]
  <2>1. windows'[j] = IF j = i THEN [k \in Clients |-> IF k \in left THEN filled[k] ELSE <<>>]
                      ELSE windows[j]
    BY <1>1, <1>3 DEF BudgetTypeOK
  <2>2. known'[j] = IF j = i THEN left ELSE known[j]
    BY <1>1, <1>3 DEF BudgetTypeOK
  <2>3. QED
    BY <1>8, <2>1, <2>2
<1>10. now \in Nat /\ PerClient \in Nat /\ Window \in Nat /\ \A m \in Times : m \in Nat
  BY BudgetAssumption DEF BudgetTypeOK, Times
<1>11. DropStale(w, v) \in Seq(Times) /\ Len(DropStale(w, v)) \in Nat
  BY <1>1, DropStaleType, LenProperties
<1>12. x \in Seq(Times) /\ Len(x) <= PerClient
  <2>1. x \in Seq(Times) /\ Len(x) = Len(DropStale(w, v)) + 1
    BY <1>1, <1>11, AppendProperties DEF x
  <2>2. QED
    BY <1>3, <1>10, <1>11, <2>1
<1>13. WindowsInv'
  <2>1. \A u \in Threads : call'[u].moment <= now
    BY <1>1, <1>2 DEF SlotsInv, WindowsInv
  <2>2. ASSUME NEW j \in Instances, NEW d \in Clients
        PROVE  /\ Len(windows'[j][d]) <= PerClient
               /\ d \notin known'[j] => windows'[j][d] = <<>>
    <3>1. Len(windows[j][d]) <= PerClient /\ (d \notin known[j] => windows[j][d] = <<>>)
      BY DEF SlotsInv, WindowsInv
    <3>2. Len(<<>>) <= PerClient
      BY <1>10, EmptySeq
    <3>3. QED
      BY <1>9, <1>12, <3>1, <3>2
  <2>3. QED
    BY <1>2, <2>1, <2>2 DEF WindowsInv
<1>14. ASSUME NEW m \in Times
       PROVE  /\ Entries(x, m) <= IF m = v THEN Entries(w, m) + 1 ELSE Entries(w, m)
              /\ now - m < Window =>
                    Entries(x, m) = IF m = v THEN Entries(w, m) + 1 ELSE Entries(w, m)
  <2>1. /\ Entries(DropStale(w, v), m) <= Entries(w, m)
        /\ v - m < Window => Entries(DropStale(w, v), m) = Entries(w, m)
    BY <1>1, EntriesOfDropStale
  <2>2. Entries(x, m) = IF m = v THEN Entries(DropStale(w, v), m) + 1
                        ELSE Entries(DropStale(w, v), m)
    BY <1>1, <1>11, EntriesOfAppend DEF x
  <2>3. Entries(w, m) \in Nat /\ Entries(DropStale(w, v), m) \in Nat
    BY <1>1, <1>11, EntriesCounted
  <2>4. m \in Nat /\ v \in Nat
    BY <1>1, <1>10
  <2>5. now - m < Window => v - m < Window
    BY <1>1, <1>10, <2>4
  <2>6. QED
    BY <2>1, <2>2, <2>3, <2>5
<1>15. NoMore'
  <2>1. ASSUME NEW j \in Instances, NEW d \in Clients, NEW m \in Times
        PROVE  Entries(windows'[j][d], m) <= Debt(j, d, m)'
    <3>1. Entries(windows[j][d], m) <= Debt(j, d, m) /\ Entries(windows[j][d], m) \in Nat
          /\ Debt(j, d, m) \in Nat
      BY DebtCounted DEF SlotsInv, NoMore
    <3>2. Entries(<<>>, m) = 0
      BY FS_EmptySet, EmptySeq DEF Entries, Places
    <3>3. CASE j = i /\ d = c /\ d \in left
      <4>1. windows'[j][d] = x /\ windows[j][d] = w
        BY <1>9, <3>3 DEF w
      <4>2. Entries(x, m) \in Nat
        BY <1>12, EntriesCounted
      <4>3. QED
        BY <1>5, <1>14, <3>1, <3>3, <4>1, <4>2
    <3>4. CASE ~(j = i /\ d = c /\ d \in left)
      <4>1. windows'[j][d] \in {<<>>, windows[j][d]}
        BY <1>9, <3>4
      <4>2. Debt(j, d, m)' >= Debt(j, d, m)
        BY <1>5, <3>1
      <4>3. QED
        BY <1>5, <3>1, <3>2, <4>1, <4>2
    <3>5. QED
      BY <3>3, <3>4
  <2>2. QED
    BY <2>1 DEF NoMore
<1>16. ASSUME WindowsSuffice, NoFewer PROVE NoFewer'
  <2>1. ASSUME NEW j \in Instances, NEW d \in Clients, NEW m \in Times, now - m < Window
        PROVE  Debt(j, d, m)' <= Entries(windows'[j][d], m)
    <3>1. Debt(j, d, m) <= Entries(windows[j][d], m) /\ Entries(windows[j][d], m) \in Nat
          /\ Debt(j, d, m) \in Nat
      BY <1>16, <2>1, DebtCounted DEF NoFewer
    <3>2. CASE j = i /\ d = c
      <4>1. windows'[j][d] = x /\ windows[j][d] = w
        BY <1>7, <1>9, <1>16, <3>2 DEF w
      <4>2. QED
        BY <1>5, <1>14, <2>1, <3>1, <3>2, <4>1
    <3>3. CASE ~(j = i /\ d = c)
      <4>1. windows'[j][d] = windows[j][d]
        <5>1. d \notin known[j] => windows[j][d] = <<>>
          BY DEF SlotsInv, WindowsInv
        <5>2. QED
          BY <1>7, <1>9, <1>16, <3>3, <5>1
      <4>2. QED
        BY <1>5, <3>1, <3>3, <4>1
    <3>4. QED
      BY <3>2, <3>3
  <2>2. QED
    BY <1>2, <2>1 DEF NoFewer
<1>17. QED
  BY <1>13, <1>15, <1>16 DEF SlotsInv

\* What is given back had an entry if it is recent, and then loses it.
LEMMA RollBackKeeps ==
    ASSUME BudgetTypeOK, SlotsInv, NEW t \in Threads, RollBack(t)
    PROVE  SlotsInv' /\ (NoFewer => NoFewer')
<1> DEFINE i == InstanceOf[t]
           c == call[t].client
           v == call[t].moment
           w == windows[i][c]
<1>a. call[t].pc = "refused" /\ i \in Instances /\ c \in Clients /\ v \in Times
  BY BudgetAssumption DEF RollBack, BudgetTypeOK, Calls, CallOK
<1>1. w \in Seq(Times)
  BY <1>a DEF BudgetTypeOK
<1>2. /\ \A u \in Threads \ {t} : call'[u] = call[u]
      /\ call'[t].pc = "idle" /\ call'[t].moment = 0
      /\ UNCHANGED <<now, kept, known>>
      /\ windows' = [windows EXCEPT ![i][c] = RemoveFirst(@, v)]
  BY DEF RollBack, Return, Idle, BudgetTypeOK, history_vars
<1>3. \A j, d, m :
         /\ InFlight(j, d, m)' = IF j = i /\ d = c /\ m = v THEN InFlight(j, d, m) - 1
                                 ELSE InFlight(j, d, m)
         /\ j = i /\ d = c /\ m = v => InFlight(j, d, m) > 0
  BY <1>a, <1>2, FlyingLands
<1>4. ASSUME NEW j \in Instances, NEW d \in Clients, NEW m \in Times
      PROVE  /\ Debt(j, d, m)' = IF j = i /\ d = c /\ m = v THEN Debt(j, d, m) - 1
                                 ELSE Debt(j, d, m)
             /\ j = i /\ d = c /\ m = v => Debt(j, d, m) > 0
  <2>1. kept[j][d][m] \in Nat /\ InFlight(j, d, m) \in Nat
    BY DebtCounted, FlyingCounted
  <2>2. Debt(j, d, m)' = kept[j][d][m] + InFlight(j, d, m)'
    BY <1>2 DEF Debt
  <2>3. QED
    BY <1>3, <2>1, <2>2 DEF Debt
<1>5. \A j \in Instances, d \in Clients :
         windows'[j][d] = IF j = i /\ d = c THEN RemoveFirst(w, v) ELSE windows[j][d]
  BY <1>a, <1>2 DEF BudgetTypeOK
<1>6. now \in Nat /\ PerClient \in Nat
  BY BudgetAssumption DEF BudgetTypeOK, Times
<1> HIDE DEF i, c, v, w
<1>7. RemoveFirst(w, v) \in Seq(Times) /\ Len(RemoveFirst(w, v)) <= Len(w)
      /\ Len(RemoveFirst(w, v)) \in Nat /\ Len(w) \in Nat
  BY <1>1, RemoveFirstType, EntriesOfRemoveFirst, LenProperties
<1>8. WindowsInv'
  <2>1. \A u \in Threads : call'[u].moment <= now
    BY <1>2, <1>6 DEF SlotsInv, WindowsInv
  <2>2. ASSUME NEW j \in Instances, NEW d \in Clients
        PROVE  /\ Len(windows'[j][d]) <= PerClient
               /\ d \notin known[j] => windows'[j][d] = <<>>
    <3>1. Len(windows[j][d]) <= PerClient /\ (d \notin known[j] => windows[j][d] = <<>>)
      BY DEF SlotsInv, WindowsInv
    <3>2. CASE j = i /\ d = c
      <4>1. Len(w) <= PerClient /\ (d \notin known[j] => w = <<>>)
        BY <3>1, <3>2 DEF w
      <4>2. w = <<>> => RemoveFirst(w, v) = <<>>
        BY <1>1, EmptySeq DEF RemoveFirst
      <4>3. QED
        BY <1>5, <1>6, <1>7, <3>2, <4>1, <4>2
    <3>3. CASE ~(j = i /\ d = c)
      BY <1>5, <3>1, <3>3
    <3>4. QED
      BY <3>2, <3>3
  <2>3. QED
    BY <1>2, <2>1, <2>2 DEF WindowsInv
<1>9. ASSUME NEW j \in Instances, NEW d \in Clients, NEW m \in Times
      PROVE  Entries(windows'[j][d], m) =
                IF j = i /\ d = c /\ m = v /\ Entries(windows[j][d], m) > 0
                THEN Entries(windows[j][d], m) - 1 ELSE Entries(windows[j][d], m)
  <2>1. CASE j = i /\ d = c
    <3>1. windows'[j][d] = RemoveFirst(w, v) /\ windows[j][d] = w
      BY <1>5, <2>1 DEF w
    <3>2. Entries(RemoveFirst(w, v), m) =
             IF m = v /\ Entries(w, v) > 0 THEN Entries(w, m) - 1 ELSE Entries(w, m)
      BY <1>1, EntriesOfRemoveFirst
    <3>3. QED
      BY <2>1, <3>1, <3>2
  <2>2. CASE ~(j = i /\ d = c)
    BY <1>5, <2>2
  <2>3. QED
    BY <2>1, <2>2
<1>10. NoMore'
  <2>1. ASSUME NEW j \in Instances, NEW d \in Clients, NEW m \in Times
        PROVE  Entries(windows'[j][d], m) <= Debt(j, d, m)'
    <3>1. Entries(windows[j][d], m) <= Debt(j, d, m) /\ Entries(windows[j][d], m) \in Nat
          /\ Debt(j, d, m) \in Nat
      BY DebtCounted DEF SlotsInv, NoMore
    <3>2. QED
      BY <1>4, <1>9, <3>1
  <2>2. QED
    BY <2>1 DEF NoMore
<1>11. ASSUME NoFewer PROVE NoFewer'
  <2>1. ASSUME NEW j \in Instances, NEW d \in Clients, NEW m \in Times, now - m < Window
        PROVE  Debt(j, d, m)' <= Entries(windows'[j][d], m)
    <3>1. Debt(j, d, m) <= Entries(windows[j][d], m) /\ Entries(windows[j][d], m) \in Nat
          /\ Debt(j, d, m) \in Nat
      BY <1>11, <2>1, DebtCounted DEF NoFewer
    <3>2. QED
      BY <1>4, <1>9, <3>1
  <2>2. QED
    BY <1>2, <2>1 DEF NoFewer
<1>12. QED
  BY <1>8, <1>10, <1>11 DEF SlotsInv

\* A process that ends takes its deques, its calls and their slots with it.
LEMMA RestartKeeps ==
    ASSUME BudgetTypeOK, SlotsInv, NEW i \in Instances, RestartInstance(i)
    PROVE  SlotsInv' /\ (NoFewer => NoFewer')
<1>1. /\ UNCHANGED now
      /\ \A t \in Threads : call'[t] = IF InstanceOf[t] = i THEN Idle ELSE call[t]
      /\ \A j \in Instances : /\ windows'[j] = IF j = i THEN [c \in Clients |-> <<>>] ELSE windows[j]
                              /\ known'[j] = IF j = i THEN {} ELSE known[j]
                              /\ kept'[j] = IF j = i THEN [c \in Clients |-> [m \in Times |-> 0]]
                                            ELSE kept[j]
  BY DEF RestartInstance, BudgetTypeOK
<1>2. now \in Nat /\ PerClient \in Nat
  BY BudgetAssumption DEF BudgetTypeOK, Times
<1>3. ASSUME NEW j \in Instances, NEW c \in Clients, NEW m \in Times
      PROVE  /\ Debt(j, c, m)' = IF j = i THEN 0 ELSE Debt(j, c, m)
             /\ Entries(windows'[j][c], m) = IF j = i THEN 0 ELSE Entries(windows[j][c], m)
  <2>1. Flying(j, c, m)' = IF j = i THEN {} ELSE Flying(j, c, m)
    BY <1>1 DEF Flying, Idle
  <2>2. /\ InFlight(j, c, m) = Cardinality(Flying(j, c, m))
        /\ InFlight(j, c, m)' = Cardinality(Flying(j, c, m)')
    BY DEF InFlight, Flying
  <2>3. InFlight(j, c, m)' = IF j = i THEN 0 ELSE InFlight(j, c, m)
    BY <2>1, <2>2, FS_EmptySet
  <2>4. kept'[j][c][m] = IF j = i THEN 0 ELSE kept[j][c][m]
    BY <1>1
  <2>5. Entries(<<>>, m) = 0
    BY FS_EmptySet, EmptySeq DEF Entries, Places
  <2>6. Debt(j, c, m)' = kept'[j][c][m] + InFlight(j, c, m)'
    BY DEF Debt
  <2>7. QED
    BY <1>1, <2>3, <2>4, <2>5, <2>6 DEF Debt
<1>4. WindowsInv'
  <2>1. \A t \in Threads : call'[t].moment <= now
    BY <1>1, <1>2 DEF SlotsInv, WindowsInv, Idle
  <2>2. ASSUME NEW j \in Instances, NEW c \in Clients
        PROVE  Len(windows'[j][c]) <= PerClient /\ (c \notin known'[j] => windows'[j][c] = <<>>)
    BY <1>1, <1>2, EmptySeq DEF SlotsInv, WindowsInv
  <2>3. QED
    BY <1>1, <2>1, <2>2 DEF WindowsInv
<1>5. NoMore'
  <2>1. ASSUME NEW j \in Instances, NEW c \in Clients, NEW m \in Times
        PROVE  Entries(windows'[j][c], m) <= Debt(j, c, m)'
    <3>1. Entries(windows[j][c], m) <= Debt(j, c, m)
      BY DEF SlotsInv, NoMore
    <3>2. QED
      BY <1>3, <3>1
  <2>2. QED
    BY <2>1 DEF NoMore
<1>6. ASSUME NoFewer PROVE NoFewer'
  <2>1. ASSUME NEW j \in Instances, NEW c \in Clients, NEW m \in Times, now - m < Window
        PROVE  Debt(j, c, m)' <= Entries(windows'[j][c], m)
    <3>1. Debt(j, c, m) <= Entries(windows[j][c], m)
      BY <1>6, <2>1 DEF NoFewer
    <3>2. QED
      BY <1>3, <3>1
  <2>2. QED
    BY <1>1, <2>1 DEF NoFewer
<1>7. QED
  BY <1>4, <1>5, <1>6 DEF SlotsInv

LEMMA SlotsStart == BudgetInit => SlotsInv /\ NoFewer
<1> SUFFICES ASSUME BudgetInit PROVE SlotsInv /\ NoFewer
  OBVIOUS
<1>1. /\ now = 0 /\ PerClient \in Nat
      /\ \A t \in Threads : call[t].moment = 0 /\ call[t].pc = "idle"
      /\ \A i \in Instances, c \in Clients :
            windows[i][c] = <<>> /\ \A m \in Times : kept[i][c][m] = 0
  BY BudgetAssumption DEF BudgetInit, Idle
<1>2. WindowsInv
  BY <1>1, EmptySeq DEF WindowsInv
<1>3. ASSUME NEW i \in Instances, NEW c \in Clients, NEW m \in Times
      PROVE  Debt(i, c, m) = 0 /\ Entries(windows[i][c], m) = 0
  <2>1. Flying(i, c, m) = {}
    BY <1>1 DEF Flying
  <2>2. InFlight(i, c, m) = 0
    BY <2>1, FlyingCounted, FS_EmptySet
  <2>3. Entries(<<>>, m) = 0
    BY FS_EmptySet, EmptySeq DEF Entries, Places
  <2>4. QED
    BY <1>1, <2>2, <2>3 DEF Debt
<1>4. NoMore /\ NoFewer
  BY <1>3 DEF NoMore, NoFewer
<1>5. QED
  BY <1>2, <1>4 DEF SlotsInv

LEMMA SlotsNext ==
    ASSUME BudgetTypeOK, SlotsInv, [BudgetNext]_budgetVars
    PROVE  SlotsInv' /\ (WindowsSuffice /\ NoFewer => NoFewer')
<1>1. CASE Tick \/ UNCHANGED budgetVars
  <2>1. UNCHANGED <<windows, known, call, kept>> /\ now' \in {now, now + 1}
    BY <1>1 DEF Tick, budgetVars, window_vars, history_vars
  <2>2. \A i, c, m : InFlight(i, c, m)' = InFlight(i, c, m)
    BY <2>1 DEF InFlight
  <2>3. QED
    BY <2>1, <2>2, SameDebt, SlotsStay
<1>2. QED
  BY <1>1, QuietSteps, ReserveKeeps, RefuseRateKeeps, RollBackKeeps, RestartKeeps
     DEF BudgetNext, Count

LEMMA SlotsInvariant == BudgetSpec => []SlotsInv
<1>1. QED
  BY SlotsStart, SlotsNext, TypeCorrect, PTL DEF BudgetSpec

\* A refusal by the daily cap gives the slot back, whatever else goes on: no
\* entry of a deque is left without a request that went through or that is
\* still being charged (ai/budget.py:122-131, 138-146).
THEOREM RefusalsGiveBack == BudgetSpec => []NoPhantomReservation
<1>1. SlotsInv => NoPhantomReservation
  BY DEF SlotsInv, NoMore, Entries, Places, Debt, NoPhantomReservation
<1>2. QED
  BY <1>1, SlotsInvariant, PTL

\* A client is refused for its rate only while another of its requests that is
\* not over holds a slot (ai/budget.py:116-121): no pruning, eviction or
\* refusal leaves it locked out by nobody.
THEOREM RefusalsHaveCause == BudgetSpec => RefusalHasCause
<1>1. BudgetTypeOK /\ SlotsInv /\ [BudgetNext]_budgetVars =>
        [\A t \in Threads :
            RefuseRate(t) /\ PerClient > 0 =>
                LET i == InstanceOf[t]
                    c == call[t].client
                IN  \E m \in Times : /\ call[t].moment - m < Window
                                     /\ kept[i][c][m] + InFlight(i, c, m) > 0]_budgetVars
  <2> SUFFICES ASSUME BudgetTypeOK, SlotsInv, NEW t \in Threads, RefuseRate(t), PerClient > 0
               PROVE  \E m \in Times :
                         /\ call[t].moment - m < Window
                         /\ kept[InstanceOf[t]][call[t].client][m]
                               + InFlight(InstanceOf[t], call[t].client, m) > 0
    OBVIOUS
  <2> DEFINE i == InstanceOf[t]
             c == call[t].client
             w == windows[i][c]
  <2>1. i \in Instances /\ c \in Clients
    BY BudgetAssumption DEF BudgetTypeOK, CallOK, RefuseRate
  <2>2. w \in Seq(Times)
    BY <2>1 DEF BudgetTypeOK
  <2>3. PICK k \in 1..Len(w) : call[t].moment - w[k] < Window
    <3>1. Len(DropStale(w, call[t].moment)) >= PerClient
      BY DEF RefuseRate
    <3>2. DropStale(w, call[t].moment) # << >>
      BY <3>1, BudgetAssumption, EmptySeq
    <3>3. QED
      BY <3>2 DEF DropStale
  <2>4. w[k] \in Times
    BY <2>2, <2>3, ElementOfSeq
  <2>5. Entries(w, w[k]) > 0
    <3>1. k \in Places(w, w[k]) /\ IsFiniteSet(Places(w, w[k])) /\ Entries(w, w[k]) \in Nat
      BY <2>2, <2>3, EntriesCounted DEF Places
    <3>2. Entries(w, w[k]) # 0
      BY <3>1, FS_EmptySet DEF Entries
    <3>3. QED
      BY <3>1, <3>2
  <2>6. Entries(w, w[k]) <= Debt(i, c, w[k]) /\ Debt(i, c, w[k]) \in Nat /\ Entries(w, w[k]) \in Nat
    BY <2>1, <2>4, DebtCounted DEF SlotsInv, NoMore
  <2>7. kept[i][c][w[k]] + InFlight(i, c, w[k]) > 0
    <3>1. Debt(i, c, w[k]) > 0
      BY <2>5, <2>6
    <3>2. Debt(i, c, w[k]) = kept[i][c][w[k]] + InFlight(i, c, w[k])
      BY DEF Debt
    <3>3. QED
      BY <3>1, <3>2
  <2>8. QED
    BY <2>3, <2>4, <2>7
<1>2. QED
  BY <1>1, SlotsInvariant, TypeCorrect, PTL DEF BudgetSpec, RefusalHasCause

\* As long as no instance has to drop idle clients, the sliding window holds
\* for every client at every instant (ai/budget.py:113-135).
THEOREM RateLimitHolds ==
    ASSUME WindowsSuffice
    PROVE  BudgetSpec => []RateLimitNow
<1>1. BudgetInit => NoFewer
  BY SlotsStart
<1>2. BudgetTypeOK /\ SlotsInv /\ NoFewer /\ [BudgetNext]_budgetVars => NoFewer'
  BY SlotsNext
<1>3. BudgetTypeOK /\ SlotsInv /\ NoFewer => RateLimitNow
  <2> SUFFICES ASSUME BudgetTypeOK, SlotsInv, NoFewer, NEW i \in Instances, NEW c \in Clients
               PROVE  LET recent == {m \in Times : m <= now /\ now - m < Window}
                      IN  Cardinality(UNION {Stamped(i, c, m) : m \in recent}) <= PerClient
    BY DEF RateLimitNow
  <2> DEFINE recent == {m \in Times : m <= now /\ now - m < Window}
             tokens == UNION {Stamped(i, c, m) : m \in recent}
             w      == windows[i][c]
             g      == [m \in Times |->
                          CHOOSE f : f \in Injection(1..Entries(w, m), Places(w, m))]
             slot   == [token \in tokens |-> g[token[1]][token[2]]]
  <2>1. w \in Seq(Times) /\ Len(w) \in Nat /\ Len(w) <= PerClient
    BY LenProperties DEF BudgetTypeOK, SlotsInv, WindowsInv
  <2>2. ASSUME NEW m \in Times
        PROVE  g[m] \in Injection(1..Entries(w, m), Places(w, m))
    <3>1. ExistsBijection(1..Entries(w, m), Places(w, m))
      BY <2>1, EntriesCounted, FS_CardinalityType DEF Entries
    <3>2. \E f : f \in Injection(1..Entries(w, m), Places(w, m))
      BY <3>1 DEF ExistsBijection, Bijection
    <3>3. QED
      BY <3>2
  <2> HIDE DEF g
  <2>3. ASSUME NEW token \in tokens
        PROVE  /\ token[1] \in Times
               /\ token = <<token[1], token[2]>>
               /\ token[2] \in 1..Entries(w, token[1])
               /\ slot[token] \in Places(w, token[1])
    <3>1. PICK m \in recent : token \in {m} \X (1..Debt(i, c, m))
      BY DEF Stamped, Debt
    <3>2. Debt(i, c, m) <= Entries(w, m) /\ Debt(i, c, m) \in Nat /\ Entries(w, m) \in Nat
      BY DebtCounted DEF NoFewer
    <3>3. token[1] = m /\ token[2] \in 1..Entries(w, m) /\ token = <<token[1], token[2]>>
      BY <3>1, <3>2
    <3>4. g[m][token[2]] \in Places(w, m)
      BY <2>2, <3>3 DEF Injection
    <3>5. QED
      BY <3>3, <3>4
  <2>4. slot \in Injection(tokens, 1..Len(w))
    <3>1. ASSUME NEW token \in tokens PROVE slot[token] \in 1..Len(w) /\ w[slot[token]] = token[1]
      BY <2>3 DEF Places
    <3>2. slot \in [tokens -> 1..Len(w)]
      BY <3>1
    <3>b. \A token \in tokens : slot[token] = g[token[1]][token[2]]
      OBVIOUS
    <3> HIDE DEF slot, tokens
    <3>3. ASSUME NEW a \in tokens, NEW b \in tokens, slot[a] = slot[b] PROVE a = b
      <4>1. a[1] = b[1]
        BY <3>1, <3>3
      <4>2. g[a[1]] \in Injection(1..Entries(w, a[1]), Places(w, a[1]))
        BY <2>2, <2>3
      <4>3. g[a[1]][a[2]] = g[a[1]][b[2]] /\ a[2] \in 1..Entries(w, a[1])
            /\ b[2] \in 1..Entries(w, a[1])
        BY <2>3, <3>3, <4>1, <3>b
      <4>4. a[2] = b[2]
        BY <4>2, <4>3 DEF Injection, IsInjective
      <4>5. QED
        BY <2>3, <4>1, <4>4
    <3>4. QED
      BY <3>2, <3>3 DEF Injection, IsInjective
  <2>5. IsFiniteSet(1..Len(w)) /\ Cardinality(1..Len(w)) = Len(w)
    BY <2>1, FS_Interval
  <2> HIDE DEF slot, tokens, w
  <2>6. IsFiniteSet(tokens) /\ Cardinality(tokens) <= Len(w)
    BY <2>4, <2>5, FS_Injection
  <2>7. Cardinality(tokens) \in Nat /\ PerClient \in Nat
    BY <2>6, FS_CardinalityType, BudgetAssumption
  <2>8. QED
    BY <2>1, <2>6, <2>7 DEF tokens
<1>4. QED
  BY <1>1, <1>2, <1>3, TypeCorrect, SlotsInvariant, PTL DEF BudgetSpec

=============================================================================
