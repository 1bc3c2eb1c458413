------------------------------ MODULE AiBudget ------------------------------
(***************************************************************************)
(* The request budget in front of every model-backed endpoint              *)
(* (ai/budget.py, called by `metered` in ai/service.py).  Worker threads   *)
(* of one or more service instances charge concurrently: a per-client      *)
(* sliding window lives in each instance's memory, the daily counter lives *)
(* either in the instance ("memory") or in one DynamoDB item per UTC day   *)
(* ("dynamo").  The clock read, the window's critical section, the UTC     *)
(* date read and the counter's critical section are separate steps, as     *)
(* they are in the code; other threads, midnight and an instance restart   *)
(* can fall between any two of them.                                       *)
(***************************************************************************)
EXTENDS Integers, FiniteSets, SequencesExt

CONSTANTS
    Threads,        \* request-serving worker threads
    Clients,        \* client ids (address or first x-forwarded-for entry)
    Instances,      \* service processes
    InstanceOf,     \* the process each thread belongs to
    Backend,        \* "memory" or "dynamo": which DailyCounter is configured
    Cap,            \* PERMIT_AI_DAILY_CAP
    PerClient,      \* PERMIT_AI_PER_CLIENT_PER_MINUTE
    Window,         \* the 60 seconds of the sliding window, in clock ticks
    MaxTime,        \* bound: the clock stops here
    DayOf,          \* the UTC date at each clock reading
    MaxWindows,     \* windows kept before idle clients are dropped (10_000)
    MaxRestarts,    \* bound: instance restarts
    NoClient        \* placeholder of a thread that serves nobody

ASSUME BudgetAssumption ==
    /\ IsFiniteSet(Threads) /\ InstanceOf \in [Threads -> Instances]
    /\ Backend \in {"memory", "dynamo"}
    /\ Cap \in Nat /\ PerClient \in Nat
    /\ Window \in Nat \ {0}
    /\ MaxTime \in Nat /\ MaxWindows \in Nat /\ MaxRestarts \in Nat
    /\ DayOf \in [0..MaxTime -> Nat]

VARIABLES
    now,        \* the clock both time.monotonic() and the UTC date come from
    call,       \* each thread's charge(): its step, client, moment and day
    windows,    \* Budget._windows: reserved moments in the order of the appends
    known,      \* the keys of Budget._windows
    counterDay, \* MemoryCounter._day per instance
    count,      \* MemoryCounter._count per instance
    table,      \* the DynamoDB items: count per day
    restarts,
    admitted,   \* history: requests let through, by the day they were charged to
    kept        \* history: reservations not given back, by instance, client, moment

budgetVars == <<now, call, windows, known, counterDay, count, table, restarts, admitted, kept>>

window_vars  == <<windows, known>>
counter_vars == <<counterDay, count, table>>
history_vars == <<admitted, kept>>

Times == 0..MaxTime
Days  == {DayOf[t] : t \in Times}
NoDay == -1             \* the empty string, before any date is known

Steps == {"idle", "received", "reserved", "counting", "refused", "charged"}
Idle  == [pc |-> "idle", client |-> NoClient, moment |-> 0, day |-> NoDay]

BudgetInit ==
    /\ now = 0 /\ restarts = 0
    /\ call = [t \in Threads |-> Idle]
    /\ windows = [i \in Instances |-> [c \in Clients |-> <<>>]]
    /\ known = [i \in Instances |-> {}]
    /\ counterDay = [i \in Instances |-> NoDay]
    /\ count = [i \in Instances |-> 0]
    /\ table = [d \in Days |-> 0]
    /\ admitted = [d \in Days |-> 0]
    /\ kept = [i \in Instances |-> [c \in Clients |-> [m \in Times |-> 0]]]

-----------------------------------------------------------------------------
(* The deque of one client. *)

\* Mutant: the window is one tick short.
DropStaleEarly(w, m) ==
    LET live == {k \in 1..Len(w) : m - w[k] < Window - 1}
    IN  IF live = {} THEN <<>> ELSE SubSeq(w, Min(live), Len(w))

\* Mutant: an entry as old as the window is still counted.
DropStaleLate(w, m) ==
    LET live == {k \in 1..Len(w) : m - w[k] <= Window}
    IN  IF live = {} THEN <<>> ELSE SubSeq(w, Min(live), Len(w))

\* `while window and moment - window[0] >= 60: window.popleft()`.
DropStale(w, m) ==
    LET live == {k \in 1..Len(w) : m - w[k] < Window}
    IN  IF live = {} THEN <<>> ELSE SubSeq(w, Min(live), Len(w))

\* The clients that survive the clean-up of a dictionary grown past its bound.
Fresh(ws, keys, m) ==
    {c \in keys : ws[c] # <<>> /\ m - Last(ws[c]) < Window}

\* Every mutation made under Budget._lock by an admitted charge at moment m.
Reserved(ws, keys, c, m) ==
    LET filled == [ws EXCEPT ![c] = Append(DropStale(@, m), m)]
        grown  == keys \cup {c}
        left   == IF Cardinality(grown) > MaxWindows
                  THEN Fresh(filled, grown, m) ELSE grown
    IN  [windows |-> [k \in Clients |-> IF k \in left THEN filled[k] ELSE <<>>],
         known   |-> left]

\* A reservation that nobody will give back.
Keep(t) ==
    kept' = [kept EXCEPT ![InstanceOf[t]][call[t].client][call[t].moment] = @ + 1]

Return(t) == call' = [call EXCEPT ![t] = Idle]

-----------------------------------------------------------------------------
(* charge(), one step per clock read or critical section. *)

\* A request arrives and charge() reads the clock, before taking the lock.
Arrive(t) ==
    /\ call[t].pc = "idle"
    /\ \E c \in Clients :
         call' = [call EXCEPT ![t] =
                    [pc |-> "received", client |-> c, moment |-> now, day |-> NoDay]]
    /\ UNCHANGED <<now, window_vars, counter_vars, restarts, history_vars>>

\* Critical section of the window, with room for one more request.
Reserve(t) ==
    LET i == InstanceOf[t]
        c == call[t].client
        m == call[t].moment
        after == Reserved(windows[i], known[i], c, m)
    IN  /\ call[t].pc = "received"
        /\ Len(DropStale(windows[i][c], m)) < PerClient
        /\ windows' = [windows EXCEPT ![i] = after.windows]
        /\ known' = [known EXCEPT ![i] = after.known]
        /\ call' = [call EXCEPT ![t].pc = "reserved"]
        /\ UNCHANGED <<now, counter_vars, restarts, history_vars>>

\* The same critical section when the minute is full: the pruning stays.
RefuseRate(t) ==
    LET i == InstanceOf[t]
        c == call[t].client
        m == call[t].moment
    IN  /\ call[t].pc = "received"
        /\ Len(DropStale(windows[i][c], m)) >= PerClient
        /\ windows' = [windows EXCEPT ![i][c] = DropStale(@, m)]
        /\ known' = [known EXCEPT ![i] = @ \cup {c}]
        /\ Return(t)
        /\ UNCHANGED <<now, counter_vars, restarts, history_vars>>

\* `_today()` is evaluated as an argument, before the counter's own lock.
ReadDay(t) ==
    /\ call[t].pc = "reserved"
    /\ call' = [call EXCEPT ![t].pc = "counting", ![t].day = DayOf[now]]
    /\ UNCHANGED <<now, window_vars, counter_vars, restarts, history_vars>>

\* The charge went through: the handler goes on to call the model.
Accept(t) ==
    /\ call' = [call EXCEPT ![t].pc = "charged"]
    /\ admitted' = [admitted EXCEPT ![call[t].day] = @ + 1]
    /\ Keep(t)

Refuse(t) ==
    /\ call' = [call EXCEPT ![t].pc = "refused"]
    /\ UNCHANGED history_vars

\* MemoryCounter rolls to the day that the caller brings.
Rolled(t) ==
    LET i == InstanceOf[t]
    IN  IF counterDay[i] = call[t].day THEN count[i] ELSE 0

Counted(t, n) ==
    /\ counterDay' = [counterDay EXCEPT ![InstanceOf[t]] = call[t].day]
    /\ count' = [count EXCEPT ![InstanceOf[t]] = n]

\* Mutant: `>` for `>=` when the count is compared with the cap.
CountMemoryOffByOne(t) ==
    /\ Backend = "memory"
    /\ call[t].pc = "counting"
    /\ Counted(t, Rolled(t) + 1)
    /\ IF Rolled(t) <= Cap THEN Accept(t) ELSE Refuse(t)
    /\ UNCHANGED table

\* MemoryCounter.increment: roll, compare, add.
CountMemory(t) ==
    /\ Backend = "memory"
    /\ call[t].pc = "counting"
    /\ \/ Rolled(t) < Cap  /\ Counted(t, Rolled(t) + 1) /\ Accept(t)
       \/ Rolled(t) >= Cap /\ Counted(t, Rolled(t)) /\ Refuse(t)
    /\ UNCHANGED table

\* DynamoCounter.increment: one conditional update of the day's item.
CountDynamo(t) ==
    LET d == call[t].day
    IN  /\ Backend = "dynamo"
        /\ call[t].pc = "counting"
        /\ \/ /\ table[d] < Cap
              /\ table' = [table EXCEPT ![d] = @ + 1]
              /\ Accept(t)
           \/ /\ table[d] >= Cap
              /\ UNCHANGED table
              /\ Refuse(t)
        /\ UNCHANGED <<counterDay, count>>

\* `self.counter.increment(...)`, of the counter that is configured.
Count(t) ==
    /\ CountMemory(t) \/ CountDynamo(t)
    /\ UNCHANGED <<now, window_vars, restarts>>

\* Mutant: a counter that cannot be reached lets the request through.
CounterErrorFailsOpen(t) ==
    /\ Backend = "dynamo"
    /\ call[t].pc = "counting"
    /\ Accept(t)
    /\ UNCHANGED <<now, window_vars, counter_vars, restarts>>

\* The update fails for another reason, before or after the table applied
\* it: the exception is not a BudgetExhausted, so nothing is rolled back.
CounterError(t) ==
    LET d == call[t].day
    IN  /\ Backend = "dynamo"
        /\ call[t].pc = "counting"
        /\ \/ UNCHANGED table
           \/ /\ table[d] < Cap
              /\ table' = [table EXCEPT ![d] = @ + 1]
        /\ Keep(t)
        /\ Return(t)
        /\ UNCHANGED <<now, window_vars, counterDay, count, restarts, admitted>>

\* Mutant: the refused request keeps its slot.
RollBackForgotten(t) ==
    /\ call[t].pc = "refused"
    /\ Return(t)
    /\ UNCHANGED <<now, window_vars, counter_vars, restarts, history_vars>>

\* `reserved.remove(moment)`: the first equal entry, if it is still there.
RollBack(t) ==
    /\ call[t].pc = "refused"
    /\ windows' = [windows EXCEPT ![InstanceOf[t]][call[t].client] =
                                     RemoveFirst(@, call[t].moment)]
    /\ Return(t)
    /\ UNCHANGED <<now, known, counter_vars, restarts, history_vars>>

\* compute() runs and is answered, with a result or with a mapped error; a
\* failure after the charge gives nothing back.
Respond(t) ==
    /\ call[t].pc = "charged"
    /\ Return(t)
    /\ UNCHANGED <<now, window_vars, counter_vars, restarts, history_vars>>

-----------------------------------------------------------------------------
(* The environment. *)

Tick ==
    /\ now < MaxTime
    /\ now' = now + 1
    /\ UNCHANGED <<call, window_vars, counter_vars, restarts, history_vars>>

\* A process ends: its threads, windows and in-memory counter are gone.
RestartInstance(i) ==
    /\ restarts < MaxRestarts
    /\ restarts' = restarts + 1
    /\ call' = [t \in Threads |-> IF InstanceOf[t] = i THEN Idle ELSE call[t]]
    /\ windows' = [windows EXCEPT ![i] = [c \in Clients |-> <<>>]]
    /\ known' = [known EXCEPT ![i] = {}]
    /\ counterDay' = [counterDay EXCEPT ![i] = NoDay]
    /\ count' = [count EXCEPT ![i] = 0]
    /\ kept' = [kept EXCEPT ![i] = [c \in Clients |-> [m \in Times |-> 0]]]
    /\ UNCHANGED <<now, table, admitted>>

BudgetNext ==
    \/ \E t \in Threads :
          \/ Arrive(t) \/ Reserve(t) \/ RefuseRate(t) \/ ReadDay(t)
          \/ Count(t) \/ CounterError(t) \/ RollBack(t) \/ Respond(t)
    \/ \E i \in Instances : RestartInstance(i)
    \/ Tick

BudgetSpec == BudgetInit /\ [][BudgetNext]_budgetVars

-----------------------------------------------------------------------------
Calls == [pc : Steps, client : Clients \cup {NoClient}, moment : Times,
          day : Days \cup {NoDay}]

CallOK(r) ==
    /\ r.pc # "idle" => r.client \in Clients
    /\ r.pc = "counting" => r.day \in Days

\* Types; counters of a day, in memory or in the table, never exceed the cap.
BudgetTypeOK ==
    /\ now \in Times
    /\ call \in [Threads -> Calls]
    /\ \A t \in Threads : CallOK(call[t])
    /\ windows \in [Instances -> [Clients -> Seq(Times)]]
    /\ known \in [Instances -> SUBSET Clients]
    /\ counterDay \in [Instances -> Days \cup {NoDay}]
    /\ count \in [Instances -> 0..Cap]
    /\ table \in [Days -> 0..Cap]
    /\ restarts \in 0..MaxRestarts
    /\ admitted \in [Days -> Nat]
    /\ kept \in [Instances -> [Clients -> [Times -> Nat]]]

\* No dictionary of windows grows past its bound.
WindowsSuffice == IsFiniteSet(Clients) /\ Cardinality(Clients) <= MaxWindows

\* The daily cap is hard: no day ever has more than Cap requests let through
\* to the model, whatever the interleaving (ai/budget.py:1-9, 41-96).
DailyCapHard == \A d \in Days : admitted[d] <= Cap

\* The requests of a client that were stamped at m and are still being charged.
InFlight(i, c, m) ==
    Cardinality({t \in Threads : /\ InstanceOf[t] = i
                                 /\ call[t].pc \in {"reserved", "counting", "refused"}
                                 /\ call[t].client = c /\ call[t].moment = m})

\* One element for each request stamped at m that holds a slot.
Stamped(i, c, m) == {m} \X (1 .. (kept[i][c][m] + InFlight(i, c, m)))

\* The sliding window at work (ai/budget.py:113-135): at every instant, the
\* requests of one client that were stamped within the last Window and were
\* not given back, with those still being charged, are at most PerClient, even
\* though stamps are read before the lock and so enter the deque out of order.
RateLimitNow ==
    \A i \in Instances, c \in Clients :
        LET recent == {m \in Times : m <= now /\ now - m < Window}
        IN  Cardinality(UNION {Stamped(i, c, m) : m \in recent}) <= PerClient

\* A refusal by the daily cap gives the client's slot back: every entry of a
\* window belongs to a request that went through (or whose counter failed)
\* or that is still being charged (ai/budget.py:122-131, 138-146).
NoPhantomReservation ==
    \A i \in Instances, c \in Clients, m \in Times :
        Cardinality({k \in 1..Len(windows[i][c]) : windows[i][c][k] = m})
            <= kept[i][c][m] + InFlight(i, c, m)

\* Nobody is turned away for requests that are over or that were refused: when
\* charge() refuses a client for its rate, another of its requests, stamped
\* less than a Window earlier or later, still holds a slot.  A deque that kept
\* a phantom or a stale entry at its head would lock its client out.
RefusalHasCause ==
    [][\A t \in Threads :
          RefuseRate(t) /\ PerClient > 0 =>
              LET i == InstanceOf[t]
                  c == call[t].client
              IN  \E m \in Times : /\ call[t].moment - m < Window
                                   /\ kept[i][c][m] + InFlight(i, c, m) > 0]_budgetVars

\* With the shared table the budget implements the abstract daily cap, a
\* lost update response included.
Promise == INSTANCE DailyCap WITH used <- admitted
ImplementsDailyCap == Promise!CapSpec
=============================================================================
