----------------------------- MODULE MCAiBudget -----------------------------
(* Small instances of AiBudget and the mutated definitions its properties  *)
(* are shown to catch.                                                     *)
EXTENDS AiBudget, TLC

CONSTANTS t1, t2, t3, c1, c2, i1, i2

\* A midnight before tick 2.
Midnight == [t \in 0..MaxTime |-> t \div 2]

TwoThreads == [t \in {t1, t2} |-> i1]

\* Two threads of one process and one of another.
Shared     == [t \in {t1, t2, t3} |-> IF t = t3 THEN i2 ELSE i1]
PoolPairs  == Permutations({t1, t2})
=============================================================================
