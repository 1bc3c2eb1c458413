------------------------------ MODULE DailyCap ------------------------------
(***************************************************************************)
(* What the request budget promises about one UTC day, without saying how: *)
(* requests are let through one at a time and at most Cap of them per day. *)
(* This is the module docstring of ai/budget.py ("a hard daily cap ... a   *)
(* single counter that refuses every model-backed request once the day's   *)
(* allowance is spent") read as a specification.                           *)
(***************************************************************************)
EXTENDS Naturals

CONSTANTS Days, Cap

VARIABLE used   \* requests let through, per day

CapInit == used = [d \in Days |-> 0]

Admit(d) ==
    /\ used[d] < Cap
    /\ used' = [used EXCEPT ![d] = @ + 1]

CapNext == \E d \in Days : Admit(d)

CapSpec == CapInit /\ [][CapNext]_used
=============================================================================
