---------------------------- MODULE MCProjectPage ----------------------------
(* Two project types, which ask the same question; the service has an     *)
(* older rule base, with one rule less.                                    *)
EXTENDS ProjectPage, TLC

CONSTANTS adu, jadu, existing, unknown, woodland, davis, k1, k2

OneFact   == {"primary"}
Choices   == [f \in OneFact |-> {existing, unknown}]
AskedFor  == [t \in {adu, jadu} |-> OneFact]
TypeIs(t) == [field |-> "project_type", values |-> {t}]

Newer == [statewide |-> [scope |-> "statewide", criteria |-> {TypeIs(adu)}],
          local     |-> [scope |-> woodland,
                         criteria |-> {TypeIs(adu), [field |-> "primary", values |-> {existing}]}],
          junior    |-> [scope |-> "statewide", criteria |-> {TypeIs(jadu)}]]
Older == [id \in {"statewide", "junior"} |-> Newer[id]]
=============================================================================
