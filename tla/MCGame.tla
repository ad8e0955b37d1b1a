-------------------------------- MODULE MCGame --------------------------------
(* A way of three places for TLC, with the terminal in the middle; the     *)
(* second version of the code accepts the right answer.                    *)
EXTENDS GameReplay

MCNeeds == [p \in 0 .. 2 |-> IF p = 0 THEN "use" ELSE IF p = 1 THEN "query" ELSE "go"]
MCAccepts == [v \in {"v0", "v1"} |-> IF v = "v0" THEN {} ELSE {"right"}]
=============================================================================
