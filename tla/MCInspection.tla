----------------------------- MODULE MCInspection -----------------------------
(* Two contents for TLC: the lines of v1 do not all fit a window.          *)
EXTENDS Inspection

MCText == [v \in {"v0", "v1"} |-> IF v = "v0" THEN <<1, 2, 1, 2>> ELSE <<3, 2, 4>>]
MCSecret == {<<"v0", 4>>}
MCWindowLines == <<3, 2>>
===============================================================================
