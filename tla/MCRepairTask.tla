---------------------------- MODULE MCRepairTask ----------------------------
(* Instances of RepairTask for TLC.                                        *)
EXTENDS RepairTask, TLC

\* RepairTask compares file contents with Base and with each other only, so
\* the other contents are interchangeable.
Symmetry == Permutations(Versions \ {Base})
=============================================================================
