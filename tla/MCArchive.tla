------------------------------ MODULE MCArchive ------------------------------
(* One show for TLC, two episodes of the month before the walk began. *)
EXTENDS Archive

CONSTANTS s1, a, b

MCShowOf == [e \in {a, b} |-> s1]
MCMonthOf == [e \in {a, b} |-> 2]
=============================================================================
