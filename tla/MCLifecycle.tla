---------------------------- MODULE MCLifecycle -----------------------------
(* One or two episodes, all out in the first of two weeks; e2 is the newer. *)
EXTENDS Lifecycle

CONSTANTS e1, e2

MCRecency == [e \in Episodes |-> IF e = e2 THEN 2 ELSE 1]
MCPublished == [e \in Episodes |-> 1]
=============================================================================
