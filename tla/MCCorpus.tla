------------------------------ MODULE MCCorpus ------------------------------
(* Two episodes for TLC, the newer of them ingested late.                          *)
EXTENDS Corpus

CONSTANTS e1, e2

MCRank == [e \in {e1, e2} |-> IF e = e2 THEN 1 ELSE 2]
=============================================================================
