------------------------------ MODULE MCIngest -------------------------------
(* Four entries for TLC: one from before the lookback, one within it that the narrow *)
(* allowlist refuses, one that appears later, and one the other feed has.  A month    *)
(* begins on the day the podcast is added, so the archive reaches into the lookback.  *)
EXTENDS Ingest

CONSTANTS old, young, new, moved, u1, u2

MCFeedOf == [e \in {old, young, new, moved} |-> IF e = moved THEN u2 ELSE u1]
MCDate == [e \in {old, young, new, moved} |->
             CASE e = old -> 1 [] e = moved -> 2 [] e = young -> 3 [] OTHER -> 4]
=============================================================================
