----------------------------- MODULE MCPipeline -----------------------------
(* Two episodes for TLC: e2 is the newer one, so it goes first everywhere. *)
EXTENDS PipelineProps

CONSTANTS e1, e2

MCEpisodes == {e1, e2}
MCRecency == [e \in MCEpisodes |-> IF e = e2 THEN 2 ELSE 1]
=============================================================================
