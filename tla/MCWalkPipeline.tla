--------------------------- MODULE MCWalkPipeline ---------------------------
(* WalkPipeline on a three-by-two map with two cardinal steps and the       *)
(* diagonal that joins them.                                                *)
EXTENDS WalkPipeline

MCFields == (0..2) \X (0..1)
MCLiveSteps == {<<1, 0>>}
MCSteps  == {<<1, 0>>, <<0, 1>>, <<1, 1>>}
============================================================================
