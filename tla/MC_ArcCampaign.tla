--------------------------- MODULE MC_ArcCampaign ---------------------------
(* Two submissions of a campaign of two tasks, which one bundle holds: the    *)
(* two elements meet in both tasks.                                          *)
EXTENDS ArcCampaign

MCElements == {<<1, 0>>, <<2, 0>>}
============================================================================
