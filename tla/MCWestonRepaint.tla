--------------------------- MODULE MCWestonRepaint ---------------------------
(* WestonRepaint on two outputs, for TLC.                                  *)
EXTENDS WestonRepaint, TLC
=============================================================================
