----------------------------- MODULE MCWestonXdg -----------------------------
(* WestonXdg for TLC, with the two states that contents are checked for:   *)
(* the other two are only compared and sent, as these are.                 *)
EXTENDS WestonXdg

Checked == {"maximized", "fullscreen"}
=============================================================================
