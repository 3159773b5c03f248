----------------------------- MODULE MCQimmFlow -----------------------------
(* QimmFlow with automatic layouts of several sizes, and given positions at *)
(* the left edge, inside the output and at its right end.                  *)
EXTENDS QimmFlow

Automatic == [x : {-1}, y : {-1}, w : {-1, -2, 1, 3}, h : {-3, 1, 2}]
Given == [x : {0, 2}, y : {-1, 0, 1}, w : {-1, 2}, h : {1}]
Positions == [x : {-1, 4}, y : {2}, w : {1, 5}, h : {2}]
MCLayouts == Automatic \cup Given \cup Positions
=============================================================================
