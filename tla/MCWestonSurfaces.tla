-------------------------- MODULE MCWestonSurfaces --------------------------
(* WestonSurfaces on small pools, for TLC.                                 *)
EXTENDS WestonSurfaces, TLC

\* Of the surfaces, only those that use a buffer are special, and of the
\* buffers those the renderer copies.
Alike == Permutations(Copied) \cup Permutations(Buffers \ Copied)
         \cup Permutations(Users) \cup Permutations(Surfaces \ Users)
=============================================================================
