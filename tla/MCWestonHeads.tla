---------------------------- MODULE MCWestonHeads ----------------------------
(* WestonHeads on three connectors, the last one on a hub, for TLC.        *)
EXTENDS WestonHeads

CONSTANTS A, B, C, desk

\* monitors of different sizes
MCSize == (A :> <<4, 3>>) @@ (B :> <<2, 4>>) @@ (C :> <<6, 2>>)

Ini(f) == [n \in Names |-> IF n \in DOMAIN f THEN f[n] ELSE NULL]
Beside(r, d, a) ==
    [Section EXCEPT !.refer = r, !.direction = d, !.align = a]
NotOrigin(section) == [section EXCEPT !.origin = "false"]
SameAs(n) == [Section EXCEPT !.same_as = n]

\* an empty file; a chain around a corner, from C on; a circle beside an origin; clones named
\* by a section of their own; an output off, one forced on and a dead end
MCConfigs ==
    { Ini(<<>>),
      Ini((A :> SameAs(desk)) @@ (C :> SameAs(desk)) @@ (desk :> Section)),
      Ini((A :> NotOrigin(Beside(B, "top", "center")))
          @@ (B :> NotOrigin(Beside(C, "right", "end")))),
      Ini((A :> Beside(B, "bottom", "start")) @@ (B :> Beside(A, "left", "end"))
          @@ (C :> [Section EXCEPT !.origin = "true"])),
      Ini((A :> SameAs(desk)) @@ (B :> SameAs(desk))
          @@ (desk :> Section) @@ (C :> Beside(desk, "right", "center"))),
      Ini((A :> [Section EXCEPT !.off = TRUE])
          @@ (B :> [Section EXCEPT !.force = TRUE]) @@ (C :> SameAs(desk))) }

MCConnectors == <<A, B, C>>
=============================================================================
