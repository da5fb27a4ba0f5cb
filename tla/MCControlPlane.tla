--------------------------- MODULE MCControlPlane ----------------------------
(* An instance of the control plane's stores for TLC.                      *)
EXTENDS ControlPlane

CONSTANTS c1, c2, t1, t2, alice, bob, general, review, code, lease, r1, r2,
    m1, m2, talk, w1, w2, glyph

(* A block of two lines, indented once.                                    *)
MCReplacements == {<<"SP", glyph, "LF", glyph>>}
=============================================================================
