-------------------------- MODULE MCProjectRouting --------------------------
(* ProjectRouting on small instances: a window that may lose its connection  *)
(* and open another, and a second window, which may share one of its folders. *)
EXTENDS ProjectRouting

CONSTANTS h1, h2, h3, w1, w2, a, b

MCWindowOf == [h \in {h1, h2, h3} |-> IF h = h3 THEN w2 ELSE w1]
MCLayouts == [w \in {w1, w2} |-> IF w = w1 THEN {<<>>, <<a>>, <<b, a>>} ELSE {<<b>>}]
=============================================================================
