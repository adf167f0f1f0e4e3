----------------------------- MODULE MCViewPublish -----------------------------
(***************************************************************************)
(* One series of each kind and a second mosaic, in a subfolder.            *)
(***************************************************************************)
EXTENDS ViewPublish

CONSTANTS t, v, c, m, n, red, blue

MCKind == [s \in Series |-> CASE s = t -> "table" [] s = v -> "vector"
                            [] s = c -> "coverage" [] OTHER -> "mosaic"]
=============================================================================
