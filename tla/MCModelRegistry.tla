--------------------------- MODULE MCModelRegistry ---------------------------
(***************************************************************************)
(* Model-checking instance of ModelRegistry: versions are interchangeable, *)
(* and so are administrators.                                              *)
(***************************************************************************)
EXTENDS ModelRegistry, TLC

Symmetric == Permutations(Versions) \union Permutations(Administrators)

=============================================================================
