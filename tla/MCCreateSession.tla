--------------------------- MODULE MCCreateSession ---------------------------
(***************************************************************************)
(* Model-checking instance of CreateSession: five requests, three of them  *)
(* retries of one key, one with a key of its own and one without a key.    *)
(***************************************************************************)
EXTENDS CreateSession, TLC

CONSTANTS r1, r2, r3, r4, r5, k1, k2

MCKeyOf == (r1 :> k1) @@ (r2 :> k1) @@ (r3 :> k1) @@ (r4 :> k2) @@ (r5 :> "no_key")

Symmetric == Permutations({r1, r2, r3})

=============================================================================
