-------------------------- MODULE MCSessionAccess --------------------------
(* Keys of two tenants: one of everything that never expires, and one that *)
(* expires and may not delete.                                             *)
EXTENDS SessionAccess

(* A reader beside a request of any other kind. *)
MCRequests == {"r1", "r2"}
MCAsks == [r1 |-> {"create", "delete", "verify"}, r2 |-> {"read"}]

MCKeys == {"k1", "k2"}
MCTenants == {"t1", "t2"}
MCTenantOf == [k1 |-> "t1", k2 |-> "t2"]
MCScopesOf == [k1 |-> {"write", "read", "delete"}, k2 |-> {"write", "read"}]
MCLifeOf == [k1 |-> Unlimited, k2 |-> 1]

=============================================================================
