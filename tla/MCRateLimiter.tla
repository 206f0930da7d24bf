--------------------------- MODULE MCRateLimiter ----------------------------
(* Three keys: two of one organization, which share its quota, and one of  *)
(* the same owner outside any organization, whose requests may name that   *)
(* organization, another, or none.                                         *)
EXTENDS RateLimiter, TLC

CONSTANTS k1, k2, k3, acme, zeta, ann, bob

MCKeys == {k1, k2, k3}
MCOrgOf == (k1 :> acme) @@ (k2 :> acme) @@ (k3 :> NoOrg)
MCOwnerOf == (k1 :> ann) @@ (k2 :> bob) @@ (k3 :> ann)

=============================================================================
