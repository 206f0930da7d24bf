--------------------------- MODULE MCMessageStore ---------------------------
(* Two keys of one organization and one key outside any.                   *)
EXTENDS MessageStore, TLC

CONSTANTS a, b, u, acme

MCClients == {a, b, u}
MCOrgOf == (a :> acme) @@ (b :> acme) @@ (u :> NoOrg)
Symmetry == Permutations({a, b})

=============================================================================
