----------------------------- MODULE MCAccounts ------------------------------
EXTENDS Accounts, TLC

CONSTANTS c1, c2, ann, bob

Symmetry == Permutations(Clients)

=============================================================================
