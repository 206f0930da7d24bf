----------------------------- MODULE MCLiveInbox -----------------------------
EXTENDS LiveInbox, TLC

CONSTANTS t1, acme

MCTabs == {t1}
MCOrgOf == (t1 :> acme)

=============================================================================
