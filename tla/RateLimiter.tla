---------------------------- MODULE RateLimiter -----------------------------
(***************************************************************************)
(* The gateway's /api/v1 chain: RequireAPIKey, then PerTenantRateLimiter   *)
(* (gateway/internal/middleware).  Each gateway process keeps its own      *)
(* fixed-window counters in memory, one per tenant; the limiter's mutex    *)
(* makes allow atomic, though the clock moves on while it runs.            *)
(*                                                                         *)
(* Time is counted in ticks.  auth-service, which resolves a key to its    *)
(* organization and owner, is external.  A request comes with an X-Org-Id  *)
(* of its own, or none; the gateway replaces it only when the key has an   *)
(* organization.                                                           *)
(***************************************************************************)
EXTENDS Integers, FiniteSets

CONSTANTS
  Gateways,    \* gateway processes
  Keys,        \* valid API keys
  OrgIds,      \* what X-Org-Id may say: an organization's id, or another text
  NoOrg,       \* no organization; no X-Org-Id
  OrgOf,       \* OrgOf[k]: the key's organization, or NoOrg
  OwnerOf,     \* OwnerOf[k]: the user who owns the key
  Limit,       \* requests allowed per window
  Window,      \* ticks in a window
  Second,      \* ticks in a second
  MaxTime,     \* bound: the last instant of a behaviour
  MaxPause,    \* bound: ticks that pass inside one call of allow
  MaxRequests  \* bound: requests a process lets through

ASSUME OrgAssumption == NoOrg \notin OrgIds /\ OrgOf \in [Keys -> OrgIds \cup {NoOrg}]

(* router.go replaces a limit that is not positive by 300.                 *)
ASSUME LimitAssumption == Limit \in Nat \ {0}
ASSUME TimeAssumption ==
  Window \in Nat \ {0} /\ Second \in Nat \ {0} /\ MaxTime \in Nat /\ MaxPause \in Nat
ASSUME RequestsAssumption == MaxRequests \in Nat

VARIABLES
  now,         \* the clock
  buckets,     \* buckets[g][b]: the window of bucket b at gateway g
  \* history
  admitted,    \* admitted[g]: the requests that g let through
  promised     \* promised[g]: the last 429 that g gave, if any

vars == <<now, buckets, admitted, promised>>

Times == 0..MaxTime

(* X-Org-Id as Get reads it: "" is no header.                              *)
Headers == OrgIds \cup {NoOrg}

(* Variant: what the client sent is left in place when there is something. *)
SentOrOwn(k, sent) == IF sent # NoOrg THEN sent ELSE OrgOf[k]

(* The X-Org-Id that a request goes on with.  RequireAPIKey sets it when   *)
(* the key has an organization, and never removes one that was sent.       *)
XOrgId(k, sent) == IF OrgOf[k] # NoOrg THEN OrgOf[k] ELSE sent

(* X-Owner-Id is always set: "anonymous" is never used behind it.          *)
TenantKey(k, org) == IF org # NoOrg THEN <<"org", org>> ELSE <<"owner", OwnerOf[k]>>

Tenants == {TenantKey(k, org) : k \in Keys, org \in Headers}

NoBucket == [count |-> 0, resetAt |-> -1]

Init ==
  /\ now = 0
  /\ buckets = [g \in Gateways |-> [b \in Tenants |-> NoBucket]]
  /\ admitted = [g \in Gateways |-> {}]
  /\ promised = [g \in Gateways |-> {}]

(* The window allow works on: a new one when there is none, or when now is *)
(* strictly after the end of the old one.                                  *)
Current(g, b) ==
  LET w == buckets[g][b]
  IN  IF w = NoBucket \/ now > w.resetAt
      THEN [count |-> 0, resetAt |-> now + Window]
      ELSE w

(* Variant: the seconds left, rounded down.                                *)
RoundedDown(left) == IF left >= 0 THEN left \div Second ELSE -((-left) \div Second)

(* int(retryAfter.Seconds()) + 1; Go's conversion truncates towards zero.  *)
RetryAfter(left) ==
  IF left >= 0 THEN left \div Second + 1 ELSE 1 - ((-left) \div Second)

Tick ==
  /\ now < MaxTime
  /\ now' = now + 1
  /\ UNCHANGED <<buckets, admitted, promised>>

(* Who a key's requests should count for: its organization or, when it has *)
(* none, its owner.                                                        *)
TenantOf(k) ==
  IF OrgOf[k] # NoOrg THEN <<"org", OrgOf[k]>> ELSE <<"owner", OwnerOf[k]>>

(* History: one more request of k, under the X-Org-Id it goes on with.     *)
LetThrough(g, k, org) ==
  LET alike == {a \in admitted[g] : a.at = now /\ a.of = TenantOf(k) /\ a.org = org}
  IN  /\ Cardinality(admitted[g]) < MaxRequests
      /\ admitted' = [admitted EXCEPT ![g] = @ \cup
           {[at |-> now, nth |-> Cardinality(alike), of |-> TenantOf(k), org |-> org]}]

(* Variants: an off-by-one in the quota; and counting on a copy of the     *)
(* window when there is one already.                                       *)
AdmitOneMore(g, k, org) ==
  LET b == TenantKey(k, org)
      w == Current(g, b)
  IN  /\ w.count <= Limit
      /\ buckets' = [buckets EXCEPT ![g][b] = [w EXCEPT !.count = @ + 1]]
      /\ LetThrough(g, k, org)
      /\ UNCHANGED <<now, promised>>

AdmitOnCopy(g, k, org) ==
  LET b == TenantKey(k, org)
      w == Current(g, b)
  IN  /\ w.count < Limit
      /\ buckets' = [buckets EXCEPT ![g][b] = w]
      /\ LetThrough(g, k, org)
      /\ UNCHANGED <<now, promised>>

Admit(g, k, org) ==
  LET b == TenantKey(k, org)
      w == Current(g, b)
  IN  /\ w.count < Limit
      /\ buckets' = [buckets EXCEPT ![g][b] = [w EXCEPT !.count = @ + 1]]
      /\ LetThrough(g, k, org)
      /\ UNCHANGED <<now, promised>>

(* time.Until reads the clock again, so Retry-After counts from a later    *)
(* instant than the one the decision was made at.                          *)
Refuse(g, k, org) ==
  LET b == TenantKey(k, org)
      w == Current(g, b)
  IN  /\ w.count >= Limit
      /\ buckets' = [buckets EXCEPT ![g][b] = w]
      /\ \E pause \in 0..MaxPause :
           /\ now + pause <= MaxTime
           /\ now' = now + pause
           /\ promised' = [promised EXCEPT ![g] =
                {[to |-> TenantOf(k), bucket |-> b,
                  back |-> now' + RetryAfter(w.resetAt - now') * Second,
                  resetAt |-> w.resetAt]}]
      /\ UNCHANGED admitted

(* The counters live in the process.                                       *)
Restart(g) ==
  /\ buckets' = [buckets EXCEPT ![g] = [b \in Tenants |-> NoBucket]]
  /\ admitted' = [admitted EXCEPT ![g] = {}]
  /\ promised' = [promised EXCEPT ![g] = {}]
  /\ UNCHANGED now

Next ==
  \/ Tick
  \/ \E g \in Gateways :
       \/ Restart(g)
       \/ \E k \in Keys, sent \in Headers :
            Admit(g, k, XOrgId(k, sent)) \/ Refuse(g, k, XOrgId(k, sent))

Spec == Init /\ [][Next]_vars

-----------------------------------------------------------------------------
(* Properties                                                              *)

Bucket == [count : 0..Limit, resetAt : Int]
Promise == [to : Tenants, bucket : Tenants, back : Int, resetAt : Int]
Requests == [at : Times, nth : Nat, of : Tenants, org : Headers]

TypeOK ==
  /\ now \in Times
  /\ buckets \in [Gateways -> [Tenants -> Bucket]]
  /\ admitted \in [Gateways -> SUBSET Requests]
  /\ promised \in [Gateways -> SUBSET Promise]

(* Those of the requests that came from first to last.                     *)
During(requests, first, last) == {a \in requests : first <= a.at /\ a.at <= last}

(* What g let through of tenant t, except what a key without organization  *)
(* sent under an X-Org-Id: that is counted for whom it names.              *)
OwnRequests(g, t) ==
  {a \in admitted[g] : a.of = t /\ (t[1] = "owner" => a.org = NoOrg)}

(* A fixed window lets a tenant bunch its quota at the end of one window   *)
(* and the start of the next, and no worse: in any stretch as long as a    *)
(* window a process admits at most twice the limit of the requests of an   *)
(* organization's keys, whatever X-Org-Id these and others send, and of    *)
(* those of an owner's other keys that send none (ratelimit.go:57-84).     *)
SlidingBound ==
  \A g \in Gateways, t \in Tenants, i \in Times :
    Cardinality(During(OwnRequests(g, t), i, i + Window)) <= 2 * Limit

(* A request that may be counted for t: its own or, when t is named by an  *)
(* X-Org-Id, that of a key without organization.                           *)
MaySpend(a, t) == a.of = t \/ (t[1] = "org" /\ a.of[1] = "owner")

(* A 429 is never the doing of the keys of another organization, whatever  *)
(* they send: within the last window the process let Limit requests        *)
(* through of the tenant's keys or, for an organization, of keys that have *)
(* none (auth.go:34-36, ratelimit.go:57-84).                               *)
RefusedOnlyWhenSpent ==
  [][\A g \in Gateways : \A p \in promised'[g] \ promised[g] :
       LET spent == {a \in admitted[g] : MaySpend(a, p.bucket)}
       IN  Cardinality(During(spent, now - Window, now)) >= Limit]_vars

(* docs/gateway.md:37: the identity headers overwrite what a client sent,  *)
(* "so they cannot be spoofed".  When a key is refused its own tenant's    *)
(* quota, the requests of that tenant would then have spent it.            *)
QuotaSpentByItsOwn ==
  \A g \in Gateways : \A p \in promised[g] :
    LET own == During(OwnRequests(g, p.to), p.resetAt - Window, p.resetAt)
    IN  p.bucket = p.to => Cardinality(own) >= Limit

(* Retry-After tells the truth: a client that waits as long as it was told *)
(* is not refused by the window that refused it, even when the wait ends   *)
(* on the very tick of the reset and even when allow was slow.             *)
RetryAfterSuffices ==
  \A g \in Gateways : \A p \in promised[g] :
    now >= p.back => Current(g, p.bucket).resetAt # p.resetAt

=============================================================================
