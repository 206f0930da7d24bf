--------------------------- MODULE LiveInboxProofs ----------------------------
(***************************************************************************)
(* Theorems about LiveInbox, for any replicas, tabs and organizations and  *)
(* any number of messages, sockets and faults: what the page shows is      *)
(* current whatever the order of responses and events, and a page that was *)
(* left opens nothing.                                                     *)
(***************************************************************************)
EXTENDS LiveInbox, TLAPS

Response == [token : Nat, ok : {"yes", "no"}, list : Lists]

ServerFits ==
  /\ up \in SUBSET Servers /\ stored \in [Orgs -> Lists]
  /\ side \in [Tabs -> [Numbers ->
       {"none", "validating", "registered", "orphan", "stale"}]]
  /\ home \in [Tabs -> [Numbers -> Servers]]
  /\ valid \in SUBSET Tabs

HookFits ==
  /\ mounted \in SUBSET Tabs
  /\ link \in [Tabs -> {"connecting", "open", "lost", "waiting", "none"}]
  /\ connects \in [Tabs -> Numbers]
  /\ events \in [Tabs -> SUBSET (1..MaxMessages)]

PageFits ==
  /\ token \in [Tabs -> Nat] /\ asked \in [Tabs -> SUBSET Nat]
  /\ answers \in [Tabs -> SUBSET Response]
  /\ shown \in [Tabs -> Lists] /\ error \in SUBSET Tabs
  /\ heard \in [Tabs -> Lists] /\ faults \in 0..MaxFaults

(* A request is asked for or answered, once.                               *)
RequestsFit(t) ==
  /\ token[t] \in 1..(1 + heard[t] + faults)
  /\ asked[t] \subseteq 1..token[t]
  /\ \A a \in answers[t] : a.token \in 1..token[t] /\ a.token \notin asked[t]
  /\ \A a, b \in answers[t] : a.token = b.token => a = b

(* The database has whatever a tab shows, was told of or will be, and      *)
(* events come in the order of the messages.                               *)
ListsFit(t) ==
  /\ shown[t] <= stored[OrgOf[t]] /\ heard[t] <= stored[OrgOf[t]]
  /\ \A a \in answers[t] : a.list <= stored[OrgOf[t]]
  /\ \A m \in events[t] : heard[t] < m /\ m <= stored[OrgOf[t]]

(* The response that will be shown was read after everything shown or      *)
(* heard of so far.                                                        *)
AnswerIsCurrent(t) ==
  \A a \in answers[t] :
    a.ok = "yes" /\ t \in mounted /\ a.token = token[t] =>
      shown[t] <= a.list /\ heard[t] <= a.list

SettledFits(t) == Settled(t) => heard[t] <= shown[t]

LeftFits(t) == t \notin mounted => link[t] \in {"lost", "none"}

TabFits(t) ==
  RequestsFit(t) /\ ListsFit(t) /\ AnswerIsCurrent(t) /\ SettledFits(t) /\ LeftFits(t)

Inductive ==
  /\ ServerFits /\ HookFits /\ PageFits
  /\ \A t \in Tabs : TabFits(t)

-----------------------------------------------------------------------------
(* What holds of tabs a step does not touch                                *)

LEMMA Types ==
  ASSUME Inductive
  PROVE  /\ \A n \in Lists : n \in Nat
         /\ faults \in Nat
         /\ \A t \in Tabs :
              /\ OrgOf[t] \in Orgs /\ stored[OrgOf[t]] \in Nat
              /\ token[t] \in Nat /\ asked[t] \in SUBSET Nat
              /\ answers[t] \in SUBSET Response
              /\ shown[t] \in Nat /\ heard[t] \in Nat
              /\ events[t] \in SUBSET (1..MaxMessages) /\ events[t] \in SUBSET Nat
BY OrgAssumption, MaxAssumption
   DEF Inductive, ServerFits, HookFits, PageFits, Lists, Response

(* Only the tab t, and the count of faults, may differ.                    *)
LEMMA OthersStay ==
  ASSUME Inductive, NEW t \in Tabs, TabFits(t)',
         UNCHANGED stored, faults' \in Nat, faults <= faults',
         \A u \in Tabs \ {t} :
           /\ token'[u] = token[u] /\ asked'[u] = asked[u] /\ answers'[u] = answers[u]
           /\ shown'[u] = shown[u] /\ heard'[u] = heard[u] /\ events'[u] = events[u]
           /\ link'[u] = link[u]
           /\ u \in mounted' <=> u \in mounted
           /\ u \in error' <=> u \in error
  PROVE  \A u \in Tabs : TabFits(u)'
<1> SUFFICES ASSUME NEW u \in Tabs, u # t PROVE TabFits(u)'
  OBVIOUS
<1>1. TabFits(u)
  BY DEF Inductive
<1>2. RequestsFit(u)'
  BY <1>1, Types DEF TabFits, RequestsFit
<1>3. ListsFit(u)' /\ AnswerIsCurrent(u)' /\ SettledFits(u)' /\ LeftFits(u)'
  BY <1>1 DEF TabFits, ListsFit, AnswerIsCurrent, SettledFits, Settled, LeftFits
<1> QED
  BY <1>2, <1>3 DEF TabFits

(* A step of the server's side, or of a socket, that the page never sees.  *)
LEMMA PageStays ==
  ASSUME Inductive, UNCHANGED <<stored, mounted, events, page, heard>>,
         ServerFits', HookFits', faults' \in 0..MaxFaults, faults <= faults',
         \A t \in Tabs : LeftFits(t)'
  PROVE  Inductive'
<1>1. PageFits'
  BY DEF Inductive, PageFits, page
<1>2. ASSUME NEW t \in Tabs PROVE TabFits(t)'
  <2>1. TabFits(t)
    BY DEF Inductive
  <2>2. RequestsFit(t)'
    BY <2>1, Types, MaxAssumption DEF TabFits, RequestsFit, page
  <2>3. ListsFit(t)' /\ AnswerIsCurrent(t)' /\ SettledFits(t)'
    BY <2>1 DEF TabFits, ListsFit, AnswerIsCurrent, SettledFits, Settled, page
  <2> QED
    BY <2>2, <2>3 DEF TabFits
<1> QED
  BY <1>1, <1>2 DEF Inductive

-----------------------------------------------------------------------------
(* Steps of the sockets and of the replicas                                *)

LEMMA SocketSteps ==
  ASSUME Inductive, NEW t \in Tabs,
         Open(t) \/ Lose(t) \/ Reconnect(t)
  PROVE  Inductive'
<1>1. /\ UNCHANGED <<stored, mounted, events, page, heard>>
      /\ faults' \in 0..MaxFaults /\ faults <= faults'
  BY Types, MaxAssumption
     DEF Open, Lose, Reconnect, Fault, server, Inductive, PageFits
<1>2. /\ link[t] \in {"connecting", "open", "waiting"}
      /\ \E there \in {"open", "lost", "connecting"} : Links(t, there)
      /\ ~(link[t] \in {"lost", "none"})
  BY DEF Open, Lose, Reconnect
<1>3. t \in mounted
  BY <1>2 DEF Inductive, TabFits, LeftFits
<1>4. ServerFits'
  <2>1. CASE Open(t)
    <3>1. PICK s \in up : home' = [home EXCEPT ![t][connects[t]] = s]
      BY <2>1 DEF Open
    <3>2. connects[t] \in Numbers /\ s \in Servers
      BY DEF Inductive, HookFits, ServerFits
    <3>3. home' \in [Tabs -> [Numbers -> Servers]]
      BY <3>1, <3>2 DEF Inductive, ServerFits
    <3> QED
      BY <2>1, <3>2, <3>3 DEF Open, Inductive, ServerFits
  <2>2. CASE Lose(t) \/ Reconnect(t)
    BY <2>2 DEF Lose, Reconnect, server, Inductive, ServerFits
  <2> QED
    BY <2>1, <2>2
<1>5. HookFits'
  BY MaxAssumption
     DEF Open, Lose, Reconnect, Links, Inductive, HookFits, Numbers
<1>6. \A u \in Tabs : LeftFits(u)'
  BY <1>1, <1>2, <1>3 DEF Links, Inductive, TabFits, LeftFits, HookFits
<1> QED
  BY <1>1, <1>4, <1>5, <1>6, PageStays

LEMMA GatewaySteps ==
  ASSUME Inductive, NEW t \in Tabs, NEW n \in Numbers,
         Validated(t, n) \/ ValidateThrows(t, n) \/ Disconnected(t, n)
  PROVE  Inductive'
<1>1. /\ UNCHANGED <<stored, mounted, events, page, heard, up, home, valid, connects>>
      /\ faults' \in 0..MaxFaults /\ faults <= faults'
  BY Types, MaxAssumption
     DEF Validated, ValidateThrows, Disconnected, Fault, hook, Inductive, PageFits
<1>2. link' = link \/ Links(t, "lost")
  BY DEF Validated, ValidateThrows, Disconnected, hook
<1>3. \E there \in {"none", "registered", "orphan", "stale"} : Side(t, n, there)
  BY DEF Validated, ValidateThrows, Disconnected
<1>4. ServerFits'
  BY <1>1, <1>3 DEF Side, Inductive, ServerFits
<1>5. HookFits'
  BY <1>1, <1>2 DEF Links, Inductive, HookFits
<1>6. \A u \in Tabs : LeftFits(u)'
  BY <1>1, <1>2 DEF Links, Inductive, TabFits, LeftFits, HookFits
<1> QED
  BY <1>1, <1>4, <1>5, <1>6, PageStays

LEMMA ReplicaSteps ==
  ASSUME Inductive, NEW s \in Servers, Stop(s) \/ Start(s)
  PROVE  Inductive'
<1>1. /\ UNCHANGED <<stored, mounted, events, page, heard, home, valid, connects>>
      /\ faults' \in 0..MaxFaults /\ faults <= faults'
  BY Types, MaxAssumption DEF Stop, Start, Fault, hook, Inductive, PageFits
<1>2. ServerFits'
  <2>1. CASE Stop(s)
    BY <1>1, <2>1 DEF Stop, Inductive, ServerFits
  <2>2. CASE Start(s)
    BY <1>1, <2>2 DEF Start, Inductive, ServerFits
  <2> QED
    BY <2>1, <2>2
<1>3. /\ link' \in [Tabs -> {"connecting", "open", "lost", "waiting", "none"}]
      /\ \A u \in Tabs : link'[u] \in {link[u], "lost"}
  BY DEF Stop, Start, hook, Inductive, HookFits
<1>4. HookFits'
  BY <1>1, <1>3 DEF Inductive, HookFits
<1>5. \A u \in Tabs : LeftFits(u)'
  BY <1>1, <1>3 DEF Inductive, TabFits, LeftFits
<1> QED
  BY <1>1, <1>2, <1>4, <1>5, PageStays

LEMMA RevokeStep ==
  ASSUME Inductive, NEW t \in Tabs, Revoke(t) PROVE Inductive'
<1>1. /\ UNCHANGED <<stored, mounted, link, events, page, heard>>
      /\ ServerFits' /\ HookFits' /\ faults' \in 0..MaxFaults /\ faults <= faults'
  BY Types, MaxAssumption
     DEF Revoke, Fault, hook, Inductive, PageFits, ServerFits, HookFits
<1>2. \A u \in Tabs : LeftFits(u)'
  BY <1>1 DEF Inductive, TabFits, LeftFits
<1> QED
  BY <1>1, <1>2, PageStays

-----------------------------------------------------------------------------
(* Steps of the page                                                       *)

(* A page step of t that keeps the server's side.                          *)
LEMMA PageStep ==
  ASSUME Inductive, NEW t \in Tabs, TabFits(t)', PageFits', ServerFits', HookFits',
         UNCHANGED stored, faults <= faults',
         \A u \in Tabs \ {t} :
           /\ token'[u] = token[u] /\ asked'[u] = asked[u] /\ answers'[u] = answers[u]
           /\ shown'[u] = shown[u] /\ heard'[u] = heard[u] /\ events'[u] = events[u]
           /\ link'[u] = link[u]
           /\ u \in mounted' <=> u \in mounted
           /\ u \in error' <=> u \in error
  PROVE  Inductive'
<1>1. faults' \in Nat
  BY MaxAssumption DEF PageFits
<1> QED
  BY <1>1, OthersStay DEF Inductive

LEMMA ServeStep ==
  ASSUME Inductive, NEW t \in Tabs, Serve(t) \/ ServeFails(t)
  PROVE  Inductive'
<1>1. PICK k \in asked[t], a \in Response :
        /\ a.token = k /\ (a.ok = "yes" => a.list = stored[OrgOf[t]])
        /\ a.list <= stored[OrgOf[t]]
        /\ asked' = [asked EXCEPT ![t] = @ \ {k}]
        /\ answers' = [answers EXCEPT ![t] = @ \cup {a}]
        /\ UNCHANGED <<server, hook, token, shown, error, heard>>
  <2>1. stored[OrgOf[t]] \in Lists /\ stored[OrgOf[t]] >= 0 /\ 0 \in Lists
    BY OrgAssumption, MaxAssumption DEF Inductive, ServerFits, Lists
  <2>2. \A k \in asked[t] :
          /\ [token |-> k, ok |-> "yes", list |-> stored[OrgOf[t]]] \in Response
          /\ [token |-> k, ok |-> "no", list |-> 0] \in Response
    BY <2>1, Types DEF Response
  <2>3. CASE Serve(t)
    <3>1. PICK k \in asked[t] :
            /\ asked' = [asked EXCEPT ![t] = @ \ {k}]
            /\ answers' = [answers EXCEPT ![t] =
                 @ \cup {[token |-> k, ok |-> "yes", list |-> stored[OrgOf[t]]]}]
      BY <2>3 DEF Serve
    <3>2. UNCHANGED <<server, hook, token, shown, error, heard>>
      BY <2>3 DEF Serve
    <3> DEFINE a == [token |-> k, ok |-> "yes", list |-> stored[OrgOf[t]]]
    <3>3. a \in Response /\ a.token = k /\ a.list = stored[OrgOf[t]]
      BY <2>2
    <3>4. answers' = [answers EXCEPT ![t] = @ \cup {a}]
      BY <3>1
    <3>5. a.list <= stored[OrgOf[t]]
      BY <2>1, <3>3 DEF Lists
    <3> HIDE DEF a
    <3> QED
      BY <3>1, <3>2, <3>3, <3>4, <3>5
  <2>4. CASE ServeFails(t)
    <3>1. PICK k \in asked[t] :
            /\ asked' = [asked EXCEPT ![t] = @ \ {k}]
            /\ answers' = [answers EXCEPT ![t] =
                 @ \cup {[token |-> k, ok |-> "no", list |-> 0]}]
      BY <2>4 DEF ServeFails
    <3>2. UNCHANGED <<server, hook, token, shown, error, heard>>
      BY <2>4 DEF ServeFails
    <3> DEFINE a == [token |-> k, ok |-> "no", list |-> 0]
    <3>3. a \in Response /\ a.token = k /\ a.list = 0 /\ a.ok = "no"
      BY <2>2
    <3> QED
      BY <2>1, <3>1, <3>2, <3>3
  <2> QED
    BY <2>3, <2>4
<1>2. faults' \in 0..MaxFaults /\ faults <= faults' /\ faults' \in Nat
  BY Types, MaxAssumption DEF Serve, ServeFails, Fault, Inductive, PageFits
<1>3. PageFits' /\ ServerFits' /\ HookFits'
  BY <1>1, <1>2, Types
     DEF Inductive, PageFits, ServerFits, HookFits, server, hook
<1>4. asked'[t] = asked[t] \ {k} /\ answers'[t] = answers[t] \cup {a}
  BY <1>1 DEF Inductive, PageFits
<1>5. TabFits(t)'
  <2>0. TabFits(t)
    BY DEF Inductive
  <2>1. UNCHANGED <<stored, mounted, link, events, token, shown, error, heard>>
    BY <1>1 DEF server, hook
  <2>2. RequestsFit(t)'
    BY <1>1, <1>2, <1>4, <2>0, <2>1, Types DEF TabFits, RequestsFit
  <2>3. ListsFit(t)' /\ AnswerIsCurrent(t)' /\ LeftFits(t)'
    BY <1>1, <1>4, <2>0, <2>1 DEF TabFits, ListsFit, AnswerIsCurrent, LeftFits
  <2>4. SettledFits(t)'
    BY <1>1, <1>4, <2>0, <2>1 DEF TabFits, SettledFits, Settled
  <2> QED
    BY <2>2, <2>3, <2>4 DEF TabFits
<1>6. \A u \in Tabs \ {t} : asked'[u] = asked[u] /\ answers'[u] = answers[u]
  BY <1>1 DEF Inductive, PageFits
<1> QED
  BY <1>1, <1>2, <1>3, <1>5, <1>6, PageStep DEF server, hook

LEMMA ReceiveStep ==
  ASSUME Inductive, NEW t \in Tabs, Receive(t)
  PROVE  /\ Inductive'
         /\ \A u \in Tabs : shown[u] <= shown'[u]
<1>1. PICK a \in answers[t] :
        /\ answers' = [answers EXCEPT ![t] = @ \ {a}]
        /\ IF Cancelled(t, a.token)
           THEN UNCHANGED <<shown, error>>
           ELSE IF a.ok = "yes"
           THEN shown' = [shown EXCEPT ![t] = a.list] /\ UNCHANGED error
           ELSE error' = error \cup {t} /\ UNCHANGED shown
  BY DEF Receive
<1>2. UNCHANGED <<server, hook, token, asked, heard, faults>>
  BY DEF Receive
<1>3. a \in Response /\ TabFits(t)
  BY Types DEF Inductive
<1>4. PageFits' /\ ServerFits' /\ HookFits'
  BY <1>1, <1>2, <1>3
     DEF Inductive, PageFits, ServerFits, HookFits, server, hook, Response
<1>5. answers'[t] = answers[t] \ {a}
  BY <1>1 DEF Inductive, PageFits
<1>6. shown'[t] = IF ~Cancelled(t, a.token) /\ a.ok = "yes" THEN a.list ELSE shown[t]
  BY <1>1 DEF Inductive, PageFits
<1>7. \A u \in Tabs \ {t} :
        answers'[u] = answers[u] /\ shown'[u] = shown[u] /\ (u \in error' <=> u \in error)
  BY <1>1 DEF Inductive, PageFits
<1>8. ~Cancelled(t, a.token) /\ a.ok = "yes" => shown[t] <= a.list /\ heard[t] <= a.list
  BY <1>3 DEF TabFits, AnswerIsCurrent, Cancelled
<1>9. TabFits(t)'
  <2>1. UNCHANGED <<stored, mounted, link, events, token, asked, heard, faults>>
    BY <1>2 DEF server, hook
  <2>2. RequestsFit(t)' /\ LeftFits(t)'
    BY <1>3, <1>5, <2>1 DEF TabFits, RequestsFit, LeftFits
  <2>3. ListsFit(t)'
    BY <1>3, <1>5, <1>6, <2>1 DEF TabFits, ListsFit
  <2>4. AnswerIsCurrent(t)'
    <3> SUFFICES ASSUME NEW b \in answers[t], b # a, b.ok = "yes", t \in mounted,
                        b.token = token[t]
                 PROVE  shown'[t] <= b.list /\ heard[t] <= b.list
      BY <1>5, <2>1 DEF AnswerIsCurrent
    <3>1. a.token # token[t]
      BY <1>3 DEF TabFits, RequestsFit
    <3>2. shown'[t] = shown[t]
      BY <1>6, <3>1 DEF Cancelled
    <3> QED
      BY <1>3, <3>2 DEF TabFits, AnswerIsCurrent
  <2>5. SettledFits(t)'
    <3> SUFFICES ASSUME t \in mounted, t \notin error', token[t] \notin asked[t],
                        \A b \in answers[t] \ {a} : b.token # token[t]
                 PROVE  heard[t] <= shown'[t]
      BY <1>5, <2>1 DEF SettledFits, Settled
    <3>1. CASE a.token = token[t]
      BY <1>1, <1>6, <1>8, <1>3, <3>1 DEF Cancelled, Response
    <3>2. CASE a.token # token[t]
      <4>1. shown' = shown /\ error' = error
        BY <1>1, <3>2 DEF Cancelled
      <4> QED
        BY <1>3, <3>2, <4>1 DEF TabFits, SettledFits, Settled
    <3> QED
      BY <3>1, <3>2
  <2> QED
    BY <2>2, <2>3, <2>4, <2>5 DEF TabFits
<1>10. Inductive'
  BY <1>2, <1>4, <1>7, <1>9, Types, PageStep DEF server, hook
<1> QED
  BY <1>6, <1>7, <1>8, <1>10, Types

(* Refetch, of a page on screen: what came before no longer counts.        *)
LEMMA RefetchFits ==
  ASSUME Inductive, NEW t \in Tabs, t \in mounted, Refetch(t),
         UNCHANGED <<stored, mounted, link, answers, shown>>,
         ListsFit(t)', heard'[t] \in Nat, faults' \in Nat,
         token[t] + 1 <= 1 + heard'[t] + faults'
  PROVE  TabFits(t)'
<1>0. TabFits(t)
  BY DEF Inductive
<1>1. token'[t] = token[t] + 1 /\ asked'[t] = asked[t] \cup {token[t] + 1}
  BY DEF Refetch, Inductive, PageFits
<1>2. RequestsFit(t)'
  BY <1>0, <1>1, Types DEF TabFits, RequestsFit, Response
<1>3. \A a \in answers[t] : a.token # token'[t]
  BY <1>0, <1>1, Types DEF TabFits, RequestsFit
<1>4. AnswerIsCurrent(t)' /\ SettledFits(t)' /\ LeftFits(t)'
  BY <1>0, <1>1, <1>3 DEF TabFits, AnswerIsCurrent, SettledFits, Settled, LeftFits
<1> QED
  BY <1>2, <1>4 DEF TabFits

LEMMA RefetchTypes ==
  ASSUME Inductive, NEW t \in Tabs, Refetch(t)
  PROVE  /\ token' \in [Tabs -> Nat] /\ asked' \in [Tabs -> SUBSET Nat]
         /\ error' \in SUBSET Tabs
         /\ \A u \in Tabs \ {t} :
              /\ token'[u] = token[u] /\ asked'[u] = asked[u]
              /\ u \in error' <=> u \in error
BY Types DEF Refetch, Inductive, PageFits

LEMMA RetryStep ==
  ASSUME Inductive, NEW t \in Tabs, Retry(t) PROVE Inductive'
<1>1. /\ t \in mounted /\ Refetch(t) /\ faults' = faults + 1 /\ faults' \in 0..MaxFaults
      /\ UNCHANGED <<server, hook, answers, shown, heard>>
  BY Types, MaxAssumption DEF Retry, Fault
<1>2. TabFits(t)
  BY DEF Inductive
<1>3. ListsFit(t)'
  BY <1>1, <1>2 DEF TabFits, ListsFit, server, hook
<1>4. TabFits(t)'
  <2>1. token[t] + 1 <= 1 + heard'[t] + faults'
    BY <1>1, <1>2, Types DEF TabFits, RequestsFit
  <2> QED
    BY <1>1, <1>3, <2>1, Types, RefetchFits DEF server, hook
<1>5. PageFits' /\ ServerFits' /\ HookFits'
  BY <1>1, RefetchTypes DEF Inductive, PageFits, ServerFits, HookFits, server, hook
<1> QED
  BY <1>1, <1>4, <1>5, Types, RefetchTypes, PageStep DEF server, hook

LEMMA OnMessageStep ==
  ASSUME Inductive, NEW t \in Tabs, OnMessage(t) PROVE Inductive'
<1>1. PICK m \in events[t] :
        /\ \A e \in events[t] : m <= e
        /\ events' = [events EXCEPT ![t] = @ \ {m}]
        /\ heard' = [heard EXCEPT ![t] = m]
  BY DEF OnMessage
<1>2. Refetch(t) /\ UNCHANGED <<server, mounted, link, connects, answers, shown, faults>>
  BY DEF OnMessage
<1>3. TabFits(t) /\ m \in Nat /\ m \in Lists
  BY Types, MaxAssumption DEF Inductive, Lists
<1>4. events'[t] = events[t] \ {m} /\ heard'[t] = m
  BY <1>1 DEF Inductive, HookFits, PageFits
<1>5. heard[t] < m /\ m <= stored[OrgOf[t]]
  BY <1>3 DEF TabFits, ListsFit
<1>6. ListsFit(t)'
  BY <1>1, <1>2, <1>3, <1>4, <1>5, Types DEF TabFits, ListsFit, server
<1>7. TabFits(t)'
  <2>1. CASE t \in mounted
    <3>1. token[t] + 1 <= 1 + heard'[t] + faults'
      BY <1>2, <1>3, <1>4, <1>5, Types DEF TabFits, RequestsFit
    <3> QED
      BY <1>2, <1>3, <1>4, <1>6, <2>1, <3>1, Types, RefetchFits DEF server
  <2>2. CASE t \notin mounted
    <3>1. UNCHANGED <<token, asked, error, mounted, link, answers, shown, faults>>
      BY <1>2, <2>2 DEF Refetch
    <3>2. RequestsFit(t)'
      BY <1>3, <1>4, <1>5, <3>1, Types DEF TabFits, RequestsFit
    <3> QED
      BY <1>3, <1>6, <2>2, <3>1, <3>2
         DEF TabFits, AnswerIsCurrent, SettledFits, Settled, LeftFits
  <2> QED
    BY <2>1, <2>2
<1>8. PageFits' /\ ServerFits' /\ HookFits'
  BY <1>1, <1>2, <1>3, RefetchTypes DEF Inductive, PageFits, ServerFits, HookFits, server
<1>9. \A u \in Tabs \ {t} : events'[u] = events[u] /\ heard'[u] = heard[u]
  BY <1>1 DEF Inductive, HookFits, PageFits
<1> QED
  BY <1>2, <1>7, <1>8, <1>9, Types, RefetchTypes, PageStep DEF server

LEMMA CloseSteps ==
  ASSUME Inductive, NEW t \in Tabs, OnClose(t) \/ Unmount(t)
  PROVE  Inductive'
<1>1. UNCHANGED <<server, connects, page, heard, faults>>
  BY DEF OnClose, Unmount
<1>2. /\ events' \in [Tabs -> SUBSET (1..MaxMessages)]
      /\ mounted' \subseteq mounted
      /\ \A u \in Tabs : events'[u] \subseteq events[u]
      /\ \A u \in Tabs \ {t} : events'[u] = events[u] /\ (u \in mounted' <=> u \in mounted)
  BY DEF OnClose, Unmount, Inductive, HookFits
<1>3. /\ \E there \in {"waiting", "none", "lost"} : Links(t, there)
      /\ t \notin mounted' => Links(t, "none") \/ Links(t, "lost")
  BY DEF OnClose, Unmount
<1>4. HookFits' /\ ServerFits' /\ PageFits'
  BY <1>1, <1>2, <1>3
     DEF Links, Inductive, HookFits, ServerFits, PageFits, server, page
<1>5. TabFits(t)'
  <2>0. TabFits(t)
    BY DEF Inductive
  <2>1. RequestsFit(t)' /\ ListsFit(t)' /\ AnswerIsCurrent(t)' /\ SettledFits(t)'
    BY <1>1, <1>2, <2>0
       DEF TabFits, RequestsFit, ListsFit, AnswerIsCurrent, SettledFits, Settled, server, page
  <2>2. LeftFits(t)'
    BY <1>3 DEF LeftFits, Links, Inductive, HookFits
  <2> QED
    BY <2>1, <2>2 DEF TabFits
<1>6. \A u \in Tabs \ {t} : link'[u] = link[u]
  BY <1>3 DEF Links, Inductive, HookFits
<1> QED
  BY <1>1, <1>2, <1>4, <1>5, <1>6, Types, PageStep DEF server, page

LEMMA CaptureStep ==
  ASSUME Inductive, NEW s \in Servers, NEW o \in Orgs, Capture(s, o)
  PROVE  Inductive'
<1>1. /\ stored[o] < MaxMessages
      /\ stored' = [stored EXCEPT ![o] = @ + 1]
      /\ events' = [t \in Tabs |->
           events[t] \cup (IF t \in Reached(s, o) THEN {stored[o] + 1} ELSE {})]
      /\ UNCHANGED <<up, side, home, valid, mounted, link, connects, page, heard, faults>>
  BY DEF Capture
<1>2. stored[o] \in Nat /\ stored' \in [Orgs -> Lists]
      /\ stored[o] + 1 \in 1..MaxMessages
      /\ \A p \in Orgs : stored[p] <= stored'[p]
      /\ stored'[o] = stored[o] + 1
  BY <1>1, MaxAssumption DEF Inductive, ServerFits, Lists
<1>3. events' \in [Tabs -> SUBSET (1..MaxMessages)]
  BY <1>1, <1>2, Types
<1>4. ServerFits' /\ HookFits' /\ PageFits'
  BY <1>1, <1>2, <1>3 DEF Inductive, ServerFits, HookFits, PageFits, page
<1>5. ASSUME NEW t \in Tabs PROVE TabFits(t)'
  <2>0. TabFits(t)
    BY DEF Inductive
  <2>1. RequestsFit(t)' /\ AnswerIsCurrent(t)' /\ SettledFits(t)' /\ LeftFits(t)'
    BY <1>1, <2>0
       DEF TabFits, RequestsFit, AnswerIsCurrent, SettledFits, Settled, LeftFits, page
  <2>2. ListsFit(t)'
    <3>1. /\ stored[OrgOf[t]] \in Nat /\ stored'[OrgOf[t]] \in Nat
          /\ stored[OrgOf[t]] <= stored'[OrgOf[t]]
          /\ shown[t] \in Nat /\ heard[t] \in Nat /\ answers[t] \in SUBSET Response
          /\ events[t] \in SUBSET Nat
      BY <1>2, Types, MaxAssumption DEF Lists
    <3>2. \A m \in events'[t] : m \in events[t] \/ (m = stored[o] + 1 /\ OrgOf[t] = o)
      BY <1>1 DEF Reached
    <3>3. ListsFit(t)
      BY <2>0 DEF TabFits
    <3>4. \A m \in events'[t] : heard[t] < m /\ m <= stored'[OrgOf[t]]
      BY <1>2, <3>1, <3>2, <3>3 DEF ListsFit
    <3>5. \A a \in answers[t] : a.list <= stored'[OrgOf[t]]
      BY <3>1, <3>3, Types DEF ListsFit, Response
    <3> QED
      BY <1>1, <3>1, <3>3, <3>4, <3>5 DEF ListsFit, page
  <2> QED
    BY <2>1, <2>2 DEF TabFits
<1> QED
  BY <1>4, <1>5 DEF Inductive

-----------------------------------------------------------------------------
(* The invariant                                                           *)

LEMMA InitHolds == Init => Inductive
<1> SUFFICES ASSUME Init PROVE Inductive
  OBVIOUS
<1>1. ServerFits
  <2>1. (CHOOSE s \in Servers : TRUE) \in Servers
    BY ServersAssumption
  <2>2. home \in [Tabs -> [Numbers -> Servers]]
    BY <2>1 DEF Init
  <2>3. stored \in [Orgs -> Lists]
    BY MaxAssumption DEF Init, Lists
  <2>4. side \in [Tabs -> [Numbers ->
          {"none", "validating", "registered", "orphan", "stale"}]]
    BY DEF Init
  <2> QED
    BY <2>2, <2>3, <2>4
       DEF Init, ServerFits
<1>2. HookFits
  BY MaxAssumption DEF Init, HookFits, Numbers
<1>3. PageFits
  BY MaxAssumption DEF Init, PageFits, Lists
<1>4. ASSUME NEW t \in Tabs PROVE TabFits(t)
  <2>1. /\ token[t] = 1 /\ asked[t] = {1} /\ answers[t] = {} /\ events[t] = {}
        /\ shown[t] = 0 /\ heard[t] = 0 /\ faults = 0 /\ t \in mounted
        /\ stored[OrgOf[t]] = 0
    BY OrgAssumption DEF Init
  <2> QED
    BY <2>1 DEF TabFits, RequestsFit, ListsFit, AnswerIsCurrent, SettledFits, Settled,
                LeftFits
<1> QED
  BY <1>1, <1>2, <1>3, <1>4 DEF Inductive

LEMMA StutterHolds ==
  ASSUME Inductive, UNCHANGED vars PROVE Inductive'
<1>1. ServerFits' /\ HookFits' /\ PageFits'
  BY DEF Inductive, ServerFits, HookFits, PageFits, vars, server, hook, page
<1>2. ASSUME NEW t \in Tabs PROVE TabFits(t)'
  BY DEF Inductive, TabFits, RequestsFit, ListsFit, AnswerIsCurrent, SettledFits, Settled,
         LeftFits, vars, server, hook, page
<1> QED
  BY <1>1, <1>2 DEF Inductive

LEMMA NextHolds ==
  ASSUME Inductive, [Next]_vars PROVE Inductive'
<1>1. CASE \E t \in Tabs : Open(t) \/ Lose(t) \/ Reconnect(t)
  BY <1>1, SocketSteps
<1>2. CASE \E t \in Tabs : \E n \in Numbers :
             Validated(t, n) \/ ValidateThrows(t, n) \/ Disconnected(t, n)
  BY <1>2, GatewaySteps
<1>3. CASE \E s \in Servers : Stop(s) \/ Start(s)
  BY <1>3, ReplicaSteps
<1>4. CASE \E t \in Tabs : Revoke(t)
  BY <1>4, RevokeStep
<1>5. CASE \E t \in Tabs : Serve(t) \/ ServeFails(t)
  BY <1>5, ServeStep
<1>6. CASE \E t \in Tabs : Receive(t)
  BY <1>6, ReceiveStep
<1>7. CASE \E t \in Tabs : Retry(t)
  BY <1>7, RetryStep
<1>8. CASE \E t \in Tabs : OnMessage(t)
  BY <1>8, OnMessageStep
<1>9. CASE \E t \in Tabs : OnClose(t) \/ Unmount(t)
  BY <1>9, CloseSteps
<1>10. CASE \E s \in Servers : \E o \in Orgs : Capture(s, o)
  BY <1>10, CaptureStep
<1>11. CASE UNCHANGED vars
  BY <1>11, StutterHolds
<1> QED
  BY <1>1, <1>2, <1>3, <1>4, <1>5, <1>6, <1>7, <1>8, <1>9, <1>10, <1>11
     DEF Next, Browser

(* What holds of every reachable state, whatever the order of responses,   *)
(* events, closings and timers in the page, its hook and the gateway.      *)
THEOREM Invariance == Spec => []Inductive
<1>1. Inductive /\ [Next]_vars => Inductive'
  BY NextHolds
<1> QED
  BY InitHolds, <1>1, PTL DEF Spec

-----------------------------------------------------------------------------
(* The properties                                                          *)

(* Every variable of the page, its hook and the gateway keeps its type;    *)
(* in particular a tab sends no more requests than it has events and       *)
(* faults to send them for (InboxPage.tsx:58-60).                          *)
THEOREM TypeCorrect == Spec => []TypeOK
<1>1. ASSUME Inductive PROVE TypeOK
  <2>1. \A t \in Tabs : token[t] \in Tokens /\ \A k \in 1..token[t] : k \in Tokens
    <3> SUFFICES ASSUME NEW t \in Tabs
                 PROVE  token[t] \in Tokens /\ \A k \in 1..token[t] : k \in Tokens
      OBVIOUS
    <3>1. token[t] \in 1..(1 + heard[t] + faults)
      BY <1>1 DEF Inductive, TabFits, RequestsFit
    <3>2. heard[t] \in 0..MaxMessages /\ faults \in 0..MaxFaults
      BY <1>1 DEF Inductive, PageFits, Lists
    <3> QED
      BY <3>1, <3>2, MaxAssumption DEF Tokens
  <2>2. \A t \in Tabs : asked[t] \in SUBSET Tokens
    BY <1>1, <2>1 DEF Inductive, TabFits, RequestsFit
  <2>3. \A t \in Tabs : \A a \in answers[t] :
          a \in [token : Tokens, ok : {"yes", "no"}, list : Lists]
    <3> SUFFICES ASSUME NEW t \in Tabs, NEW a \in answers[t]
                 PROVE  a \in [token : Tokens, ok : {"yes", "no"}, list : Lists]
      OBVIOUS
    <3>1. a \in Response /\ a.token \in 1..token[t]
      BY <1>1, Types DEF Inductive, TabFits, RequestsFit
    <3> QED
      BY <2>1, <3>1 DEF Response
  <2>4. /\ token \in [Tabs -> Tokens] /\ asked \in [Tabs -> SUBSET Tokens]
        /\ answers \in [Tabs ->
             SUBSET [token : Tokens, ok : {"yes", "no"}, list : Lists]]
    <3>1. /\ token = [t \in Tabs |-> token[t]] /\ asked = [t \in Tabs |-> asked[t]]
          /\ answers = [t \in Tabs |-> answers[t]]
      BY <1>1 DEF Inductive, PageFits
    <3>2. \A t \in Tabs : answers[t] \in
            SUBSET [token : Tokens, ok : {"yes", "no"}, list : Lists]
      BY <2>3
    <3> QED
      BY <2>1, <2>2, <3>1, <3>2
  <2> QED
    BY <1>1, <2>4 DEF Inductive, ServerFits, HookFits, PageFits, TypeOK
<1> QED
  BY <1>1, Invariance, PTL

(* When nothing is on its way for the last request and no error shows, the *)
(* list has every message an event told of: no event is lost to a load in  *)
(* flight (InboxPage.tsx:29-60).                                           *)
THEOREM SettledPagesAreCurrent == Spec => []SettledIsCurrent
<1>1. ASSUME Inductive PROVE SettledIsCurrent
  <2> SUFFICES ASSUME NEW t \in Tabs, Settled(t) PROVE shown[t] >= heard[t]
    BY DEF SettledIsCurrent
  <2>1. heard[t] <= shown[t]
    BY <1>1 DEF Inductive, TabFits, SettledFits
  <2> QED
    BY <1>1, <2>1, Types
<1> QED
  BY <1>1, Invariance, PTL

(* A page that was left has no socket and no timer to open one, however    *)
(* its closing and the timer fall together (useMessageSocket.ts:43-58).    *)
THEOREM LeftPagesAreSilent == Spec => []LeftIsSilent
<1>1. Inductive => LeftIsSilent
  BY DEF Inductive, TabFits, LeftFits, LeftIsSilent
<1> QED
  BY <1>1, Invariance, PTL

(* The list on screen never goes back to an older one, in whatever order   *)
(* the responses come (the cancelled flag, InboxPage.tsx:29-58).           *)
THEOREM ListsNeverGoBack == Spec => ShownNeverGoesBack
<1>1. ASSUME Inductive, [Next]_vars, NEW t \in Tabs PROVE shown'[t] >= shown[t]
  <2>1. shown[t] \in Nat
    BY <1>1, Types
  <2>2. shown'[t] \in Nat
    BY <1>1, NextHolds, MaxAssumption DEF Inductive, PageFits, Lists
  <2>3. shown[t] <= shown'[t]
    <3>1. CASE \E u \in Tabs : Receive(u)
      BY <1>1, <3>1, ReceiveStep
    <3>2. CASE UNCHANGED shown
      BY <2>1, <3>2
    <3>3. (\E u \in Tabs : Receive(u)) \/ UNCHANGED shown
      BY <1>1 DEF Next, Browser, Serve, ServeFails, OnMessage, OnClose, Open, Retry, Lose,
                  Reconnect, Unmount, Revoke, Validated, ValidateThrows, Disconnected,
                  Stop, Start, Capture, vars, page
    <3> QED
      BY <3>1, <3>2, <3>3
  <2> QED
    BY <2>1, <2>2, <2>3
<1>2. Inductive /\ [Next]_vars => [\A t \in Tabs : shown'[t] >= shown[t]]_vars
  BY <1>1
<1> QED
  BY <1>2, Invariance, PTL DEF ShownNeverGoesBack, Spec

=============================================================================
