------------------------------ MODULE LiveInbox ------------------------------
(***************************************************************************)
(* The dashboard's inbox, kept current over WebSockets: RealtimeGateway of *)
(* each sms-service replica (sms-service/src/realtime), the hook           *)
(* useMessageSocket and InboxPage (dashboard/src).                         *)
(*                                                                         *)
(* A tab is one mounted InboxPage.  The messages of an organization are    *)
(* counted and never deleted here, so a number stands for the list of the  *)
(* first so many of them.  Filters and the reconnect delay are left out.   *)
(***************************************************************************)
EXTENDS Naturals

CONSTANTS
  Servers,       \* sms-service replicas
  Tabs,          \* dashboards with the inbox on screen
  Orgs,          \* organizations, and the ungrouped bucket
  OrgOf,         \* OrgOf[t]: the organization of t's API key
  MaxMessages,   \* bound: messages captured for an organization
  MaxConnects,   \* bound: sockets a tab opens
  MaxFaults      \* bound: failures and revocations

ASSUME OrgAssumption == OrgOf \in [Tabs -> Orgs]
ASSUME ServersAssumption == Servers # {}
ASSUME MaxAssumption ==
  MaxMessages \in Nat /\ MaxConnects \in Nat \ {0} /\ MaxFaults \in Nat

VARIABLES
  \* sms-service
  up,          \* replicas that run
  stored,      \* stored[o]: messages of o in the database
  side,        \* side[t][n]: the replica's side of t's n-th socket
  home,        \* home[t][n]: the replica it goes to
  valid,       \* tabs whose API key is not revoked
  \* useMessageSocket
  mounted,     \* tabs whose page is mounted
  link,        \* the tab's socket: "connecting", "open", "lost" (closed, and
               \*   onclose still to run), "waiting" (for the timer), "none"
  connects,    \* the number of the tab's socket
  events,      \* events sent on the socket and not received, by message
  \* InboxPage
  token,       \* retryToken: the effect of the last one is not cancelled
  asked,       \* list requests not served yet, by token
  answers,     \* responses on their way: [token, ok, list]
  shown,       \* the list on screen
  error,       \* tabs that show the error banner
  \* history
  heard,       \* heard[t]: the newest message an event told t of
  faults

server == <<up, stored, side, home, valid>>
hook == <<mounted, link, connects, events>>
page == <<token, asked, answers, shown, error>>
vars == <<server, hook, page, heard, faults>>

Numbers == 1..MaxConnects

Init ==
  /\ up = Servers
  /\ stored = [o \in Orgs |-> 0]
  /\ side = [t \in Tabs |-> [n \in Numbers |-> "none"]]
  /\ home = [t \in Tabs |-> [n \in Numbers |-> CHOOSE s \in Servers : TRUE]]
  /\ valid = Tabs
  /\ mounted = Tabs
  /\ link = [t \in Tabs |-> "connecting"]
  /\ connects = [t \in Tabs |-> 1]
  /\ events = [t \in Tabs |-> {}]
  /\ token = [t \in Tabs |-> 1]
  /\ asked = [t \in Tabs |-> {1}]
  /\ answers = [t \in Tabs |-> {}]
  /\ shown = [t \in Tabs |-> 0]
  /\ error = {}
  /\ heard = [t \in Tabs |-> 0]
  /\ faults = 0

Fault == faults < MaxFaults /\ faults' = faults + 1

-----------------------------------------------------------------------------
(* InboxPage                                                               *)

(* setRetryToken: the effect that waits is cancelled, and a new request    *)
(* goes out.  An unmounted page has no effects.                            *)
(* Variant: without retryToken among the effect's dependencies.            *)
RefetchNot(t) ==
  /\ token' = [token EXCEPT ![t] = @ + 1]
  /\ UNCHANGED <<asked, error>>

Refetch(t) ==
  IF t \in mounted
  THEN /\ token' = [token EXCEPT ![t] = @ + 1]
       /\ asked' = [asked EXCEPT ![t] = @ \cup {token[t] + 1}]
       /\ error' = error \ {t}
  ELSE UNCHANGED <<token, asked, error>>

(* GET /messages, through the gateway to any replica.  A revoked key is a  *)
(* 401, which fails like anything else.                                    *)
Serve(t) ==
  /\ up # {} /\ t \in valid
  /\ \E k \in asked[t] :
       /\ asked' = [asked EXCEPT ![t] = @ \ {k}]
       /\ answers' = [answers EXCEPT ![t] =
            @ \cup {[token |-> k, ok |-> "yes", list |-> stored[OrgOf[t]]]}]
  /\ UNCHANGED <<server, hook, token, shown, error, heard, faults>>

ServeFails(t) ==
  /\ ((up = {} \/ t \notin valid) /\ UNCHANGED faults) \/ Fault
  /\ \E k \in asked[t] :
       /\ asked' = [asked EXCEPT ![t] = @ \ {k}]
       /\ answers' = [answers EXCEPT ![t] =
            @ \cup {[token |-> k, ok |-> "no", list |-> 0]}]
  /\ UNCHANGED <<server, hook, token, shown, error, heard>>

(* Variant: without the effect's cancelled flag.                           *)
NotCancelled(t, k) == FALSE

Cancelled(t, k) == t \notin mounted \/ k # token[t]

(* Variant: a request that fails is sent again at once.                    *)
ReceiveAndRetry(t) ==
  /\ \E a \in answers[t] :
       /\ answers' = [answers EXCEPT ![t] = @ \ {a}]
       /\ IF Cancelled(t, a.token)
          THEN UNCHANGED <<token, asked, shown, error>>
          ELSE IF a.ok = "yes"
          THEN shown' = [shown EXCEPT ![t] = a.list] /\ UNCHANGED <<token, asked, error>>
          ELSE Refetch(t) /\ UNCHANGED shown
  /\ UNCHANGED <<server, hook, heard, faults>>

(* The response's handlers; those of a cancelled effect do nothing.        *)
Receive(t) ==
  /\ \E a \in answers[t] :
       /\ answers' = [answers EXCEPT ![t] = @ \ {a}]
       /\ IF Cancelled(t, a.token)
          THEN UNCHANGED <<shown, error>>
          ELSE IF a.ok = "yes"
          THEN shown' = [shown EXCEPT ![t] = a.list] /\ UNCHANGED error
          ELSE error' = error \cup {t} /\ UNCHANGED shown
  /\ UNCHANGED <<server, hook, token, asked, heard, faults>>

(* The error banner's retry button.                                        *)
Retry(t) ==
  /\ t \in error /\ t \in mounted /\ Fault
  /\ Refetch(t)
  /\ UNCHANGED <<server, hook, answers, shown, heard>>

-----------------------------------------------------------------------------
(* useMessageSocket                                                        *)

Links(t, there) == link' = [link EXCEPT ![t] = there]

(* The handshake ends: onopen runs, and handleConnection starts, which     *)
(* waits for auth-service.                                                 *)
Open(t) ==
  /\ link[t] = "connecting"
  /\ Links(t, "open")
  /\ \E s \in up : home' = [home EXCEPT ![t][connects[t]] = s]
  /\ side' = [side EXCEPT ![t][connects[t]] = "validating"]
  /\ UNCHANGED <<up, stored, valid, mounted, connects, events, page, heard, faults>>

(* The handshake fails, or the connection breaks.                          *)
Lose(t) ==
  /\ \/ link[t] = "connecting" /\ ((up = {} /\ UNCHANGED faults) \/ Fault)
     \/ link[t] = "open" /\ Fault
  /\ Links(t, "lost")
  /\ UNCHANGED <<server, mounted, connects, events, page, heard>>

(* Variant: an event that comes while a list is being loaded is dropped.   *)
OnMessageUnlessLoading(t) ==
  /\ link[t] \in {"open", "lost"}
  /\ \E m \in events[t] :
       /\ \A e \in events[t] : m <= e
       /\ events' = [events EXCEPT ![t] = @ \ {m}]
       /\ heard' = [heard EXCEPT ![t] = m]
  /\ IF asked[t] \cup answers[t] = {}
     THEN Refetch(t) ELSE UNCHANGED <<token, asked, error>>
  /\ UNCHANGED <<server, mounted, link, connects, answers, shown, faults>>

OnMessage(t) ==
  /\ link[t] \in {"open", "lost"}
  /\ \E m \in events[t] :
       /\ \A e \in events[t] : m <= e
       /\ events' = [events EXCEPT ![t] = @ \ {m}]
       /\ heard' = [heard EXCEPT ![t] = m]
  /\ Refetch(t)
  /\ UNCHANGED <<server, mounted, link, connects, answers, shown, faults>>

(* Variant: onclose reconnects whatever closed the socket.                 *)
OnCloseAlways(t) ==
  /\ link[t] = "lost"
  /\ events' = [events EXCEPT ![t] = {}]
  /\ Links(t, "waiting")
  /\ UNCHANGED <<server, mounted, connects, page, heard, faults>>

(* onclose; what had not arrived never will.                               *)
OnClose(t) ==
  /\ link[t] = "lost"
  /\ events' = [events EXCEPT ![t] = {}]
  /\ Links(t, IF t \in mounted THEN "waiting" ELSE "none")
  /\ UNCHANGED <<server, mounted, connects, page, heard, faults>>

(* The timer: connect.                                                     *)
Reconnect(t) ==
  /\ link[t] = "waiting"
  /\ connects[t] < MaxConnects
  /\ connects' = [connects EXCEPT ![t] = @ + 1]
  /\ Links(t, "connecting")
  /\ UNCHANGED <<server, mounted, events, page, heard, faults>>

(* The cleanup of the hook and of the page's effect.                       *)
Unmount(t) ==
  /\ t \in mounted
  /\ mounted' = mounted \ {t}
  /\ Links(t, IF link[t] = "waiting" THEN "none" ELSE "lost")
  /\ UNCHANGED <<server, connects, events, page, heard, faults>>

-----------------------------------------------------------------------------
(* RealtimeGateway                                                         *)

(* Whether the socket is still there, as far as its replica can tell.      *)
IsOpen(t, n) == link[t] = "open" /\ connects[t] = n

Side(t, n, there) == side' = [side EXCEPT ![t][n] = there]

(* handleConnection goes on with auth-service's answer: the client is      *)
(* registered, even when it has disconnected meanwhile ("stale"), or       *)
(* closed with 4001.                                                       *)
Validated(t, n) ==
  /\ side[t][n] \in {"validating", "orphan"}
  /\ IF t \in valid
     THEN /\ Side(t, n, IF side[t][n] = "orphan" THEN "stale" ELSE "registered")
          /\ UNCHANGED link
     ELSE /\ Side(t, n, "none")
          /\ IF IsOpen(t, n) THEN Links(t, "lost") ELSE UNCHANGED link
  /\ UNCHANGED <<up, stored, home, valid, mounted, connects, events, page,
                 heard, faults>>

(* auth-service cannot be reached: handleConnection throws, with the       *)
(* socket left open and never registered.                                  *)
ValidateThrows(t, n) ==
  /\ side[t][n] \in {"validating", "orphan"}
  /\ Fault
  /\ Side(t, n, "none")
  /\ UNCHANGED <<up, stored, home, valid, hook, page, heard>>

(* handleDisconnect                                                        *)
Disconnected(t, n) ==
  /\ ~IsOpen(t, n)
  /\ \/ side[t][n] = "validating" /\ Side(t, n, "orphan")
     \/ side[t][n] = "registered" /\ Side(t, n, "none")
  /\ UNCHANGED <<up, stored, home, valid, hook, page, heard, faults>>

(* broadcastMessageCreated sends to the clients of this process whose      *)
(* socket is open and whose organization is the message's.                 *)
Reached(s, o) ==
  {t \in Tabs : /\ OrgOf[t] = o /\ link[t] = "open"
                /\ side[t][connects[t]] = "registered"
                /\ home[t][connects[t]] = s}

(* create and replay: the message is stored, then broadcast.               *)
Capture(s, o) ==
  /\ s \in up /\ stored[o] < MaxMessages
  /\ stored' = [stored EXCEPT ![o] = @ + 1]
  /\ events' = [t \in Tabs |->
                  events[t] \cup (IF t \in Reached(s, o) THEN {stored[o] + 1} ELSE {})]
  /\ UNCHANGED <<up, side, home, valid, mounted, link, connects, page, heard,
                 faults>>

(* A replica stops, and its map of clients with it.                        *)
Stop(s) ==
  /\ s \in up /\ Fault
  /\ up' = up \ {s}
  /\ side' = [t \in Tabs |-> [n \in Numbers |->
                IF home[t][n] = s THEN "none" ELSE side[t][n]]]
  /\ link' = [t \in Tabs |->
                IF link[t] = "open" /\ home[t][connects[t]] = s THEN "lost" ELSE link[t]]
  /\ UNCHANGED <<stored, home, valid, mounted, connects, events, page, heard>>

Start(s) ==
  /\ s \notin up
  /\ up' = up \cup {s}
  /\ UNCHANGED <<stored, side, home, valid, hook, page, heard, faults>>

(* The key is revoked in auth-service; open sockets stay.                  *)
Revoke(t) ==
  /\ t \in valid /\ Fault
  /\ valid' = valid \ {t}
  /\ UNCHANGED <<up, stored, side, home, hook, page, heard>>

-----------------------------------------------------------------------------

Browser(t) ==
  Serve(t) \/ Receive(t) \/ OnMessage(t) \/ OnClose(t) \/ Open(t)

Next ==
  \/ \E t \in Tabs :
       \/ Browser(t) \/ ServeFails(t) \/ Retry(t) \/ Lose(t) \/ Reconnect(t)
       \/ Unmount(t) \/ Revoke(t)
       \/ \E n \in Numbers :
            Validated(t, n) \/ ValidateThrows(t, n) \/ Disconnected(t, n)
  \/ \E s \in Servers :
       Stop(s) \/ Start(s) \/ \E o \in Orgs : Capture(s, o)

Spec == Init /\ [][Next]_vars

(* The browser runs its handlers, the API answers, auth-service answers or *)
(* not, and replicas are restarted.  Nobody has to capture, retry, close a *)
(* page or fail.                                                           *)
Fairness ==
  /\ \A t \in Tabs :
       /\ WF_vars(Receive(t)) /\ WF_vars(OnMessage(t))
       /\ WF_vars(Serve(t) \/ ServeFails(t))
  /\ \A s \in Servers : WF_vars(Start(s))

FairSpec == Spec /\ Fairness

-----------------------------------------------------------------------------
(* Properties                                                              *)

Lists == 0..MaxMessages
Tokens == 1..(1 + MaxFaults + MaxMessages)

TypeOK ==
  /\ up \in SUBSET Servers
  /\ stored \in [Orgs -> Lists]
  /\ side \in [Tabs -> [Numbers ->
       {"none", "validating", "registered", "orphan", "stale"}]]
  /\ home \in [Tabs -> [Numbers -> Servers]]
  /\ valid \in SUBSET Tabs
  /\ mounted \in SUBSET Tabs
  /\ link \in [Tabs -> {"connecting", "open", "lost", "waiting", "none"}]
  /\ connects \in [Tabs -> Numbers]
  /\ events \in [Tabs -> SUBSET (1..MaxMessages)]
  /\ token \in [Tabs -> Tokens]
  /\ asked \in [Tabs -> SUBSET Tokens]
  /\ answers \in [Tabs -> SUBSET [token : Tokens, ok : {"yes", "no"}, list : Lists]]
  /\ shown \in [Tabs -> Lists]
  /\ error \in SUBSET Tabs
  /\ heard \in [Tabs -> Lists]
  /\ faults \in 0..MaxFaults

(* The list on screen never goes back to an older one, in whatever order   *)
(* responses come (the cancelled flag, InboxPage.tsx:29-58).               *)
ShownNeverGoesBack == [][\A t \in Tabs : shown'[t] >= shown[t]]_vars

(* When nothing is on its way for the page's last request and it shows no  *)
(* error, the list includes every message the tab was told of: no event is *)
(* dropped because it came while the page was loading.                     *)
Settled(t) ==
  /\ t \in mounted /\ t \notin error
  /\ token[t] \notin asked[t]
  /\ \A a \in answers[t] : a.token # token[t]

SettledIsCurrent == \A t \in Tabs : Settled(t) => shown[t] >= heard[t]

(* A page that was left has no socket and no timer to open one, however    *)
(* its closing and the timer fall together.                                *)
LeftIsSilent == \A t \in Tabs : t \notin mounted => link[t] \in {"lost", "none"}

(* A message that is broadcast to a tab gets on its screen, unless the     *)
(* socket breaks first or the page shows an error or is left.              *)
BroadcastIsShown ==
  \A t \in Tabs, m \in 1..MaxMessages :
    m \in events[t] ~>
      (shown[t] >= m \/ t \in error \/ t \notin mounted \/ link[t] # "open")

=============================================================================
