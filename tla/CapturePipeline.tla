--------------------------- MODULE CapturePipeline ----------------------------
(***************************************************************************)
(* One capture across the services: an SDK calls the gateway (or           *)
(* sms-service itself), which asks auth-service for the key and forwards   *)
(* the request to sms-service, which asks auth-service again, then         *)
(* ai-service, stores, broadcasts, queues and answers.  A provider's SDK   *)
(* posts to an adapter, without a key.                                     *)
(*                                                                         *)
(* A service may be down (refuses connections, and what it was doing is    *)
(* lost), hang (accepts and does not answer) and come back.  What takes a  *)
(* service's time is a timeout's business: without a hanging service a     *)
(* capture takes at most the two seconds that ai-service is given.         *)
(***************************************************************************)
EXTENDS Naturals

CONSTANTS
  Calls,       \* captures that clients attempt, one HTTP request each
  Detectors,   \* calls of ai-service per capture: otp, category, spam
  MaxFaults    \* bound: failures, hangs and revocations

ASSUME MaxAssumption == MaxFaults \in Nat

Adapters == {"messagebird", "vonage", "sns"}
Routes == {"gateway", "direct"} \cup Adapters
Sdks == {"nodejs", "python"}
Bodies == {"plain", "long", "wide", "none"}
Services == {"gateway", "auth", "sms", "ai", "redis", "db"}
Conditions == {"up", "down", "hung"}

VARIABLES
  health,     \* the condition of each service
  keyValid,   \* the API key is not revoked
  call,       \* call[c]: [route, sdk, body]; body: "long" with too long a text,
              \* "wide" with too long a number, "none" without a field
  client,     \* "ready", "waiting", "done"
  answer,     \* the HTTP status the client got; "lost", "timeout" without one
  at,         \* the step the request is at in the services
  verdict,    \* auth-service's answer to the validation on its way
  pending,    \* detectors whose answer the capture awaits
  rows,       \* captures that are in the messages table
  troubles,   \* history: <<service, condition>> that ever held
  faults

vars == <<health, keyValid, call, client, answer, at, verdict, pending, rows,
          troubles, faults>>
world == <<health, keyValid, troubles, faults>>

(* The key's two validations, and which process waits for each.            *)
Lookups == {"gatewayLookup", "smsLookup"}
Records == {"gatewayMetrics", "smsMetrics"}
GatewaySteps == {"entry", "limit", "forward", "gatewayLookup", "gatewayMetrics",
                 "gatewayVerdict", "broken"}
SmsSteps == {"guard", "smsLookup", "smsMetrics", "smsVerdict", "validate",
             "detect", "insert", "announce", "publish", "respond"}

Init ==
  /\ health = [s \in Services |-> "up"]
  /\ keyValid = TRUE
  /\ call = [c \in Calls |-> [route |-> "gateway", sdk |-> "nodejs", body |-> "plain"]]
  /\ client = [c \in Calls |-> "ready"]
  /\ answer = [c \in Calls |-> "none"]
  /\ at = [c \in Calls |-> "none"]
  /\ verdict = [c \in Calls |-> "none"]
  /\ pending = [c \in Calls |-> {}]
  /\ rows = {}
  /\ troubles = {}
  /\ faults = 0

Goto(c, step) == at' = [at EXCEPT ![c] = step]

Direct(c) == call[c].route = "direct"

-----------------------------------------------------------------------------
(* The clients                                                             *)

(* The client reads a response, unless it has given up.                    *)
Receive(c, status) ==
  IF client[c] = "waiting"
  THEN /\ client' = [client EXCEPT ![c] = "done"]
       /\ answer' = [answer EXCEPT ![c] = status]
  ELSE UNCHANGED <<client, answer>>

(* A handler ends its request with a response for the client.              *)
Respond(c, status) ==
  /\ Receive(c, status)
  /\ Goto(c, "none")

(* A request is sent once, and not again when it fails.                    *)
Send(c) ==
  /\ client[c] = "ready"
  /\ \E route \in Routes, sdk \in Sdks, body \in Bodies :
       /\ call' = [call EXCEPT ![c] = [route |-> route, sdk |-> sdk, body |-> body]]
       /\ LET first == IF route = "direct" THEN "sms" ELSE "gateway"
          IN  IF health[first] = "down"
              THEN /\ client' = [client EXCEPT ![c] = "done"]
                   /\ answer' = [answer EXCEPT ![c] = "lost"]
                   /\ UNCHANGED at
              ELSE /\ client' = [client EXCEPT ![c] = "waiting"]
                   /\ Goto(c, IF route = "direct" THEN "guard" ELSE "entry")
                   /\ UNCHANGED answer
  /\ UNCHANGED <<world, verdict, pending, rows>>

(* The Python client (and the Go client alike) gives up after ten seconds. *)
GiveUp(c) ==
  /\ client[c] = "waiting" /\ call[c].sdk = "python"
  /\ \E s \in Services \ {"ai"} : health[s] = "hung"
  /\ Receive(c, "timeout")
  /\ UNCHANGED <<world, call, at, verdict, pending, rows>>

-----------------------------------------------------------------------------
(* auth-service, for whichever process asks                                *)

(* ValidateApiKey: reads the key, writes last_used_at.                     *)
ValidateApiKey(c) ==
  /\ at[c] \in Lookups
  /\ health["auth"] = "up" /\ health["db"] # "hung"
  /\ verdict' = [verdict EXCEPT ![c] =
       IF health["db"] = "down" THEN "500" ELSE IF keyValid THEN "200" ELSE "401"]
  /\ Goto(c, IF at[c] = "gatewayLookup" THEN "gatewayMetrics" ELSE "smsMetrics")
  /\ UNCHANGED <<world, call, client, answer, pending, rows>>

(* RecordMetrics, after the response is made: an exception of the Redis    *)
(* storage, which has timeouts, replaces the response.                     *)
RecordMetrics(c) ==
  /\ at[c] \in Records
  /\ health["auth"] = "up"
  /\ verdict' = [verdict EXCEPT ![c] = IF health["redis"] = "up" THEN @ ELSE "500"]
  /\ Goto(c, IF at[c] = "gatewayMetrics" THEN "gatewayVerdict" ELSE "smsVerdict")
  /\ UNCHANGED <<world, call, client, answer, pending, rows>>

(* The connection to auth-service is refused.                              *)
Unreachable(c) ==
  /\ at[c] \in Lookups /\ health["auth"] = "down"
  /\ verdict' = [verdict EXCEPT ![c] = "error"]
  /\ Goto(c, IF at[c] = "gatewayLookup" THEN "gatewayVerdict" ELSE "smsVerdict")
  /\ UNCHANGED <<world, call, client, answer, pending, rows>>

-----------------------------------------------------------------------------
(* The gateway                                                             *)

GatewayRuns == health["gateway"] = "up"

(* The routes: /providers/* has no middleware.                             *)
Route(c) ==
  /\ at[c] = "entry" /\ GatewayRuns
  /\ Goto(c, IF call[c].route \in Adapters THEN "forward" ELSE "gatewayLookup")
  /\ UNCHANGED <<world, call, client, answer, verdict, pending, rows>>

(* Client.Validate is nil for anything but a 200.                          *)
ValidatedKey(v) == v = "200"

(* Variant: without the return after the refusal.                          *)
RequireAPIKeyOrGoOn(c) ==
  /\ at[c] = "gatewayVerdict" /\ GatewayRuns
  /\ verdict' = [verdict EXCEPT ![c] = "none"]
  /\ Goto(c, "limit")
  /\ IF ValidatedKey(verdict[c]) THEN UNCHANGED <<client, answer>> ELSE Receive(c, "401")
  /\ UNCHANGED <<world, call, pending, rows>>

RequireAPIKey(c) ==
  /\ at[c] = "gatewayVerdict" /\ GatewayRuns
  /\ verdict' = [verdict EXCEPT ![c] = "none"]
  /\ IF ValidatedKey(verdict[c])
     THEN Goto(c, "limit") /\ UNCHANGED <<client, answer>>
     ELSE Respond(c, "401")
  /\ UNCHANGED <<world, call, pending, rows>>

(* RateLimiter models when a quota is spent.                               *)
Limit(c) ==
  /\ at[c] = "limit" /\ GatewayRuns
  /\ \/ Goto(c, "forward") /\ UNCHANGED <<client, answer>>
     \/ Respond(c, "429")
  /\ UNCHANGED <<world, call, verdict, pending, rows>>

(* The reverse proxy.  The request's context is cancelled when the client  *)
(* is gone, which may keep it from being forwarded.                        *)
Forward(c) ==
  /\ at[c] = "forward" /\ GatewayRuns
  /\ \/ /\ health["sms"] # "down"
        /\ Goto(c, IF call[c].route \in Adapters THEN "validate" ELSE "guard")
        /\ UNCHANGED <<client, answer>>
     \/ /\ health["sms"] = "down" \/ client[c] # "waiting"
        /\ Respond(c, "502")
  /\ UNCHANGED <<world, call, verdict, pending, rows>>

(* Variant: the proxy sends the request once more.                         *)
ForwardAgain(c) ==
  /\ at[c] = "broken" /\ GatewayRuns
  /\ Goto(c, "forward")
  /\ UNCHANGED <<world, call, client, answer, verdict, pending, rows>>

(* The proxy's ErrorHandler, when sms-service dies with a request in hand. *)
BadGateway(c) ==
  /\ at[c] = "broken" /\ GatewayRuns
  /\ Respond(c, "502")
  /\ UNCHANGED <<world, call, verdict, pending, rows>>

-----------------------------------------------------------------------------
(* sms-service                                                             *)

SmsRuns == health["sms"] = "up"

Guard(c) ==
  /\ at[c] = "guard" /\ SmsRuns
  /\ Goto(c, "smsLookup")
  /\ UNCHANGED <<world, call, client, answer, verdict, pending, rows>>

(* Like the gateway's check; but fetch throws when auth-service cannot be  *)
(* reached, and the exception filter makes a 500 of it.                    *)
CanActivate(c) ==
  /\ at[c] = "smsVerdict" /\ SmsRuns
  /\ verdict' = [verdict EXCEPT ![c] = "none"]
  /\ IF ValidatedKey(verdict[c])
     THEN Goto(c, "validate") /\ UNCHANGED <<client, answer>>
     ELSE Respond(c, IF verdict[c] = "error" THEN "500" ELSE "401")
  /\ UNCHANGED <<world, call, pending, rows>>

(* What each entry makes of the body: the validation pipe limits the       *)
(* native API's fields and asks that the adapters' are there; MessageBird  *)
(* takes the first recipient that is not blank; SNS checks by hand.        *)
NativeTakes(body) == body = "plain"
MessageBirdTakes(body) == body # "none"
VonageTakes(body) == body # "none"
SnsTakes(body) == body = "plain"

Takes(c) ==
  LET body == call[c].body
  IN  CASE call[c].route = "messagebird" -> MessageBirdTakes(body)
        [] call[c].route = "vonage" -> VonageTakes(body)
        [] call[c].route = "sns" -> SnsTakes(body)
        [] OTHER -> NativeTakes(body)

Validate(c) ==
  /\ at[c] = "validate" /\ SmsRuns
  /\ IF Takes(c)
     THEN /\ Goto(c, "detect")
          /\ pending' = [pending EXCEPT ![c] = Detectors]
          /\ UNCHANGED <<client, answer>>
     ELSE Respond(c, "400") /\ UNCHANGED pending
  /\ UNCHANGED <<world, call, verdict, rows>>

(* AiClient.post: null when ai-service refuses the connection, and after   *)
(* two seconds when it does not answer.  Variants: without the catch, and  *)
(* without the timeout.                                                    *)
DetectOrFail(c) ==
  /\ at[c] = "detect" /\ SmsRuns
  /\ \E d \in pending[c] : pending' = [pending EXCEPT ![c] = @ \ {d}]
  /\ IF health["ai"] = "up"
     THEN /\ IF pending'[c] = {} THEN Goto(c, "insert") ELSE UNCHANGED at
          /\ UNCHANGED <<client, answer>>
     ELSE Respond(c, "500")
  /\ UNCHANGED <<world, call, verdict, rows>>

DetectOrHang(c) ==
  /\ at[c] = "detect" /\ SmsRuns /\ health["ai"] # "hung"
  /\ \E d \in pending[c] : pending' = [pending EXCEPT ![c] = @ \ {d}]
  /\ IF pending'[c] = {} THEN Goto(c, "insert") ELSE UNCHANGED at
  /\ UNCHANGED <<world, call, client, answer, verdict, rows>>

Detect(c) ==
  /\ at[c] = "detect" /\ SmsRuns
  /\ \E d \in pending[c] : pending' = [pending EXCEPT ![c] = @ \ {d}]
  /\ IF pending'[c] = {} THEN Goto(c, "insert") ELSE UNCHANGED at
  /\ UNCHANGED <<world, call, client, answer, verdict, rows>>

(* The text's column takes any length, the numbers' 255 characters.        *)
FitsColumns(c) == call[c].body # "wide"

(* The statement and its reply are one step: an INSERT whose reply is lost *)
(* is left out (its client would be told an error, as when sms-service     *)
(* dies).                                                                  *)
Insert(c) ==
  /\ at[c] = "insert" /\ SmsRuns /\ health["db"] # "hung"
  /\ IF health["db"] = "up" /\ FitsColumns(c)
     THEN /\ rows' = rows \cup {c}
          /\ Goto(c, "announce")
          /\ UNCHANGED <<client, answer>>
     ELSE Respond(c, "500") /\ UNCHANGED rows
  /\ UNCHANGED <<world, call, verdict, pending>>

Announce(c) ==
  /\ at[c] = "announce" /\ SmsRuns
  /\ Goto(c, "publish")
  /\ UNCHANGED <<world, call, client, answer, verdict, pending, rows>>

(* The XADD, whose error is caught, has no timeout of its own.  Variant:   *)
(* the error is not caught.                                                *)
PublishOrFail(c) ==
  /\ at[c] = "publish" /\ SmsRuns /\ health["redis"] # "hung"
  /\ IF health["redis"] = "up"
     THEN Goto(c, "respond") /\ UNCHANGED <<client, answer>>
     ELSE Respond(c, "500")
  /\ UNCHANGED <<world, call, verdict, pending, rows>>

PublishMessageCaptured(c) ==
  /\ at[c] = "publish" /\ SmsRuns /\ health["redis"] # "hung"
  /\ Goto(c, "respond")
  /\ UNCHANGED <<world, call, client, answer, verdict, pending, rows>>

(* 201, or 200 where the provider's SDK expects that.                      *)
Created(c) ==
  /\ at[c] = "respond" /\ SmsRuns
  /\ Respond(c, "2xx")
  /\ UNCHANGED <<world, call, verdict, pending, rows>>

-----------------------------------------------------------------------------
(* Failures                                                                *)

(* What becomes of c when s goes down: the requests of its own end there,  *)
(* and the process that waits for it gets an error.  sms-service does not  *)
(* notice that a gateway, or a client, is gone.                            *)
StepAfter(c, s) ==
  CASE s = "auth" /\ at[c] \in {"gatewayLookup", "gatewayMetrics"} -> "gatewayVerdict"
    [] s = "auth" /\ at[c] \in {"smsLookup", "smsMetrics"} -> "smsVerdict"
    [] s = "gateway" /\ at[c] \in GatewaySteps -> "none"
    [] s = "sms" /\ at[c] \in SmsSteps ->
         IF Direct(c) \/ health["gateway"] = "down" THEN "none" ELSE "broken"
    [] OTHER -> at[c]

(* The connection of c's client breaks.                                    *)
Broken(c, s) == client[c] = "waiting" /\ s = IF Direct(c) THEN "sms" ELSE "gateway"

Stop(s) ==
  /\ health[s] # "down" /\ faults < MaxFaults
  /\ faults' = faults + 1
  /\ health' = [health EXCEPT ![s] = "down"]
  /\ troubles' = troubles \cup {<<s, "down">>}
  /\ at' = [c \in Calls |-> StepAfter(c, s)]
  /\ verdict' = [c \in Calls |->
       IF s = "auth" /\ at[c] \in Lookups \cup Records THEN "error"
       ELSE IF at'[c] \in {"none", "broken"} THEN "none" ELSE verdict[c]]
  /\ client' = [c \in Calls |-> IF Broken(c, s) THEN "done" ELSE client[c]]
  /\ answer' = [c \in Calls |-> IF Broken(c, s) THEN "lost" ELSE answer[c]]
  /\ pending' = [c \in Calls |-> IF at'[c] = "detect" THEN pending[c] ELSE {}]
  /\ UNCHANGED <<keyValid, call, rows>>

Hang(s) ==
  /\ health[s] = "up" /\ faults < MaxFaults
  /\ faults' = faults + 1
  /\ health' = [health EXCEPT ![s] = "hung"]
  /\ troubles' = troubles \cup {<<s, "hung">>}
  /\ UNCHANGED <<keyValid, call, client, answer, at, verdict, pending, rows>>

Recover(s) ==
  /\ health[s] # "up"
  /\ health' = [health EXCEPT ![s] = "up"]
  /\ UNCHANGED <<keyValid, troubles, faults, call, client, answer, at, verdict,
                 pending, rows>>

Revoke ==
  /\ keyValid /\ faults < MaxFaults
  /\ faults' = faults + 1
  /\ keyValid' = FALSE
  /\ UNCHANGED <<health, troubles, call, client, answer, at, verdict, pending, rows>>

-----------------------------------------------------------------------------

ServiceStep(c) ==
  \/ ValidateApiKey(c) \/ RecordMetrics(c) \/ Unreachable(c)
  \/ Route(c) \/ RequireAPIKey(c) \/ Limit(c) \/ Forward(c) \/ BadGateway(c)
  \/ Guard(c) \/ CanActivate(c) \/ Validate(c) \/ Detect(c)
  \/ Insert(c) \/ Announce(c) \/ PublishMessageCaptured(c) \/ Created(c)

Next ==
  \/ \E c \in Calls : Send(c) \/ GiveUp(c) \/ ServiceStep(c)
  \/ \E s \in Services : Stop(s) \/ Hang(s) \/ Recover(s)
  \/ Revoke

Spec == Init /\ [][Next]_vars

(* Services take the steps they can and clients' timers go off.  Nobody    *)
(* has to send, fail or recover.                                           *)
Fairness == \A c \in Calls : WF_vars(ServiceStep(c)) /\ WF_vars(GiveUp(c))

FairSpec == Spec /\ Fairness

-----------------------------------------------------------------------------
(* Properties                                                              *)

Answers == {"none", "2xx", "400", "401", "429", "500", "502", "lost", "timeout"}

TypeOK ==
  /\ health \in [Services -> Conditions]
  /\ keyValid \in BOOLEAN
  /\ call \in [Calls -> [route : Routes, sdk : Sdks, body : Bodies]]
  /\ client \in [Calls -> {"ready", "waiting", "done"}]
  /\ answer \in [Calls -> Answers]
  /\ at \in [Calls -> GatewaySteps \cup SmsSteps \cup {"none"}]
  /\ verdict \in [Calls -> {"none", "200", "401", "500", "error"}]
  /\ pending \in [Calls -> SUBSET Detectors]
  /\ \A c \in Calls : pending[c] # {} => at[c] = "detect"
  /\ rows \in SUBSET Calls
  /\ troubles \in SUBSET (Services \X Conditions)
  /\ faults \in 0..MaxFaults

(* ai-service alone never fails a capture, down, slow or coming and going  *)
(* (ai-client.ts:4-6): with a valid key, a body that the entry takes and   *)
(* that fits the columns, and quota left, the client is told of a success, *)
(* and its message is there.                                               *)
OnlyTrouble(kinds) == troubles \subseteq kinds

AiNeverFailsCapture ==
  OnlyTrouble({<<"ai", "down">>, <<"ai", "hung">>}) =>
    \A c \in Calls :
      client[c] = "done" /\ keyValid /\ Takes(c) /\ FitsColumns(c) /\ answer[c] # "429" =>
        answer[c] = "2xx" /\ c \in rows

(* A Redis that refuses connections, with ai-service failing as well, has  *)
(* no capture stored and reported as failed: it may keep auth-service from *)
(* validating the key, but not sms-service from answering once it stored   *)
(* (queue-publisher.ts:11-13).                                             *)
RedisNeverHalfCaptures ==
  OnlyTrouble({<<"redis", "down">>, <<"ai", "down">>, <<"ai", "hung">>}) =>
    \A c \in Calls : client[c] = "done" => (c \in rows <=> answer[c] = "2xx")

(* Every attempt ends for its client: by an answer, or the client's own    *)
(* timeout.  One without a timeout may wait for a service that hangs, but  *)
(* never for ai-service.                                                   *)
EveryAttemptEnds ==
  \A c \in Calls :
    client[c] = "waiting" ~>
      \/ client[c] = "done"
      \/ call[c].sdk = "nodejs" /\ \E s \in Services \ {"ai"} : health[s] = "hung"

(* What an attempt may come to, and what its client was told.  It is open  *)
(* while a process has it that is not past the insert.                     *)
PastInsert == {"announce", "publish", "respond", "broken", "none"}

StateOf(c) ==
  CASE at[c] \notin PastInsert -> "open"
    [] at[c] \in PastInsert /\ c \in rows -> "stored"
    [] at[c] \in PastInsert /\ c \notin rows ->
         IF client[c] = "ready" THEN "unsent" ELSE "void"

ToldBy(status) ==
  CASE status = "none" -> "nothing"
    [] status = "2xx" -> "success"
    [] status \in {"400", "401", "429"} -> "refusal"
    [] OTHER -> "unknown"

Contract == INSTANCE CaptureContract WITH
  Captures <- Calls,
  state <- [c \in Calls |-> StateOf(c)],
  told <- [c \in Calls |-> ToldBy(answer[c])]

(* Whatever services do, an attempt is stored once at most, a client is    *)
(* told of a success only when its message is there, and of a refusal only *)
(* when it is not and no process has it that would store it; and no        *)
(* process takes up again what came to nothing or what is stored           *)
(* (gateway/internal/proxy/proxy.go:45, messages.service.ts:59).           *)
ImplementsContract == Contract!Spec

=============================================================================
