------------------------ MODULE CapturePipelineProofs -------------------------
(***************************************************************************)
(* Theorems about CapturePipeline, for any number of captures at the same  *)
(* time and any number of failures: what a refusal, an ai-service that     *)
(* fails and a Redis that refuses connections may never do to a capture.   *)
(***************************************************************************)
EXTENDS CapturePipeline, TLAPS

AiTroubles == {<<"ai", "down">>, <<"ai", "hung">>}
RedisTroubles == {<<"redis", "down">>, <<"ai", "down">>, <<"ai", "hung">>}

Stored == {"announce", "publish", "respond"}
Judged == Records \cup {"gatewayVerdict", "smsVerdict"}

(* Where a capture is, what is stored of it and what its client knows.     *)
Consistent(c) ==
  /\ answer[c] # "none" <=> client[c] = "done"
  /\ client[c] = "ready" => at[c] = "none" /\ c \notin rows
  /\ c \in rows => at[c] \in Stored \cup {"none", "broken"}
  /\ at[c] \in Stored => c \in rows
  /\ at[c] = "broken" => <<"sms", "down">> \in troubles
  /\ answer[c] \in {"400", "401", "429"} => c \notin rows /\ at[c] = "none"

(* As long as nothing worse happened than Redis going down, a client that  *)
(* has an answer has no request left in the services.                      *)
Settled(c) ==
  OnlyTrouble(RedisTroubles) /\ client[c] = "done" =>
    /\ at[c] = "none"
    /\ c \in rows <=> answer[c] = "2xx"

(* As long as only ai-service failed, a valid key was never found invalid. *)
Granted(c) ==
  OnlyTrouble(AiTroubles) /\ keyValid =>
    /\ at[c] \in Judged => verdict[c] = "200"
    /\ client[c] = "done" /\ Takes(c) /\ FitsColumns(c) /\ answer[c] # "429" => answer[c] = "2xx"

CallFits(c) == Consistent(c) /\ Settled(c) /\ Granted(c)

HealthIsRecorded == \A s \in Services : health[s] # "up" => <<s, health[s]>> \in troubles

Inductive ==
  /\ TypeOK
  /\ HealthIsRecorded
  /\ \A c \in Calls : CallFits(c)

-----------------------------------------------------------------------------
(* A step of one capture                                                   *)

AllSteps == GatewaySteps \cup SmsSteps \cup {"none"}
AllVerdicts == {"none", "200", "401", "500", "error"}

LEMMA CallStep ==
  ASSUME Inductive, NEW c \in Calls, UNCHANGED world, TypeOK', CallFits(c)',
         \A d \in Calls \ {c} :
           /\ call'[d] = call[d] /\ client'[d] = client[d] /\ answer'[d] = answer[d]
           /\ at'[d] = at[d] /\ verdict'[d] = verdict[d]
           /\ d \in rows' <=> d \in rows
  PROVE  Inductive'
<1>1. ASSUME NEW d \in Calls \ {c} PROVE CallFits(d)'
  <2>1. CallFits(d)
    BY DEF Inductive
  <2>2. (Takes(d)' <=> Takes(d)) /\ (FitsColumns(d)' <=> FitsColumns(d))
    BY DEF Takes, FitsColumns
  <2> QED
    BY <2>1, <2>2
       DEF CallFits, Consistent, Settled, Granted, OnlyTrouble, world
<1> QED
  BY <1>1 DEF Inductive, HealthIsRecorded, world

(* A request goes on, its client none the wiser.                           *)
LEMMA Advances ==
  ASSUME Inductive, NEW c \in Calls, NEW step \in GatewaySteps \cup SmsSteps,
         Goto(c, step), UNCHANGED <<world, call, client, answer, pending, rows>>,
         NEW v \in AllVerdicts, verdict' = [verdict EXCEPT ![c] = v],
         at[c] \notin {"none", "broken", "detect"}, step # "broken",
         at[c] \in Stored <=> step \in Stored,
         OnlyTrouble(AiTroubles) /\ keyValid /\ step \in Judged => v = "200"
  PROVE  Inductive'
<1>1. at'[c] = step /\ verdict'[c] = v
  BY DEF Inductive, TypeOK, Goto
<1>2. TypeOK'
  BY DEF Inductive, TypeOK, Goto, world, AllVerdicts
<1>3. CallFits(c)'
  <2>1. CallFits(c)
    BY DEF Inductive
  <2>2. Consistent(c)'
    BY <1>1, <2>1 DEF CallFits, Consistent, world
  <2>3. Settled(c)'
    BY <1>1, <2>1 DEF CallFits, Settled, OnlyTrouble, world
  <2>4. Granted(c)'
    BY <1>1, <2>1 DEF CallFits, Granted, OnlyTrouble, Takes, FitsColumns, world
  <2> QED
    BY <2>2, <2>3, <2>4 DEF CallFits
<1> QED
  BY <1>2, <1>3, CallStep DEF Goto, Inductive, TypeOK

(* A request that ends in a failure, for the client if it still waits.     *)
LEMMA Refuses ==
  ASSUME Inductive, NEW c \in Calls, NEW status \in {"400", "401", "429", "500", "502"},
         Respond(c, status), UNCHANGED <<world, call, pending, rows>>,
         NEW v \in AllVerdicts, verdict' = [verdict EXCEPT ![c] = v],
         at[c] \notin Stored \cup {"none", "detect"},
         at[c] = "broken" => status = "502",
         OnlyTrouble(AiTroubles) /\ keyValid /\ client[c] = "waiting" /\ Takes(c) /\ FitsColumns(c)
           => status = "429"
  PROVE  Inductive'
<1>1. /\ at'[c] = "none"
      /\ IF client[c] = "waiting"
         THEN client'[c] = "done" /\ answer'[c] = status
         ELSE client'[c] = client[c] /\ answer'[c] = answer[c]
  BY DEF Inductive, TypeOK, Goto, Respond, Receive
<1>2. TypeOK'
  BY DEF Inductive, TypeOK, Goto, Respond, Receive, Answers, world, AllVerdicts
<1>3. CallFits(c)'
  <2>1. CallFits(c)
    BY DEF Inductive
  <2>2. Consistent(c)'
    BY <1>1, <2>1 DEF CallFits, Consistent, Stored, world
  <2>3. Settled(c)'
    <3>1. OnlyTrouble(RedisTroubles) => at[c] # "broken"
      BY <2>1 DEF CallFits, Consistent, OnlyTrouble, RedisTroubles
    <3> QED
      BY <1>1, <2>1, <3>1 DEF CallFits, Consistent, Settled, OnlyTrouble, world
  <2>4. Granted(c)'
    BY <1>1, <2>1 DEF CallFits, Consistent, Granted, OnlyTrouble, Takes, FitsColumns, world,
                      Judged, Records
  <2> QED
    BY <2>2, <2>3, <2>4 DEF CallFits
<1>4. \A d \in Calls \ {c} :
        /\ call'[d] = call[d] /\ client'[d] = client[d] /\ answer'[d] = answer[d]
        /\ at'[d] = at[d] /\ verdict'[d] = verdict[d]
        /\ d \in rows' <=> d \in rows
  BY DEF Goto, Respond, Receive, Inductive, TypeOK
<1> QED
  BY <1>2, <1>3, <1>4, CallStep

(* What a capture knows of its verdict stays when it is not touched.       *)
LEMMA SameVerdict ==
  ASSUME Inductive, NEW c \in Calls
  PROVE  verdict[c] \in AllVerdicts /\ verdict = [verdict EXCEPT ![c] = verdict[c]]
BY DEF Inductive, TypeOK, AllVerdicts

-----------------------------------------------------------------------------
(* The clients                                                             *)

LEMMA SendKeeps ==
  ASSUME Inductive, NEW c \in Calls, Send(c) PROVE Inductive'
<1>1. PICK route \in Routes, sdk \in Sdks, body \in Bodies :
        /\ call' = [call EXCEPT ![c] = [route |-> route, sdk |-> sdk, body |-> body]]
        /\ LET first == IF route = "direct" THEN "sms" ELSE "gateway"
           IN  IF health[first] = "down"
               THEN /\ client' = [client EXCEPT ![c] = "done"]
                    /\ answer' = [answer EXCEPT ![c] = "lost"]
                    /\ UNCHANGED at
               ELSE /\ client' = [client EXCEPT ![c] = "waiting"]
                    /\ Goto(c, IF route = "direct" THEN "guard" ELSE "entry")
                    /\ UNCHANGED answer
  BY DEF Send
<1>2. /\ client[c] = "ready" /\ UNCHANGED <<world, verdict, pending, rows>>
      /\ CallFits(c)
  BY DEF Send, Inductive
<1>3. TypeOK'
  BY <1>1, <1>2
     DEF Inductive, TypeOK, CallFits, Consistent, Goto, Answers, world, GatewaySteps, SmsSteps
<1>4. /\ c \notin rows /\ answer[c] = "none" /\ at[c] = "none"
  BY <1>2 DEF CallFits, Consistent
<1>5. \/ /\ client'[c] = "done" /\ answer'[c] = "lost" /\ at'[c] = "none"
         /\ health["sms"] = "down" \/ health["gateway"] = "down"
      \/ /\ client'[c] = "waiting" /\ answer'[c] = "none" /\ at'[c] \in {"guard", "entry"}
  BY <1>1, <1>4 DEF Inductive, TypeOK, Goto
<1>6. OnlyTrouble(RedisTroubles) \/ OnlyTrouble(AiTroubles) =>
        health["sms"] # "down" /\ health["gateway"] # "down"
  BY DEF OnlyTrouble, RedisTroubles, AiTroubles, Inductive, HealthIsRecorded, Services
<1>7. CallFits(c)'
  <2>1. Consistent(c)'
    BY <1>2, <1>4, <1>5 DEF Consistent, Stored
  <2>2. Settled(c)'
    BY <1>2, <1>5, <1>6 DEF Settled, OnlyTrouble, world
  <2>3. Granted(c)'
    BY <1>2, <1>5, <1>6 DEF Granted, OnlyTrouble, Judged, Records, world
  <2> QED
    BY <2>1, <2>2, <2>3 DEF CallFits
<1>8. \A d \in Calls \ {c} :
        /\ call'[d] = call[d] /\ client'[d] = client[d] /\ answer'[d] = answer[d]
        /\ at'[d] = at[d] /\ verdict'[d] = verdict[d]
        /\ d \in rows' <=> d \in rows
  BY <1>1, <1>2 DEF Goto, Inductive, TypeOK
<1> QED
  BY <1>2, <1>3, <1>7, <1>8, CallStep

LEMMA GiveUpKeeps ==
  ASSUME Inductive, NEW c \in Calls, GiveUp(c) PROVE Inductive'
<1>1. /\ client[c] = "waiting" /\ UNCHANGED <<world, call, at, verdict, pending, rows>>
      /\ client' = [client EXCEPT ![c] = "done"]
      /\ answer' = [answer EXCEPT ![c] = "timeout"]
      /\ CallFits(c)
  BY DEF GiveUp, Receive, Inductive
<1>2. ~OnlyTrouble(RedisTroubles) /\ ~OnlyTrouble(AiTroubles)
  <2>1. PICK s \in Services \ {"ai"} : health[s] = "hung"
    BY DEF GiveUp
  <2>2. <<s, "hung">> \in troubles
    BY <2>1 DEF Inductive, HealthIsRecorded
  <2> QED
    BY <2>1, <2>2 DEF OnlyTrouble, RedisTroubles, AiTroubles
<1>3. client'[c] = "done" /\ answer'[c] = "timeout"
  BY <1>1 DEF Inductive, TypeOK
<1>4. CallFits(c)'
  BY <1>1, <1>2, <1>3 DEF CallFits, Consistent, Settled, Granted, OnlyTrouble, world
<1>5. TypeOK'
  BY <1>1 DEF Inductive, TypeOK, Answers, world
<1> QED
  BY <1>1, <1>4, <1>5, CallStep DEF Inductive, TypeOK

-----------------------------------------------------------------------------
(* auth-service and the gateway                                            *)

LEMMA LookupKeeps ==
  ASSUME Inductive, NEW c \in Calls,
         ValidateApiKey(c) \/ RecordMetrics(c) \/ Unreachable(c)
  PROVE  Inductive'
<1>1. OnlyTrouble(AiTroubles) =>
        health["auth"] # "down" /\ health["db"] # "down" /\ health["redis"] = "up"
  BY DEF OnlyTrouble, AiTroubles, Inductive, HealthIsRecorded, Services, TypeOK, Conditions
<1>2. verdict[c] \in AllVerdicts /\ CallFits(c)
  BY SameVerdict DEF Inductive
<1>3. PICK step \in Records \cup {"gatewayVerdict", "smsVerdict"}, v \in AllVerdicts :
        /\ Goto(c, step) /\ verdict' = [verdict EXCEPT ![c] = v]
        /\ UNCHANGED <<world, call, client, answer, pending, rows>>
        /\ at[c] \in Lookups \cup Records
        /\ OnlyTrouble(AiTroubles) /\ keyValid => v = "200"
  <2>1. CASE ValidateApiKey(c)
    BY <1>1, <2>1 DEF ValidateApiKey, Records, AllVerdicts
  <2>2. CASE RecordMetrics(c)
    <3>1. OnlyTrouble(AiTroubles) /\ keyValid => verdict[c] = "200"
      BY <1>2, <2>2 DEF RecordMetrics, CallFits, Granted, Judged
    <3>2. verdict' = [verdict EXCEPT ![c] =
                        IF health["redis"] = "up" THEN verdict[c] ELSE "500"]
      BY <2>2 DEF RecordMetrics, Inductive, TypeOK
    <3> QED
      BY <1>1, <1>2, <2>2, <3>1, <3>2 DEF RecordMetrics, Records, AllVerdicts
  <2>3. CASE Unreachable(c)
    BY <1>1, <2>3 DEF Unreachable, Records, AllVerdicts
  <2> QED
    BY <2>1, <2>2, <2>3
<1> QED
  BY <1>3, Advances DEF Records, Lookups, Stored, GatewaySteps, SmsSteps

LEMMA GatewayKeeps ==
  ASSUME Inductive, NEW c \in Calls,
         Route(c) \/ RequireAPIKey(c) \/ Limit(c) \/ Forward(c) \/ BadGateway(c)
  PROVE  Inductive'
<1>1. CallFits(c)
  BY DEF Inductive
<1>2. OnlyTrouble(AiTroubles) => health["sms"] # "down"
  BY DEF OnlyTrouble, AiTroubles, Inductive, HealthIsRecorded, Services
<1>3. CASE Route(c)
  BY <1>3, SameVerdict, Advances DEF Route, Stored, GatewaySteps, Judged, Records
<1>4. CASE RequireAPIKey(c)
  <2>1. CASE ValidatedKey(verdict[c])
    <3>1. /\ Goto(c, "limit") /\ verdict' = [verdict EXCEPT ![c] = "none"]
          /\ UNCHANGED <<world, call, client, answer, pending, rows>>
      BY <1>4, <2>1 DEF RequireAPIKey
    <3>2. at[c] \notin Stored \cup {"none", "broken", "detect"}
      BY <1>4 DEF RequireAPIKey, Stored
    <3>3. "limit" \in (GatewaySteps \cup SmsSteps) \ (Stored \cup Judged)
      BY DEF Stored, Judged, Records, GatewaySteps, SmsSteps
    <3>4. "none" \in AllVerdicts
      BY DEF AllVerdicts
    <3> QED
      BY <3>1, <3>2, <3>3, <3>4, Advances
  <2>2. CASE ~ValidatedKey(verdict[c])
    <3>1. ~(OnlyTrouble(AiTroubles) /\ keyValid)
      BY <1>1, <1>4, <2>2 DEF RequireAPIKey, ValidatedKey, CallFits, Granted, Judged
    <3> QED
      BY <1>4, <2>2, <3>1, Refuses DEF RequireAPIKey, Stored, AllVerdicts
  <2> QED
    BY <2>1, <2>2
<1>5. CASE Limit(c)
  <2>1. CASE Goto(c, "forward") /\ UNCHANGED <<client, answer>>
    BY <1>5, <2>1, SameVerdict, Advances DEF Limit, Stored, GatewaySteps, Judged, Records
  <2>2. CASE Respond(c, "429")
    BY <1>5, <2>2, SameVerdict, Refuses DEF Limit, Stored
  <2> QED
    BY <1>5, <2>1, <2>2 DEF Limit
<1>6. CASE Forward(c)
  <2>1. CASE /\ Goto(c, IF call[c].route \in Adapters THEN "validate" ELSE "guard")
             /\ UNCHANGED <<client, answer>>
    BY <1>6, <2>1, SameVerdict, Advances DEF Forward, Stored, SmsSteps, Judged, Records
  <2>2. CASE /\ health["sms"] = "down" \/ client[c] # "waiting"
             /\ Respond(c, "502")
    BY <1>2, <1>6, <2>2, SameVerdict, Refuses DEF Forward, Stored
  <2> QED
    BY <1>6, <2>1, <2>2 DEF Forward
<1>7. CASE BadGateway(c)
  <2>1. ~OnlyTrouble(AiTroubles)
    BY <1>1, <1>7 DEF BadGateway, CallFits, Consistent, OnlyTrouble, AiTroubles
  <2> QED
    BY <1>7, <2>1, SameVerdict, Refuses DEF BadGateway, Stored
<1> QED
  BY <1>3, <1>4, <1>5, <1>6, <1>7

-----------------------------------------------------------------------------
(* sms-service                                                             *)

LEMMA GuardKeeps ==
  ASSUME Inductive, NEW c \in Calls, Guard(c) \/ CanActivate(c) PROVE Inductive'
<1>1. CASE Guard(c)
  BY <1>1, SameVerdict, Advances DEF Guard, Stored, SmsSteps, Judged, Records
<1>2. CASE CanActivate(c)
  <2>1. CASE ValidatedKey(verdict[c])
    <3>1. /\ Goto(c, "validate") /\ verdict' = [verdict EXCEPT ![c] = "none"]
          /\ UNCHANGED <<world, call, client, answer, pending, rows>>
      BY <1>2, <2>1 DEF CanActivate
    <3>2. at[c] \notin Stored \cup {"none", "broken", "detect"}
      BY <1>2 DEF CanActivate, Stored
    <3>3. "validate" \in (GatewaySteps \cup SmsSteps) \ (Stored \cup Judged)
      BY DEF Stored, Judged, Records, GatewaySteps, SmsSteps
    <3>4. "none" \in AllVerdicts
      BY DEF AllVerdicts
    <3> QED
      BY <3>1, <3>2, <3>3, <3>4, Advances
  <2>2. CASE ~ValidatedKey(verdict[c])
    <3>1. ~(OnlyTrouble(AiTroubles) /\ keyValid)
      BY <1>2, <2>2 DEF CanActivate, ValidatedKey, Inductive, CallFits, Granted, Judged
    <3> QED
      BY <1>2, <2>2, <3>1, Refuses DEF CanActivate, Stored, AllVerdicts
  <2> QED
    BY <2>1, <2>2
<1> QED
  BY <1>1, <1>2

(* Between the checks and the insert: only pending detectors change.       *)
LEMMA DetectionKeeps ==
  ASSUME Inductive, NEW c \in Calls, Validate(c) \/ Detect(c) PROVE Inductive'
<1>1. CallFits(c)
  BY DEF Inductive
<1>2. CASE Validate(c) /\ ~Takes(c)
  BY <1>2, SameVerdict, Refuses DEF Validate, Stored
<1>3. CASE (Validate(c) /\ Takes(c)) \/ Detect(c)
  <2>1. PICK left \in SUBSET Detectors, step \in {"detect", "insert"} :
          /\ pending' = [pending EXCEPT ![c] = left]
          /\ left # {} => step = "detect"
          /\ at' = [at EXCEPT ![c] = step]
    <3>1. CASE Validate(c) /\ Takes(c)
      BY <3>1 DEF Validate, Goto
    <3>2. CASE Detect(c)
      <4>1. PICK d \in pending[c] : pending' = [pending EXCEPT ![c] = pending[c] \ {d}]
        BY <3>2 DEF Detect, Inductive, TypeOK
      <4>2. pending'[c] = pending[c] \ {d} /\ pending[c] \ {d} \in SUBSET Detectors
        BY <4>1 DEF Inductive, TypeOK
      <4>3. pending[c] \ {d} # {} => at' = [at EXCEPT ![c] = "detect"]
        BY <3>2, <4>2 DEF Detect, Inductive, TypeOK
      <4> QED
        BY <3>2, <4>1, <4>2, <4>3 DEF Detect, Goto
    <3> QED
      BY <1>3, <3>1, <3>2
  <2>2. /\ at[c] \in {"validate", "detect"}
        /\ UNCHANGED <<world, call, client, answer, verdict, rows>>
    BY <1>3 DEF Validate, Detect
  <2>3. at'[c] = step /\ TypeOK'
    BY <2>1, <2>2 DEF Inductive, TypeOK, world, SmsSteps
  <2>4. CallFits(c)'
    <3>1. Consistent(c)'
      BY <1>1, <2>2, <2>3 DEF CallFits, Consistent, Stored, world
    <3>2. Settled(c)'
      BY <1>1, <2>2, <2>3 DEF CallFits, Settled, OnlyTrouble, world
    <3>3. Granted(c)'
      BY <1>1, <2>2, <2>3 DEF CallFits, Granted, OnlyTrouble, Takes, FitsColumns, Judged, Records, world
    <3> QED
      BY <3>1, <3>2, <3>3 DEF CallFits
  <2> QED
    BY <2>1, <2>2, <2>3, <2>4, CallStep DEF Inductive, TypeOK
<1> QED
  BY <1>2, <1>3

LEMMA InsertKeeps ==
  ASSUME Inductive, NEW c \in Calls, Insert(c) PROVE Inductive'
<1>1. CASE health["db"] # "up" \/ ~FitsColumns(c)
  <2>1. ~OnlyTrouble(AiTroubles) \/ ~FitsColumns(c)
    BY <1>1 DEF OnlyTrouble, AiTroubles, Inductive, HealthIsRecorded, Services
  <2> QED
    BY <1>1, <2>1, SameVerdict, Refuses DEF Insert, Stored
<1>2. CASE health["db"] = "up" /\ FitsColumns(c)
  <2>1. /\ at[c] = "insert" /\ rows' = rows \cup {c}
        /\ at' = [at EXCEPT ![c] = "announce"]
        /\ UNCHANGED <<world, call, client, answer, verdict, pending>>
        /\ CallFits(c)
    BY <1>2 DEF Insert, Goto, Inductive
  <2>2. at'[c] = "announce" /\ TypeOK'
    BY <2>1 DEF Inductive, TypeOK, world, SmsSteps
  <2>3. CallFits(c)'
    <3>1. Consistent(c)'
      BY <2>1, <2>2 DEF CallFits, Consistent, Stored, world
    <3>2. Settled(c)' /\ Granted(c)'
      BY <2>1, <2>2
         DEF CallFits, Settled, Granted, OnlyTrouble, Takes, FitsColumns, Judged, Records, world
    <3> QED
      BY <3>1, <3>2 DEF CallFits
  <2> QED
    BY <2>1, <2>2, <2>3, CallStep DEF Inductive, TypeOK
<1> QED
  BY <1>1, <1>2

LEMMA StoredKeeps ==
  ASSUME Inductive, NEW c \in Calls,
         Announce(c) \/ PublishMessageCaptured(c) \/ Created(c)
  PROVE  Inductive'
<1>1. CASE Announce(c)
  BY <1>1, SameVerdict, Advances DEF Announce, Stored, SmsSteps, Judged, Records
<1>2. CASE PublishMessageCaptured(c)
  BY <1>2, SameVerdict, Advances
     DEF PublishMessageCaptured, Stored, SmsSteps, Judged, Records
<1>3. CASE Created(c)
  <2>1. /\ at[c] = "respond" /\ UNCHANGED <<world, call, verdict, pending, rows>>
        /\ CallFits(c) /\ c \in rows
    BY <1>3 DEF Created, Inductive, CallFits, Consistent, Stored
  <2>2. /\ at'[c] = "none"
        /\ IF client[c] = "waiting"
           THEN client'[c] = "done" /\ answer'[c] = "2xx"
           ELSE client'[c] = client[c] /\ answer'[c] = answer[c]
    BY <1>3 DEF Created, Inductive, TypeOK, Goto, Respond, Receive
  <2>3. TypeOK'
    BY <1>3, <2>1 DEF Created, Inductive, TypeOK, Goto, Respond, Receive, Answers, world
  <2>4. CallFits(c)'
    <3>1. Consistent(c)'
      BY <2>1, <2>2 DEF CallFits, Consistent, Stored, world
    <3>2. Settled(c)'
      BY <2>1, <2>2 DEF CallFits, Settled, Consistent, OnlyTrouble, world
    <3>3. Granted(c)'
      BY <2>1, <2>2 DEF CallFits, Granted, OnlyTrouble, Takes, FitsColumns, Judged, Records, world
    <3> QED
      BY <3>1, <3>2, <3>3 DEF CallFits
  <2>5. \A d \in Calls \ {c} :
          client'[d] = client[d] /\ answer'[d] = answer[d] /\ at'[d] = at[d]
    BY <1>3 DEF Created, Inductive, TypeOK, Goto, Respond, Receive
  <2> QED
    BY <2>1, <2>3, <2>4, <2>5, CallStep
<1> QED
  BY <1>1, <1>2, <1>3

-----------------------------------------------------------------------------
(* Failures                                                                *)

LEMMA StopKeeps ==
  ASSUME Inductive, NEW s \in Services, Stop(s) PROVE Inductive'
<1>1. /\ health' = [health EXCEPT ![s] = "down"]
      /\ troubles' = troubles \cup {<<s, "down">>}
      /\ UNCHANGED <<keyValid, call, rows>>
  BY DEF Stop
<1>2. \A c \in Calls :
        /\ at'[c] = StepAfter(c, s)
        /\ verdict'[c] = IF s = "auth" /\ at[c] \in Lookups \cup Records THEN "error"
                         ELSE IF at'[c] \in {"none", "broken"} THEN "none" ELSE verdict[c]
        /\ client'[c] = IF Broken(c, s) THEN "done" ELSE client[c]
        /\ answer'[c] = IF Broken(c, s) THEN "lost" ELSE answer[c]
        /\ pending'[c] = IF at'[c] = "detect" THEN pending[c] ELSE {}
  BY DEF Stop
<1>3. \A c \in Calls :
        /\ at'[c] \in AllSteps
        /\ at'[c] \in {at[c], "none", "broken"} \/ at'[c] \in {"gatewayVerdict", "smsVerdict"}
        /\ at'[c] \in Stored => at'[c] = at[c]
        /\ s # "auth" => at'[c] \in {at[c], "none", "broken"}
        /\ at[c] \in Stored \cup {"none", "broken"} => at'[c] \in {at[c], "none", "broken"}
        /\ at[c] = "none" => at'[c] = "none"
        /\ at'[c] = "broken" => at[c] = "broken" \/ s = "sms"
  BY <1>2 DEF StepAfter, AllSteps, Stored, GatewaySteps, SmsSteps, Inductive, TypeOK
<1>4. TypeOK'
  <2>1. /\ at' = [c \in Calls |-> at'[c]] /\ verdict' = [c \in Calls |-> verdict'[c]]
        /\ client' = [c \in Calls |-> client'[c]] /\ answer' = [c \in Calls |-> answer'[c]]
        /\ pending' = [c \in Calls |-> pending'[c]]
    BY DEF Stop
  <2>2. /\ at' \in [Calls -> AllSteps] /\ verdict' \in [Calls -> AllVerdicts]
        /\ client' \in [Calls -> {"ready", "waiting", "done"}]
        /\ answer' \in [Calls -> Answers] /\ pending' \in [Calls -> SUBSET Detectors]
    BY <1>2, <1>3, <2>1 DEF Inductive, TypeOK, AllVerdicts, Answers
  <2>3. /\ health' \in [Services -> Conditions] /\ faults' \in 0..MaxFaults
        /\ troubles' \in SUBSET (Services \X Conditions)
    BY <1>1, MaxAssumption DEF Stop, Inductive, TypeOK, Conditions
  <2> QED
    BY <1>1, <1>2, <2>2, <2>3 DEF TypeOK, Inductive, AllSteps, AllVerdicts
<1>5. HealthIsRecorded'
  BY <1>1 DEF Inductive, HealthIsRecorded, TypeOK
<1>6. /\ OnlyTrouble(AiTroubles)' => OnlyTrouble(AiTroubles) /\ s = "ai"
      /\ OnlyTrouble(RedisTroubles)' => OnlyTrouble(RedisTroubles) /\ s \in {"ai", "redis"}
  BY <1>1 DEF OnlyTrouble, AiTroubles, RedisTroubles
<1>7. ASSUME NEW c \in Calls PROVE CallFits(c)'
  <2>1. CallFits(c)
    BY DEF Inductive
  <2>2. Consistent(c)'
    BY <1>1, <1>2, <1>3, <2>1 DEF CallFits, Consistent, Broken, Stored
  <2>3. s \in {"ai", "redis"} =>
          at'[c] = at[c] /\ client'[c] = client[c] /\ answer'[c] = answer[c]
    BY <1>2 DEF StepAfter, Broken
  <2>4. s = "ai" /\ at[c] \in Judged => verdict'[c] = verdict[c]
    BY <1>2, <2>3 DEF Judged, Records
  <2>5. Settled(c)'
    BY <1>1, <1>6, <2>1, <2>3 DEF CallFits, Settled
  <2>6. Granted(c)'
    BY <1>1, <1>6, <2>1, <2>3, <2>4 DEF CallFits, Granted, Takes, FitsColumns
  <2> QED
    BY <2>2, <2>5, <2>6 DEF CallFits
<1> QED
  BY <1>4, <1>5, <1>7 DEF Inductive

(* Steps that leave every request where it is.                             *)
LEMMA ConditionKeeps ==
  ASSUME Inductive, NEW s \in Services, Hang(s) \/ Recover(s) \/ Revoke
  PROVE  Inductive'
<1>1. /\ UNCHANGED <<call, client, answer, at, verdict, pending, rows>>
      /\ troubles \subseteq troubles'
      /\ keyValid' => keyValid
  BY DEF Hang, Recover, Revoke
<1>2. HealthIsRecorded'
  BY DEF Hang, Recover, Revoke, Inductive, HealthIsRecorded, TypeOK
<1>3. TypeOK'
  <2>1. /\ health' \in [Services -> Conditions] /\ keyValid' \in BOOLEAN
        /\ faults' \in 0..MaxFaults /\ troubles' \in SUBSET (Services \X Conditions)
    <3>1. CASE Hang(s)
      BY <3>1, MaxAssumption DEF Hang, Inductive, TypeOK, Conditions
    <3>2. CASE Recover(s)
      BY <3>2 DEF Recover, Inductive, TypeOK, Conditions
    <3>3. CASE Revoke
      <4>1. UNCHANGED <<health, troubles>> /\ faults' \in 0..MaxFaults
        BY <3>3, MaxAssumption DEF Revoke, Inductive, TypeOK
      <4>2. keyValid' = FALSE
        BY <3>3 DEF Revoke
      <4> QED
        BY <4>1, <4>2 DEF Inductive, TypeOK
    <3> QED
      BY <3>1, <3>2, <3>3
  <2> QED
    BY <1>1, <2>1 DEF Inductive, TypeOK
<1>4. ASSUME NEW c \in Calls PROVE CallFits(c)'
  <2>1. CallFits(c)
    BY DEF Inductive
  <2>2. (Takes(c)' <=> Takes(c)) /\ (FitsColumns(c)' <=> FitsColumns(c))
    BY <1>1 DEF Takes, FitsColumns
  <2> QED
    BY <1>1, <2>1, <2>2 DEF CallFits, Consistent, Settled, Granted, OnlyTrouble
<1> QED
  BY <1>2, <1>3, <1>4 DEF Inductive

-----------------------------------------------------------------------------
(* The theorems                                                            *)

LEMMA InitHolds == Init => Inductive
<1> SUFFICES ASSUME Init PROVE Inductive
  OBVIOUS
<1>1. TypeOK
  BY MaxAssumption
     DEF Init, TypeOK, Conditions, Routes, Sdks, Bodies, Answers
<1> QED
  BY <1>1
     DEF Init, Inductive, HealthIsRecorded, CallFits, Consistent, Settled, Granted, Stored,
         Judged, Records

(* The inductive invariant.                                                *)
THEOREM Invariance == Spec => []Inductive
<1>1. Inductive /\ [Next]_vars => Inductive'
  <2> SUFFICES ASSUME Inductive, [Next]_vars PROVE Inductive'
    OBVIOUS
  <2>1. CASE UNCHANGED vars
    BY <2>1
       DEF vars, Inductive, TypeOK, HealthIsRecorded, CallFits, Consistent, Settled, Granted,
           OnlyTrouble, Takes, FitsColumns
  <2>2. ASSUME NEW c \in Calls, Send(c) \/ GiveUp(c) \/ ServiceStep(c) PROVE Inductive'
    BY <2>2, SendKeeps, GiveUpKeeps, LookupKeeps, GatewayKeeps, GuardKeeps, DetectionKeeps,
       InsertKeeps, StoredKeeps DEF ServiceStep
  <2>3. ASSUME NEW s \in Services, Stop(s) \/ Hang(s) \/ Recover(s) PROVE Inductive'
    BY <2>3, StopKeeps, ConditionKeeps
  <2>4. CASE Revoke
    <3>1. "ai" \in Services
      BY DEF Services
    <3> QED
      BY <2>4, <3>1, ConditionKeeps
  <2> QED
    BY <2>1, <2>2, <2>3, <2>4 DEF Next
<1> QED
  BY <1>1, InitHolds, PTL DEF Spec

(* Every variable of the capture path keeps its type.                      *)
THEOREM TypeCorrect == Spec => []TypeOK
<1>1. Inductive => TypeOK
  BY DEF Inductive
<1> QED
  BY <1>1, Invariance, PTL

(* A capture that was refused is not stored, then or later, so that it may *)
(* be sent again without a duplicate: no check comes after the insert, and *)
(* what a service that failed leaves running stores nothing either.        *)
RejectedIsNotStored ==
  \A c \in Calls : answer[c] \in {"400", "401", "429"} =>
    c \notin rows /\ at[c] = "none"

(* A capture that was refused with 400, 401 or 429 is not stored, and no   *)
(* process that is still at work will store it: every check of the gateway *)
(* (middleware/auth.go:15-47, ratelimit.go:40-55) and of sms-service       *)
(* (api-key.guard.ts:23-31, main.ts:30) comes before the insert.           *)
THEOREM RefusedCapturesAreNotStored == Spec => []RejectedIsNotStored
<1>1. Inductive => RejectedIsNotStored
  BY DEF Inductive, CallFits, Consistent, RejectedIsNotStored
<1> QED
  BY <1>1, Invariance, PTL

(* As long as nothing but ai-service failed, down or hung, as often as it  *)
(* likes, a capture with a valid key, a body that the entry and the        *)
(* columns take, and quota left succeeds and is stored (ai-client.ts:4-6,  *)
(* :54-76).                                                                *)
THEOREM CapturesDoNotNeedAi == Spec => []AiNeverFailsCapture
<1>1. Inductive => AiNeverFailsCapture
  <2> SUFFICES ASSUME Inductive, OnlyTrouble(AiTroubles), NEW c \in Calls,
                      client[c] = "done", keyValid, Takes(c), FitsColumns(c), answer[c] # "429"
               PROVE  answer[c] = "2xx" /\ c \in rows
    BY DEF AiNeverFailsCapture, AiTroubles
  <2>1. OnlyTrouble(RedisTroubles)
    BY DEF OnlyTrouble, RedisTroubles, AiTroubles
  <2> QED
    BY <2>1 DEF Inductive, CallFits, Settled, Granted
<1> QED
  BY <1>1, Invariance, PTL

(* As long as nothing but a refusing Redis and ai-service failed, what the *)
(* client is told is what became of its capture: 201 when it is stored, an *)
(* error when it is not (queue-publisher.ts:11-13).                        *)
THEOREM RedisHalvesNoCapture == Spec => []RedisNeverHalfCaptures
<1>1. Inductive => RedisNeverHalfCaptures
  BY DEF Inductive, CallFits, Settled, RedisNeverHalfCaptures, RedisTroubles
<1> QED
  BY <1>1, Invariance, PTL

-----------------------------------------------------------------------------
(* The contract                                                            *)

Told(c) == ToldBy(answer[c])

(* An attempt and its client as the contract sees them.                    *)
Same(c) == StateOf(c)' = StateOf(c) /\ Told(c)' = Told(c)

LEMMA InitMeetsContract == Init => Contract!Init
<1> SUFFICES ASSUME Init PROVE Contract!Init
  OBVIOUS
<1>1. \A c \in Calls : StateOf(c) = "unsent" /\ Told(c) = "nothing"
  BY DEF Init, StateOf, PastInsert, Told, ToldBy
<1> QED
  BY <1>1 DEF Contract!Init, Told

(* What changes for one attempt only, the contract allows if it allows it  *)
(* for that one.                                                           *)
LEMMA OneAttempt ==
  ASSUME NEW c \in Calls, \A d \in Calls \ {c} : Same(d),
         \/ Same(c)
         \/ /\ StateOf(c) = "unsent" /\ StateOf(c)' = "open"
            /\ Told(c)' = Told(c)
         \/ /\ StateOf(c) = "unsent" /\ StateOf(c)' = "void"
            /\ Told(c)' = "unknown"
         \/ /\ StateOf(c) = "open" /\ StateOf(c)' = "stored"
            /\ Told(c)' = Told(c)
         \/ /\ StateOf(c) = "stored" /\ StateOf(c)' = "stored"
            /\ Told(c) = "nothing" /\ Told(c)' = "success"
         \/ /\ StateOf(c) = "open" /\ StateOf(c)' = "void"
            /\ Told(c) = "nothing" /\ Told(c)' = "refusal"
         \/ /\ StateOf(c) # "unsent"
            /\ StateOf(c)' = StateOf(c) \/ (StateOf(c) = "open" /\ StateOf(c)' = "void")
            /\ Told(c)' = Told(c) \/ (Told(c) = "nothing" /\ Told(c)' = "unknown")
  PROVE  Contract!Next \/ UNCHANGED Contract!vars
<1> DEFINE s == [d \in Calls |-> StateOf(d)]
           t == [d \in Calls |-> Told(d)]
<1>1. s' = [s EXCEPT ![c] = StateOf(c)'] /\ t' = [t EXCEPT ![c] = Told(c)']
  BY DEF Same
<1>2. t = [d \in Calls |-> ToldBy(answer[d])] /\ s[c] = StateOf(c) /\ t[c] = Told(c)
  BY DEF Told
<1>3. CASE Same(c)
  <2>1. s' = s /\ t' = t
    BY <1>3 DEF Same
  <2> QED
    BY <1>2, <2>1 DEF Contract!vars, Told
<1>4. CASE StateOf(c) = "unsent" /\ StateOf(c)' = "open" /\ Told(c)' = Told(c)
  <2>1. Contract!Submit(c)
    BY <1>1, <1>2, <1>4 DEF Contract!Submit, Told
  <2> QED
    BY <2>1 DEF Contract!Next
<1>5. CASE StateOf(c) = "unsent" /\ StateOf(c)' = "void" /\ Told(c)' = "unknown"
  <2>1. Contract!NotSent(c)
    BY <1>1, <1>2, <1>5 DEF Contract!NotSent, Told
  <2> QED
    BY <2>1 DEF Contract!Next
<1>6. CASE StateOf(c) = "open" /\ StateOf(c)' = "stored" /\ Told(c)' = Told(c)
  <2>1. Contract!Store(c)
    BY <1>1, <1>2, <1>6 DEF Contract!Store, Told
  <2> QED
    BY <2>1 DEF Contract!Next
<1>7. CASE /\ StateOf(c) = "stored" /\ StateOf(c)' = "stored"
           /\ Told(c) = "nothing" /\ Told(c)' = "success"
  <2>1. Contract!Confirm(c)
    BY <1>1, <1>2, <1>7 DEF Contract!Confirm, Told
  <2> QED
    BY <2>1 DEF Contract!Next
<1>8. CASE /\ StateOf(c) = "open" /\ StateOf(c)' = "void"
           /\ Told(c) = "nothing" /\ Told(c)' = "refusal"
  <2>1. Contract!Refuse(c)
    BY <1>1, <1>2, <1>8 DEF Contract!Refuse, Told
  <2> QED
    BY <2>1 DEF Contract!Next
<1>9. CASE /\ StateOf(c) # "unsent"
           /\ StateOf(c)' = StateOf(c) \/ (StateOf(c) = "open" /\ StateOf(c)' = "void")
           /\ Told(c)' = Told(c) \/ (Told(c) = "nothing" /\ Told(c)' = "unknown")
  <2> DEFINE S == IF StateOf(c)' = StateOf(c) THEN {} ELSE {c}
             T == IF Told(c)' = Told(c) THEN {} ELSE {c}
  <2>1. Contract!Lose(S, T)
    BY <1>1, <1>2, <1>9 DEF Contract!Lose, Told
  <2>2. S \in SUBSET Calls /\ T \in SUBSET Calls
    OBVIOUS
  <2> QED
    BY <2>1, <2>2 DEF Contract!Next
<1> QED
  BY <1>3, <1>4, <1>5, <1>6, <1>7, <1>8, <1>9

(* Every step of one capture leaves the others as they are.                *)
LEMMA OthersAreSame ==
  ASSUME Inductive, NEW c \in Calls, Send(c) \/ GiveUp(c) \/ ServiceStep(c)
  PROVE  \A d \in Calls \ {c} : Same(d)
<1>1. \A d \in Calls \ {c} :
        client'[d] = client[d] /\ answer'[d] = answer[d] /\ at'[d] = at[d]
  BY DEF Send, GiveUp, ServiceStep, ValidateApiKey, RecordMetrics, Unreachable, Route,
         RequireAPIKey, Limit, Forward, BadGateway, Guard, CanActivate, Validate, Detect,
         Insert, Announce, PublishMessageCaptured, Created, Respond, Receive, Goto,
         Inductive, TypeOK
<1>2. \A d \in Calls \ {c} : d \in rows' <=> d \in rows
  BY DEF Send, GiveUp, ServiceStep, ValidateApiKey, RecordMetrics, Unreachable, Route,
         RequireAPIKey, Limit, Forward, BadGateway, Guard, CanActivate, Validate, Detect,
         Insert, Announce, PublishMessageCaptured, Created
<1> QED
  BY <1>1, <1>2 DEF Same, StateOf, Told

(* A client that still waits has heard nothing.                            *)
LEMMA WaitingHeardNothing ==
  ASSUME Inductive, NEW c \in Calls
  PROVE  /\ client[c] = "waiting" => Told(c) = "nothing"
         /\ StateOf(c) = "unsent" <=> client[c] = "ready"
         /\ at[c] \in {"announce", "publish", "respond"} => StateOf(c) = "stored"
         /\ at[c] \notin PastInsert => StateOf(c) = "open"
<1>1. Consistent(c) /\ client[c] \in {"ready", "waiting", "done"}
  BY DEF Inductive, CallFits, TypeOK
<1> QED
  BY <1>1 DEF Consistent, Stored, StateOf, PastInsert, Told, ToldBy

(* A step of a service before the insert that is not the last one.         *)
LEMMA OnTheWay ==
  ASSUME Inductive, NEW c \in Calls, at[c] \notin PastInsert, at'[c] \notin PastInsert,
         UNCHANGED <<client, answer>>
  PROVE  Same(c)
BY DEF Same, StateOf, Told

(* A step that ends a request that stored nothing.                         *)
LEMMA EndsUnstored ==
  ASSUME Inductive, NEW c \in Calls,
         NEW status \in {"400", "401", "429", "500", "502"},
         Respond(c, status), at[c] \notin PastInsert, rows' = rows
  PROVE  /\ StateOf(c) = "open" /\ StateOf(c)' = "void"
         /\ \/ Told(c)' = Told(c)
            \/ Told(c) = "nothing" /\ Told(c)' \in {"refusal", "unknown"}
<1>1. /\ at'[c] = "none" /\ client[c] # "ready" /\ c \notin rows
      /\ IF client[c] = "waiting"
         THEN client'[c] = "done" /\ answer'[c] = status
         ELSE client'[c] = client[c] /\ answer'[c] = answer[c]
  BY DEF Inductive, TypeOK, CallFits, Consistent, Stored, PastInsert, Respond, Receive, Goto
<1>2. StateOf(c) = "open" /\ (client[c] = "waiting" => Told(c) = "nothing")
  BY WaitingHeardNothing
<1>3. StateOf(c)' = "void"
  BY <1>1 DEF StateOf, PastInsert
<1>4. client[c] # "waiting" => Told(c)' = Told(c)
  BY <1>1 DEF Told
<1>5. client[c] = "waiting" => Told(c)' \in {"refusal", "unknown"}
  BY <1>1 DEF Told, ToldBy
<1> QED
  BY <1>2, <1>3, <1>4, <1>5

LEMMA CallMeetsContract ==
  ASSUME Inductive, NEW c \in Calls, Send(c) \/ GiveUp(c) \/ ServiceStep(c)
  PROVE  Contract!Next \/ UNCHANGED Contract!vars
<1>0. \A d \in Calls \ {c} : Same(d)
  BY OthersAreSame
<1>1. /\ at[c] \in AllSteps /\ client[c] \in {"ready", "waiting", "done"}
      /\ Consistent(c) /\ c \in DOMAIN at /\ c \in DOMAIN client /\ c \in DOMAIN answer
  BY DEF Inductive, TypeOK, CallFits, AllSteps
<1>2. CASE Send(c)
  <2>1. /\ StateOf(c) = "unsent" /\ at[c] = "none" /\ rows' = rows
        /\ c \notin rows /\ answer[c] = "none"
    BY <1>1, <1>2, WaitingHeardNothing DEF Send, Consistent
  <2>2. \/ client'[c] = "done" /\ answer'[c] = "lost" /\ at'[c] = "none"
        \/ answer'[c] = answer[c] /\ at'[c] \in {"guard", "entry"}
    BY <1>1, <1>2, <2>1 DEF Send, Goto
  <2>3. CASE client'[c] = "done" /\ answer'[c] = "lost" /\ at'[c] = "none"
    <3>1. StateOf(c)' = "void" /\ Told(c)' = "unknown"
      BY <2>1, <2>3 DEF StateOf, PastInsert, Told, ToldBy
    <3> QED
      BY <1>0, <2>1, <3>1, OneAttempt
  <2>4. CASE answer'[c] = answer[c] /\ at'[c] \in {"guard", "entry"}
    <3>1. StateOf(c)' = "open" /\ Told(c)' = Told(c)
      BY <2>4 DEF StateOf, PastInsert, Told
    <3> QED
      BY <1>0, <2>1, <3>1, OneAttempt
  <2> QED
    BY <2>2, <2>3, <2>4
<1>3. CASE GiveUp(c)
  <2>1. /\ client[c] = "waiting" /\ client'[c] = "done" /\ answer'[c] = "timeout"
        /\ at' = at /\ rows' = rows
    BY <1>1, <1>3 DEF GiveUp, Receive
  <2>2. StateOf(c)' = StateOf(c) /\ StateOf(c) # "unsent"
    BY <2>1, WaitingHeardNothing DEF StateOf
  <2>3. Told(c) = "nothing" /\ Told(c)' = "unknown"
    BY <2>1, WaitingHeardNothing DEF Told, ToldBy
  <2> QED
    BY <1>0, <2>2, <2>3, OneAttempt
<1>4. CASE \/ ValidateApiKey(c) \/ RecordMetrics(c) \/ Unreachable(c)
           \/ Route(c) \/ Guard(c) \/ Detect(c)
  <2>1. /\ at[c] \notin PastInsert /\ at'[c] \notin PastInsert
        /\ UNCHANGED <<client, answer>>
    BY <1>1, <1>4
       DEF ValidateApiKey, RecordMetrics, Unreachable, Route, Guard, Detect, Goto,
           Lookups, Records, PastInsert
  <2> QED
    BY <1>0, <2>1, OnTheWay, OneAttempt
<1>5. CASE RequireAPIKey(c) \/ Limit(c) \/ Forward(c) \/ CanActivate(c) \/ Validate(c)
  <2>1. at[c] \notin PastInsert /\ rows' = rows
    BY <1>5 DEF RequireAPIKey, Limit, Forward, CanActivate, Validate, PastInsert
  <2>2. \/ at'[c] \notin PastInsert /\ UNCHANGED <<client, answer>>
        \/ \E status \in {"400", "401", "429", "500", "502"} : Respond(c, status)
    BY <1>1, <1>5 DEF RequireAPIKey, Limit, Forward, CanActivate, Validate, Goto, PastInsert
  <2>3. CASE at'[c] \notin PastInsert /\ UNCHANGED <<client, answer>>
    BY <1>0, <2>1, <2>3, OnTheWay, OneAttempt
  <2>4. CASE \E status \in {"400", "401", "429", "500", "502"} : Respond(c, status)
    BY <1>0, <2>1, <2>4, EndsUnstored, OneAttempt
  <2> QED
    BY <2>2, <2>3, <2>4
<1>6. CASE BadGateway(c)
  <2>1. /\ at[c] = "broken" /\ at'[c] = "none" /\ rows' = rows /\ client[c] # "ready"
        /\ IF client[c] = "waiting"
           THEN client'[c] = "done" /\ answer'[c] = "502"
           ELSE client'[c] = client[c] /\ answer'[c] = answer[c]
    BY <1>1, <1>6 DEF BadGateway, Respond, Receive, Goto, Consistent
  <2>2. StateOf(c)' = StateOf(c) /\ StateOf(c) # "unsent"
    BY <2>1 DEF StateOf, PastInsert
  <2>3. Told(c)' = Told(c) \/ (Told(c) = "nothing" /\ Told(c)' = "unknown")
    BY <2>1, WaitingHeardNothing DEF Told, ToldBy
  <2> QED
    BY <1>0, <2>2, <2>3, OneAttempt
<1>7. CASE Insert(c)
  <2>1. at[c] = "insert" /\ StateOf(c) = "open"
    BY <1>7, WaitingHeardNothing DEF Insert, PastInsert
  <2>2. CASE health["db"] = "up" /\ FitsColumns(c)
    <3>1. at'[c] = "announce" /\ c \in rows' /\ UNCHANGED <<client, answer>>
      BY <1>1, <1>7, <2>2 DEF Insert, Goto
    <3>2. StateOf(c)' = "stored" /\ Told(c)' = Told(c)
      BY <3>1 DEF StateOf, PastInsert, Told
    <3> QED
      BY <1>0, <2>1, <3>2, OneAttempt
  <2>3. CASE health["db"] # "up" \/ ~FitsColumns(c)
    <3>1. Respond(c, "500") /\ rows' = rows /\ at[c] \notin PastInsert
      BY <1>7, <2>1, <2>3 DEF Insert, PastInsert
    <3> QED
      BY <1>0, <3>1, EndsUnstored, OneAttempt
  <2> QED
    BY <2>2, <2>3
<1>8. CASE Announce(c) \/ PublishMessageCaptured(c)
  <2>1. /\ at[c] \in {"announce", "publish"} /\ at'[c] \in {"publish", "respond"}
        /\ UNCHANGED <<client, answer, rows>>
    BY <1>1, <1>8 DEF Announce, PublishMessageCaptured, Goto
  <2>2. Same(c)
    BY <2>1 DEF Same, StateOf, PastInsert, Told
  <2> QED
    BY <1>0, <2>2, OneAttempt
<1>9. CASE Created(c)
  <2>1. /\ at[c] = "respond" /\ at'[c] = "none" /\ rows' = rows /\ c \in rows
        /\ IF client[c] = "waiting"
           THEN client'[c] = "done" /\ answer'[c] = "2xx"
           ELSE client'[c] = client[c] /\ answer'[c] = answer[c]
    BY <1>1, <1>9 DEF Created, Respond, Receive, Goto, Consistent, Stored
  <2>2. StateOf(c) = "stored" /\ StateOf(c)' = "stored"
    BY <2>1 DEF StateOf, PastInsert
  <2>3. Told(c)' = Told(c) \/ (Told(c) = "nothing" /\ Told(c)' = "success")
    BY <2>1, WaitingHeardNothing DEF Told, ToldBy
  <2> QED
    BY <1>0, <2>2, <2>3, OneAttempt DEF Same
<1> QED
  BY <1>2, <1>3, <1>4, <1>5, <1>6, <1>7, <1>8, <1>9 DEF ServiceStep

(* A service that goes down ends what it had in hand and what it was       *)
(* answering; what is stored stays.                                        *)
LEMMA StopMeetsContract ==
  ASSUME Inductive, NEW s \in Services, Stop(s)
  PROVE  Contract!Next \/ UNCHANGED Contract!vars
<1> DEFINE S == {c \in Calls : at[c] \notin PastInsert /\ at'[c] \in PastInsert}
           T == {c \in Calls : Broken(c, s)}
<1>1. rows' = rows /\ \A c \in Calls :
        /\ at'[c] = StepAfter(c, s)
        /\ client'[c] = IF Broken(c, s) THEN "done" ELSE client[c]
        /\ answer'[c] = IF Broken(c, s) THEN "lost" ELSE answer[c]
  BY DEF Stop
<1>2. ASSUME NEW c \in Calls
      PROVE  /\ StateOf(c)' = IF c \in S THEN "void" ELSE StateOf(c)
             /\ Told(c)' = IF c \in T THEN "unknown" ELSE Told(c)
             /\ c \in S => StateOf(c) = "open"
             /\ c \in T => Told(c) = "nothing" /\ StateOf(c) # "unsent"
  <2>1. Consistent(c) /\ at[c] \in AllSteps
    BY DEF Inductive, CallFits, TypeOK, AllSteps
  <2>2. /\ at[c] \in PastInsert => at'[c] \in {at[c], "none", "broken"}
        /\ at[c] \notin PastInsert => at'[c] \notin PastInsert \/ at'[c] \in {"none", "broken"}
        /\ at[c] = "none" => at'[c] = "none"
    BY <1>1, <2>1 DEF StepAfter, PastInsert, AllSteps, GatewaySteps, SmsSteps
  <2>3. /\ c \in T => Told(c) = "nothing" /\ StateOf(c) # "unsent"
        /\ c \in S => StateOf(c) = "open"
    BY WaitingHeardNothing DEF Broken
  <2>4. Told(c)' = IF c \in T THEN "unknown" ELSE Told(c)
    BY <1>1 DEF Told, ToldBy
  <2>5. client[c] = "ready" <=> client'[c] = "ready"
    BY <1>1 DEF Broken
  <2>6. CASE at[c] \in PastInsert
    <3>1. StateOf(c)' = StateOf(c)
      BY <1>1, <2>2, <2>5, <2>6 DEF StateOf, PastInsert
    <3> QED
      BY <2>3, <2>4, <2>6, <3>1
  <2>7. CASE at[c] \notin PastInsert /\ at'[c] \notin PastInsert
    <3>1. StateOf(c)' = StateOf(c)
      BY <2>7 DEF StateOf
    <3> QED
      BY <2>3, <2>4, <2>7, <3>1
  <2>8. CASE at[c] \notin PastInsert /\ at'[c] \in PastInsert
    <3>1. c \notin rows' /\ client'[c] # "ready"
      BY <1>1, <2>1, <2>5, <2>8 DEF Consistent, Stored, PastInsert
    <3> QED
      BY <2>3, <2>4, <2>8, <3>1 DEF StateOf
  <2> QED
    BY <2>3, <2>4, <2>6, <2>7, <2>8
<1>3. Contract!Lose(S, T)
  BY <1>2 DEF Contract!Lose, Told
<1>4. S \in SUBSET Calls /\ T \in SUBSET Calls
  OBVIOUS
<1> QED
  BY <1>3, <1>4 DEF Contract!Next

(* Every behaviour of the services is one the contract allows: an attempt  *)
(* is stored once at most, a client hears of a success only if it is, of a *)
(* refusal only if it never will be, and no failure of a service, and no   *)
(* answer that comes late or not at all, takes any of that back            *)
(* (gateway/internal/proxy/proxy.go:45, messages.service.ts:59).           *)
THEOREM PipelineKeepsContract == Spec => ImplementsContract
<1>1. Inductive /\ [Next]_vars => [Contract!Next]_(Contract!vars)
  <2> SUFFICES ASSUME Inductive, [Next]_vars
               PROVE  Contract!Next \/ UNCHANGED Contract!vars
    OBVIOUS
  <2>1. ASSUME NEW c \in Calls, Send(c) \/ GiveUp(c) \/ ServiceStep(c)
        PROVE  Contract!Next \/ UNCHANGED Contract!vars
    BY <2>1, CallMeetsContract
  <2>2. ASSUME NEW s \in Services, Stop(s)
        PROVE  Contract!Next \/ UNCHANGED Contract!vars
    BY <2>2, StopMeetsContract
  <2>3. CASE \/ UNCHANGED vars \/ Revoke
             \/ \E s \in Services : Hang(s) \/ Recover(s)
    <3>1. UNCHANGED <<client, answer, at, rows>>
      BY <2>3 DEF vars, Revoke, Hang, Recover
    <3>2. \A c \in Calls : Same(c)
      BY <3>1 DEF Same, StateOf, Told
    <3> QED
      BY <3>2 DEF Same, Told, Contract!vars
  <2> QED
    BY <2>1, <2>2, <2>3 DEF Next
<1> QED
  BY <1>1, InitMeetsContract, Invariance, PTL
     DEF Spec, ImplementsContract, Contract!Spec

=============================================================================
