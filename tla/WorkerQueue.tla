---------------------------- MODULE WorkerQueue -----------------------------
(***************************************************************************)
(* The Redis Streams job queue: sms-service replicas publish one entry per *)
(* captured message (sms-service/src/queue/queue-publisher.ts), worker     *)
(* replicas read them as one consumer group, classify each and acknowledge *)
(* it (worker/internal/consumer/consumer.go).                              *)
(*                                                                         *)
(* A capture is named by its number, 1, 2, ...; the stream entry it leads  *)
(* to, if any, has the same name, so entries are ordered as Redis orders   *)
(* their ids.  Redis is external: its stream, group, last-delivered id and *)
(* pending entries list are modelled from the commands the code sends.     *)
(***************************************************************************)
EXTENDS Naturals, FiniteSets

CONSTANTS
  Workers,       \* worker replicas
  Publishers,    \* sms-service replicas, each with its own Redis connection
  Count,         \* the most entries one XREADGROUP returns (10 in the code)
  MaxCaptures,   \* bound: messages captured in a behaviour
  MaxFaults      \* bound: outages, losses, signals and crashes

ASSUME CountAssumption == Count \in Nat \ {0}
ASSUME MaxAssumption == MaxCaptures \in Nat /\ MaxFaults \in Nat

VARIABLES
  \* Redis
  redis,         \* "up" when Redis can be reached, or "down"
  stream,        \* entries in the stream; it is never trimmed
  group,         \* "made" when the consumer group exists, or "missing"
  cursor,        \* the group's last-delivered id
  pel,           \* the group's pending entries: delivered, not acknowledged
  \* sms-service
  publisher,     \* ioredis connection: "wait" (lazy), "ready", or "end"
  captured,      \* captures so far
  \* worker processes
  pc,            \* where the consumer loop is
  batch,         \* entries of the last XREADGROUP not yet acknowledged
  cancelled,     \* workers whose context SIGTERM cancelled
  succeeded,     \* MessagesProcessedTotal{result="success"}, by entry
  failed,        \* MessagesProcessedTotal{result="error"}, by entry
  \* history
  given,         \* given[w]: every entry Redis ever returned to w
  acked,         \* entries that were acknowledged while pending
  skipped,       \* entries up to this one precede the consumer group
  lost,          \* entries up to this one were in a stream Redis lost
  faults

redisVars == <<redis, stream, group, cursor, pel>>
workerVars == <<pc, batch, cancelled, succeeded, failed>>
history == <<given, acked, skipped, lost>>
vars == <<redisVars, publisher, captured, workerVars, history, faults>>

Entries == 1..MaxCaptures

RedisUp == redis = "up"
GroupExists == group = "made"

Undelivered == IF GroupExists THEN {e \in stream : e > cursor} ELSE {}

(* XREADGROUP ">" COUNT n: the n oldest entries never delivered to the     *)
(* group.                                                                  *)
NextBatch ==
  {e \in Undelivered : Cardinality({f \in Undelivered : f <= e}) <= Count}

IsLast(last, S) == last \in S /\ \A e \in S : e <= last
IsFirst(first, S) == first \in S /\ \A e \in S : first <= e

Init ==
  /\ redis \in {"up", "down"}
  /\ stream = {}
  /\ group = "missing"
  /\ cursor = 0
  /\ pel = {}
  /\ publisher = [p \in Publishers |-> "wait"]
  /\ captured = 0
  /\ pc = [w \in Workers |-> "starting"]
  /\ batch = [w \in Workers |-> {}]
  /\ cancelled = {}
  /\ succeeded = [e \in Entries |-> 0]
  /\ failed = [e \in Entries |-> 0]
  /\ given = [w \in Workers |-> {}]
  /\ acked = {}
  /\ skipped = 0
  /\ lost = 0
  /\ faults = 0

-----------------------------------------------------------------------------
(* sms-service                                                             *)

Reaches(p) == RedisUp /\ publisher[p] # "end"

(* publishMessageCaptured: the first command opens the lazy connection; a  *)
(* connection that ended is never reopened, and an XADD that fails is      *)
(* caught and logged.                                                      *)
PublishMessageCaptured(p) ==
  /\ captured < MaxCaptures
  /\ captured' = captured + 1
  /\ IF Reaches(p)
     THEN /\ stream' = stream \cup {captured + 1}
          /\ publisher' = [publisher EXCEPT ![p] = "ready"]
     ELSE /\ publisher' = [publisher EXCEPT ![p] = "end"]
          /\ UNCHANGED stream
  /\ UNCHANGED <<redis, group, cursor, pel, workerVars, history, faults>>

(* A new sms-service process has a new, lazy connection.                   *)
RestartPublisher(p) ==
  /\ publisher[p] # "wait"
  /\ faults < MaxFaults
  /\ faults' = faults + 1
  /\ publisher' = [publisher EXCEPT ![p] = "wait"]
  /\ UNCHANGED <<redisVars, captured, workerVars, history>>

-----------------------------------------------------------------------------
(* Redis                                                                   *)

(* Variant: ioredis's default retryStrategy, which reconnects.             *)
RedisStopsReconnecting ==
  /\ RedisUp
  /\ faults < MaxFaults
  /\ faults' = faults + 1
  /\ redis' = "down"
  /\ publisher' = [p \in Publishers |->
                     IF publisher[p] = "ready" THEN "reconnecting" ELSE publisher[p]]
  /\ UNCHANGED <<stream, group, cursor, pel, captured, workerVars, history>>

(* Every open publisher connection ends: its retryStrategy returns null.   *)
RedisStops ==
  /\ RedisUp
  /\ faults < MaxFaults
  /\ faults' = faults + 1
  /\ redis' = "down"
  /\ publisher' = [p \in Publishers |->
                     IF publisher[p] = "ready" THEN "end" ELSE publisher[p]]
  /\ UNCHANGED <<stream, group, cursor, pel, captured, workerVars, history>>

(* Redis comes back, with its data or, when the pod was replaced (no       *)
(* volume is mounted), without the stream and its group.                   *)
RedisStarts ==
  /\ ~RedisUp
  /\ redis' = "up"
  /\ \/ UNCHANGED <<stream, group, cursor, pel, skipped, lost>>
     \/ /\ stream' = {} /\ group' = "missing" /\ cursor' = 0 /\ pel' = {}
        /\ skipped' = captured
        /\ lost' = captured
  /\ UNCHANGED <<publisher, captured, workerVars, given, acked, faults>>

-----------------------------------------------------------------------------
(* worker                                                                  *)

Goto(w, there) == pc' = [pc EXCEPT ![w] = there]

(* Run's first statement.  It is not repeated: on an error the loop starts *)
(* all the same.  "$" makes the group begin after the stream's last entry. *)
EnsureGroup(w) ==
  /\ pc[w] = "starting"
  /\ Goto(w, "loop")
  /\ IF RedisUp /\ w \notin cancelled /\ ~GroupExists
     THEN /\ group' = "made"
          /\ \E last \in stream \cup {0} :
               /\ IsLast(last, stream \cup {0})
               /\ cursor' = last
          /\ skipped' = captured
     ELSE UNCHANGED <<group, cursor, skipped>>
  /\ UNCHANGED <<redis, stream, pel, publisher, captured, batch, cancelled,
                 succeeded, failed, given, acked, lost, faults>>

Loop(w) ==
  /\ pc[w] = "loop"
  /\ Goto(w, IF w \in cancelled THEN "stopped" ELSE "reading")
  /\ UNCHANGED <<redisVars, publisher, captured, batch, cancelled, succeeded,
                 failed, history, faults>>

(* Variant: no consumer group, so every reader starts where it likes.      *)
DeliverToAll ==
  /\ RedisUp
  /\ Undelivered # {}
  /\ pel' = pel \cup NextBatch
  /\ UNCHANGED cursor

(* Redis hands out the next batch of the group.                            *)
Deliver ==
  /\ RedisUp
  /\ Undelivered # {}
  /\ \E last \in NextBatch : IsLast(last, NextBatch) /\ cursor' = last
  /\ pel' = pel \cup NextBatch

(* A blocking read that was already sent also returns after SIGTERM.       *)
ReadEntries(w) ==
  /\ pc[w] = "reading"
  /\ Deliver
  /\ batch' = [batch EXCEPT ![w] = NextBatch]
  /\ given' = [given EXCEPT ![w] = @ \cup NextBatch]
  /\ Goto(w, "classifying")
  /\ UNCHANGED <<redis, stream, group, publisher, captured, cancelled,
                 succeeded, failed, acked, skipped, lost, faults>>

(* Block elapsed: redis.Nil.                                               *)
ReadNothing(w) ==
  /\ pc[w] = "reading"
  /\ RedisUp /\ GroupExists /\ Undelivered = {}
  /\ Goto(w, "loop")
  /\ UNCHANGED <<redisVars, publisher, captured, batch, cancelled, succeeded,
                 failed, history, faults>>

(* Variant: a failed read ends the consumer.                               *)
ReadFailsForGood(w) ==
  /\ pc[w] = "reading"
  /\ ~RedisUp \/ ~GroupExists \/ w \in cancelled
  /\ Goto(w, IF w \in cancelled THEN "loop" ELSE "returned")
  /\ UNCHANGED <<redisVars, publisher, captured, batch, cancelled, succeeded,
                 failed, history, faults>>

(* A refused connection, NOGROUP, or a context cancelled before the read.  *)
ReadFails(w) ==
  /\ pc[w] = "reading"
  /\ ~RedisUp \/ ~GroupExists \/ w \in cancelled
  /\ Goto(w, IF w \in cancelled THEN "loop" ELSE "sleeping")
  /\ UNCHANGED <<redisVars, publisher, captured, batch, cancelled, succeeded,
                 failed, history, faults>>

(* Redis served the read but the connection broke before the reply came.   *)
ReadReplyLost(w) ==
  /\ pc[w] = "reading"
  /\ faults < MaxFaults
  /\ faults' = faults + 1
  /\ Deliver
  /\ Goto(w, IF w \in cancelled THEN "loop" ELSE "sleeping")
  /\ UNCHANGED <<redis, stream, group, publisher, captured, batch, cancelled,
                 succeeded, failed, history>>

Wake(w) ==
  /\ pc[w] = "sleeping"
  /\ Goto(w, "loop")
  /\ UNCHANGED <<redisVars, publisher, captured, batch, cancelled, succeeded,
                 failed, history, faults>>

(* process: one classification, which the cancelled context fails at once; *)
(* its result is only counted.                                             *)
Process(w) ==
  /\ pc[w] = "classifying"
  /\ \E e \in batch[w] :
       /\ IsFirst(e, batch[w])
       /\ \/ /\ w \notin cancelled
             /\ succeeded' = [succeeded EXCEPT ![e] = @ + 1]
             /\ UNCHANGED failed
          \/ /\ failed' = [failed EXCEPT ![e] = @ + 1]
             /\ UNCHANGED succeeded
  /\ Goto(w, "acking")
  /\ UNCHANGED <<redisVars, publisher, captured, batch, cancelled, history,
                 faults>>

(* Variants: acknowledge the whole batch with its first entry; and classify*)
(* an entry again when it could not be acknowledged.                       *)
AckBatch(w) ==
  /\ pc[w] = "acking"
  /\ \E e \in batch[w] :
       /\ IsFirst(e, batch[w])
       /\ batch' = [batch EXCEPT ![w] = @ \ {e}]
       /\ Goto(w, IF batch[w] = {e} THEN "loop" ELSE "classifying")
       /\ IF RedisUp /\ w \notin cancelled
          THEN /\ pel' = pel \ batch[w]
               /\ acked' = acked \cup (pel \cap batch[w])
          ELSE UNCHANGED <<pel, acked>>
  /\ UNCHANGED <<redis, stream, group, cursor, publisher, captured, cancelled,
                 succeeded, failed, given, skipped, lost, faults>>

AckOrRetry(w) ==
  /\ pc[w] = "acking"
  /\ \E e \in batch[w] :
       /\ IsFirst(e, batch[w])
       /\ IF RedisUp /\ w \notin cancelled
          THEN /\ batch' = [batch EXCEPT ![w] = @ \ {e}]
               /\ Goto(w, IF batch[w] = {e} THEN "loop" ELSE "classifying")
               /\ pel' = pel \ {e}
               /\ acked' = acked \cup (pel \cap {e})
          ELSE /\ Goto(w, "classifying")
               /\ UNCHANGED <<batch, pel, acked>>
  /\ UNCHANGED <<redis, stream, group, cursor, publisher, captured, cancelled,
                 succeeded, failed, given, skipped, lost, faults>>

(* XACK, whatever process did; its error is ignored, and it is not sent    *)
(* under a cancelled context.  Then the batch's next entry, or a new read. *)
Ack(w) ==
  /\ pc[w] = "acking"
  /\ \E e \in batch[w] :
       /\ IsFirst(e, batch[w])
       /\ batch' = [batch EXCEPT ![w] = @ \ {e}]
       /\ Goto(w, IF batch[w] = {e} THEN "loop" ELSE "classifying")
       /\ IF RedisUp /\ w \notin cancelled
          THEN /\ pel' = pel \ {e}
               /\ acked' = acked \cup (pel \cap {e})
          ELSE UNCHANGED <<pel, acked>>
  /\ UNCHANGED <<redis, stream, group, cursor, publisher, captured, cancelled,
                 succeeded, failed, given, skipped, lost, faults>>

Sigterm(w) ==
  /\ pc[w] # "stopped" /\ w \notin cancelled
  /\ faults < MaxFaults
  /\ faults' = faults + 1
  /\ cancelled' = cancelled \cup {w}
  /\ UNCHANGED <<redisVars, publisher, captured, pc, batch, succeeded, failed,
                 history>>

Crash(w) ==
  /\ pc[w] # "stopped"
  /\ faults < MaxFaults
  /\ faults' = faults + 1
  /\ Goto(w, "stopped")
  /\ batch' = [batch EXCEPT ![w] = {}]
  /\ UNCHANGED <<redisVars, publisher, captured, cancelled, succeeded, failed,
                 history>>

(* Variant: a new worker takes the pending entries over at once (XAUTOCLAIM*)
(* without an idle time).                                                  *)
StartClaiming(w) ==
  /\ pc[w] = "stopped"
  /\ Goto(w, IF pel = {} THEN "starting" ELSE "classifying")
  /\ batch' = [batch EXCEPT ![w] = pel]
  /\ cancelled' = cancelled \ {w}
  /\ UNCHANGED <<redisVars, publisher, captured, succeeded, failed, history,
                 faults>>

(* The deployment replaces a stopped worker; entries its predecessor left  *)
(* pending are not read again, since only ">" is ever asked for.           *)
Start(w) ==
  /\ pc[w] = "stopped"
  /\ Goto(w, "starting")
  /\ cancelled' = cancelled \ {w}
  /\ UNCHANGED <<redisVars, publisher, captured, batch, succeeded, failed,
                 history, faults>>

-----------------------------------------------------------------------------

WorkerStep(w) ==
  \/ EnsureGroup(w) \/ Loop(w) \/ ReadEntries(w) \/ ReadNothing(w)
  \/ ReadFails(w) \/ Wake(w) \/ Process(w) \/ Ack(w) \/ Start(w)

Next ==
  \/ \E p \in Publishers : PublishMessageCaptured(p) \/ RestartPublisher(p)
  \/ RedisStops \/ RedisStarts
  \/ \E w \in Workers :
       WorkerStep(w) \/ ReadReplyLost(w) \/ Sigterm(w) \/ Crash(w)

Spec == Init /\ [][Next]_vars

(* A worker process runs and is restarted; a Redis outage ends.  Nothing   *)
(* obliges anyone to send messages, nor any fault to happen.               *)
Fairness ==
  /\ WF_vars(RedisStarts)
  /\ \A w \in Workers : WF_vars(WorkerStep(w))

FairSpec == Spec /\ Fairness

-----------------------------------------------------------------------------
(* Properties                                                              *)

TypeOK ==
  /\ redis \in {"up", "down"}
  /\ stream \in SUBSET Entries
  /\ group \in {"missing", "made"}
  /\ cursor \in 0..MaxCaptures
  /\ pel \in SUBSET Entries
  /\ publisher \in [Publishers -> {"wait", "ready", "end"}]
  /\ captured \in 0..MaxCaptures
  /\ pc \in [Workers -> {"starting", "loop", "reading", "sleeping",
                         "classifying", "acking", "stopped"}]
  /\ batch \in [Workers -> SUBSET Entries]
  /\ cancelled \in SUBSET Workers
  /\ succeeded \in [Entries -> Nat]
  /\ failed \in [Entries -> Nat]
  /\ given \in [Workers -> SUBSET Entries]
  /\ acked \in SUBSET Entries
  /\ skipped \in 0..MaxCaptures
  /\ lost \in 0..MaxCaptures
  /\ faults \in 0..MaxFaults

Attempts(e) == succeeded[e] + failed[e]

(* Replicas share the stream: whatever crashes, restarts and outages       *)
(* happen, no entry is ever returned to two workers (consumer.go:63-69,    *)
(* promised at docs/production-deployment.md:38).                          *)
DistinctShares ==
  \A w1, w2 \in Workers : w1 # w2 => given[w1] \cap given[w2] = {}

(* MessagesProcessedTotal counts an entry once at most, as a success or as *)
(* an error and never as both: no restart or retry repeats one.            *)
CountedOnce == \A e \in Entries : Attempts(e) <= 1

(* An entry leaves the pending list by an XACK only after process counted  *)
(* it, so a crash before that leaves it visible to XPENDING.               *)
AckedAfterProcessing == \A e \in acked : Attempts(e) > 0

(* While a worker still has an entry in hand, Redis lists it as pending,   *)
(* unless Redis lost the stream meanwhile.                                 *)
InHandIsPending ==
  \A w \in Workers : \A e \in batch[w] : e > lost => e \in pel

(* Redis's books balance: of the entries published since the group was     *)
(* made, those up to the cursor are pending or acknowledged, not both, and *)
(* those after it are neither.                                             *)
BooksBalance ==
  /\ pel \cap acked = {}
  /\ GroupExists =>
       {e \in stream : skipped < e /\ e <= cursor}
         = {e \in pel \cup acked : lost < e}

(* Every entry is accounted for through crashes, outages, lost replies and *)
(* SIGTERM: in hand, it is pending; acknowledged, it was attempted; and    *)
(* what the group handed out is one or the other (consumer.go:62-84).      *)
EntriesAccountedFor == AckedAfterProcessing /\ InHandIsPending /\ BooksBalance

(* Nothing published to a live group waits for ever, even when workers     *)
(* crash, are told to stop and Redis goes away now and then.               *)
WaitingIsHandedOut ==
  \A e \in Entries : e \in Undelivered ~> e \notin Undelivered

(* The queue implements JobQueue.                                          *)
ToAttempt(w) == {e \in batch[w] : Attempts(e) = 0}
Attempted == {e \in Entries : Attempts(e) > 0}
NeverAttempted ==
  (1..captured) \ (Undelivered \cup Attempted
                     \cup UNION {ToAttempt(w) : w \in Workers})

Abstract == INSTANCE JobQueue WITH
  Jobs <- Entries,
  waiting <- Undelivered,
  held <- [w \in Workers |-> ToAttempt(w)],
  finished <- Attempted,
  gone <- NeverAttempted

ImplementsJobQueue == Abstract!Spec

-----------------------------------------------------------------------------
(* The inductive invariant behind the safety properties; WorkerQueueProofs *)
(* proves it.                                                              *)

(* What was handed out is behind the cursor, or in a stream Redis lost.    *)
Behind(e) == e <= lost \/ (GroupExists /\ e <= cursor)

MarksInOrder ==
  /\ lost <= captured /\ skipped <= captured /\ cursor <= captured
  /\ \A e \in stream : lost < e /\ e <= captured
  /\ GroupExists => \A e \in stream : cursor < e => skipped < e

GivenIsBehind ==
  \A w \in Workers : batch[w] \subseteq given[w] /\ \A e \in given[w] : Behind(e)

PendingIsBehind ==
  /\ ~GroupExists => pel = {} /\ \A e \in acked : e <= lost
  /\ \A e \in pel : lost < e /\ e <= cursor
  /\ \A e \in acked : Behind(e)

(* Only the entry whose acknowledgement is due was attempted already.      *)
AttemptsInOrder ==
  /\ \A e \in Entries : Attempts(e) > 0 => \E w \in Workers : e \in given[w]
  /\ \A w \in Workers : \A e \in batch[w] :
       Attempts(e) = IF pc[w] = "acking" /\ IsFirst(e, batch[w]) THEN 1 ELSE 0

Busy(w) == pc[w] \in {"classifying", "acking"}

IdleHoldsNothing == \A w \in Workers : ~Busy(w) => batch[w] = {}

Inductive ==
  /\ TypeOK /\ IdleHoldsNothing
  /\ MarksInOrder /\ GivenIsBehind /\ PendingIsBehind /\ AttemptsInOrder
  /\ DistinctShares /\ CountedOnce /\ AckedAfterProcessing
  /\ InHandIsPending /\ BooksBalance

-----------------------------------------------------------------------------
(* What the documentation says and the code does not do.                   *)

(* docs/troubleshooting.md:49 and consumer.go:45: a worker whose group     *)
(* could not be created keeps retrying, so once Redis stays up there is a  *)
(* group.                                                                  *)
GroupCreationIsRetried == <>[]RedisUp => <>GroupExists

(* docs/worker.md:18: on SIGTERM in-flight work finishes.  An entry in     *)
(* hand when the signal came leaves the worker acknowledged, given that    *)
(* the process is not killed, Redis answers and still has the entry.       *)
InFlightWorkFinishes ==
  [][\A w \in Workers : \A e \in batch[w] \ batch'[w] :
       RedisUp /\ pc'[w] # "stopped" /\ e > lost => e \in acked']_vars

(* docs/architecture.md:42: a capture publishes a job to Redis Streams;    *)
(* docs/redis.md:15 excepts only a Redis outage.                           *)
QueuedWhenRedisIsUp ==
  [][captured' # captured /\ RedisUp => captured' \in stream']_vars

=============================================================================
