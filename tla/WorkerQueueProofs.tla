-------------------------- MODULE WorkerQueueProofs -------------------------
(***************************************************************************)
(* Proofs about WorkerQueue, for any number of workers and publishers, any *)
(* batch size and any bound on captures and faults.                        *)
(***************************************************************************)
EXTENDS WorkerQueue, FiniteSetTheorems, TLAPS

USE DEF Entries, RedisUp, GroupExists

-----------------------------------------------------------------------------
(* Type correctness                                                        *)

LEMMA NextBatchIsUndelivered ==
  /\ NextBatch \subseteq Undelivered
  /\ Undelivered \subseteq stream
  /\ \A e \in Undelivered : GroupExists /\ e > cursor
BY DEF NextBatch, Undelivered

LEMMA InitType == Init => TypeOK
BY MaxAssumption DEF Init, TypeOK

LEMMA PublisherType ==
  ASSUME TypeOK, NEW p \in Publishers,
         PublishMessageCaptured(p) \/ RestartPublisher(p)
  PROVE  TypeOK'
<1>1. CASE PublishMessageCaptured(p)
  <2>1. captured + 1 \in Entries
    BY <1>1, MaxAssumption DEF TypeOK, PublishMessageCaptured
  <2>2. /\ stream' \in SUBSET Entries
        /\ publisher' \in [Publishers -> {"wait", "ready", "end"}]
    BY <1>1, <2>1 DEF TypeOK, PublishMessageCaptured
  <2>3. captured' \in 0..MaxCaptures
    BY <1>1, <2>1, MaxAssumption DEF PublishMessageCaptured
  <2>4. UNCHANGED <<redis, group, cursor, pel, workerVars, history, faults>>
    BY <1>1 DEF PublishMessageCaptured
  <2> QED BY <2>2, <2>3, <2>4 DEF TypeOK, workerVars, history
<1>2. CASE RestartPublisher(p)
  BY <1>2, MaxAssumption
     DEF TypeOK, RestartPublisher, redisVars, workerVars, history
<1> QED BY <1>1, <1>2

LEMMA RedisType ==
  ASSUME TypeOK, RedisStops \/ RedisStarts
  PROVE  TypeOK'
<1>1. CASE RedisStops
  BY <1>1, MaxAssumption DEF TypeOK, RedisStops, workerVars, history
<1>2. CASE RedisStarts
  <2>1. /\ redis' = "up"
        /\ UNCHANGED <<publisher, captured, workerVars, given, acked, faults>>
    BY <1>2 DEF RedisStarts
  <2>2. CASE UNCHANGED <<stream, group, cursor, pel, skipped, lost>>
    BY <2>1, <2>2 DEF TypeOK, workerVars
  <2>3. CASE /\ stream' = {} /\ group' = "missing" /\ cursor' = 0 /\ pel' = {}
             /\ skipped' = captured
             /\ lost' = captured
    BY <2>1, <2>3, MaxAssumption DEF TypeOK, workerVars
  <2> QED BY <1>2, <2>2, <2>3 DEF RedisStarts
<1> QED BY <1>1, <1>2

LEMMA DeliverType ==
  ASSUME TypeOK, Deliver
  PROVE  /\ NextBatch \subseteq Entries
         /\ cursor' \in 0..MaxCaptures
         /\ pel' \in SUBSET Entries
BY NextBatchIsUndelivered, MaxAssumption DEF TypeOK, Deliver, IsLast

LEMMA WorkerType ==
  ASSUME TypeOK, NEW w \in Workers,
         WorkerStep(w) \/ ReadReplyLost(w) \/ Sigterm(w) \/ Crash(w)
  PROVE  TypeOK'
<1> USE MaxAssumption DEF TypeOK, Goto
<1>1. CASE EnsureGroup(w)
  BY <1>1 DEF EnsureGroup, IsLast
<1>2. CASE Loop(w)
  BY <1>2 DEF Loop, redisVars, history
<1>3. CASE ReadEntries(w)
  <2>1. Deliver
    BY <1>3 DEF ReadEntries
  <2>2. /\ NextBatch \subseteq Entries
        /\ cursor' \in 0..MaxCaptures
        /\ pel' \in SUBSET Entries
    BY <2>1, DeliverType
  <2>3. /\ batch' \in [Workers -> SUBSET Entries]
        /\ given' \in [Workers -> SUBSET Entries]
    BY <1>3, <2>2 DEF ReadEntries
  <2>4. pc' = [pc EXCEPT ![w] = "classifying"]
    BY <1>3 DEF ReadEntries
  <2>5. UNCHANGED <<redis, stream, group, publisher, captured, cancelled,
                    succeeded, failed, acked, skipped, lost, faults>>
    BY <1>3 DEF ReadEntries
  <2> QED BY <2>2, <2>3, <2>4, <2>5
<1>4. CASE ReadNothing(w)
  BY <1>4 DEF ReadNothing, redisVars, history
<1>5. CASE ReadFails(w)
  BY <1>5 DEF ReadFails, redisVars, history
<1>6. CASE Wake(w)
  BY <1>6 DEF Wake, redisVars, history
<1>7. CASE Process(w)
  <2>1. \A e \in Entries : succeeded[e] + 1 \in Nat /\ failed[e] + 1 \in Nat
    OBVIOUS
  <2>2. PICK e \in Entries :
          \/ /\ succeeded' = [succeeded EXCEPT ![e] = @ + 1]
             /\ UNCHANGED failed
          \/ /\ failed' = [failed EXCEPT ![e] = @ + 1]
             /\ UNCHANGED succeeded
    BY <1>7, Zenon DEF Process
  <2>3. succeeded' \in [Entries -> Nat] /\ failed' \in [Entries -> Nat]
    BY <2>1, <2>2
  <2>4. pc' = [pc EXCEPT ![w] = "acking"]
    BY <1>7 DEF Process
  <2>5. UNCHANGED <<redisVars, publisher, captured, batch, cancelled, history, faults>>
    BY <1>7 DEF Process
  <2> QED BY <2>3, <2>4, <2>5 DEF redisVars, history
<1>8. CASE Ack(w)
  BY <1>8 DEF Ack
<1>9. CASE Start(w)
  BY <1>9 DEF Start, redisVars, history
<1>10. CASE ReadReplyLost(w)
  <2>1. Deliver
    BY <1>10 DEF ReadReplyLost
  <2>2. cursor' \in 0..MaxCaptures /\ pel' \in SUBSET Entries
    BY <2>1, DeliverType
  <2>3. \/ pc' = [pc EXCEPT ![w] = "loop"]
        \/ pc' = [pc EXCEPT ![w] = "sleeping"]
    BY <1>10 DEF ReadReplyLost
  <2>4. faults' \in 0..MaxFaults
    BY <1>10 DEF ReadReplyLost
  <2>5. UNCHANGED <<redis, stream, group, publisher, captured, batch,
                    cancelled, succeeded, failed, history>>
    BY <1>10 DEF ReadReplyLost
  <2> QED BY <2>2, <2>3, <2>4, <2>5 DEF history
<1>11. CASE Sigterm(w)
  BY <1>11 DEF Sigterm, redisVars, history
<1>12. CASE Crash(w)
  <2>1. /\ pc' = [pc EXCEPT ![w] = "stopped"]
        /\ batch' = [batch EXCEPT ![w] = {}]
    BY <1>12 DEF Crash
  <2>2. faults' \in 0..MaxFaults
    BY <1>12 DEF Crash
  <2>3. UNCHANGED <<redisVars, publisher, captured, cancelled, succeeded,
                    failed, history>>
    BY <1>12 DEF Crash
  <2> QED BY <2>1, <2>2, <2>3 DEF redisVars, history
<1> QED
  BY <1>1, <1>2, <1>3, <1>4, <1>5, <1>6, <1>7, <1>8, <1>9, <1>10, <1>11,
     <1>12 DEF WorkerStep

(* Every variable keeps its type in every reachable state.                 *)
THEOREM TypeCorrect == Spec => []TypeOK
<1>1. TypeOK /\ [Next]_vars => TypeOK'
  <2> SUFFICES ASSUME TypeOK, [Next]_vars PROVE TypeOK'
    OBVIOUS
  <2>1. CASE UNCHANGED vars
    BY <2>1 DEF TypeOK, vars, redisVars, workerVars, history
  <2> QED BY <2>1, PublisherType, RedisType, WorkerType DEF Next
<1> QED BY <1>1, InitType, PTL DEF Spec
-----------------------------------------------------------------------------
(* Steps that leave everything the invariants speak of alone               *)

SameWork ==
  \A w \in Workers : \/ pc'[w] = pc[w]
                     \/ /\ pc[w] \notin {"classifying", "acking"}
                        /\ pc'[w] \notin {"classifying", "acking"}

Quiet ==
  /\ UNCHANGED <<stream, group, cursor, pel, captured, batch, succeeded, failed,
                 given, acked, skipped, lost>>
  /\ SameWork

LEMMA QuietWorkerSteps ==
  ASSUME TypeOK, NEW w \in Workers,
         \/ Loop(w) \/ ReadNothing(w) \/ ReadFails(w) \/ Wake(w) \/ Start(w)
         \/ Sigterm(w)
  PROVE  Quiet
<1> USE DEF Quiet, SameWork, TypeOK, Goto, redisVars, history
<1>1. CASE Loop(w)
  BY <1>1 DEF Loop
<1>2. CASE ReadNothing(w)
  BY <1>2 DEF ReadNothing
<1>3. CASE ReadFails(w)
  BY <1>3 DEF ReadFails
<1>4. CASE Wake(w)
  BY <1>4 DEF Wake
<1>5. CASE Start(w)
  BY <1>5 DEF Start
<1>6. CASE Sigterm(w)
  BY <1>6 DEF Sigterm
<1> QED BY <1>1, <1>2, <1>3, <1>4, <1>5, <1>6

LEMMA QuietOtherSteps ==
  ASSUME \/ \E p \in Publishers : RestartPublisher(p)
         \/ RedisStops
         \/ UNCHANGED vars
  PROVE  Quiet
BY DEF Quiet, SameWork, RestartPublisher, RedisStops, vars, redisVars, workerVars, history

(* The data Redis loses with its pod.                                      *)
LoseData ==
  /\ stream' = {} /\ group' = "missing" /\ cursor' = 0 /\ pel' = {}
  /\ skipped' = captured
  /\ lost' = captured
  /\ UNCHANGED <<captured, pc, batch, succeeded, failed, given, acked>>

LEMMA RedisStartsEffect == RedisStarts => Quiet \/ LoseData
BY DEF RedisStarts, Quiet, SameWork, LoseData, workerVars

(* The steps an inductive argument has to distinguish.                     *)
LEMMA StepCases ==
  ASSUME TypeOK, [Next]_vars
  PROVE  \/ Quiet \/ LoseData
         \/ \E p \in Publishers : PublishMessageCaptured(p)
         \/ \E w \in Workers :
              \/ EnsureGroup(w) \/ ReadEntries(w) \/ ReadReplyLost(w)
              \/ Process(w) \/ Ack(w) \/ Crash(w)
<1>1. CASE UNCHANGED vars
  BY <1>1, QuietOtherSteps
<1>2. CASE \E p \in Publishers : PublishMessageCaptured(p) \/ RestartPublisher(p)
  BY <1>2, QuietOtherSteps
<1>3. CASE RedisStops \/ RedisStarts
  BY <1>3, QuietOtherSteps, RedisStartsEffect
<1>4. CASE \E w \in Workers :
             WorkerStep(w) \/ ReadReplyLost(w) \/ Sigterm(w) \/ Crash(w)
  BY <1>4, QuietWorkerSteps DEF WorkerStep
<1> QED BY <1>1, <1>2, <1>3, <1>4 DEF Next

-----------------------------------------------------------------------------
(* What one XREADGROUP hands out                                           *)

LEMMA NextBatchIsAPrefix ==
  ASSUME TypeOK, NEW e \in NextBatch, NEW f \in Undelivered, f <= e
  PROVE  f \in NextBatch
<1> DEFINE UpTo(x) == {g \in Undelivered : g <= x}
<1>1. Undelivered \subseteq Entries /\ e \in Entries /\ f \in Entries
  BY NextBatchIsUndelivered DEF TypeOK
<1>2. IsFiniteSet(Undelivered)
  <2>1. IsFiniteSet(1..MaxCaptures)
    BY MaxAssumption, FS_Interval
  <2> QED BY <1>1, <2>1, FS_Subset
<1>3. IsFiniteSet(UpTo(e)) /\ IsFiniteSet(UpTo(f))
  BY <1>2, FS_Subset
<1>4. UpTo(f) \subseteq UpTo(e)
  <2> SUFFICES ASSUME NEW g \in Undelivered, g <= f PROVE g <= e
    OBVIOUS
  <2>1. g \in Int /\ e \in Int /\ f \in Int
    BY <1>1
  <2> QED BY <2>1
<1>5. Cardinality(UpTo(f)) <= Cardinality(UpTo(e))
  BY <1>3, <1>4, FS_Subset
<1>6. Cardinality(UpTo(f)) \in Nat /\ Cardinality(UpTo(e)) \in Nat
  BY <1>3, FS_CardinalityType
<1>7. Cardinality(UpTo(e)) <= Count
  BY DEF NextBatch
<1>8. Cardinality(UpTo(f)) <= Count
  BY <1>5, <1>6, <1>7, CountAssumption
<1> QED BY <1>8 DEF NextBatch

LEMMA DeliverFacts ==
  ASSUME TypeOK, MarksInOrder, Deliver
  PROVE  /\ GroupExists
         /\ cursor < cursor' /\ cursor' \in 0..captured
         /\ pel' = pel \cup NextBatch
         /\ NextBatch \subseteq Entries
         /\ \A e \in NextBatch : e \in stream /\ lost < e /\ cursor < e /\ e <= cursor'
         /\ \A e \in stream : cursor < e /\ e <= cursor' => e \in NextBatch
<1>1. PICK last \in NextBatch : IsLast(last, NextBatch) /\ cursor' = last
  BY DEF Deliver
<1>2. NextBatch \subseteq Undelivered /\ Undelivered \subseteq stream
  BY NextBatchIsUndelivered
<1>3. GroupExists /\ cursor < last
  BY <1>1, NextBatchIsUndelivered DEF TypeOK
<1>4. \A e \in NextBatch : e \in stream /\ lost < e /\ cursor < e /\ e <= last
  BY <1>1, <1>2, NextBatchIsUndelivered DEF MarksInOrder, IsLast, TypeOK
<1>5. \A e \in stream : cursor < e /\ e <= last => e \in NextBatch
  BY <1>1, <1>3, NextBatchIsAPrefix DEF Undelivered, TypeOK
<1>6. last \in 0..captured
  BY <1>1, <1>2 DEF MarksInOrder, TypeOK
<1>7. pel' = pel \cup NextBatch /\ NextBatch \subseteq Entries
  BY <1>2 DEF Deliver, TypeOK
<1> QED BY <1>1, <1>3, <1>4, <1>5, <1>6, <1>7

-----------------------------------------------------------------------------
(* Each part of the inductive invariant, under each kind of step           *)

LEMMA InitInductive == Init => Inductive
<1> SUFFICES ASSUME Init PROVE Inductive
  OBVIOUS
<1>1. TypeOK
  BY InitType
<1>2. MarksInOrder /\ GivenIsBehind /\ PendingIsBehind
  BY DEF Init, MarksInOrder, GivenIsBehind, PendingIsBehind
<1>3. \A e \in Entries : Attempts(e) = 0
  BY DEF Init, Attempts
<1>4. AttemptsInOrder /\ CountedOnce /\ AckedAfterProcessing /\ IdleHoldsNothing
  BY <1>3 DEF Init, IdleHoldsNothing, AttemptsInOrder, CountedOnce, AckedAfterProcessing
<1>5. DistinctShares /\ InHandIsPending /\ BooksBalance
  BY DEF Init, DistinctShares, InHandIsPending, BooksBalance
<1> QED BY <1>1, <1>2, <1>4, <1>5 DEF Inductive

LEMMA QuietKeeps ==
  ASSUME Inductive, TypeOK', Quiet
  PROVE  Inductive'
<1> USE DEF Inductive, Quiet, TypeOK
<1>1. MarksInOrder' /\ GivenIsBehind' /\ PendingIsBehind'
  BY DEF MarksInOrder, GivenIsBehind, PendingIsBehind, Behind
<1>2. \A e \in Entries : Attempts(e)' = Attempts(e)
  BY DEF Attempts
<1>3. /\ AttemptsInOrder' /\ CountedOnce' /\ AckedAfterProcessing'
      /\ IdleHoldsNothing'
  BY <1>2 DEF IdleHoldsNothing, Busy, SameWork, AttemptsInOrder, CountedOnce, AckedAfterProcessing, IsFirst
<1>4. DistinctShares' /\ InHandIsPending' /\ BooksBalance'
  BY DEF DistinctShares, InHandIsPending, BooksBalance
<1> QED BY <1>1, <1>3, <1>4

LEMMA LoseDataKeeps ==
  ASSUME Inductive, TypeOK', LoseData
  PROVE  Inductive'
<1> USE DEF Inductive, LoseData, TypeOK
<1>1. \A e \in Entries : Behind(e) => e <= captured
  BY DEF Behind, MarksInOrder
<1>2. MarksInOrder' /\ GivenIsBehind' /\ PendingIsBehind'
  BY <1>1 DEF MarksInOrder, GivenIsBehind, PendingIsBehind, Behind
<1>3. \A e \in Entries : Attempts(e)' = Attempts(e)
  BY DEF Attempts
<1>4. /\ AttemptsInOrder' /\ CountedOnce' /\ AckedAfterProcessing'
      /\ IdleHoldsNothing'
  BY <1>3 DEF IdleHoldsNothing, Busy, AttemptsInOrder, CountedOnce, AckedAfterProcessing, IsFirst
<1>5. \A w \in Workers : \A e \in batch[w] : e <= captured
  BY <1>1 DEF GivenIsBehind
<1>6. DistinctShares' /\ InHandIsPending' /\ BooksBalance'
  BY <1>5 DEF DistinctShares, InHandIsPending, BooksBalance
<1> QED BY <1>2, <1>4, <1>6

LEMMA PublishKeeps ==
  ASSUME Inductive, TypeOK', NEW p \in Publishers, PublishMessageCaptured(p)
  PROVE  Inductive'
<1> USE DEF Inductive, TypeOK
<1>1. /\ UNCHANGED <<group, cursor, pel, pc, batch, succeeded, failed, given,
                     acked, skipped, lost>>
      /\ captured' = captured + 1
      /\ stream \subseteq stream' /\ stream' \subseteq stream \cup {captured'}
  BY DEF PublishMessageCaptured, workerVars, history
<1>2. MarksInOrder'
  BY <1>1 DEF MarksInOrder
<1>3. GivenIsBehind' /\ PendingIsBehind' /\ DistinctShares' /\ InHandIsPending'
  BY <1>1 DEF GivenIsBehind, PendingIsBehind, Behind, DistinctShares, InHandIsPending
<1>4. \A e \in Entries : Attempts(e)' = Attempts(e)
  BY <1>1 DEF Attempts
<1>5. /\ AttemptsInOrder' /\ CountedOnce' /\ AckedAfterProcessing'
      /\ IdleHoldsNothing'
  BY <1>1, <1>4 DEF IdleHoldsNothing, Busy, SameWork, AttemptsInOrder, CountedOnce, AckedAfterProcessing, IsFirst
<1>6. ~(captured' <= cursor)
  BY <1>1 DEF MarksInOrder
<1>7. {e \in stream' : skipped < e /\ e <= cursor}
        = {e \in stream : skipped < e /\ e <= cursor}
  BY <1>1, <1>6
<1>8. BooksBalance'
  BY <1>1, <1>7 DEF BooksBalance
<1> QED BY <1>2, <1>3, <1>5, <1>8

LEMMA EnsureGroupKeeps ==
  ASSUME Inductive, TypeOK', NEW w \in Workers, EnsureGroup(w)
  PROVE  Inductive'
<1> USE DEF Inductive, TypeOK
<1>1. /\ UNCHANGED <<stream, pel, captured, batch, succeeded, failed, given,
                     acked, lost>>
      /\ SameWork
  BY DEF EnsureGroup, Goto, SameWork
<1>2. CASE UNCHANGED <<group, cursor, skipped>>
  BY <1>1, <1>2, QuietKeeps DEF Quiet
<1>3. CASE /\ ~GroupExists /\ group' = "made"
           /\ cursor' \in stream \cup {0}
           /\ \A e \in stream : e <= cursor'
           /\ skipped' = captured
  <2>1. cursor' <= captured /\ \A e \in stream : ~(cursor' < e)
    BY <1>3 DEF MarksInOrder
  <2>2. MarksInOrder'
    BY <1>1, <1>3, <2>1 DEF MarksInOrder
  <2>3. \A e \in Entries : Behind(e) => Behind(e)'
    BY <1>1, <1>3 DEF Behind
  <2>4. GivenIsBehind' /\ PendingIsBehind' /\ DistinctShares' /\ InHandIsPending'
    BY <1>1, <1>3, <2>3
       DEF GivenIsBehind, PendingIsBehind, DistinctShares, InHandIsPending
  <2>5. \A e \in Entries : Attempts(e)' = Attempts(e)
    BY <1>1 DEF Attempts
  <2>6. /\ AttemptsInOrder' /\ CountedOnce' /\ AckedAfterProcessing'
        /\ IdleHoldsNothing'
    BY <1>1, <2>5 DEF IdleHoldsNothing, Busy, SameWork, AttemptsInOrder, CountedOnce, AckedAfterProcessing, IsFirst
  <2>7. {e \in stream' : skipped' < e /\ e <= cursor'} = {}
    <3>1. \A e \in stream : e <= captured /\ e \in Int
      BY DEF MarksInOrder
    <3>2. \A e \in stream : ~(captured < e)
      BY <3>1
    <3> QED BY <1>1, <1>3, <3>2
  <2>8. {e \in pel \cup acked : lost < e} = {}
    <3>1. pel = {} /\ \A e \in acked : e <= lost /\ e \in Int
      BY <1>3 DEF PendingIsBehind
    <3>2. \A e \in acked : ~(lost < e)
      BY <3>1
    <3> QED BY <3>1, <3>2
  <2>9. BooksBalance'
    BY <1>1, <2>7, <2>8 DEF BooksBalance
  <2> QED BY <2>2, <2>4, <2>6, <2>9
<1> QED BY <1>2, <1>3 DEF EnsureGroup, IsLast

(* The parts that speak of Redis alone, under a delivery.                  *)
LEMMA DeliverKeeps ==
  ASSUME Inductive, TypeOK', Deliver,
         UNCHANGED <<stream, group, captured, acked, skipped, lost>>
  PROVE  /\ MarksInOrder' /\ PendingIsBehind' /\ BooksBalance'
         /\ \A e \in Entries : Behind(e) => Behind(e)'
<1> USE DEF Inductive, TypeOK
<1>1. MarksInOrder'
  BY DeliverFacts DEF MarksInOrder
<1>2. \A e \in Entries : Behind(e) => Behind(e)'
  BY DeliverFacts DEF Behind
<1>3. PendingIsBehind'
  <2>1. \A e \in pel' : lost < e /\ e <= cursor'
    BY DeliverFacts DEF PendingIsBehind
  <2>2. \A e \in acked : Behind(e)'
    BY <1>2 DEF PendingIsBehind
  <2> QED BY <2>1, <2>2, DeliverFacts DEF PendingIsBehind
<1>4. \A e \in NextBatch : e \notin acked
  <2> SUFFICES ASSUME NEW e \in NextBatch, Behind(e) PROVE FALSE
    BY DEF PendingIsBehind
  <2> QED BY DeliverFacts DEF Behind
<1>5. pel' \cap acked = {}
  BY <1>4, DeliverFacts DEF BooksBalance
<1>6. {e \in stream : skipped < e /\ e <= cursor'}
        = {e \in stream : skipped < e /\ e <= cursor} \cup NextBatch
  <2>1. \A e \in NextBatch : e \in stream /\ skipped < e /\ e <= cursor'
    BY DeliverFacts DEF MarksInOrder
  <2>2. \A e \in stream : e <= cursor => e <= cursor'
    BY DeliverFacts
  <2>3. \A e \in stream : e <= cursor' => e <= cursor \/ e \in NextBatch
    BY DeliverFacts
  <2> QED BY <2>1, <2>2, <2>3
<1>7. {e \in pel' \cup acked : lost < e}
        = {e \in pel \cup acked : lost < e} \cup NextBatch
  BY DeliverFacts
<1>8. BooksBalance'
  BY <1>5, <1>6, <1>7, DeliverFacts DEF BooksBalance
<1> QED BY <1>1, <1>2, <1>3, <1>8

(* What is handed out was in nobody's hands before.                        *)
LEMMA NextBatchIsFresh ==
  ASSUME Inductive, Deliver
  PROVE  \A w \in Workers : given[w] \cap NextBatch = {}
<1> SUFFICES ASSUME NEW w \in Workers, NEW e \in NextBatch, e \in given[w]
             PROVE FALSE
  OBVIOUS
<1>1. Behind(e)
  BY DEF Inductive, GivenIsBehind
<1> QED BY <1>1, DeliverFacts DEF Inductive, TypeOK, Behind

LEMMA ReadEntriesKeeps ==
  ASSUME Inductive, TypeOK', NEW w \in Workers, ReadEntries(w)
  PROVE  Inductive'
<1> USE DEF Inductive, TypeOK
<1>1. /\ Deliver
      /\ UNCHANGED <<stream, group, captured, succeeded, failed, acked,
                     skipped, lost>>
      /\ batch' = [batch EXCEPT ![w] = NextBatch]
      /\ given' = [given EXCEPT ![w] = @ \cup NextBatch]
      /\ pc' = [pc EXCEPT ![w] = "classifying"]
  BY DEF ReadEntries, Goto
<1>2. /\ MarksInOrder' /\ PendingIsBehind' /\ BooksBalance'
      /\ \A e \in Entries : Behind(e) => Behind(e)'
  BY <1>1, DeliverKeeps
<1>3. \A v \in Workers : given[v] \cap NextBatch = {}
  BY <1>1, NextBatchIsFresh
<1>4. \A e \in NextBatch : e \in Entries /\ Behind(e)'
  BY <1>1, DeliverFacts DEF Behind
<1>5. GivenIsBehind'
  BY <1>1, <1>2, <1>4 DEF GivenIsBehind
<1>6. DistinctShares'
  BY <1>1, <1>3 DEF DistinctShares
<1>7. \A e \in Entries : Attempts(e)' = Attempts(e) /\ Attempts(e) \in Nat
  BY <1>1 DEF Attempts
<1>8. \A e \in NextBatch : Attempts(e) = 0
  <2> SUFFICES ASSUME NEW e \in NextBatch PROVE ~(Attempts(e) > 0)
    BY <1>4, <1>7
  <2>1. \A v \in Workers : e \notin given[v]
    BY <1>3
  <2> QED BY <1>4, <2>1 DEF AttemptsInOrder
<1>9. \A e \in Entries : Attempts(e)' > 0 => \E v \in Workers : e \in given'[v]
  BY <1>1, <1>7 DEF AttemptsInOrder
<1>10. \A v \in Workers : \A e \in batch'[v] :
         Attempts(e)' = IF pc'[v] = "acking" /\ IsFirst(e, batch'[v]) THEN 1 ELSE 0
  <2> SUFFICES ASSUME NEW v \in Workers, NEW e \in batch'[v]
               PROVE Attempts(e)' = IF pc'[v] = "acking" /\ IsFirst(e, batch'[v])
                                    THEN 1 ELSE 0
    OBVIOUS
  <2>1. CASE v = w
    BY <1>1, <1>4, <1>7, <1>8, <2>1
  <2>2. CASE v # w
    <3>1. batch'[v] = batch[v] /\ pc'[v] = pc[v] /\ e \in Entries
      BY <1>1, <2>2
    <3> QED BY <3>1, <1>7 DEF AttemptsInOrder
  <2> QED BY <2>1, <2>2
<1>11. AttemptsInOrder'
  BY <1>9, <1>10 DEF AttemptsInOrder
<1>12. CountedOnce' /\ AckedAfterProcessing'
  BY <1>1, <1>7 DEF CountedOnce, AckedAfterProcessing
<1>13. InHandIsPending'
  BY <1>1, DeliverFacts DEF InHandIsPending
<1>14. IdleHoldsNothing'
  BY <1>1 DEF IdleHoldsNothing, Busy
<1> QED BY <1>2, <1>5, <1>6, <1>11, <1>12, <1>13, <1>14

LEMMA ReadReplyLostKeeps ==
  ASSUME Inductive, TypeOK', NEW w \in Workers, ReadReplyLost(w)
  PROVE  Inductive'
<1> USE DEF Inductive, TypeOK
<1>1. /\ Deliver
      /\ UNCHANGED <<stream, group, captured, batch, succeeded, failed, given,
                     acked, skipped, lost>>
      /\ SameWork
  BY DEF ReadReplyLost, Goto, SameWork, history
<1>2. /\ MarksInOrder' /\ PendingIsBehind' /\ BooksBalance'
      /\ \A e \in Entries : Behind(e) => Behind(e)'
  BY <1>1, DeliverKeeps
<1>3. GivenIsBehind' /\ DistinctShares'
  BY <1>1, <1>2 DEF GivenIsBehind, DistinctShares
<1>4. \A e \in Entries : Attempts(e)' = Attempts(e)
  BY <1>1 DEF Attempts
<1>5. /\ AttemptsInOrder' /\ CountedOnce' /\ AckedAfterProcessing'
      /\ IdleHoldsNothing'
  BY <1>1, <1>4 DEF IdleHoldsNothing, Busy, SameWork, AttemptsInOrder, CountedOnce, AckedAfterProcessing, IsFirst
<1>6. InHandIsPending'
  BY <1>1, DeliverFacts DEF InHandIsPending
<1> QED BY <1>2, <1>3, <1>5, <1>6

LEMMA ProcessKeeps ==
  ASSUME Inductive, TypeOK', NEW w \in Workers, Process(w)
  PROVE  Inductive'
<1> USE DEF Inductive, TypeOK
<1>1. /\ pc[w] = "classifying" /\ pc' = [pc EXCEPT ![w] = "acking"]
      /\ UNCHANGED <<stream, group, cursor, pel, captured, batch, given, acked,
                     skipped, lost>>
  BY DEF Process, Goto, redisVars, history
<1>2. PICK e \in batch[w] :
        /\ IsFirst(e, batch[w])
        /\ \/ succeeded' = [succeeded EXCEPT ![e] = @ + 1] /\ UNCHANGED failed
           \/ failed' = [failed EXCEPT ![e] = @ + 1] /\ UNCHANGED succeeded
  BY DEF Process
<1>3. e \in Entries /\ e \in given[w] /\ Attempts(e) = 0
  BY <1>1, <1>2 DEF AttemptsInOrder, GivenIsBehind
<1>4. Attempts(e)' = 1
  BY <1>2, <1>3 DEF Attempts
<1>5. \A f \in Entries : f # e => Attempts(f)' = Attempts(f)
  BY <1>2, <1>3 DEF Attempts
<1>6. MarksInOrder' /\ GivenIsBehind' /\ PendingIsBehind'
  BY <1>1 DEF MarksInOrder, GivenIsBehind, PendingIsBehind, Behind
<1>7. DistinctShares' /\ InHandIsPending' /\ BooksBalance'
  BY <1>1 DEF DistinctShares, InHandIsPending, BooksBalance
<1>8. CountedOnce' /\ AckedAfterProcessing'
  BY <1>1, <1>4, <1>5 DEF CountedOnce, AckedAfterProcessing
<1>9. \A f \in Entries : Attempts(f)' > 0 => \E v \in Workers : f \in given'[v]
  BY <1>1, <1>3, <1>5 DEF AttemptsInOrder
<1>10. \A v \in Workers : \A f \in batch'[v] :
         Attempts(f)' = IF pc'[v] = "acking" /\ IsFirst(f, batch'[v]) THEN 1 ELSE 0
  <2> SUFFICES ASSUME NEW v \in Workers, NEW f \in batch[v]
               PROVE Attempts(f)' = IF pc'[v] = "acking" /\ IsFirst(f, batch[v])
                                    THEN 1 ELSE 0
    BY <1>1 DEF IsFirst
  <2>1. f \in Entries
    OBVIOUS
  <2>2. CASE v = w /\ f = e
    BY <1>1, <1>2, <1>4, <2>2
  <2>3. CASE v = w /\ f # e
    <3>1. ~IsFirst(f, batch[w])
      BY <1>2, <1>3, <2>1, <2>3 DEF IsFirst
    <3>2. Attempts(f) = 0
      BY <1>1, <2>3 DEF AttemptsInOrder
    <3> QED BY <1>1, <1>5, <2>1, <2>3, <3>1, <3>2
  <2>4. CASE v # w
    <3>1. f # e
      BY <1>3, <2>4 DEF DistinctShares, GivenIsBehind
    <3>2. pc'[v] = pc[v]
      BY <1>1, <2>4
    <3> QED BY <1>5, <2>1, <3>1, <3>2 DEF AttemptsInOrder
  <2> QED BY <2>2, <2>3, <2>4
<1>11. AttemptsInOrder'
  BY <1>9, <1>10 DEF AttemptsInOrder
<1>12. IdleHoldsNothing'
  BY <1>1 DEF IdleHoldsNothing, Busy
<1> QED BY <1>6, <1>7, <1>8, <1>11, <1>12

LEMMA AckKeeps ==
  ASSUME Inductive, TypeOK', NEW w \in Workers, Ack(w)
  PROVE  Inductive'
<1> USE DEF Inductive, TypeOK
<1>1. /\ pc[w] = "acking"
      /\ UNCHANGED <<stream, group, cursor, captured, succeeded, failed, given,
                     skipped, lost>>
  BY DEF Ack
<1>2. PICK e \in batch[w] :
        /\ IsFirst(e, batch[w])
        /\ batch' = [batch EXCEPT ![w] = @ \ {e}]
        /\ pc' = [pc EXCEPT ![w] = IF batch[w] = {e} THEN "loop" ELSE "classifying"]
        /\ \/ pel' = pel \ {e} /\ acked' = acked \cup (pel \cap {e})
           \/ UNCHANGED <<pel, acked>>
  BY DEF Ack, Goto
<1>3. e \in Entries /\ e \in given[w] /\ Attempts(e) = 1
  BY <1>1, <1>2 DEF AttemptsInOrder, GivenIsBehind
<1>4. \A f \in Entries : Attempts(f)' = Attempts(f) /\ Attempts(f) \in Nat
  BY <1>1 DEF Attempts
<1>5. pel' \cup acked' = pel \cup acked /\ pel' \cap acked' = {}
  BY <1>2 DEF BooksBalance
<1>6. \A f \in acked' : f \in acked \/ (f \in pel /\ f = e)
  BY <1>2
<1>7. MarksInOrder' /\ GivenIsBehind' /\ DistinctShares'
  BY <1>1, <1>2 DEF MarksInOrder, GivenIsBehind, Behind, DistinctShares
<1>8. PendingIsBehind'
  BY <1>1, <1>2, <1>6 DEF PendingIsBehind, Behind
<1>9. BooksBalance'
  BY <1>1, <1>5 DEF BooksBalance
<1>10. CountedOnce' /\ AckedAfterProcessing'
  BY <1>3, <1>4, <1>6 DEF CountedOnce, AckedAfterProcessing
<1>11. InHandIsPending'
  <2> SUFFICES ASSUME NEW v \in Workers, NEW f \in batch'[v], f > lost
               PROVE f \in pel'
    BY <1>1 DEF InHandIsPending
  <2>1. CASE v = w
    BY <1>2, <2>1 DEF InHandIsPending
  <2>2. CASE v # w
    <3>1. f \in batch[v] /\ f # e
      BY <1>2, <1>3, <2>2 DEF DistinctShares, GivenIsBehind
    <3> QED BY <1>2, <3>1 DEF InHandIsPending
  <2> QED BY <2>1, <2>2
<1>12. \A v \in Workers : \A f \in batch'[v] :
         Attempts(f)' = IF pc'[v] = "acking" /\ IsFirst(f, batch'[v]) THEN 1 ELSE 0
  <2> SUFFICES ASSUME NEW v \in Workers, NEW f \in batch'[v]
               PROVE Attempts(f) = IF pc'[v] = "acking" /\ IsFirst(f, batch'[v])
                                   THEN 1 ELSE 0
    BY <1>4
  <2>1. CASE v = w
    <3>1. f \in batch[w] /\ f # e /\ f \in Entries
      BY <1>2, <2>1
    <3>2. ~IsFirst(f, batch[w])
      BY <1>2, <1>3, <3>1 DEF IsFirst
    <3>3. Attempts(f) = 0
      BY <3>1, <3>2 DEF AttemptsInOrder
    <3> QED BY <1>2, <2>1, <3>3
  <2>2. CASE v # w
    <3>1. batch'[v] = batch[v] /\ pc'[v] = pc[v]
      BY <1>2, <2>2
    <3> QED BY <3>1 DEF AttemptsInOrder
  <2> QED BY <2>1, <2>2
<1>13. AttemptsInOrder'
  BY <1>1, <1>4, <1>12 DEF AttemptsInOrder
<1>14. IdleHoldsNothing'
  BY <1>2 DEF IdleHoldsNothing, Busy
<1> QED BY <1>7, <1>8, <1>9, <1>10, <1>11, <1>13, <1>14

LEMMA CrashKeeps ==
  ASSUME Inductive, TypeOK', NEW w \in Workers, Crash(w)
  PROVE  Inductive'
<1> USE DEF Inductive, TypeOK
<1>1. /\ pc' = [pc EXCEPT ![w] = "stopped"]
      /\ batch' = [batch EXCEPT ![w] = {}]
      /\ UNCHANGED <<stream, group, cursor, pel, captured, succeeded, failed,
                     given, acked, skipped, lost>>
  BY DEF Crash, Goto, redisVars, history
<1>2. \A v \in Workers : batch'[v] = {} \/ (batch'[v] = batch[v] /\ pc'[v] = pc[v])
  BY <1>1
<1>3. \A e \in Entries : Attempts(e)' = Attempts(e)
  BY <1>1 DEF Attempts
<1>4. MarksInOrder' /\ GivenIsBehind' /\ PendingIsBehind' /\ DistinctShares'
  BY <1>1, <1>2
     DEF MarksInOrder, GivenIsBehind, PendingIsBehind, Behind, DistinctShares
<1>5. AttemptsInOrder'
  BY <1>1, <1>2, <1>3 DEF AttemptsInOrder
<1>6. CountedOnce' /\ AckedAfterProcessing'
  BY <1>1, <1>3 DEF CountedOnce, AckedAfterProcessing
<1>7. InHandIsPending' /\ BooksBalance' /\ IdleHoldsNothing'
  BY <1>1, <1>2 DEF InHandIsPending, BooksBalance, IdleHoldsNothing, Busy
<1> QED BY <1>4, <1>5, <1>6, <1>7

-----------------------------------------------------------------------------
(* The theorems                                                            *)

(* The invariant of every reachable state from which the others follow.    *)
THEOREM Invariance == Spec => []Inductive
<1>1. Inductive /\ TypeOK' /\ [Next]_vars => Inductive'
  <2> SUFFICES ASSUME Inductive, TypeOK', [Next]_vars PROVE Inductive'
    OBVIOUS
  <2>1. TypeOK
    BY DEF Inductive
  <2> QED
    BY <2>1, StepCases, QuietKeeps, LoseDataKeeps, PublishKeeps,
       EnsureGroupKeeps, ReadEntriesKeeps, ReadReplyLostKeeps, ProcessKeeps,
       AckKeeps, CrashKeeps
<1> QED BY <1>1, InitInductive, TypeCorrect, PTL DEF Spec

(* No entry is ever given to two workers (consumer.go:63-69).              *)
THEOREM SharesAreDistinct == Spec => []DistinctShares
BY Invariance, PTL DEF Inductive

(* No entry is counted twice in MessagesProcessedTotal (consumer.go:101-111). *)
THEOREM EntriesAreCountedOnce == Spec => []CountedOnce
BY Invariance, PTL DEF Inductive

(* No entry is acknowledged before it was processed (consumer.go:81-82).   *)
THEOREM AcksFollowProcessing == Spec => []AckedAfterProcessing
BY Invariance, PTL DEF Inductive

(* What a worker holds, Redis lists as pending (consumer.go:79-83).        *)
THEOREM HeldEntriesArePending == Spec => []InHandIsPending
BY Invariance, PTL DEF Inductive

(* Pending and acknowledged entries account for all that was delivered.    *)
THEOREM RedisBooksBalance == Spec => []BooksBalance
BY Invariance, PTL DEF Inductive

(* The three together: no crash, outage or lost reply makes an entry       *)
(* vanish from Redis's account of it (consumer.go:62-84).                  *)
THEOREM NoEntryUnaccountedFor == Spec => []EntriesAccountedFor
<1>1. Inductive => EntriesAccountedFor
  BY DEF Inductive, EntriesAccountedFor
<1>2. QED
  BY <1>1, Invariance, PTL

-----------------------------------------------------------------------------
(* WorkerQueue implements JobQueue                                         *)

Held == UNION {ToAttempt(w) : w \in Workers}

(* A queued entry is in no worker's hands and was not attempted.           *)
LEMMA QueuedIsUntouched ==
  ASSUME Inductive
  PROVE  /\ Undelivered \subseteq 1..captured
         /\ Undelivered \cap Attempted = {}
         /\ \A w \in Workers : Undelivered \cap batch[w] = {}
<1> USE DEF Inductive, TypeOK
<1>1. Undelivered \subseteq 1..captured
  <2>1. \A e \in stream : e \in 1..captured
    BY DEF MarksInOrder
  <2> QED BY <2>1, NextBatchIsUndelivered
<1>2. \A e \in Undelivered : ~Behind(e)
  BY DEF Undelivered, MarksInOrder, Behind
<1>3. \A w \in Workers : \A e \in given[w] : e \notin Undelivered
  BY <1>2 DEF GivenIsBehind
<1>4. Undelivered \cap Attempted = {}
  BY <1>3 DEF AttemptsInOrder, Attempted
<1> QED BY <1>1, <1>3, <1>4 DEF GivenIsBehind

LEMMA KnownEntries ==
  ASSUME Inductive
  PROVE  /\ Attempted \subseteq 1..captured
         /\ \A w \in Workers : batch[w] \subseteq 1..captured
<1> USE DEF Inductive, TypeOK
<1>1. \A e \in Entries : Behind(e) => e \in 1..captured
  BY DEF Behind, MarksInOrder
<1> QED BY <1>1 DEF GivenIsBehind, AttemptsInOrder, Attempted

LEMMA InitRefines == Init => Abstract!Init
<1> SUFFICES ASSUME Init PROVE Abstract!Init
  OBVIOUS
<1>1. Undelivered = {} /\ \A w \in Workers : ToAttempt(w) = {}
  BY DEF Init, Undelivered, ToAttempt
<1>2. Attempted = {}
  BY DEF Init, Attempted, Attempts
<1>3. NeverAttempted = {}
  BY DEF Init, NeverAttempted
<1> QED BY <1>1, <1>2, <1>3 DEF Abstract!Init

(* The abstract state depends on nothing but these.                        *)
LEMMA SameAbstractState ==
  ASSUME captured' = captured, Undelivered' = Undelivered, Attempted' = Attempted,
         \A w \in Workers : ToAttempt(w)' = ToAttempt(w)
  PROVE  UNCHANGED Abstract!vars
<1>1. Held' = Held
  BY DEF Held
<1> QED BY <1>1 DEF Abstract!vars, NeverAttempted, Held

LEMMA QuietRefines == Quiet => UNCHANGED Abstract!vars
<1> SUFFICES ASSUME Quiet PROVE UNCHANGED Abstract!vars
  OBVIOUS
<1>1. \A e : Attempts(e)' = Attempts(e)
  BY DEF Quiet, Attempts
<1>2. Undelivered' = Undelivered /\ captured' = captured
  BY DEF Quiet, Undelivered
<1>3. Attempted' = Attempted /\ \A w \in Workers : ToAttempt(w)' = ToAttempt(w)
  BY <1>1 DEF Quiet, Attempted, ToAttempt
<1> QED BY <1>2, <1>3, SameAbstractState

(* Entries that leave the queue without reaching a worker.                 *)
LEMMA DropRefines ==
  ASSUME Inductive, NEW S \in SUBSET Undelivered,
         Undelivered' = Undelivered \ S, captured' = captured,
         UNCHANGED <<batch, succeeded, failed>>
  PROVE  Abstract!Next
<1>1. \A e : Attempts(e)' = Attempts(e)
  BY DEF Attempts
<1>2. Attempted' = Attempted /\ \A w \in Workers : ToAttempt(w)' = ToAttempt(w)
  BY <1>1 DEF Attempted, ToAttempt
<1>3. Held' = Held
  BY <1>2 DEF Held
<1>4. S \cap Held = {} /\ S \cap Attempted = {} /\ S \subseteq 1..captured
  BY QueuedIsUntouched DEF Held, ToAttempt
<1>5. NeverAttempted' = NeverAttempted \cup S
  BY <1>2, <1>3, <1>4 DEF NeverAttempted, Held
<1>6. Abstract!Drop(S)
  BY <1>2, <1>5 DEF Abstract!Drop
<1> QED BY <1>6 DEF Abstract!Next

LEMMA LoseDataRefines ==
  ASSUME Inductive, LoseData
  PROVE  Abstract!Next
<1>1. Undelivered' = Undelivered \ Undelivered
  BY DEF LoseData, Undelivered
<1> QED BY <1>1, DropRefines DEF LoseData

LEMMA PublishRefines ==
  ASSUME Inductive, NEW p \in Publishers, PublishMessageCaptured(p)
  PROVE  Abstract!Next
<1> DEFINE j == captured + 1
<1> USE DEF Inductive, TypeOK
<1>1. /\ UNCHANGED <<group, cursor, batch, succeeded, failed>>
      /\ captured' = j /\ (stream' = stream \/ stream' = stream \cup {j})
  BY DEF PublishMessageCaptured, workerVars
<1>2. j \in Entries
  BY MaxAssumption DEF PublishMessageCaptured
<1>3. \A e : Attempts(e)' = Attempts(e)
  BY <1>1 DEF Attempts
<1>4. Attempted' = Attempted /\ \A w \in Workers : ToAttempt(w)' = ToAttempt(w)
  BY <1>1, <1>3 DEF Attempted, ToAttempt
<1>5. Held' = Held
  BY <1>4 DEF Held
<1>6. 1..captured' = (1..captured) \cup {j} /\ j \notin 1..captured
  <2>1. captured \in Nat
    OBVIOUS
  <2>2. 1..(captured + 1) = (1..captured) \cup {captured + 1}
    BY <2>1
  <2>3. captured + 1 \notin 1..captured
    BY <2>1
  <2> QED BY <1>1, <2>2, <2>3
<1>7. Held \subseteq 1..captured /\ Attempted \subseteq 1..captured
  BY KnownEntries DEF Held, ToAttempt
<1>8. j \notin Abstract!Known
  <2>1. UNION {[v \in Workers |-> ToAttempt(v)][w] : w \in Workers} = Held
    BY DEF Held
  <2>2. NeverAttempted \subseteq 1..captured
    BY DEF NeverAttempted
  <2>3. Abstract!Known = Undelivered \cup Held \cup Attempted \cup NeverAttempted
    BY <2>1 DEF Abstract!Known
  <2>4. Abstract!Known \subseteq 1..captured
    BY <1>7, <2>2, <2>3, QueuedIsUntouched
  <2> QED BY <1>6, <2>4
<1>9. Undelivered' = Undelivered \/ Undelivered' = Undelivered \cup {j}
  BY <1>1 DEF Undelivered
<1>10. CASE Undelivered' = Undelivered \cup {j}
  <2>1. NeverAttempted' = NeverAttempted
    BY <1>4, <1>5, <1>6, <1>7, <1>10 DEF NeverAttempted, Held
  <2> QED BY <1>2, <1>4, <1>8, <1>10, <2>1 DEF Abstract!Next, Abstract!Offer
<1>11. CASE Undelivered' = Undelivered
  <2>1. NeverAttempted' = NeverAttempted \cup {j}
    BY <1>4, <1>5, <1>6, <1>7, <1>11, QueuedIsUntouched DEF NeverAttempted, Held
  <2> QED BY <1>2, <1>4, <1>8, <1>11, <2>1 DEF Abstract!Next, Abstract!Offer
<1> QED BY <1>9, <1>10, <1>11

LEMMA EnsureGroupRefines ==
  ASSUME Inductive, NEW w \in Workers, EnsureGroup(w)
  PROVE  UNCHANGED Abstract!vars
<1> USE DEF Inductive, TypeOK
<1>1. UNCHANGED <<stream, captured, batch, succeeded, failed>>
  BY DEF EnsureGroup
<1>2. Undelivered' = Undelivered
  <2>1. CASE UNCHANGED <<group, cursor>>
    BY <1>1, <2>1 DEF Undelivered
  <2>2. CASE /\ ~GroupExists
             /\ cursor' \in stream \cup {0}
             /\ \A e \in stream : e <= cursor'
    <3>1. \A e \in stream : ~(e > cursor')
      BY <2>2 DEF MarksInOrder
    <3> QED BY <1>1, <2>2, <3>1 DEF Undelivered
  <2> QED BY <2>1, <2>2 DEF EnsureGroup, IsLast
<1>3. \A e : Attempts(e)' = Attempts(e)
  BY <1>1 DEF Attempts
<1>4. Attempted' = Attempted /\ \A v \in Workers : ToAttempt(v)' = ToAttempt(v)
  BY <1>1, <1>3 DEF Attempted, ToAttempt
<1> QED BY <1>1, <1>2, <1>4, SameAbstractState

(* A delivery takes exactly its batch out of the queue.                    *)
LEMMA DeliverTakes ==
  ASSUME Inductive, Deliver, UNCHANGED <<stream, group>>
  PROVE  Undelivered' = Undelivered \ NextBatch /\ NextBatch \subseteq Undelivered
<1> USE DEF Inductive, TypeOK
<1>1. \A e \in stream : e > cursor' => e > cursor /\ e \notin NextBatch
  BY DeliverFacts
<1>2. \A e \in stream : e > cursor /\ e \notin NextBatch => e > cursor'
  BY DeliverFacts
<1>3. GroupExists /\ GroupExists'
  BY DeliverFacts
<1> QED BY <1>1, <1>2, <1>3, NextBatchIsUndelivered DEF Undelivered

LEMMA ReadEntriesRefines ==
  ASSUME Inductive, NEW w \in Workers, ReadEntries(w)
  PROVE  Abstract!Next
<1> USE DEF Inductive, TypeOK
<1>1. /\ Deliver /\ pc[w] = "reading"
      /\ UNCHANGED <<stream, group, captured, succeeded, failed>>
      /\ batch' = [batch EXCEPT ![w] = NextBatch]
  BY DEF ReadEntries
<1>2. Undelivered' = Undelivered \ NextBatch /\ NextBatch \subseteq Undelivered
  BY <1>1, DeliverTakes
<1>3. \A e : Attempts(e)' = Attempts(e)
  BY <1>1 DEF Attempts
<1>4. Attempted' = Attempted
  BY <1>3 DEF Attempted
<1>5. batch[w] = {} /\ ToAttempt(w) = {}
  BY <1>1 DEF IdleHoldsNothing, Busy, ToAttempt
<1>6. \A e \in NextBatch : Attempts(e) = 0
  <2> SUFFICES ASSUME NEW e \in NextBatch PROVE Attempts(e) = 0
    OBVIOUS
  <2>1. e \in Entries /\ e \notin Attempted
    BY <1>2, QueuedIsUntouched, NextBatchIsUndelivered
  <2>2. Attempts(e) \in Nat
    BY <2>1 DEF Attempts
  <2> QED BY <2>1, <2>2 DEF Attempted
<1>7. ToAttempt(w)' = NextBatch
  BY <1>1, <1>3, <1>6 DEF ToAttempt
<1>8. \A v \in Workers \ {w} : ToAttempt(v)' = ToAttempt(v)
  BY <1>1, <1>3 DEF ToAttempt
<1>9. Held' = Held \cup NextBatch
  BY <1>5, <1>7, <1>8 DEF Held
<1>10. NeverAttempted' = NeverAttempted
  BY <1>1, <1>2, <1>4, <1>9 DEF NeverAttempted, Held
<1>11. Abstract!Take(w, NextBatch)
  BY <1>2, <1>4, <1>5, <1>7, <1>8, <1>10 DEF Abstract!Take
<1> QED BY <1>2, <1>11 DEF Abstract!Next

LEMMA ReadReplyLostRefines ==
  ASSUME Inductive, NEW w \in Workers, ReadReplyLost(w)
  PROVE  Abstract!Next
<1>1. Deliver /\ UNCHANGED <<stream, group, captured, batch, succeeded, failed>>
  BY DEF ReadReplyLost
<1> QED BY <1>1, DeliverTakes, DropRefines

LEMMA ProcessRefines ==
  ASSUME Inductive, NEW w \in Workers, Process(w)
  PROVE  Abstract!Next
<1> USE DEF Inductive, TypeOK
<1>1. /\ pc[w] = "classifying"
      /\ UNCHANGED <<stream, group, cursor, captured, batch, given>>
  BY DEF Process, redisVars, history
<1>2. PICK e \in batch[w] :
        \/ succeeded' = [succeeded EXCEPT ![e] = @ + 1] /\ UNCHANGED failed
        \/ failed' = [failed EXCEPT ![e] = @ + 1] /\ UNCHANGED succeeded
  BY DEF Process
<1>3. e \in Entries /\ Attempts(e) = 0 /\ e \in given[w]
  BY <1>1, <1>2 DEF AttemptsInOrder, GivenIsBehind
<1>4. Attempts(e)' = 1
  <2>1. succeeded[e] \in Nat /\ failed[e] \in Nat
    BY <1>3
  <2>2. \/ succeeded'[e] = succeeded[e] + 1 /\ failed'[e] = failed[e]
        \/ failed'[e] = failed[e] + 1 /\ succeeded'[e] = succeeded[e]
    BY <1>2, <1>3
  <2>3. Attempts(e)' = Attempts(e) + 1
    BY <2>1, <2>2 DEF Attempts
  <2> QED BY <1>3, <2>3
<1>5. \A f \in Entries : f # e => Attempts(f)' = Attempts(f)
  BY <1>2, <1>3 DEF Attempts
<1>6. Attempted' = Attempted \cup {e}
  BY <1>3, <1>4, <1>5 DEF Attempted
<1>7. e \in ToAttempt(w) /\ ToAttempt(w)' = ToAttempt(w) \ {e}
  BY <1>1, <1>2, <1>3, <1>4, <1>5 DEF ToAttempt
<1>8. \A v \in Workers \ {w} : ToAttempt(v)' = ToAttempt(v)
  <2> SUFFICES ASSUME NEW v \in Workers \ {w} PROVE ToAttempt(v)' = ToAttempt(v)
    OBVIOUS
  <2>1. e \notin batch[v]
    BY <1>3 DEF DistinctShares, GivenIsBehind
  <2> QED BY <1>1, <1>5, <2>1 DEF ToAttempt
<1>9. Undelivered' = Undelivered
  BY <1>1 DEF Undelivered
<1>10. Held' \cup {e} = Held
  BY <1>7, <1>8 DEF Held
<1>11. NeverAttempted' = NeverAttempted
  BY <1>1, <1>6, <1>9, <1>10 DEF NeverAttempted, Held
<1>12. Abstract!Finish(w, e)
  BY <1>6, <1>7, <1>8, <1>9, <1>11 DEF Abstract!Finish
<1>13. [v \in Workers |-> ToAttempt(v)][w] = ToAttempt(w)
  OBVIOUS
<1> QED BY <1>7, <1>12, <1>13 DEF Abstract!Next

LEMMA AckRefines ==
  ASSUME Inductive, NEW w \in Workers, Ack(w)
  PROVE  UNCHANGED Abstract!vars
<1> USE DEF Inductive, TypeOK
<1>1. /\ pc[w] = "acking"
      /\ UNCHANGED <<stream, group, cursor, captured, succeeded, failed>>
  BY DEF Ack
<1>2. PICK e \in batch[w] :
        IsFirst(e, batch[w]) /\ batch' = [batch EXCEPT ![w] = @ \ {e}]
  BY DEF Ack
<1>3. \A f : Attempts(f)' = Attempts(f)
  BY <1>1 DEF Attempts
<1>4. Attempts(e) = 1
  BY <1>1, <1>2 DEF AttemptsInOrder
<1>5. \A v \in Workers : ToAttempt(v)' = ToAttempt(v)
  BY <1>2, <1>3, <1>4 DEF ToAttempt
<1>6. Undelivered' = Undelivered /\ Attempted' = Attempted
  BY <1>1, <1>3 DEF Undelivered, Attempted
<1> QED BY <1>1, <1>5, <1>6, SameAbstractState

LEMMA CrashRefines ==
  ASSUME Inductive, NEW w \in Workers, Crash(w)
  PROVE  Abstract!Next
<1> USE DEF Inductive, TypeOK
<1>1. /\ batch' = [batch EXCEPT ![w] = {}]
      /\ UNCHANGED <<stream, group, cursor, captured, succeeded, failed>>
  BY DEF Crash, redisVars
<1>2. \A f : Attempts(f)' = Attempts(f)
  BY <1>1 DEF Attempts
<1>3. Undelivered' = Undelivered /\ Attempted' = Attempted
  BY <1>1, <1>2 DEF Undelivered, Attempted
<1>4. ToAttempt(w)' = {} /\ \A v \in Workers \ {w} : ToAttempt(v)' = ToAttempt(v)
  BY <1>1, <1>2 DEF ToAttempt
<1>5. Held = Held' \cup ToAttempt(w)
  BY <1>4 DEF Held
<1>6. ToAttempt(w) \cap Held' = {}
  <2>1. \A v \in Workers \ {w} : batch[v] \cap batch[w] = {}
    BY DEF DistinctShares, GivenIsBehind
  <2> QED BY <1>4, <2>1 DEF Held, ToAttempt
<1>7. /\ ToAttempt(w) \cap Undelivered = {} /\ ToAttempt(w) \cap Attempted = {}
      /\ ToAttempt(w) \subseteq 1..captured
  BY QueuedIsUntouched, KnownEntries DEF ToAttempt, Attempted
<1>8. NeverAttempted' = NeverAttempted \cup ToAttempt(w)
  BY <1>1, <1>3, <1>5, <1>6, <1>7 DEF NeverAttempted, Held
<1>9. Abstract!Abandon(w)
  BY <1>3, <1>4, <1>8 DEF Abstract!Abandon
<1> QED BY <1>9 DEF Abstract!Next

(* The queue keeps JobQueue's promise: a published job is handed to one    *)
(* worker at most, and attempted at most once, or is lost for good.        *)
THEOREM QueueImplementsJobQueue == Spec => ImplementsJobQueue
<1>1. Inductive /\ [Next]_vars => [Abstract!Next]_(Abstract!vars)
  <2> SUFFICES ASSUME Inductive, [Next]_vars
               PROVE  Abstract!Next \/ UNCHANGED Abstract!vars
    OBVIOUS
  <2>1. TypeOK
    BY DEF Inductive
  <2> QED
    BY <2>1, StepCases, QuietRefines, LoseDataRefines, PublishRefines,
       EnsureGroupRefines, ReadEntriesRefines, ReadReplyLostRefines,
       ProcessRefines, AckRefines, CrashRefines
<1> QED
  BY <1>1, InitRefines, Invariance, PTL
     DEF Spec, ImplementsJobQueue, Abstract!Spec

=============================================================================
