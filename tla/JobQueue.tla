------------------------------ MODULE JobQueue ------------------------------
(***************************************************************************)
(* What the queue between sms-service and the worker replicas promises:    *)
(* every offered job is waiting, held by one worker, finished, or gone,    *)
(* and it only ever moves forward.  A job may be lost - the queue is best  *)
(* effort - but it is never given to two workers nor given out twice.      *)
(*                                                                         *)
(* WorkerQueue implements this specification.                              *)
(***************************************************************************)

CONSTANTS
  Jobs,      \* what can be offered
  Workers    \* who can hold a job

VARIABLES
  waiting,   \* jobs no worker has been given
  held,      \* held[w]: jobs worker w still has to attempt
  finished,  \* jobs that were attempted, with whatever result
  gone       \* jobs that no worker will attempt

vars == <<waiting, held, finished, gone>>

Known == waiting \cup (UNION {held[w] : w \in Workers}) \cup finished \cup gone

Init ==
  /\ waiting = {}
  /\ held = [w \in Workers |-> {}]
  /\ finished = {}
  /\ gone = {}

(* A new job is queued, or lost before it reaches the queue.               *)
Offer(j) ==
  /\ j \notin Known
  /\ \/ waiting' = waiting \cup {j} /\ gone' = gone
     \/ gone' = gone \cup {j} /\ waiting' = waiting
  /\ UNCHANGED <<held, finished>>

Take(w, S) ==
  /\ held[w] = {}
  /\ S \subseteq waiting
  /\ waiting' = waiting \ S
  /\ held' = [held EXCEPT ![w] = S]
  /\ UNCHANGED <<finished, gone>>

Finish(w, j) ==
  /\ j \in held[w]
  /\ held' = [held EXCEPT ![w] = @ \ {j}]
  /\ finished' = finished \cup {j}
  /\ UNCHANGED <<waiting, gone>>

Abandon(w) ==
  /\ held' = [held EXCEPT ![w] = {}]
  /\ gone' = gone \cup held[w]
  /\ UNCHANGED <<waiting, finished>>

Drop(S) ==
  /\ S \subseteq waiting
  /\ waiting' = waiting \ S
  /\ gone' = gone \cup S
  /\ UNCHANGED <<held, finished>>

Next ==
  \/ \E j \in Jobs : Offer(j)
  \/ \E w \in Workers, S \in SUBSET waiting : Take(w, S)
  \/ \E w \in Workers : \E j \in held[w] : Finish(w, j)
  \/ \E w \in Workers : Abandon(w)
  \/ \E S \in SUBSET waiting : Drop(S)

Spec == Init /\ [][Next]_vars

=============================================================================
