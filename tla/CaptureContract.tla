--------------------------- MODULE CaptureContract ----------------------------
(***************************************************************************)
(* What the platform promises to whoever sends a capture, whatever fails   *)
(* on the way: it is stored at most once, of one request; a success is     *)
(* told only of what is stored, a refusal only of what is not and will not *)
(* be; and the client hears one thing, which may be that nobody knows.     *)
(*                                                                         *)
(* CapturePipeline implements this specification.                          *)
(***************************************************************************)

CONSTANT Captures

VARIABLES
  state,   \* "unsent", "open" (may still be stored), "stored", "void"
  told     \* "nothing", "success", "refusal", "unknown"

vars == <<state, told>>

Init ==
  /\ state = [c \in Captures |-> "unsent"]
  /\ told = [c \in Captures |-> "nothing"]

Submit(c) ==
  /\ state[c] = "unsent"
  /\ state' = [state EXCEPT ![c] = "open"]
  /\ UNCHANGED told

(* There is nobody to send it to.                                          *)
NotSent(c) ==
  /\ state[c] = "unsent"
  /\ state' = [state EXCEPT ![c] = "void"]
  /\ told' = [told EXCEPT ![c] = "unknown"]

Store(c) ==
  /\ state[c] = "open"
  /\ state' = [state EXCEPT ![c] = "stored"]
  /\ UNCHANGED told

Confirm(c) ==
  /\ state[c] = "stored" /\ told[c] = "nothing"
  /\ told' = [told EXCEPT ![c] = "success"]
  /\ UNCHANGED state

Refuse(c) ==
  /\ state[c] = "open" /\ told[c] = "nothing"
  /\ state' = [state EXCEPT ![c] = "void"]
  /\ told' = [told EXCEPT ![c] = "refusal"]

(* Something fails: captures of S come to nothing, clients of T learn that *)
(* they will not learn more.  What is stored stays.                        *)
Lose(S, T) ==
  /\ \A c \in S : state[c] = "open"
  /\ \A c \in T : told[c] = "nothing" /\ state[c] # "unsent"
  /\ state' = [c \in Captures |-> IF c \in S THEN "void" ELSE state[c]]
  /\ told' = [c \in Captures |-> IF c \in T THEN "unknown" ELSE told[c]]

Next ==
  \/ \E c \in Captures : Submit(c) \/ NotSent(c) \/ Store(c) \/ Confirm(c) \/ Refuse(c)
  \/ \E S, T \in SUBSET Captures : Lose(S, T)

Spec == Init /\ [][Next]_vars

=============================================================================
