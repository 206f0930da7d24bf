-------------------------------- MODULE Reports -------------------------------
(***************************************************************************)
(* sms-service's reports over the messages table: the export, which reads  *)
(* it batch by batch by offset (messages.service.ts), and the statistics,  *)
(* which count it three times (statistics.service.ts).  Between two reads  *)
(* messages are captured and deleted.                                      *)
(*                                                                         *)
(* A message is its place in the order of (created_at, id).  A capture     *)
(* takes its time before it inserts, so that messages may be inserted out  *)
(* of that order.  A message that setSpam inserts again counts as another  *)
(* one, and one whose organization is deleted as a deleted one.            *)
(***************************************************************************)
EXTENDS Naturals, Sequences, FiniteSets, Ranking

CONSTANTS
  Messages,    \* messages, numbered in the order of created_at and id
  Foreign,     \* those of other organizations, or that the filters leave out
  BatchSize    \* EXPORT_BATCH_SIZE

ASSUME MessageAssumption == Messages \subseteq Nat \ {0} /\ Foreign \subseteq Messages
ASSUME BatchAssumption == BatchSize \in Nat \ {0}

VARIABLES
  messages,    \* the messages table
  captured,    \* messages inserted so far
  export,      \* [at, offset, out]: streamExportBatches
  stats,       \* [at, total, status, day]: getStatistics
  \* history
  before,      \* what the table held when the export, the statistics began
  pulled,      \* a message up to the last exported has been deleted
  pushed,      \* a message has been inserted that comes before an exported one
  lost         \* a message has been deleted since the statistics began

repVars == <<messages, captured, export, stats, before, pulled, pushed, lost>>

RepInit ==
  /\ messages \in SUBSET Messages /\ IsFiniteSet(messages) /\ captured = messages
  /\ export = [at |-> "idle", offset |-> 0, out |-> <<>>]
  /\ stats = [at |-> "idle", total |-> 0, status |-> 0, day |-> 0]
  /\ before = [export |-> {}, stats |-> {}]
  /\ pulled = FALSE /\ pushed = FALSE /\ lost = FALSE

(* buildFilterWhere, orgWhere.                                             *)
Matching(table) == table \ Foreign

-----------------------------------------------------------------------------
(* Captures and deletions                                                  *)

Exported == {export.out[i] : i \in DOMAIN export.out}

InsertMessage(m) ==
  /\ m \notin captured
  /\ messages' = messages \cup {m} /\ captured' = captured \cup {m}
  /\ pushed' = (pushed \/ \E e \in Exported : m < e)
  /\ UNCHANGED <<export, stats, before, pulled, lost>>

RemoveMessages(gone) ==
  /\ gone # {} /\ gone \subseteq Matching(messages)
  /\ messages' = messages \ gone
  /\ pulled' = (pulled \/ \E g \in gone, e \in Exported : g <= e) /\ lost' = TRUE
  /\ UNCHANGED <<captured, export, stats, before, pushed>>

-----------------------------------------------------------------------------
(* The export                                                              *)

BeginExport ==
  /\ export.at = "idle"
  /\ export' = [export EXCEPT !.at = "reading"]
  /\ before' = [before EXCEPT !.export = Matching(messages)]
  /\ UNCHANGED <<messages, captured, stats, pulled, pushed, lost>>

(* Variant: newest first, like the list.                                   *)
NewestFirst(table) == Descending(table)

InOrder(table) == Ascending(table)

(* One find with take and skip; the batch goes to the response.            *)
ReadBatch ==
  LET rows == InOrder(Matching(messages))
      batch == SubSeq(rows, export.offset + 1,
                      IF export.offset + BatchSize < Len(rows)
                      THEN export.offset + BatchSize ELSE Len(rows))
  IN  /\ export.at = "reading"
      /\ export' = [at |-> IF Len(batch) < BatchSize THEN "done" ELSE "reading",
                    offset |-> export.offset + Len(batch),
                    out |-> export.out \o batch]
      /\ UNCHANGED <<messages, captured, stats, before, pulled, pushed, lost>>

-----------------------------------------------------------------------------
(* The statistics                                                          *)

CountTotal ==
  /\ stats.at = "idle"
  /\ stats' = [stats EXCEPT !.at = "byStatus", !.total = Cardinality(Matching(messages))]
  /\ before' = [before EXCEPT !.stats = Matching(messages)]
  /\ lost' = FALSE
  /\ UNCHANGED <<messages, captured, export, pulled, pushed>>

(* The sums of the groups.                                                 *)
CountByStatus ==
  /\ stats.at = "byStatus"
  /\ stats' = [stats EXCEPT !.at = "byDay", !.status = Cardinality(Matching(messages))]
  /\ UNCHANGED <<messages, captured, export, before, pulled, pushed, lost>>

(* Variant: the days are counted without the organization.                 *)
CountAllByDay ==
  /\ stats.at = "byDay"
  /\ stats' = [stats EXCEPT !.at = "done", !.day = Cardinality(messages)]
  /\ UNCHANGED <<messages, captured, export, before, pulled, pushed, lost>>

CountByDay ==
  /\ stats.at = "byDay"
  /\ stats' = [stats EXCEPT !.at = "done", !.day = Cardinality(Matching(messages))]
  /\ UNCHANGED <<messages, captured, export, before, pulled, pushed, lost>>

RepNext ==
  \/ \E m \in Messages : InsertMessage(m)
  \/ \E gone \in SUBSET messages : RemoveMessages(gone)
  \/ BeginExport \/ ReadBatch
  \/ CountTotal \/ CountByStatus \/ CountByDay

RepSpec == RepInit /\ [][RepNext]_repVars

-----------------------------------------------------------------------------
(* Properties                                                              *)

RepTypeOK ==
  /\ messages \in SUBSET captured /\ captured \in SUBSET Messages
  /\ export.at \in {"idle", "reading", "done"} /\ export.offset = Len(export.out)
  /\ Exported \subseteq Messages
  /\ stats \in [at : {"idle", "byStatus", "byDay", "done"},
                total : Nat, status : Nat, day : Nat]
  /\ before \in [{"export", "stats"} -> SUBSET Messages]
  /\ {pulled, pushed, lost} \subseteq BOOLEAN

(* A finished export has every message that was there from its beginning,  *)
(* unless one was deleted of the part of the table it had passed; and it   *)
(* has none twice, and all in order, unless one was inserted in that part. *)
(* What is captured or deleted beyond does no harm                         *)
(* (messages.service.ts:110-132).                                          *)
ExportIsFaithful ==
  export.at = "done" =>
    /\ ~pulled => before.export \cap messages \subseteq Exported
    /\ ~pushed => \A i, j \in DOMAIN export.out : i < j => export.out[i] < export.out[j]
    /\ Exported \cap Foreign = {}

(* As long as nothing is deleted, the three counts of the statistics grow  *)
(* in the order they are taken, from what was there at first to what is    *)
(* there at last; they agree when nothing was captured either              *)
(* (statistics.service.ts:18-43).                                          *)
StatisticsAddUp ==
  stats.at = "done" /\ ~lost =>
    /\ Cardinality(before.stats) = stats.total
    /\ stats.total <= stats.status /\ stats.status <= stats.day
    /\ stats.day <= Cardinality(Matching(messages))

=============================================================================
