---------------------------- MODULE DashboardProofs ---------------------------
(***************************************************************************)
(* Theorems about the dashboard's lists with forms and about the reports,  *)
(* for any sets of rows, texts and messages, any batch size and any number *)
(* of acts; and about MCDashboard, which puts them together with the       *)
(* organizations.                                                          *)
(***************************************************************************)
EXTENDS MCDashboard, OrganizationsPageProofs, FiniteSetTheorems, FunctionTheorems,
        SequenceTheorems, Integers

-----------------------------------------------------------------------------
(* Ranking: the n-th number of a finite set                                *)

LEMMA BelowFinite ==
  ASSUME NEW S \in SUBSET Nat, IsFiniteSet(S), NEW x
  PROVE  /\ IsFiniteSet(Below(S, x)) /\ Cardinality(Below(S, x)) \in Nat
         /\ Cardinality(Below(S, x)) <= Cardinality(S)
         /\ Cardinality(S) \in Nat
BY FS_Subset, FS_CardinalityType DEF Below

(* A smaller number has fewer below it.                                    *)
LEMMA RankGrows ==
  ASSUME NEW S \in SUBSET Nat, IsFiniteSet(S), NEW x \in S, NEW y \in Nat, x < y
  PROVE  Cardinality(Below(S, x)) < Cardinality(Below(S, y))
<1>0. x \in Nat /\ \A z \in S : z \in Nat /\ (z < x => z < y)
  OBVIOUS
<1>1. ~(x < x)
  BY <1>0
<1>2. Below(S, x) \subseteq Below(S, y) /\ x \in Below(S, y) /\ x \notin Below(S, x)
  BY <1>0, <1>1 DEF Below
<1>3. IsFiniteSet(Below(S, y)) /\ Cardinality(Below(S, y)) \in Nat
      /\ Cardinality(Below(S, x)) \in Nat
  BY BelowFinite
<1>4. Cardinality(Below(S, x)) <= Cardinality(Below(S, y))
      /\ (Cardinality(Below(S, x)) = Cardinality(Below(S, y)) => Below(S, x) = Below(S, y))
  BY <1>2, <1>3, FS_Subset
<1> QED  BY <1>2, <1>3, <1>4

LEMMA RankBound ==
  ASSUME NEW S \in SUBSET Nat, IsFiniteSet(S), NEW x \in S
  PROVE  Cardinality(Below(S, x)) < Cardinality(S)
<1> Below(S, x) \in SUBSET S /\ x \notin Below(S, x)
  BY DEF Below
<1>1. Cardinality(S) \in Nat /\ Cardinality(Below(S, x)) \in Nat
  BY BelowFinite
<1>2. Cardinality(Below(S, x)) <= Cardinality(S)
      /\ (Cardinality(S) = Cardinality(Below(S, x)) => S = Below(S, x))
  BY FS_Subset
<1> QED  BY <1>1, <1>2

(* Every place of S is taken, by the number with so many below it.         *)
LEMMA RankTaken ==
  ASSUME NEW S \in SUBSET Nat, IsFiniteSet(S), NEW i \in 1..Cardinality(S)
  PROVE  \E x \in S : Cardinality(Below(S, x)) + 1 = i
<1> DEFINE rank == [x \in S |-> Cardinality(Below(S, x)) + 1]
           places == 1..Cardinality(S)
<1>1. Cardinality(S) \in Nat
  BY FS_CardinalityType
<1>2. rank \in [S -> places]
  BY BelowFinite, RankBound, <1>1
<1>3. \A x, y \in S : rank[x] = rank[y] => x = y
  <2> SUFFICES ASSUME NEW x \in S, NEW y \in S, rank[x] = rank[y]
               PROVE  x = y
    OBVIOUS
  <2>0. Cardinality(Below(S, x)) \in Nat /\ Cardinality(Below(S, y)) \in Nat
    BY BelowFinite
  <2>1. Cardinality(Below(S, x)) = Cardinality(Below(S, y))
    BY <2>0
  <2>2. ~(x < y)
    BY RankGrows, <2>0, <2>1
  <2>3. ~(y < x)
    BY RankGrows, <2>0, <2>1
  <2> QED  BY <2>2, <2>3
<1>4. IsFiniteSet(places) /\ Cardinality(places) = Cardinality(S)
  BY <1>1, FS_Interval
<1>5. rank \in Injection(S, places)
  <2> HIDE DEF rank, places
  <2> QED  BY <1>2, <1>3, Fun_IsInj
<1>6. rank \in Surjection(S, places)
  <2> HIDE DEF rank, places
  <2> QED  BY <1>4, <1>5, FS_Injection
<1>7. \A p \in places : \E x \in S : rank[x] = p
  <2> HIDE DEF rank, places
  <2> QED  BY <1>6, Fun_SurjectionProperties
<1> QED  BY <1>7

LEMMA NthFits ==
  ASSUME NEW S \in SUBSET Nat, IsFiniteSet(S), NEW i \in 1..Cardinality(S)
  PROVE  Nth(S, i) \in S /\ Cardinality(Below(S, Nth(S, i))) + 1 = i
BY RankTaken DEF Nth

LEMMA NthGrows ==
  ASSUME NEW S \in SUBSET Nat, IsFiniteSet(S),
         NEW i \in 1..Cardinality(S), NEW j \in 1..Cardinality(S), i < j
  PROVE  Nth(S, i) < Nth(S, j)
<1> DEFINE x == Nth(S, i)
           y == Nth(S, j)
<1>1. /\ x \in S /\ Cardinality(Below(S, x)) + 1 = i
      /\ y \in S /\ Cardinality(Below(S, y)) + 1 = j
  BY NthFits
<1>2. Cardinality(Below(S, x)) \in Nat /\ Cardinality(Below(S, y)) \in Nat
  BY BelowFinite
<1> HIDE DEF x, y
<1>3. ~(y < x)
  BY <1>1, <1>2, RankGrows
<1>4. x # y
  BY <1>1, <1>2
<1>5. x \in Nat /\ y \in Nat
  BY <1>1
<1> QED  BY <1>3, <1>4, <1>5 DEF x, y

(* Each number of S has its place.                                         *)
LEMMA NthOfRank ==
  ASSUME NEW S \in SUBSET Nat, IsFiniteSet(S), NEW x \in S
  PROVE  /\ Cardinality(Below(S, x)) + 1 \in 1..Cardinality(S)
         /\ Nth(S, Cardinality(Below(S, x)) + 1) = x
<1> DEFINE i == Cardinality(Below(S, x)) + 1
<1>0. Cardinality(Below(S, x)) \in Nat /\ Cardinality(S) \in Nat
  BY BelowFinite
<1>1. i \in 1..Cardinality(S)
  BY <1>0, RankBound
<1>2. Nth(S, i) \in S /\ Cardinality(Below(S, Nth(S, i))) + 1 = i
  BY <1>1, NthFits
<1>3. Cardinality(Below(S, Nth(S, i))) \in Nat
  BY BelowFinite
<1>4. Cardinality(Below(S, Nth(S, i))) = Cardinality(Below(S, x))
  BY <1>0, <1>2, <1>3
<1>5. Nth(S, i) \in Nat
  BY <1>2
<1>6. ~(x < Nth(S, i))
  BY <1>0, <1>3, <1>4, <1>5, RankGrows
<1>7. ~(Nth(S, i) < x)
  <2> HIDE DEF i
  <2> PICK n \in S : n = Nth(S, i)
    BY <1>2
  <2> QED  BY <1>0, <1>2, <1>3, <1>4, RankGrows
<1> QED  BY <1>1, <1>5, <1>6, <1>7

-----------------------------------------------------------------------------
(* Reports: what the statistics have counted and the export has read       *)

ReportsFit ==
  /\ messages \in SUBSET captured /\ captured \in SUBSET Messages
  /\ IsFiniteSet(messages)
  /\ export \in [at : {"idle", "reading", "done"}, offset : Nat, out : Seq(Messages \ Foreign)]
  /\ export.offset = Len(export.out)
  /\ Exported \subseteq captured
  /\ stats \in [at : {"idle", "byStatus", "byDay", "done"},
                total : Nat, status : Nat, day : Nat]
  /\ before \in [{"export", "stats"} -> SUBSET Messages]
  /\ before["export"] \subseteq captured \ Foreign
  /\ pulled \in BOOLEAN /\ pushed \in BOOLEAN /\ lost \in BOOLEAN

(* Each count is between the one before it and what there is now.          *)
CountsGrow ==
  stats.at # "idle" /\ ~lost =>
    LET now == Cardinality(Matching(messages))
    IN  /\ Cardinality(before.stats) = stats.total
        /\ stats.at = "byStatus" => stats.total <= now
        /\ stats.at = "byDay" => stats.total <= stats.status /\ stats.status <= now
        /\ stats.at = "done" => /\ stats.total <= stats.status /\ stats.status <= stats.day
                                /\ stats.day <= now

(* The part of the table that the export has passed.                       *)
Passed(rows, exported) == {n \in rows : \E e \in exported : n <= e}

(* The offset is the length of the part passed: no longer than it unless a *)
(* row was deleted there, no shorter unless one was inserted there.        *)
OffsetFits ==
  LET passed == Passed(Matching(messages), Exported)
  IN  /\ ~pulled => /\ export.offset <= Cardinality(passed)
                    /\ (before["export"] \cap messages) \cap passed \subseteq Exported
      /\ ~pushed => /\ Cardinality(passed) <= export.offset
                    /\ \A i, j \in DOMAIN export.out : i < j => export.out[i] < export.out[j]

ReportsInductive ==
  /\ ReportsFit
  /\ CountsGrow
  /\ export.at = "idle" => export.out = <<>>
  /\ export.at # "done" => OffsetFits
  /\ ExportIsFaithful

-----------------------------------------------------------------------------

LEMMA TableFits ==
  ASSUME NEW kept \in SUBSET Messages, IsFiniteSet(kept)
  PROVE  /\ Matching(kept) \in SUBSET Nat /\ IsFiniteSet(Matching(kept))
         /\ Cardinality(Matching(kept)) \in Nat
<1>1. Matching(kept) \subseteq kept /\ kept \subseteq Nat
  BY MessageAssumption DEF Matching
<1> QED  BY <1>1, FS_Subset, FS_CardinalityType

LEMMA PassedFits ==
  ASSUME NEW rows \in SUBSET Nat, IsFiniteSet(rows), NEW exported
  PROVE  /\ Passed(rows, exported) \in SUBSET rows /\ IsFiniteSet(Passed(rows, exported))
         /\ Cardinality(Passed(rows, exported)) \in Nat
BY FS_Subset, FS_CardinalityType DEF Passed

(* Those passed come before all the others.                                *)
LEMMA PassedIsAPrefix ==
  ASSUME NEW rows \in SUBSET Nat, IsFiniteSet(rows), NEW exported \in SUBSET Nat,
         NEW x \in rows
  PROVE  /\ x \in Passed(rows, exported)
              => Cardinality(Below(rows, x)) + 1 <= Cardinality(Passed(rows, exported))
         /\ x \notin Passed(rows, exported)
              => Cardinality(Passed(rows, exported)) <= Cardinality(Below(rows, x))
<1> DEFINE passed == Passed(rows, exported)
<1>1. IsFiniteSet(passed) /\ IsFiniteSet(Below(rows, x))
      /\ Cardinality(Below(rows, x)) \in Nat /\ Cardinality(passed) \in Nat
  BY PassedFits, BelowFinite
<1>2. CASE x \in passed
  <2>0. PICK e \in exported : x <= e
    BY <1>2 DEF Passed
  <2>a. x \in Nat /\ e \in Nat /\ \A z \in rows : z \in Nat
    OBVIOUS
  <2>b. \A z \in Below(rows, x) : z \in rows /\ z <= e
    BY <2>0, <2>a DEF Below
  <2>1. Below(rows, x) \cup {x} \subseteq passed /\ x \notin Below(rows, x)
    <3>1. Below(rows, x) \subseteq passed
      BY <2>b DEF Passed
    <3>2. x \notin Below(rows, x)
      BY <2>a DEF Below
    <3> QED  BY <1>2, <3>1, <3>2
  <2>2. Cardinality(Below(rows, x) \cup {x}) = Cardinality(Below(rows, x)) + 1
    BY <1>1, <2>1, FS_AddElement
  <2>3. Cardinality(Below(rows, x) \cup {x}) <= Cardinality(passed)
    BY <1>1, <2>1, FS_Subset
  <2> QED  BY <1>2, <2>2, <2>3
<1>3. CASE x \notin passed
  <2>1. ASSUME NEW n \in passed
        PROVE  n \in Below(rows, x)
    <3>1. PICK e \in exported : n <= e
      BY DEF Passed
    <3>2. n \in rows /\ ~(x <= e)
      BY <1>3 DEF Passed
    <3>3. n \in Nat /\ e \in Nat /\ x \in Nat
      BY <3>2
    <3>4. n < x
      BY <3>1, <3>2, <3>3
    <3> QED  BY <3>2, <3>4 DEF Below
  <2> QED  BY <1>1, <1>3, <2>1, FS_Subset
<1> QED  BY <1>2, <1>3

(* What one find reads: the places after the offset.                       *)
LEMMA BatchFits ==
  ASSUME NEW rows \in SUBSET Nat, IsFiniteSet(rows), NEW from \in Nat, NEW to \in 0..Cardinality(rows)
  PROVE  LET batch == SubSeq(InOrder(rows), from + 1, to)
         IN  /\ batch \in Seq(rows)
             /\ Len(batch) = IF from < to THEN to - from ELSE 0
             /\ \A i \in 1..Len(batch) : from + i \in 1..to /\ batch[i] = Nth(rows, from + i)
             /\ \A x \in rows : from < Cardinality(Below(rows, x)) + 1 /\ Cardinality(Below(rows, x)) < to
                  => \E i \in 1..Len(batch) : batch[i] = x
<1> DEFINE batch == SubSeq(InOrder(rows), from + 1, to)
<1>0. Cardinality(rows) \in Nat
  BY FS_CardinalityType
<1>1. \A i \in (from + 1)..to : InOrder(rows)[i] = Nth(rows, i) /\ InOrder(rows)[i] \in rows
  BY <1>0, NthFits DEF InOrder, Ascending
<1>2. /\ batch \in Seq(rows)
      /\ Len(batch) = IF from + 1 <= to THEN to - (from + 1) + 1 ELSE 0
      /\ \A i \in 1..(to - (from + 1) + 1) : batch[i] = InOrder(rows)[(from + 1) + i - 1]
  <2> HIDE DEF batch
  <2>1. \A i \in (from + 1)..to : InOrder(rows)[i] \in rows
    BY <1>1
  <2> QED  BY <2>1, SubSeqProperties DEF batch
<1> HIDE DEF batch
<1>3. Len(batch) = IF from < to THEN to - from ELSE 0
  BY <1>2, <1>0
<1>4. \A i \in 1..Len(batch) : from + i \in 1..to /\ batch[i] = Nth(rows, from + i)
  <2> TAKE i \in 1..Len(batch)
  <2>1. from < to /\ i \in 1..(to - from)
    BY <1>3
  <2>2. (from + 1) + i - 1 = from + i /\ from + i \in (from + 1)..to
        /\ i \in 1..(to - (from + 1) + 1)
    BY <2>1
  <2> QED  BY <2>2, <1>1, <1>2
<1>5. ASSUME NEW x \in rows,
             from < Cardinality(Below(rows, x)) + 1, Cardinality(Below(rows, x)) < to
      PROVE  \E i \in 1..Len(batch) : batch[i] = x
  <2>0. Cardinality(Below(rows, x)) \in Nat
    BY BelowFinite
  <2> DEFINE i == Cardinality(Below(rows, x)) + 1 - from
  <2>1. i \in 1..Len(batch) /\ from + i = Cardinality(Below(rows, x)) + 1
    BY <2>0, <1>3, <1>5
  <2>2. batch[i] = Nth(rows, from + i)
    BY <2>1, <1>4
  <2>3. Nth(rows, Cardinality(Below(rows, x)) + 1) = x
    BY NthOfRank
  <2> QED  BY <2>1, <2>2, <2>3
<1> QED  BY <1>2, <1>3, <1>4, <1>5 DEF batch

-----------------------------------------------------------------------------
(* The steps                                                               *)

LEMMA ReportsInitial == RepInit => ReportsInductive
<1> SUFFICES ASSUME RepInit  PROVE ReportsInductive
  OBVIOUS
<1>1. Exported = {}
  BY DEF RepInit, Exported
<1>2. ReportsFit
  <2>1. export = [at |-> "idle", offset |-> 0, out |-> <<>>]
        /\ Len(<<>>) = 0 /\ <<>> \in Seq(Messages \ Foreign)
    BY DEF RepInit
  <2>2. before \in [{"export", "stats"} -> SUBSET Messages] /\ before["export"] = {}
    BY DEF RepInit
  <2>3. stats = [at |-> "idle", total |-> 0, status |-> 0, day |-> 0]
    BY DEF RepInit
  <2>4. export.at = "idle" /\ export.offset = 0 /\ export.out = <<>>
    BY <2>1
  <2>5. export \in [at : {"idle", "reading", "done"}, offset : Nat, out : Seq(Messages \ Foreign)]
    BY <2>1
  <2>6. stats \in [at : {"idle", "byStatus", "byDay", "done"}, total : Nat, status : Nat, day : Nat]
    BY <2>3
  <2>7. export.offset = Len(export.out)
    BY <2>1, <2>4
  <2>8. /\ messages \in SUBSET captured /\ captured \in SUBSET Messages /\ IsFiniteSet(messages)
        /\ pulled \in BOOLEAN /\ pushed \in BOOLEAN /\ lost \in BOOLEAN
    BY DEF RepInit
  <2> QED  BY <1>1, <2>2, <2>5, <2>6, <2>7, <2>8 DEF ReportsFit
<1>3. Passed(Matching(messages), Exported) = {}
  BY <1>1 DEF Passed
<1>4. Cardinality(Passed(Matching(messages), Exported)) = 0
  BY <1>3, FS_EmptySet
<1>5. export.offset = 0 /\ export.out = <<>> /\ stats.at = "idle" /\ export.at = "idle"
  BY DEF RepInit
<1>6. OffsetFits
  BY <1>3, <1>4, <1>5 DEF OffsetFits
<1> QED  BY <1>2, <1>5, <1>6 DEF ReportsInductive, CountsGrow, ExportIsFaithful

LEMMA InsertKeeps ==
  ASSUME ReportsInductive, NEW m \in Messages, InsertMessage(m)
  PROVE  ReportsInductive'
<1> USE DEF ReportsInductive
<1>1. ReportsFit'
  <2>1. IsFiniteSet(messages')
    BY FS_AddElement DEF ReportsFit, InsertMessage
  <2> QED  BY <2>1 DEF ReportsFit, InsertMessage, Exported
<1> DEFINE rows == Matching(messages)
           more == Matching(messages')
<1>2. /\ rows \in SUBSET Nat /\ IsFiniteSet(rows) /\ Cardinality(rows) \in Nat
      /\ more \in SUBSET Nat /\ IsFiniteSet(more) /\ Cardinality(more) \in Nat
  <2> messages \in SUBSET Messages /\ IsFiniteSet(messages)
      /\ messages' \in SUBSET Messages /\ IsFiniteSet(messages')
    BY <1>1 DEF ReportsFit
  <2> QED  BY TableFits
<1>3. rows \subseteq more /\ more \subseteq rows \cup {m} /\ m \notin rows /\ m \notin messages
  BY DEF Matching, InsertMessage, ReportsFit
<1>4. CountsGrow'
  <2>1. Cardinality(rows) <= Cardinality(more)
    BY <1>2, <1>3, FS_Subset
  <2>2. stats' = stats /\ before' = before /\ lost' = lost
    BY DEF InsertMessage
  <2>3. stats.total \in Nat /\ stats.status \in Nat /\ stats.day \in Nat
    BY DEF ReportsFit
  <2> HIDE DEF rows, more
  <2> QED  BY <1>2, <2>1, <2>2, <2>3 DEF CountsGrow, rows, more
<1>5. export' = export /\ before' = before /\ pulled' = pulled /\ Exported' = Exported
      /\ (pushed' <=> (pushed \/ \E e \in Exported : m < e))
  BY DEF InsertMessage, Exported
<1>6. m \notin before["export"] /\ m \notin Exported /\ m \in Nat /\ Exported \subseteq Nat
  BY MessageAssumption DEF ReportsFit, InsertMessage
<1>7. before["export"] \cap messages' = before["export"] \cap messages
  BY <1>6 DEF InsertMessage
<1>8. export.at # "done" => OffsetFits'
  <2> SUFFICES ASSUME export.at # "done"  PROVE OffsetFits'
    OBVIOUS
  <2> DEFINE passed == Passed(rows, Exported)
             now == Passed(more, Exported)
  <2>0. export.offset \in Nat /\ OffsetFits
    BY DEF ReportsFit
  <2>1. passed \subseteq now /\ now \subseteq passed \cup {m}
    BY <1>3 DEF Passed
  <2>2. /\ IsFiniteSet(passed) /\ Cardinality(passed) \in Nat
        /\ IsFiniteSet(now) /\ Cardinality(now) \in Nat
    BY <1>2, PassedFits
  <2>3. Cardinality(passed) <= Cardinality(now)
    BY <2>1, <2>2, FS_Subset
  <2>4. ~pushed' => now = passed
    <3> SUFFICES ASSUME ~pushed'  PROVE m \notin now
      BY <2>1
    <3>1. SUFFICES ASSUME NEW e \in Exported, m <= e  PROVE FALSE
      BY DEF Passed
    <3>2. m # e /\ ~(m < e)
      BY <1>5, <1>6
    <3> QED  BY <1>6, <3>1, <3>2
  <2>5. ~pulled => (before["export"] \cap messages) \cap now \subseteq Exported
    <3>1. ~pulled => (before["export"] \cap messages) \cap passed \subseteq Exported
      BY <2>0 DEF OffsetFits
    <3> HIDE DEF passed, now
    <3> QED  BY <1>6, <2>1, <3>1
  <2>6. ~pulled => export.offset <= Cardinality(now)
    <3>1. ~pulled => export.offset <= Cardinality(passed)
      BY <2>0 DEF OffsetFits
    <3> HIDE DEF passed, now
    <3> QED  BY <2>0, <2>2, <2>3, <3>1
  <2>7. ~pushed' => /\ Cardinality(now) <= export.offset
                    /\ \A i, j \in DOMAIN export.out : i < j => export.out[i] < export.out[j]
    <3>1. ~pushed => /\ Cardinality(passed) <= export.offset
                     /\ \A i, j \in DOMAIN export.out : i < j => export.out[i] < export.out[j]
      BY <2>0 DEF OffsetFits
    <3> HIDE DEF passed, now
    <3> QED  BY <1>5, <2>4, <3>1
  <2> HIDE DEF passed, now, rows, more
  <2>8. (Passed(Matching(messages), Exported))' = now
    BY <1>5 DEF now, more
  <2> QED  BY <1>5, <1>7, <2>5, <2>6, <2>7, <2>8 DEF OffsetFits
<1>9. ExportIsFaithful'
  BY <1>5, <1>7 DEF ExportIsFaithful, Exported
<1> QED  BY <1>1, <1>4, <1>5, <1>8, <1>9

LEMMA RemoveKeeps ==
  ASSUME ReportsInductive, NEW gone \in SUBSET messages, RemoveMessages(gone)
  PROVE  ReportsInductive'
<1> USE DEF ReportsInductive
<1>1. ReportsFit'
  <2>1. IsFiniteSet(messages')
    BY FS_Subset DEF ReportsFit, RemoveMessages
  <2> QED  BY <2>1 DEF ReportsFit, RemoveMessages, Exported
<1> DEFINE rows == Matching(messages)
           less == Matching(messages')
<1>2. /\ rows \in SUBSET Nat /\ IsFiniteSet(rows)
      /\ less \in SUBSET Nat /\ IsFiniteSet(less)
  <2> messages \in SUBSET Messages /\ IsFiniteSet(messages)
      /\ messages' \in SUBSET Messages /\ IsFiniteSet(messages')
    BY <1>1 DEF ReportsFit
  <2> QED  BY TableFits
<1>3. less = rows \ gone
  BY DEF Matching, RemoveMessages
<1>4. CountsGrow'
  BY DEF CountsGrow, RemoveMessages
<1>5. export' = export /\ before' = before /\ pushed' = pushed /\ Exported' = Exported
      /\ (pulled' <=> (pulled \/ \E g \in gone, e \in Exported : g <= e))
  BY DEF RemoveMessages, Exported
<1>7. before["export"] \cap messages' \subseteq before["export"] \cap messages
  BY DEF RemoveMessages
<1>8. export.at # "done" => OffsetFits'
  <2> SUFFICES ASSUME export.at # "done"  PROVE OffsetFits'
    OBVIOUS
  <2> DEFINE passed == Passed(rows, Exported)
             now == Passed(less, Exported)
  <2>0. export.offset \in Nat /\ OffsetFits
    BY DEF ReportsFit
  <2>1. now \subseteq passed
    BY <1>3 DEF Passed
  <2>2. /\ IsFiniteSet(passed) /\ Cardinality(passed) \in Nat
        /\ IsFiniteSet(now) /\ Cardinality(now) \in Nat
    BY <1>2, PassedFits
  <2>3. Cardinality(now) <= Cardinality(passed)
    BY <2>1, <2>2, FS_Subset
  <2>4. ~pulled' => now = passed
    BY <1>3, <1>5 DEF Passed
  <2>a. /\ ~pulled => /\ export.offset <= Cardinality(passed)
                      /\ (before["export"] \cap messages) \cap passed \subseteq Exported
        /\ ~pushed => /\ Cardinality(passed) <= export.offset
                      /\ \A i, j \in DOMAIN export.out : i < j => export.out[i] < export.out[j]
    BY <2>0 DEF OffsetFits
  <2>8. (Passed(Matching(messages), Exported))' = now
    BY <1>5
  <2> HIDE DEF passed, now, rows, less
  <2>5. ~pulled' => /\ export.offset <= Cardinality(now)
                    /\ (before["export"] \cap messages') \cap now \subseteq Exported
    BY <1>5, <1>7, <2>4, <2>a
  <2>6. ~pushed => Cardinality(now) <= export.offset
    BY <2>0, <2>2, <2>3, <2>a
  <2> QED  BY <1>5, <2>5, <2>6, <2>a, <2>8 DEF OffsetFits
<1>9. ExportIsFaithful'
  BY <1>5, <1>7 DEF ExportIsFaithful, Exported
<1> QED  BY <1>1, <1>4, <1>5, <1>8, <1>9

LEMMA BeginExportKeeps ==
  ASSUME ReportsInductive, BeginExport
  PROVE  ReportsInductive'
<1> USE DEF ReportsInductive
<1>1. /\ export.at = "idle" /\ export.out = <<>> /\ export.offset = 0
      /\ export'.at = "reading" /\ export'.out = <<>> /\ export'.offset = 0
      /\ UNCHANGED <<messages, captured, stats, pulled, pushed, lost>>
  BY DEF BeginExport, ReportsFit
<1>2. before'["export"] = Matching(messages) /\ before'["stats"] = before["stats"]
      /\ before' \in [{"export", "stats"} -> SUBSET Messages]
  BY DEF BeginExport, ReportsFit, Matching
<1>3. Exported' = {}
  BY <1>1 DEF Exported
<1>4. ReportsFit'
  BY <1>1, <1>2, <1>3 DEF ReportsFit, BeginExport, Matching
<1>5. CountsGrow'
  BY <1>1, <1>2 DEF CountsGrow
<1>6. (Passed(Matching(messages), Exported))' = {}
  BY <1>3 DEF Passed
<1>7. (Cardinality(Passed(Matching(messages), Exported)))' = 0
  BY <1>6, FS_EmptySet
<1>8. OffsetFits'
  BY <1>1, <1>6, <1>7 DEF OffsetFits
<1> QED  BY <1>1, <1>4, <1>5, <1>8 DEF ExportIsFaithful

LEMMA CountTotalKeeps ==
  ASSUME ReportsInductive, CountTotal
  PROVE  ReportsInductive'
<1> USE DEF ReportsInductive
<1>0. messages \in SUBSET Messages /\ IsFiniteSet(messages)
  BY DEF ReportsFit
<1>1. Cardinality(Matching(messages)) \in Nat
  BY <1>0, TableFits
<1>2. before'["stats"] = Matching(messages) /\ before'["export"] = before["export"]
      /\ before' \in [{"export", "stats"} -> SUBSET Messages]
  BY <1>0 DEF CountTotal, ReportsFit, Matching
<1>3. /\ stats' = [stats EXCEPT !.at = "byStatus", !.total = Cardinality(Matching(messages))]
      /\ UNCHANGED <<messages, captured, export, pulled, pushed>> /\ lost' \in BOOLEAN
  BY DEF CountTotal
<1>4. Exported' = Exported
  BY <1>3 DEF Exported
<1>5. stats' \in [at : {"idle", "byStatus", "byDay", "done"}, total : Nat, status : Nat, day : Nat]
      /\ stats'.at = "byStatus" /\ stats'.total = Cardinality(Matching(messages))
  BY <1>1, <1>3 DEF ReportsFit
<1>6. ReportsFit'
  BY <1>2, <1>3, <1>4, <1>5 DEF ReportsFit
<1>7. CountsGrow'
  BY <1>1, <1>2, <1>3, <1>5 DEF CountsGrow
<1>8. export.at # "done" => OffsetFits'
  BY <1>2, <1>3, <1>4 DEF OffsetFits
<1>9. ExportIsFaithful'
  BY <1>2, <1>3, <1>4 DEF ExportIsFaithful
<1> QED  BY <1>3, <1>6, <1>7, <1>8, <1>9

LEMMA CountRestKeeps ==
  ASSUME ReportsInductive, CountByStatus \/ CountByDay
  PROVE  ReportsInductive'
<1> USE DEF ReportsInductive
<1>0. messages \in SUBSET Messages /\ IsFiniteSet(messages)
  BY DEF ReportsFit
<1>1. Cardinality(Matching(messages)) \in Nat
  BY <1>0, TableFits
<1>2. /\ UNCHANGED <<messages, captured, export, before, pulled, pushed, lost>>
      /\ Exported' = Exported
  BY DEF CountByStatus, CountByDay, Exported
<1>3. stats' \in [at : {"idle", "byStatus", "byDay", "done"}, total : Nat, status : Nat, day : Nat]
      /\ CountsGrow'
  <2>1. CASE CountByStatus
    <3>1. /\ stats.at = "byStatus"
          /\ stats' = [stats EXCEPT !.at = "byDay", !.status = Cardinality(Matching(messages))]
      BY <2>1 DEF CountByStatus
    <3>2. /\ stats'.at = "byDay" /\ stats'.total = stats.total
          /\ stats'.status = Cardinality(Matching(messages))
          /\ stats' \in [at : {"idle", "byStatus", "byDay", "done"}, total : Nat, status : Nat, day : Nat]
      BY <1>1, <3>1 DEF ReportsFit
    <3> QED  BY <1>1, <1>2, <3>1, <3>2 DEF CountsGrow
  <2>2. CASE CountByDay
    <3>1. /\ stats.at = "byDay"
          /\ stats' = [stats EXCEPT !.at = "done", !.day = Cardinality(Matching(messages))]
      BY <2>2 DEF CountByDay
    <3>2. /\ stats'.at = "done" /\ stats'.total = stats.total /\ stats'.status = stats.status
          /\ stats'.day = Cardinality(Matching(messages))
          /\ stats' \in [at : {"idle", "byStatus", "byDay", "done"}, total : Nat, status : Nat, day : Nat]
      BY <1>1, <3>1 DEF ReportsFit
    <3> QED  BY <1>1, <1>2, <3>1, <3>2 DEF CountsGrow
  <2> QED  BY <2>1, <2>2
<1>6. ReportsFit'
  BY <1>2, <1>3 DEF ReportsFit
<1>8. export.at # "done" => OffsetFits'
  BY <1>2 DEF OffsetFits
<1>9. ExportIsFaithful'
  BY <1>2 DEF ExportIsFaithful
<1> QED  BY <1>2, <1>3, <1>6, <1>8, <1>9

(* A batch is the rows at the places from the offset to its end.           *)
LEMMA ReadBatchKeeps ==
  ASSUME ReportsInductive, ReadBatch
  PROVE  ReportsInductive'
<1> USE DEF ReportsInductive
<1> DEFINE rows == Matching(messages)
           from == export.offset
           to == IF from + BatchSize < Cardinality(rows) THEN from + BatchSize ELSE Cardinality(rows)
           batch == SubSeq(InOrder(rows), from + 1, to)
           place(x) == Cardinality(Below(rows, x)) + 1
<1>0. messages \in SUBSET Messages /\ IsFiniteSet(messages)
  BY DEF ReportsFit
<1>1. rows \in SUBSET Nat /\ IsFiniteSet(rows) /\ Cardinality(rows) \in Nat
  BY <1>0, TableFits
<1>2. /\ from \in Nat /\ BatchSize \in Nat \ {0} /\ to \in 0..Cardinality(rows)
      /\ to <= from + BatchSize
  BY <1>1, BatchAssumption DEF ReportsFit
<1>3. Len(InOrder(rows)) = Cardinality(rows)
  <2>1. InOrder(rows) \in Seq(rows)
    BY <1>1, NthFits DEF InOrder, Ascending
  <2> QED  BY <1>1, <2>1 DEF InOrder, Ascending
<1>4. /\ export.at = "reading"
      /\ export' = [at |-> IF Len(batch) < BatchSize THEN "done" ELSE "reading",
                    offset |-> from + Len(batch), out |-> export.out \o batch]
      /\ UNCHANGED <<messages, captured, stats, before, pulled, pushed, lost>>
  BY <1>3 DEF ReadBatch
<1> HIDE DEF to, from
<1>5. /\ batch \in Seq(rows)
      /\ Len(batch) = IF from < to THEN to - from ELSE 0
      /\ \A i \in 1..Len(batch) : from + i \in 1..to /\ batch[i] = Nth(rows, from + i)
      /\ \A x \in rows : from < place(x) /\ place(x) - 1 < to => \E i \in 1..Len(batch) : batch[i] = x
  <2> HIDE DEF rows
  <2>1. \A x \in rows : Cardinality(Below(rows, x)) \in Nat
    BY <1>1, BelowFinite
  <2>2. /\ batch \in Seq(rows)
        /\ Len(batch) = IF from < to THEN to - from ELSE 0
        /\ \A i \in 1..Len(batch) : from + i \in 1..to /\ batch[i] = Nth(rows, from + i)
        /\ \A x \in rows : from < Cardinality(Below(rows, x)) + 1 /\ Cardinality(Below(rows, x)) < to
             => \E i \in 1..Len(batch) : batch[i] = x
    BY <1>1, <1>2, BatchFits
  <2> HIDE DEF batch
  <2>3. \A x \in rows : place(x) - 1 = Cardinality(Below(rows, x))
    BY <2>1
  <2> QED  BY <2>2, <2>3
<1>6. \A x \in rows : place(x) \in 1..Cardinality(rows)
  BY <1>1, NthOfRank
<1>7. \A i \in 1..Len(batch) : batch[i] \in rows /\ place(batch[i]) = from + i
  <2> HIDE DEF rows, batch
  <2> TAKE i \in 1..Len(batch)
  <2>1. from + i \in 1..Cardinality(rows) /\ batch[i] = Nth(rows, from + i)
    BY <1>1, <1>2, <1>5
  <2> QED  BY <1>1, <2>1, NthFits
<1>8. rows \subseteq Messages \ Foreign /\ rows \subseteq captured
  BY DEF ReportsFit, Matching
<1> DEFINE new == {batch[i] : i \in 1..Len(batch)}
<1> HIDE DEF batch
<1>9. /\ export'.out = export.out \o batch /\ export'.offset = from + Len(batch)
      /\ export'.at = IF Len(batch) < BatchSize THEN "done" ELSE "reading"
  BY <1>4
<1>10. /\ export.out \in Seq(Messages \ Foreign) /\ batch \in Seq(Messages \ Foreign)
       /\ from = Len(export.out)
  BY <1>5, <1>8 DEF ReportsFit, from
<1>11. /\ export'.out \in Seq(Messages \ Foreign)
       /\ Len(export'.out) = from + Len(batch)
       /\ DOMAIN export'.out = 1..(from + Len(batch))
       /\ \A i \in 1..from : export'.out[i] = export.out[i]
       /\ \A i \in 1..Len(batch) : export'.out[from + i] = batch[i]
  BY <1>9, <1>10
<1>12. Exported' = Exported \cup new
  <2> Len(batch) \in Nat /\ from \in Nat
    BY <1>5, <1>2
  <2>1. Exported = {export.out[i] : i \in 1..from}
    BY <1>10 DEF Exported
  <2>2. Exported' = {export'.out[i] : i \in 1..(from + Len(batch))}
    BY <1>11 DEF Exported
  <2>3. ASSUME NEW i \in 1..(from + Len(batch))
        PROVE  export'.out[i] \in Exported \cup new
    <3>1. CASE i \in 1..from
      BY <1>11, <2>1, <3>1
    <3>2. CASE i \notin 1..from
      <4>1. i - from \in 1..Len(batch) /\ from + (i - from) = i
        BY <3>2
      <4>2. export'.out[i] = batch[i - from]
        BY <1>11, <4>1
      <4> QED  BY <4>1, <4>2
    <3> QED  BY <3>1, <3>2
  <2>4. Exported \subseteq Exported'
    <3>1. \A i \in 1..from : i \in 1..(from + Len(batch))
      OBVIOUS
    <3> QED  BY <1>11, <2>1, <2>2, <3>1
  <2>5. new \subseteq Exported'
    <3>1. \A i \in 1..Len(batch) : from + i \in 1..(from + Len(batch))
      OBVIOUS
    <3> QED  BY <1>11, <2>2, <3>1
  <2> QED  BY <2>2, <2>3, <2>4, <2>5
<1>13. new \subseteq rows
  BY <1>7
<1>14. ReportsFit'
  <2>1. export' \in [at : {"idle", "reading", "done"}, offset : Nat, out : Seq(Messages \ Foreign)]
        /\ export'.offset = Len(export'.out)
    <3>1. from + Len(batch) \in Nat
      BY <1>2, <1>5
    <3>2. export'.at \in {"idle", "reading", "done"}
      BY <1>9
    <3>3. export' = [at |-> export'.at, offset |-> export'.offset, out |-> export'.out]
      BY <1>4
    <3>4. export'.offset \in Nat /\ export'.offset = Len(export'.out)
      BY <1>9, <1>11, <3>1
    <3> QED  BY <1>11, <3>2, <3>3, <3>4
  <2>2. Exported' \subseteq captured
    BY <1>8, <1>12, <1>13 DEF ReportsFit
  <2> QED  BY <1>4, <2>1, <2>2 DEF ReportsFit
<1>15. CountsGrow'
  BY <1>4 DEF CountsGrow
<1>16. \A x, y \in rows : place(x) < place(y) <=> x < y
  <2> HIDE DEF rows
  <2> TAKE x, y \in rows
  <2>1. Cardinality(Below(rows, x)) \in Nat /\ Cardinality(Below(rows, y)) \in Nat
        /\ x \in Nat /\ y \in Nat
    BY <1>1, BelowFinite
  <2>2. x < y => place(x) < place(y)
    BY <1>1, <2>1, RankGrows
  <2>3. y < x => place(y) < place(x)
    BY <1>1, <2>1, RankGrows
  <2>4. x = y => place(x) = place(y)
    OBVIOUS
  <2> QED  BY <2>1, <2>2, <2>3, <2>4
<1> DEFINE passed == Passed(rows, Exported)
           now == Passed(rows, Exported')
<1>17. /\ Exported \subseteq Nat /\ Exported' \subseteq Nat /\ rows \subseteq Nat
       /\ Cardinality(passed) \in Nat /\ Cardinality(now) \in Nat
       /\ IsFiniteSet(passed) /\ IsFiniteSet(now)
  <2>1. Exported \subseteq Nat /\ Exported' \subseteq Nat
    BY <1>14, MessageAssumption DEF ReportsFit
  <2> QED  BY <1>1, <2>1, PassedFits
<1>18. \A x \in rows : /\ x \in passed => place(x) <= Cardinality(passed)
                       /\ x \notin passed => Cardinality(passed) < place(x)
                       /\ x \in now => place(x) <= Cardinality(now)
  <2> HIDE DEF rows
  <2> TAKE x \in rows
  <2>1. Cardinality(Below(rows, x)) \in Nat
    BY <1>1, BelowFinite
  <2>2. /\ x \in passed => Cardinality(Below(rows, x)) + 1 <= Cardinality(passed)
        /\ x \notin passed => Cardinality(passed) <= Cardinality(Below(rows, x))
        /\ x \in now => Cardinality(Below(rows, x)) + 1 <= Cardinality(now)
    BY <1>1, <1>17, PassedIsAPrefix
  <2> QED  BY <1>17, <2>1, <2>2
<1>19. \A x \in rows, e \in Exported : x \notin passed => e < x
  BY <1>17 DEF Passed
<1>20. \A x \in now : x \in rows /\ (x \in passed \/ \E i \in 1..Len(batch) : x <= batch[i])
  BY <1>12 DEF Passed
<1>21. \A i \in 1..Len(batch) : batch[i] \in now
  BY <1>7, <1>12, <1>17 DEF Passed
<1>22. /\ ~pulled => /\ from <= Cardinality(passed)
                     /\ (before["export"] \cap messages) \cap passed \subseteq Exported
       /\ ~pushed => /\ Cardinality(passed) <= from
                     /\ \A i, j \in DOMAIN export.out : i < j => export.out[i] < export.out[j]
  BY <1>4 DEF OffsetFits, from
<1>23. before["export"] \cap messages \subseteq rows
  BY DEF ReportsFit, Matching
<1>24. /\ Len(batch) \in Nat /\ from \in Nat /\ to \in Nat /\ to <= Cardinality(rows)
       /\ BatchSize \in Nat \ {0} /\ Cardinality(rows) \in Nat
       /\ Len(batch) = 0 => to <= from
       /\ Len(batch) # 0 => to = from + Len(batch)
       /\ Len(batch) < BatchSize => to = Cardinality(rows)
  <2>1. Len(batch) \in Nat /\ from \in Nat /\ to \in Nat /\ to <= Cardinality(rows)
        /\ Cardinality(rows) \in Nat /\ BatchSize \in Nat \ {0}
    BY <1>1, <1>2, <1>5
  <2>2. Len(batch) = IF from < to THEN to - from ELSE 0
    BY <1>5
  <2>3. to = IF from + BatchSize < Cardinality(rows) THEN from + BatchSize ELSE Cardinality(rows)
    BY DEF to
  <2> QED  BY <2>1, <2>2, <2>3
<1> HIDE DEF rows, passed, now, place
<1>25. \A i \in 1..Len(batch) : batch[i] \in Nat
  BY <1>7, <1>17
(* Of what was there from the beginning, nothing up to the batch's end is missing. *)
<1>26. ~pulled => \A m \in before["export"] \cap messages : m \in Exported' \/ to < place(m)
  <2> SUFFICES ASSUME ~pulled, NEW m \in before["export"] \cap messages, m \notin Exported'
               PROVE  to < place(m)
    OBVIOUS
  <2>1. m \in rows /\ m \notin passed /\ place(m) \in Nat
    BY <1>6, <1>12, <1>22, <1>23
  <2>2. from < place(m)
    BY <1>17, <1>18, <1>22, <1>24, <2>1
  <2>3. ~(place(m) - 1 < to)
    BY <1>5, <1>12, <2>1, <2>2
  <2> QED  BY <1>24, <2>1, <2>3
(* The batch continues in order, unless the part passed was longer than the offset. *)
<1>27. ~pushed => \A i, j \in DOMAIN export'.out : i < j => export'.out[i] < export'.out[j]
  <2> SUFFICES ASSUME ~pushed, NEW i \in 1..(from + Len(batch)), NEW j \in 1..(from + Len(batch)), i < j
               PROVE  export'.out[i] < export'.out[j]
    BY <1>11
  <2>1. CASE j \in 1..from
    <3>1. i \in 1..from /\ DOMAIN export.out = 1..from
      BY <1>10, <1>24, <2>1
    <3> QED  BY <1>11, <1>22, <2>1, <3>1
  <2>2. CASE j \notin 1..from
    <3> DEFINE l == j - from
    <3>1. l \in 1..Len(batch) /\ from + l = j
      BY <1>24, <2>2
    <3>2. export'.out[j] = batch[l] /\ batch[l] \in rows /\ place(batch[l]) = j
      BY <1>7, <1>11, <3>1
    <3>3. CASE i \in 1..from
      <4>1. export'.out[i] \in Exported
        <5>1. DOMAIN export.out = 1..from
          BY <1>10
        <5> QED  BY <1>11, <3>3, <5>1 DEF Exported
      <4>2. batch[l] \notin passed
        <5>1. from < j /\ from \in Nat
          BY <1>24, <2>2
        <5>2. Cardinality(passed) <= from /\ Cardinality(passed) \in Nat
          BY <1>17, <1>22
        <5>3. ~(place(batch[l]) <= Cardinality(passed))
          BY <3>2, <5>1, <5>2
        <5> QED  BY <1>18, <3>2, <5>3
      <4> QED  BY <1>19, <3>2, <4>1, <4>2
    <3>4. CASE i \notin 1..from
      <4> DEFINE k == i - from
      <4>1. k \in 1..Len(batch) /\ from + k = i
        BY <1>24, <3>4
      <4>2. export'.out[i] = batch[k] /\ batch[k] \in rows /\ place(batch[k]) = i
        BY <1>7, <1>11, <4>1
      <4> QED  BY <1>16, <3>2, <4>2
    <3> QED  BY <3>3, <3>4
  <2> QED  BY <2>1, <2>2
<1>28. export'.at # "done" => OffsetFits'
  <2> SUFFICES ASSUME export'.at # "done"  PROVE OffsetFits'
    OBVIOUS
  <2>1. Len(batch) # 0 /\ Len(batch) \in 1..Len(batch) /\ to = from + Len(batch)
    BY <1>9, <1>24
  <2> DEFINE last == batch[Len(batch)]
  <2>2. last \in rows /\ last \in now /\ place(last) = to
    BY <1>7, <1>21, <2>1
  <2> HIDE DEF last
  <2>3. \A i \in 1..Len(batch) : place(batch[i]) <= to
    BY <1>7, <1>24, <2>1
  <2>4. to <= Cardinality(now)
    BY <1>18, <2>2
  <2>5. ASSUME ~pulled  PROVE (before["export"] \cap messages) \cap now \subseteq Exported'
    <3> SUFFICES ASSUME NEW m \in before["export"] \cap messages, m \in now, m \notin Exported'
                 PROVE  FALSE
      OBVIOUS
    <3>1. m \in rows /\ m \in Nat /\ m \notin passed /\ to < place(m)
      BY <1>12, <1>17, <1>22, <1>23, <1>26, <2>5
    <3>2. PICK i \in 1..Len(batch) : m <= batch[i]
      BY <1>20, <3>1
    <3>3. batch[i] \in rows /\ batch[i] \in Nat /\ place(batch[i]) < place(m)
      BY <1>7, <1>6, <1>24, <1>25, <2>3, <3>1
    <3>4. batch[i] < m
      BY <1>16, <3>1, <3>3
    <3> QED  BY <3>1, <3>2, <3>3, <3>4
  <2>6. ASSUME ~pushed  PROVE Cardinality(now) <= to
    <3>1. ASSUME NEW x \in now  PROVE x \in Below(rows, last) \cup {last}
      <4>1. x \in rows /\ x \in Nat /\ last \in Nat
        BY <1>17, <1>20, <2>2
      <4>2. ~(last < x)
        <5>1. CASE x \in passed
          BY <1>6, <1>16, <1>17, <1>18, <1>22, <1>24, <2>1, <2>2, <2>6, <4>1, <5>1
        <5>2. CASE \E i \in 1..Len(batch) : x <= batch[i]
          <6>1. PICK i \in 1..Len(batch) : x <= batch[i]
            BY <5>2
          <6>2. ~(place(last) < place(batch[i])) /\ batch[i] \in rows /\ batch[i] \in Nat
            BY <1>6, <1>7, <1>24, <1>25, <2>2, <2>3
          <6>3. ~(last < batch[i])
            BY <1>16, <2>2, <6>2
          <6> QED  BY <4>1, <6>1, <6>2, <6>3
        <5> QED  BY <1>20, <5>1, <5>2
      <4> QED  BY <4>1, <4>2 DEF Below
    <3>2. /\ IsFiniteSet(Below(rows, last)) /\ last \notin Below(rows, last)
          /\ Cardinality(Below(rows, last)) \in Nat
      <4>1. last \in Nat /\ ~(last < last)
        BY <1>17, <2>2
      <4> QED  BY <1>1, <4>1, BelowFinite DEF Below
    <3>3. /\ IsFiniteSet(Below(rows, last) \cup {last})
          /\ Cardinality(Below(rows, last) \cup {last}) = to
      BY <2>2, <3>2, FS_AddElement DEF place
    <3>4. now \subseteq Below(rows, last) \cup {last}
      BY <3>1
    <3> QED  BY <3>3, <3>4, FS_Subset
  <2>8. (Passed(Matching(messages), Exported))' = now
    BY <1>4 DEF now, rows
  <2>9. export'.offset = to
    BY <1>9, <2>1
  <2> QED  BY <1>4, <2>4, <2>5, <2>6, <1>27, <2>8, <2>9 DEF OffsetFits
<1>29. ExportIsFaithful'
  <2> SUFFICES ASSUME export'.at = "done"
               PROVE  /\ ~pulled' => before'.export \cap messages' \subseteq Exported'
                      /\ ~pushed' => \A i, j \in DOMAIN export'.out : i < j => export'.out[i] < export'.out[j]
                      /\ Exported' \cap Foreign = {}
    BY DEF ExportIsFaithful
  <2>1. to = Cardinality(rows)
    BY <1>9, <1>24
  <2>2. ~pulled => before["export"] \cap messages \subseteq Exported'
    BY <1>6, <1>23, <1>24, <1>26, <2>1
  <2>3. Exported' \subseteq Messages \ Foreign
    BY <1>11 DEF Exported
  <2> QED  BY <1>4, <1>27, <2>2, <2>3
<1>30. export'.at # "idle"
  BY <1>9
<1> QED  BY <1>14, <1>15, <1>28, <1>29, <1>30

LEMMA ReportsRest ==
  ASSUME ReportsInductive, UNCHANGED repVars
  PROVE  ReportsInductive'
BY DEF repVars, ReportsInductive, ReportsFit, CountsGrow, OffsetFits, ExportIsFaithful, Exported,
       Passed, Matching

LEMMA ReportsStep ==
  ASSUME ReportsInductive, [RepNext]_repVars
  PROVE  ReportsInductive'
<1>1. CASE \E m \in Messages : InsertMessage(m)
  BY <1>1, InsertKeeps
<1>2. CASE \E gone \in SUBSET messages : RemoveMessages(gone)
  BY <1>2, RemoveKeeps
<1>3. CASE BeginExport
  BY <1>3, BeginExportKeeps
<1>4. CASE ReadBatch
  BY <1>4, ReadBatchKeeps
<1>5. CASE CountTotal
  BY <1>5, CountTotalKeeps
<1>6. CASE CountByStatus \/ CountByDay
  BY <1>6, CountRestKeeps
<1>7. CASE UNCHANGED repVars
  BY <1>7, ReportsRest
<1> QED  BY <1>1, <1>2, <1>3, <1>4, <1>5, <1>6, <1>7 DEF RepNext

(* The invariant holds whatever is captured and deleted between two reads. *)
LEMMA ReportsInvariance == RepSpec => []ReportsInductive
<1>1. RepInit => ReportsInductive
  BY ReportsInitial
<1>2. ReportsInductive /\ [RepNext]_repVars => ReportsInductive'
  BY ReportsStep
<1> QED  BY <1>1, <1>2, PTL DEF RepSpec

LEMMA ReportsImply == ReportsInductive => RepTypeOK /\ StatisticsAddUp
<1> SUFFICES ASSUME ReportsInductive  PROVE RepTypeOK /\ StatisticsAddUp
  OBVIOUS
<1>1. RepTypeOK
  BY DEF ReportsInductive, ReportsFit, RepTypeOK
<1>2. StatisticsAddUp
  BY DEF ReportsInductive, CountsGrow, StatisticsAddUp
<1> QED  BY <1>1, <1>2

(* If no message was deleted meanwhile, the three counts of a report only  *)
(* grow from one to the next, whatever is captured between them            *)
(* (statistics.service.ts).                                                *)
THEOREM CountsAddUp == RepSpec => []StatisticsAddUp
<1>1. ReportsInductive => StatisticsAddUp
  BY ReportsImply
<1> QED  BY <1>1, ReportsInvariance, PTL

(* A finished export has every message of its beginning unless one was     *)
(* deleted of the part it had passed, and each once and in order unless    *)
(* one was inserted there, for every batch size                            *)
(* (messages.service.ts:110-132).                                          *)
THEOREM ExportsAreFaithful == RepSpec => []ExportIsFaithful
<1>1. ReportsInductive => ExportIsFaithful
  BY DEF ReportsInductive
<1> QED  BY <1>1, ReportsInvariance, PTL

-----------------------------------------------------------------------------
(* The lists with forms                                                    *)

RowTexts == Texts \cup {"active", "revoked"}
ShownRows == [id : RowIds, text : RowTexts]

AdminRequests ==
  [kind : {"list", "create", "update", "delete", "revoke"}, id : RowIds \cup {0},
   text : RowTexts \cup {"none"}, editing : RowIds \cup {0}, run : Nat,
   at : {"sent", "found", "ok", "failed"}, mixed : BOOLEAN, rows : Seq(ShownRows)]

(* A request by itself: what it is about and how far it may have come.     *)
RequestFits(q) ==
  /\ q \in AdminRequests
  /\ q.kind \in {"update", "delete", "revoke"} => q.id \in RowIds
  /\ q.kind = "create" => (q.at = "sent" => q.id = 0) /\ (q.at = "ok" => q.id \in RowIds)
  /\ Saves(q) => q.text \in (IF Patched THEN Texts ELSE {"active"})
  /\ q.kind \in {"update", "delete"} => Patched
  /\ q.kind = "revoke" => ~Patched /\ q.text = "revoked"
  /\ q.kind = "list" => q.id = 0 /\ q.run <= loadRun
  /\ q.at = "found" => q.kind \in {"update", "delete"}

KeptRows == {r \in RowIds : Kept(r)}

AdminFits ==
  /\ page \in {"templates", "picker", "apiKeys"}
  /\ table \in [RowIds -> RowTexts \cup {"unused", "removed"}]
  /\ ~Patched => table \in [RowIds -> {"unused", "active", "revoked"}]
  /\ IsFiniteSet(KeptRows)
  /\ list \in Seq(ShownRows)
  /\ listState \in {"loading", "shown", "error"} /\ loadRun \in Nat
  /\ form \in {NoForm, [mode |-> "new", id |-> 0]} \cup [mode : {"edit"}, id : RowIds]
  /\ form # NoForm => Patched
  /\ saving \in BOOLEAN
  /\ saving <=> page # "picker" /\ \E q \in requests : Saves(q)
  /\ \A q \in requests : RequestFits(q)
  /\ raced \in SUBSET RowIds
  /\ acts \in 0..MaxActs

(* Two requests: one save at a time where the form is disabled, one load   *)
(* at a time of templates; those whose order matters are marked; and       *)
(* nothing else is sent about a template whose creation is not known yet.  *)
PairFits(p, q) ==
  /\ Clash(p, q) => p.mixed /\ q.mixed
  /\ page # "picker" => ~(Saves(p) /\ Saves(q))
  /\ Patched => ~(p.kind = "list" /\ q.kind = "list")
  /\ Patched /\ p.kind = "create" /\ p.at = "ok" /\ ~p.mixed => q.id # p.id

PairsFit == \A p, q \in requests : p # q => PairFits(p, q)

Ids(rows) == {rows[i].id : i \in DOMAIN rows}

(* What is nowhere before it is created.                                   *)
Unseen(r) ==
  /\ r \notin Ids(list) /\ form.id # r
  /\ \A q \in requests : q.id # r /\ r \notin Ids(q.rows)

UnusedIsUnseen == \A r \in RowIds : table[r] = "unused" => Unseen(r)

(* A write of a template that no other request interferes with.            *)
WriteFits(q) ==
  Patched /\ q.kind # "list" /\ ~q.mixed =>
    /\ q.kind = "update" /\ q.at = "found" => Kept(q.id)
    /\ q.at = "ok" => table[q.id] = (IF q.kind = "delete" THEN "removed" ELSE q.text)
    /\ q.kind = "create" /\ q.at = "ok" => q.id \notin Ids(list) /\ form.id # q.id

(* How a template of that text shows in rows: once, or not at all.         *)
Displays(rows, r, text) ==
  LET places == {i \in DOMAIN rows : rows[i].id = r}
  IN  IF text \notin {"unused", "removed"}
      THEN \E i \in places : places = {i} /\ rows[i].text = text
      ELSE places = {}

Once(rows, r) == \E i \in DOMAIN rows : {j \in DOMAIN rows : rows[j].id = r} = {i}

About(r) == {q \in requests : q.kind # "list" /\ q.id = r}

(* The rows of a load are current but for templates written meanwhile.     *)
LoadFits(q) ==
  Patched /\ q.kind = "list" =>
    /\ q.run = loadRun /\ listState = "loading"
    /\ q.at = "ok" =>
         \A r \in RowIds :
           (q.mixed => r \notin raced /\ About(r) = {}) => Displays(q.rows, r, table[r])

(* So is the list on screen, up to what is written and not answered.       *)
RowFits(r) ==
  /\ (\A q \in About(r) : q.at # "ok") => Displays(list, r, table[r])
  /\ (\E q \in About(r) : q.kind = "update" /\ q.at = "ok") =>
       Once(list, r)

ListFits ==
  Patched =>
    /\ listState = "shown" =>
         \A r \in RowIds \ raced : (\A q \in About(r) : ~q.mixed) => RowFits(r)
    /\ page = "picker" => listState # "error"
    /\ page = "picker" /\ listState = "loading" =>
         Ids(list) \subseteq raced /\ \E q \in requests : q.kind = "list"

TemplatesInductive ==
  /\ AdminFits
  /\ PairsFit
  /\ UnusedIsUnseen
  /\ \A q \in requests : WriteFits(q) /\ LoadFits(q)
  /\ ListFits

(* The keys: what was answered is in the table, in the rows of a load sent *)
(* since, and on screen.                                                   *)
Has(w) == table[w.id] # "unused" /\ (w.text = "revoked" => table[w.id] = "revoked")
ShowsIn(rows, w) ==
  \E i \in DOMAIN rows : rows[i].id = w.id /\ (w.text = "revoked" => rows[i].text = "revoked")

KeysFit ==
  ~Patched =>
    /\ \A w \in confirmed : w.id \in RowIds /\ Has(w)
    /\ \A q \in requests : q.kind # "list" /\ q.at = "ok" => Has(q)
    /\ \A q \in requests : q.kind = "list" /\ q.at = "ok" /\ q.run = loadRun =>
         \A w \in confirmed : ShowsIn(q.rows, w)
    /\ listState = "shown" => \A w \in confirmed : ShowsIn(list, w)

AdminInductive == TemplatesInductive /\ KeysFit

-----------------------------------------------------------------------------
(* What is sent, and how it moves on                                       *)

LEMMA NoTextOfTheModel == \A t \in Texts : t \notin {"unused", "removed"}
BY TextAssumption

LEMMA IdsAreNotZero == 0 \notin RowIds
BY RowIdAssumption

(* A request that is marked, and nothing else about it.                    *)
LEMMA MarkFields ==
  ASSUME NEW p \in AdminRequests, NEW b \in BOOLEAN
  PROVE  LET x == [p EXCEPT !.mixed = b]
         IN  /\ x \in AdminRequests /\ x.kind = p.kind /\ x.id = p.id /\ x.text = p.text
             /\ x.run = p.run /\ x.at = p.at /\ x.rows = p.rows /\ x.editing = p.editing
             /\ x.mixed = b
BY DEF AdminRequests

(* x is p as it is after q was sent with others on their way.              *)
SentAs(x, p, q, earlier) ==
  /\ x \in AdminRequests /\ x.kind = p.kind /\ x.id = p.id /\ x.text = p.text
  /\ x.run = p.run /\ x.at = p.at /\ x.rows = p.rows
  /\ p.mixed => x.mixed
  /\ \/ p \in earlier /\ x = [p EXCEPT !.mixed = p.mixed \/ Clash(p, q)]
        /\ (x.mixed <=> p.mixed \/ Clash(p, q))
     \/ p = q /\ x = [q EXCEPT !.mixed = \E o \in earlier : Clash(o, q)]
        /\ (x.mixed <=> \E o \in earlier : Clash(o, q))

LEMMA SentCases ==
  ASSUME NEW earlier \in SUBSET AdminRequests, NEW q \in AdminRequests, ~q.mixed,
         NEW x \in Sent(q, earlier)
  PROVE  \E p \in earlier \cup {q} : SentAs(x, p, q, earlier)
<1> USE DEF SentAs
<1> DEFINE clash == {p \in earlier : Clash(p, q)}
<1>1. CASE x = [q EXCEPT !.mixed = clash # {}]
  <2>1. x \in AdminRequests /\ x.kind = q.kind /\ x.id = q.id /\ x.text = q.text
        /\ x.run = q.run /\ x.at = q.at /\ x.rows = q.rows /\ (x.mixed <=> clash # {})
    <3> DEFINE b == clash # {}
    <3>1. b \in BOOLEAN
      OBVIOUS
    <3>2. x = [q EXCEPT !.mixed = b]
      BY <1>1
    <3> HIDE DEF b
    <3>3. x.mixed = b /\ x \in AdminRequests /\ x.kind = q.kind /\ x.id = q.id /\ x.text = q.text
          /\ x.run = q.run /\ x.at = q.at /\ x.rows = q.rows
      BY <3>1, <3>2, MarkFields
    <3> QED  BY <3>3 DEF b
  <2>2. (clash # {}) = (\E o \in earlier : Clash(o, q))
    OBVIOUS
  <2>3. x = [q EXCEPT !.mixed = \E o \in earlier : Clash(o, q)]
    BY <1>1, <2>2
  <2> QED  BY <2>1, <2>2, <2>3
<1>2. CASE \E p \in earlier : x = [p EXCEPT !.mixed = @ \/ p \in clash]
  <2>1. PICK p \in earlier : x = [p EXCEPT !.mixed = p.mixed \/ p \in clash]
    BY <1>2
  <2>2. p \in clash <=> Clash(p, q)
    OBVIOUS
  <2> DEFINE b == p.mixed \/ Clash(p, q)
  <2>3. b \in BOOLEAN /\ p \in AdminRequests
    OBVIOUS
  <2>4. x = [p EXCEPT !.mixed = b]
    BY <2>1, <2>2
  <2> HIDE DEF b
  <2>5. x.mixed = b /\ x \in AdminRequests /\ x.kind = p.kind /\ x.id = p.id /\ x.text = p.text
        /\ x.run = p.run /\ x.at = p.at /\ x.rows = p.rows
    BY <2>3, <2>4, MarkFields
  <2> QED  BY <2>4, <2>5 DEF b
<1> QED  BY <1>1, <1>2 DEF Sent

LEMMA ClashIsMutual ==
  ASSUME NEW p, NEW q
  PROVE  Clash(p, q) <=> Clash(q, p)
BY DEF Clash

LEMMA ClashIgnoresMarks ==
  ASSUME NEW p, NEW q, NEW x, NEW y,
         x.kind = p.kind, x.id = p.id, y.kind = q.kind, y.id = q.id
  PROVE  Clash(x, y) <=> Clash(p, q)
BY DEF Clash

(* What is sent fits with the others when it is not a second save, nor a   *)
(* second load, nor about a template whose creation is not answered.       *)
LEMMA SentPairsFit ==
  ASSUME NEW earlier \in SUBSET AdminRequests,
         \A o, p \in earlier : o # p => PairFits(o, p),
         NEW q \in AdminRequests, ~q.mixed, q.at = "sent",
         page # "picker" /\ Saves(q) => \A p \in earlier : ~Saves(p),
         Patched /\ q.kind = "list" => \A p \in earlier : p.kind # "list",
         Patched => \A p \in earlier : p.kind = "create" /\ p.at = "ok" /\ ~p.mixed => q.id # p.id,
         NEW x \in Sent(q, earlier), NEW y \in Sent(q, earlier), x # y
  PROVE  PairFits(x, y)
<1>0. \A z \in Sent(q, earlier) : \E p \in earlier \cup {q} : SentAs(z, p, q, earlier)
  BY SentCases
<1>1. PICK p \in earlier \cup {q} : SentAs(x, p, q, earlier)
  BY <1>0
<1>2. PICK z \in earlier \cup {q} : SentAs(y, z, q, earlier)
  BY <1>0
<1> USE DEF SentAs
<1>3. Clash(x, y) <=> Clash(p, z)
  BY <1>1, <1>2, ClashIgnoresMarks
<1>4. CASE p \in earlier /\ z \in earlier /\ p # z
  BY <1>1, <1>2, <1>3, <1>4 DEF PairFits, Saves
<1>5. CASE p \in earlier /\ z \in earlier /\ p = z
  <2>1. CASE p = q
    BY <1>1, <1>2, <2>1, <1>3, <1>5 DEF PairFits, Saves, Clash
  <2>2. CASE p # q
    BY <1>1, <1>2, <1>5, <2>2
  <2> QED  BY <2>1, <2>2
<1>6. CASE p \in earlier /\ z = q
  BY <1>1, <1>2, <1>3, <1>6 DEF PairFits, Saves
<1>7. CASE p = q /\ z \in earlier
  BY <1>1, <1>2, <1>3, <1>7, ClashIsMutual DEF PairFits, Saves
<1>8. CASE p = q /\ z = q
  <2>1. CASE q \in earlier
    BY <1>5, <1>8, <2>1
  <2>2. CASE q \notin earlier
    BY <1>1, <1>2, <1>8, <2>2
  <2> QED  BY <2>1, <2>2
<1> QED  BY <1>4, <1>5, <1>6, <1>7, <1>8

LEMMA SentHas ==
  ASSUME NEW earlier \in SUBSET AdminRequests, NEW q \in AdminRequests, ~q.mixed,
         NEW p \in earlier \cup {q}
  PROVE  \E x \in Sent(q, earlier) : SentAs(x, p, q, earlier)
<1> DEFINE clash == {o \in earlier : Clash(o, q)}
<1>1. CASE p \in earlier
  <2> DEFINE b == p.mixed \/ Clash(p, q)
             x == [p EXCEPT !.mixed = b]
  <2>1. b \in BOOLEAN /\ p \in AdminRequests /\ (p \in clash <=> Clash(p, q))
    BY <1>1
  <2>2. x = [p EXCEPT !.mixed = p.mixed \/ p \in clash]
    BY <2>1
  <2>3. x \in Sent(q, earlier)
    BY <1>1, <2>2 DEF Sent
  <2> HIDE DEF b
  <2>4. x.mixed = b /\ x \in AdminRequests /\ x.kind = p.kind /\ x.id = p.id /\ x.text = p.text
        /\ x.run = p.run /\ x.at = p.at /\ x.rows = p.rows
    BY <2>1, MarkFields
  <2>5. SentAs(x, p, q, earlier)
    BY <1>1, <2>4 DEF SentAs, b
  <2> QED  BY <2>3, <2>5
<1>2. CASE p = q
  <2> DEFINE b == \E o \in earlier : Clash(o, q)
             x == [q EXCEPT !.mixed = b]
  <2>1. b \in BOOLEAN /\ b = (clash # {})
    OBVIOUS
  <2>2. x = [q EXCEPT !.mixed = clash # {}]
    BY <2>1
  <2>3. x \in Sent(q, earlier)
    BY <2>2 DEF Sent
  <2> HIDE DEF b
  <2>4. x.mixed = b /\ x \in AdminRequests /\ x.kind = q.kind /\ x.id = q.id /\ x.text = q.text
        /\ x.run = q.run /\ x.at = q.at /\ x.rows = q.rows
    BY <2>1, MarkFields
  <2>5. SentAs(x, p, q, earlier)
    BY <1>2, <2>4 DEF SentAs, b
  <2> QED  BY <2>3, <2>5
<1> QED  BY <1>1, <1>2

(* A write is sent: about nothing, or a row that is on screen or in the    *)
(* form.                                                                   *)
LEMMA SendWriteKeeps ==
  ASSUME AdminInductive, NEW q, RequestFits(q), q.kind # "list", q.at = "sent", ~q.mixed,
         q.rows = <<>>,
         page # "picker" /\ Saves(q) => ~saving,
         saving' = (saving \/ (page # "picker" /\ Saves(q))),
         q.id # 0 => OnScreen(q.id) \/ form.id = q.id,
         requests' = Sent(q, requests), acts' \in 0..MaxActs,
         UNCHANGED <<page, table, list, listState, loadRun, form, raced, confirmed>>
  PROVE  AdminInductive'
<1> USE DEF AdminInductive, TemplatesInductive
<1>0. q \in AdminRequests /\ requests \in SUBSET AdminRequests
  BY DEF RequestFits, AdminFits
<1>1. \A x \in requests' : \E p \in requests \cup {q} : SentAs(x, p, q, requests)
  BY <1>0, SentCases
<1>2. \A p \in requests \cup {q} : \E x \in requests' : SentAs(x, p, q, requests)
  BY <1>0, SentHas
<1> HIDE DEF Sent
<1>3. q.id # 0 => q.id \in Ids(list) \/ form.id = q.id
  BY DEF OnScreen, Ids
<1>4. \A x \in requests' : RequestFits(x)'
  <2> TAKE x \in requests'
  <2>1. PICK p \in requests \cup {q} : SentAs(x, p, q, requests)
    BY <1>1
  <2>2. RequestFits(p)
    BY DEF AdminFits
  <2> QED  BY <2>1, <2>2 DEF SentAs, RequestFits, Saves, Patched
<1>5. AdminFits'
  <2>1. (\E x \in requests' : Saves(x)) <=> (\E p \in requests : Saves(p)) \/ Saves(q)
    BY <1>1, <1>2 DEF SentAs, Saves
  <2>2. saving' \in BOOLEAN /\ (saving' <=> page # "picker" /\ \E x \in requests' : Saves(x))
    BY <2>1 DEF AdminFits
  <2>3. KeptRows' = KeptRows /\ (Patched' <=> Patched)
    BY DEF KeptRows, Kept, Patched
  <2> QED  BY <1>4, <2>2, <2>3 DEF AdminFits
<1>6. PairsFit'
  <2> SUFFICES ASSUME NEW x \in requests', NEW y \in requests', x # y  PROVE PairFits(x, y)'
    BY DEF PairsFit
  <2>1. \A o, p \in requests : o # p => PairFits(o, p)
    BY DEF PairsFit
  <2>2. page # "picker" /\ Saves(q) => \A p \in requests : ~Saves(p)
    BY DEF AdminFits
  <2>3. Patched => \A p \in requests : p.kind = "create" /\ p.at = "ok" /\ ~p.mixed => q.id # p.id
    <3> SUFFICES ASSUME Patched, NEW p \in requests, p.kind = "create", p.at = "ok", ~p.mixed,
                        q.id = p.id
                 PROVE  FALSE
      OBVIOUS
    <3>1. p.id \in RowIds /\ WriteFits(p)
      BY DEF AdminFits, RequestFits
    <3>2. p.id \notin Ids(list) /\ form.id # p.id
      BY <3>1 DEF WriteFits
    <3> QED  BY <1>3, <3>1, <3>2, IdsAreNotZero
  <2>4. PairFits(x, y)
    BY <1>0, <2>1, <2>2, <2>3, SentPairsFit
  <2> QED  BY <2>4 DEF PairFits, Clash, Patched
<1>7. UnusedIsUnseen'
  <2> SUFFICES ASSUME NEW r \in RowIds, table[r] = "unused"  PROVE Unseen(r)'
    BY DEF UnusedIsUnseen
  <2>1. Unseen(r)
    BY DEF UnusedIsUnseen
  <2>2. ASSUME NEW x \in requests'  PROVE x.id # r /\ r \notin Ids(x.rows)
    <3>1. PICK p \in requests \cup {q} : SentAs(x, p, q, requests)
      BY <1>1
    <3>2. CASE p \in requests
      BY <2>1, <3>1, <3>2 DEF Unseen, SentAs
    <3>3. CASE p = q
      <4>1. q.id # r
        BY <1>3, <2>1, IdsAreNotZero DEF Unseen
      <4>2. Ids(q.rows) = {}
        BY DEF Ids
      <4> QED  BY <3>1, <3>3, <4>1, <4>2 DEF SentAs
    <3> QED  BY <3>2, <3>3
  <2> QED  BY <2>1, <2>2 DEF Unseen, Ids
<1>8. ASSUME NEW x \in requests'  PROVE WriteFits(x)'
  <2>1. PICK p \in requests \cup {q} : SentAs(x, p, q, requests)
    BY <1>1
  <2>2. CASE p \in requests
    <3>1. WriteFits(p)
      BY <2>2
    <3> QED  BY <2>1, <3>1 DEF SentAs, WriteFits, Patched, Kept, Ids
  <2>3. CASE p = q
    BY <2>1, <2>3 DEF SentAs, WriteFits
  <2> QED  BY <2>2, <2>3
<1>9. /\ \A r : \A p \in About(r) : \E x \in About(r)' : SentAs(x, p, q, requests)
      /\ \A r : \A x \in About(r)' : x.at # "sent" => \E p \in About(r) : SentAs(x, p, q, requests)
  <2>1. ASSUME NEW r, NEW p \in About(r)
        PROVE  \E x \in About(r)' : SentAs(x, p, q, requests)
    BY <1>2 DEF About, SentAs
  <2>2. ASSUME NEW r, NEW x \in About(r)', x.at # "sent"
        PROVE  \E p \in About(r) : SentAs(x, p, q, requests)
    <3>1. PICK p \in requests \cup {q} : SentAs(x, p, q, requests)
      BY <1>1 DEF About
    <3> QED  BY <2>2, <3>1 DEF About, SentAs
  <2> QED  BY <2>1, <2>2
<1>10. ASSUME NEW x \in requests'  PROVE LoadFits(x)'
  <2>1. PICK p \in requests \cup {q} : SentAs(x, p, q, requests)
    BY <1>1
  <2> SUFFICES ASSUME Patched, x.kind = "list"
               PROVE  /\ x.run = loadRun /\ listState = "loading"
                      /\ x.at = "ok" => \A r \in RowIds :
                           (x.mixed => r \notin raced /\ About(r)' = {}) => Displays(x.rows, r, table[r])
    BY DEF LoadFits, Patched
  <2>2. p \in requests /\ p.kind = "list" /\ LoadFits(p)
    BY <2>1 DEF SentAs
  <2>3. ASSUME NEW r, About(r)' = {}  PROVE About(r) = {}
    BY <1>9, <2>3
  <2> QED  BY <2>1, <2>2, <2>3 DEF SentAs, LoadFits
<1>11. ListFits'
  <2>1. ASSUME Patched, listState = "shown", NEW r \in RowIds \ raced, \A x \in About(r)' : ~x.mixed
        PROVE  RowFits(r)'
    <3>1. \A p \in About(r) : ~p.mixed
      BY <1>9, <2>1 DEF SentAs
    <3>2. RowFits(r)
      BY <2>1, <3>1 DEF ListFits
    <3>3. (\A x \in About(r)' : x.at # "ok") => \A p \in About(r) : p.at # "ok"
      BY <1>9 DEF SentAs
    <3>4. (\E x \in About(r)' : x.kind = "update" /\ x.at = "ok")
             => \E p \in About(r) : p.kind = "update" /\ p.at = "ok"
      BY <1>9 DEF SentAs
    <3> QED  BY <3>2, <3>3, <3>4 DEF RowFits, Once
  <2>2. (\E p \in requests : p.kind = "list") => \E x \in requests' : x.kind = "list"
    BY <1>2 DEF SentAs
  <2> QED  BY <2>1, <2>2 DEF ListFits, Patched, Ids
<1>12. KeysFit'
  <2> SUFFICES ASSUME ~Patched  PROVE KeysFit'
    BY DEF KeysFit, Patched
  <2>1. ASSUME NEW x \in requests'
        PROVE  /\ x.kind # "list" /\ x.at = "ok" => Has(x)
               /\ x.kind = "list" /\ x.at = "ok" /\ x.run = loadRun =>
                    \A w \in confirmed : ShowsIn(x.rows, w)
    <3>1. PICK p \in requests \cup {q} : SentAs(x, p, q, requests)
      BY <1>1
    <3> QED  BY <3>1 DEF SentAs, KeysFit, Has
  <2> QED  BY <2>1 DEF KeysFit, Has
<1> QED  BY <1>5, <1>6, <1>7, <1>8, <1>10, <1>11, <1>12

LEMMA LoadFields ==
  ASSUME NEW run \in Nat
  PROVE  /\ Load(run) \in AdminRequests /\ Load(run).kind = "list" /\ Load(run).id = 0
         /\ Load(run).run = run /\ Load(run).at = "sent" /\ Load(run).mixed = FALSE
         /\ Load(run).rows = <<>>
<1>1. <<>> \in Seq(ShownRows)
  OBVIOUS
<1> QED  BY <1>1 DEF Load, AdminRequests

(* The list is loaded anew: of templates after an error, of keys after a   *)
(* write or an error.                                                      *)
LEMMA SendLoadKeeps ==
  ASSUME AdminInductive, NEW earlier \in SUBSET requests,
         Patched => earlier = requests /\ listState = "error" /\ raced' = raced,
         ~Patched => \A w \in confirmed' : w.id \in RowIds /\ Has(w),
         saving' \in BOOLEAN, saving' <=> page # "picker" /\ \E p \in earlier : Saves(p),
         raced' \in SUBSET RowIds, acts' \in 0..MaxActs,
         Reload(earlier), UNCHANGED <<page, table, list, form>>
  PROVE  AdminInductive'
<1> USE DEF AdminInductive, TemplatesInductive
<1>a. loadRun \in Nat /\ loadRun + 1 \in Nat
  BY DEF AdminFits
<1> PICK q : q = Load(loadRun + 1)
  OBVIOUS
<1>b. /\ q \in AdminRequests /\ q.kind = "list" /\ q.id = 0 /\ q.run = loadRun + 1
      /\ q.at = "sent" /\ q.mixed = FALSE /\ q.rows = <<>>
  BY <1>a, LoadFields
<1>c. listState' = "loading" /\ loadRun' = loadRun + 1 /\ requests' = Sent(q, earlier)
  BY DEF Reload
<1>0. earlier \in SUBSET AdminRequests /\ \A p \in earlier : RequestFits(p)
  BY DEF RequestFits, AdminFits
<1>e. \A p \in earlier : p.kind = "list" => p.run \in Nat /\ p.run <= loadRun /\ p.run <= loadRun + 1
  <2> TAKE p \in earlier
  <2>1. p.run \in Nat
    BY <1>0 DEF AdminRequests
  <2>2. p.kind = "list" => p.run <= loadRun
    BY <1>0 DEF RequestFits
  <2> QED  BY <1>a, <2>1, <2>2
<1>1. \A x \in requests' : \E p \in earlier \cup {q} : SentAs(x, p, q, earlier)
  BY <1>0, <1>b, <1>c, SentCases
<1>2. \A p \in earlier \cup {q} : \E x \in requests' : SentAs(x, p, q, earlier)
  BY <1>0, <1>b, <1>c, SentHas
<1> HIDE DEF Sent
<1>4. \A x \in requests' : RequestFits(x)'
  <2> TAKE x \in requests'
  <2>1. PICK p \in earlier \cup {q} : SentAs(x, p, q, earlier)
    BY <1>1
  <2>2. p.kind = "list" => p.id = 0 /\ p.run <= loadRun + 1
    BY <1>0, <1>a, <1>b, <1>e DEF RequestFits
  <2>3. p = q \/ RequestFits(p)
    BY <1>0
  <2> QED  BY <1>b, <1>c, <2>1, <2>2, <2>3 DEF SentAs, RequestFits, Saves, Patched
<1>5. AdminFits'
  <2>1. (\E x \in requests' : Saves(x)) <=> (\E p \in earlier : Saves(p))
    BY <1>1, <1>2, <1>b DEF SentAs, Saves
  <2>3. KeptRows' = KeptRows /\ (Patched' <=> Patched)
    BY DEF KeptRows, Kept, Patched
  <2> QED  BY <1>4, <1>a, <1>c, <2>1, <2>3 DEF AdminFits
<1>d. Patched => \A p \in requests : p.kind # "list"
  BY DEF LoadFits
<1>6. PairsFit'
  <2> SUFFICES ASSUME NEW x \in requests', NEW y \in requests', x # y  PROVE PairFits(x, y)'
    BY DEF PairsFit
  <2>1. \A o, p \in earlier : o # p => PairFits(o, p)
    BY DEF PairsFit
  <2>2. ~Saves(q)
    BY <1>b DEF Saves
  <2>3. Patched => \A p \in earlier : p.kind = "create" /\ p.at = "ok" /\ ~p.mixed => q.id # p.id
    BY <1>0, <1>b, IdsAreNotZero DEF RequestFits
  <2>4. PairFits(x, y)
    BY <1>0, <1>b, <1>c, <1>d, <2>1, <2>2, <2>3, SentPairsFit
  <2> QED  BY <2>4 DEF PairFits, Clash, Patched
<1>7. UnusedIsUnseen'
  <2> SUFFICES ASSUME NEW r \in RowIds, table[r] = "unused"  PROVE Unseen(r)'
    BY DEF UnusedIsUnseen
  <2>1. Unseen(r)
    BY DEF UnusedIsUnseen
  <2>2. ASSUME NEW x \in requests'  PROVE x.id # r /\ r \notin Ids(x.rows)
    <3>1. PICK p \in earlier \cup {q} : SentAs(x, p, q, earlier)
      BY <1>1
    <3>2. CASE p \in earlier
      BY <2>1, <3>1, <3>2 DEF Unseen, SentAs
    <3>3. CASE p = q
      <4>2. Ids(q.rows) = {}
        BY <1>b DEF Ids
      <4> QED  BY <1>b, <3>1, <3>3, <4>2, IdsAreNotZero DEF SentAs
    <3> QED  BY <3>2, <3>3
  <2> QED  BY <2>1, <2>2 DEF Unseen, Ids
<1>8. ASSUME NEW x \in requests'  PROVE WriteFits(x)'
  <2>1. PICK p \in earlier \cup {q} : SentAs(x, p, q, earlier)
    BY <1>1
  <2>2. CASE p \in earlier
    <3>1. WriteFits(p)
      BY <2>2
    <3> QED  BY <2>1, <3>1 DEF SentAs, WriteFits, Patched, Kept, Ids
  <2>3. CASE p = q
    BY <1>b, <2>1, <2>3 DEF SentAs, WriteFits
  <2> QED  BY <2>2, <2>3
<1>9. ASSUME NEW x \in requests', x.kind = "list"
      PROVE  \/ x.run <= loadRun /\ x.run \in Nat /\ x.run # loadRun + 1 /\ ~Patched
             \/ x.run = loadRun + 1 /\ x.at = "sent"
  <2>1. PICK p \in earlier \cup {q} : SentAs(x, p, q, earlier)
    BY <1>1
  <2>2. CASE p \in earlier
    <3>1. p.run <= loadRun /\ p.run \in Nat /\ p.run # loadRun + 1
      BY <1>e, <1>9, <1>a, <2>1, <2>2 DEF SentAs
    <3> QED  BY <1>9, <1>d, <2>1, <2>2, <3>1 DEF SentAs
  <2>3. CASE p = q
    BY <1>b, <2>1, <2>3 DEF SentAs
  <2> QED  BY <2>2, <2>3
<1>10. ASSUME NEW x \in requests'  PROVE LoadFits(x)'
  BY <1>9, <1>c DEF LoadFits, Patched
<1>11. ListFits'
  BY <1>c DEF ListFits, Patched
<1>12. KeysFit'
  <2> SUFFICES ASSUME ~Patched  PROVE KeysFit'
    BY DEF KeysFit, Patched
  <2>1. ASSUME NEW x \in requests'
        PROVE  /\ x.kind # "list" /\ x.at = "ok" => Has(x)
               /\ x.kind = "list" /\ x.at = "ok" => x.run # loadRun'
    <3>1. PICK p \in earlier \cup {q} : SentAs(x, p, q, earlier)
      BY <1>1
    <3>2. x.kind # "list" /\ x.at = "ok" => Has(x)
      BY <1>b, <3>1 DEF SentAs, KeysFit, Has
    <3> QED  BY <1>9, <1>c, <3>2
  <2> QED  BY <1>c, <2>1 DEF KeysFit, Has
<1> QED  BY <1>5, <1>6, <1>7, <1>8, <1>10, <1>11, <1>12

(* A response to a list shows every row that is kept, once, and no other.  *)
LEMMA RowsDisplay ==
  ASSUME AdminFits
  PROVE  /\ Rows \in Seq(ShownRows)
         /\ \A r \in RowIds : Displays(Rows, r, table[r])
         /\ Ids(Rows) \subseteq KeptRows
<1> DEFINE S == KeptRows
           n == Cardinality(S)
           ids == Descending(S)
<1>1. S \in SUBSET Nat /\ IsFiniteSet(S) /\ n \in Nat
  BY RowIdAssumption, FS_CardinalityType DEF AdminFits, KeptRows
<1>2. Rows = [i \in 1..n |-> [id |-> ids[i], text |-> table[ids[i]]]]
  BY DEF Rows, Descending, KeptRows
<1>3. \A i \in 1..n : /\ (n + 1) - i \in 1..n /\ ids[i] = Nth(S, (n + 1) - i) /\ ids[i] \in S
                      /\ Cardinality(Below(S, ids[i])) + 1 = (n + 1) - i
  <2> HIDE DEF S
  <2> TAKE i \in 1..n
  <2>1. (n + 1) - i \in 1..n
    BY <1>1
  <2>2. ids[i] = Nth(S, (n + 1) - i)
    BY <1>1 DEF Descending
  <2> QED  BY <1>1, <2>1, <2>2, NthFits
<1> HIDE DEF n, ids
<1>4. \A i \in 1..n : Rows[i] = [id |-> ids[i], text |-> table[ids[i]]]
  BY <1>2
<1>5. DOMAIN Rows = 1..n
  BY <1>2
<1>6. \A r \in S : r \in RowIds /\ table[r] \in RowTexts
  BY DEF AdminFits, KeptRows, Kept
<1>7. \A i \in 1..n : Rows[i].id = ids[i] /\ Rows[i].text = table[ids[i]] /\ Rows[i] \in ShownRows
  <2> TAKE i \in 1..n
  <2> PICK r, t : r = ids[i] /\ t = table[ids[i]]
    OBVIOUS
  <2>1. r \in RowIds /\ t \in RowTexts
    BY <1>3, <1>6
  <2>2. Rows[i] = [id |-> r, text |-> t]
    BY <1>4
  <2> QED  BY <2>1, <2>2 DEF ShownRows
<1>8. Rows \in Seq(ShownRows)
  <2>1. Rows \in [1..n -> ShownRows]
    BY <1>2, <1>4, <1>5, <1>7
  <2> QED  BY <1>1, <2>1
<1>9. ASSUME NEW r \in RowIds, r \in S
      PROVE  \E i \in 1..n : {j \in 1..n : Rows[j].id = r} = {i} /\ Rows[i].text = table[r]
  <2> DEFINE rank == Cardinality(Below(S, r))
             i == n - rank
  <2>1. rank \in Nat /\ rank + 1 \in 1..n /\ Nth(S, rank + 1) = r
    <3> HIDE DEF S
    <3> QED  BY <1>1, <1>9, BelowFinite, NthOfRank DEF n
  <2>2. i \in 1..n /\ (n + 1) - i = rank + 1
    BY <1>1, <2>1
  <2>3. ids[i] = r
    BY <1>3, <2>1, <2>2
  <2>4. ASSUME NEW j \in 1..n, ids[j] = r  PROVE j = i
    <3>1. rank + 1 = (n + 1) - j
      BY <1>3, <2>4
    <3> QED  BY <1>1, <2>1, <2>2, <3>1
  <2> HIDE DEF rank, i
  <2> QED  BY <1>7, <2>2, <2>3, <2>4
<1>10. ASSUME NEW r \in RowIds, r \notin S
       PROVE  {j \in 1..n : Rows[j].id = r} = {}
  BY <1>3, <1>7, <1>10
<1>11. ASSUME NEW r \in RowIds  PROVE Displays(Rows, r, table[r])
  <2>1. r \in S <=> table[r] \notin {"unused", "removed"}
    BY DEF KeptRows, Kept
  <2> HIDE DEF S
  <2> QED  BY <1>5, <1>9, <1>10, <2>1 DEF Displays
<1>12. Ids(Rows) \subseteq KeptRows
  BY <1>3, <1>5, <1>7 DEF Ids
<1> QED  BY <1>8, <1>11, <1>12

(* A request moves on, and is about what it was, or about a new row.       *)
LEMMA ReplaceFits ==
  ASSUME AdminFits, PairsFit, NEW q \in requests, NEW x, RequestFits(x),
         x.kind = q.kind, x.mixed = q.mixed,
         \/ x.id = q.id /\ ~(x.kind = "create" /\ x.at = "ok")
         \/ x.kind = "create" /\ \A p \in requests : p.id # x.id,
         requests' = (requests \ {q}) \cup {x},
         table' \in [RowIds -> RowTexts \cup {"unused", "removed"}],
         ~Patched => table' \in [RowIds -> {"unused", "active", "revoked"}],
         IsFiniteSet(KeptRows'),
         raced' \in SUBSET RowIds, acts' \in 0..MaxActs,
         UNCHANGED <<page, list, listState, loadRun, form, saving>>
  PROVE  AdminFits' /\ PairsFit'
<1>1. \A p \in requests' : p = x \/ (p \in requests /\ p # q)
  OBVIOUS
<1>2. (\E p \in requests' : Saves(p)) <=> \E p \in requests : Saves(p)
  BY DEF Saves
<1>3. \A p \in requests' : RequestFits(p)'
  <2> TAKE p \in requests'
  <2>1. RequestFits(p)
    BY <1>1 DEF AdminFits
  <2> QED  BY <2>1 DEF RequestFits, Patched
<1>4. AdminFits'
  <2>1. saving' <=> page' # "picker" /\ \E p \in requests' : Saves(p)
    BY <1>2 DEF AdminFits
  <2> QED  BY <1>3, <2>1 DEF AdminFits, Patched
<1>5. ASSUME NEW p \in requests, p # q  PROVE PairFits(p, x) /\ PairFits(x, p)
  <2>1. PairFits(p, q) /\ PairFits(q, p)
    BY <1>5 DEF PairsFit
  <2>2. (Clash(p, x) => Clash(p, q)) /\ (Clash(x, p) => Clash(q, p))
    BY DEF Clash
  <2> QED  BY <2>1, <2>2 DEF PairFits, Saves
<1>6. PairsFit'
  <2> SUFFICES ASSUME NEW o \in requests', NEW p \in requests', o # p  PROVE PairFits(o, p)'
    BY DEF PairsFit
  <2>1. PairFits(o, p)
    <3>1. CASE o \in requests /\ p \in requests
      BY <3>1 DEF PairsFit
    <3>2. CASE o = x
      BY <1>1, <1>5, <3>2
    <3>3. CASE p = x
      BY <1>1, <1>5, <3>3
    <3> QED  BY <1>1, <3>1, <3>2, <3>3
  <2> QED  BY <2>1 DEF PairFits, Clash, Patched
<1> QED  BY <1>4, <1>6

(* A row is written, and the request about it is answered.                 *)
LEMMA TableWriteKeeps ==
  ASSUME AdminInductive, NEW q \in requests, NEW x, NEW r \in RowIds, NEW t, RequestFits(x),
         q.kind # "list", x.kind = q.kind, x.text = q.text, x.mixed = q.mixed, x.rows = q.rows,
         x.at = "ok", x.id = r, q.at # "ok",
         q.kind = "create" => table[r] = "unused" /\ q.at = "sent",
         q.kind # "create" => q.id = r,
         q.kind \in {"update", "delete"} => q.at = "found",
         t = IF q.kind = "delete" THEN "removed" ELSE q.text,
         \/ table' = [table EXCEPT ![r] = t]
         \/ q.kind = "update" /\ ~Kept(r) /\ table' = table,
         requests' = (requests \ {q}) \cup {x}, acts' = acts,
         UNCHANGED <<page, list, listState, loadRun, form, saving, raced, confirmed>>
  PROVE  AdminInductive'
<1> USE DEF AdminInductive, TemplatesInductive
<1>0. RequestFits(q) /\ table \in [RowIds -> RowTexts \cup {"unused", "removed"}]
  BY DEF AdminFits
<1>1. q.kind = "create" => Unseen(r) /\ q.id = 0
  BY <1>0 DEF UnusedIsUnseen, RequestFits
<1>2. /\ t \in RowTexts \cup {"removed"} /\ t # "unused"
      /\ ~Patched => t \in {"active", "revoked"}
      /\ q.kind # "delete" /\ Patched => t \notin {"unused", "removed"}
  <2>1. CASE q.kind = "delete"
    BY <1>0, <2>1 DEF RequestFits, RowTexts
  <2>2. CASE q.kind = "revoke"
    BY <1>0, <2>2 DEF RequestFits, RowTexts
  <2>3. CASE Saves(q)
    BY <1>0, <2>3, NoTextOfTheModel DEF RequestFits, RowTexts, Saves
  <2> QED  BY <1>0, <2>1, <2>2, <2>3 DEF RequestFits, AdminRequests, Saves
<1>3. /\ table' \in [RowIds -> RowTexts \cup {"unused", "removed"}]
      /\ \A o \in RowIds \ {r} : table'[o] = table[o]
      /\ table'[r] = t \/ (q.kind = "update" /\ ~Kept(r) /\ table'[r] = table[r])
  BY <1>0, <1>2
<1>4. ~Patched => table' \in [RowIds -> {"unused", "active", "revoked"}]
  BY <1>0, <1>2 DEF AdminFits, RequestFits
<1>5. IsFiniteSet(KeptRows')
  <2>1. KeptRows' \subseteq KeptRows \cup {r}
    BY <1>3 DEF KeptRows, Kept
  <2>2. IsFiniteSet(KeptRows \cup {r})
    BY FS_AddElement DEF AdminFits
  <2> QED  BY <2>1, <2>2, FS_Subset
<1>6. \/ x.id = q.id /\ ~(x.kind = "create" /\ x.at = "ok")
      \/ x.kind = "create" /\ \A p \in requests : p.id # x.id
  <2>1. CASE q.kind = "create"
    BY <1>1, <2>1 DEF Unseen
  <2>2. CASE q.kind # "create"
    BY <2>2
  <2> QED  BY <2>1, <2>2
<1>7. AdminFits' /\ PairsFit'
  <2>1. acts \in 0..MaxActs /\ raced \in SUBSET RowIds
    BY DEF AdminFits
  <2> QED  BY <1>3, <1>4, <1>5, <1>6, <2>1, ReplaceFits
<1>8. \A p \in requests' : p = x \/ (p \in requests /\ p # q)
  OBVIOUS
<1>9. UnusedIsUnseen'
  <2> SUFFICES ASSUME NEW o \in RowIds, table'[o] = "unused"  PROVE Unseen(o)'
    BY DEF UnusedIsUnseen
  <2>1. ~(q.kind = "update" /\ table'[r] = table[r] /\ o = r)
    <3> SUFFICES ASSUME q.kind = "update", table[r] = "unused"  PROVE FALSE
      OBVIOUS
    <3>1. Unseen(r)
      BY DEF UnusedIsUnseen
    <3> QED  BY <3>1 DEF Unseen
  <2>2. o # r /\ Unseen(o)
    BY <1>2, <1>3, <2>1 DEF UnusedIsUnseen
  <2> QED  BY <1>8, <2>2 DEF Unseen, Ids
(* Of two writes of a row that are not marked, both delete it.             *)
<1>10. ASSUME NEW p \in requests, p # q, p.kind # "list", p.id = r, Patched, ~(p.mixed /\ q.mixed)
       PROVE  \/ p.kind = "delete" /\ q.kind = "delete"
              \/ p.kind = "create" /\ q.kind # "create" /\ (p.at = "ok" => p.mixed)
  <2>1. q.kind # "create"
    BY <1>1, <1>10 DEF Unseen
  <2>2. PairFits(p, q) /\ p \in AdminRequests /\ RequestFits(p)
    BY <1>10 DEF PairsFit, AdminFits, RequestFits
  <2>3. q.id = r /\ ~Clash(p, q) /\ (p.kind = "create" /\ p.at = "ok" => p.mixed)
    BY <2>1, <2>2, <1>10 DEF PairFits
  <2>4. ~(p.kind = "update" /\ q.kind = "delete") /\ ~(p.kind = "delete" /\ q.kind = "update")
    BY <2>3, <1>10 DEF Clash
  <2>5. ~(p.kind = "update" /\ q.kind = "update")
    BY <2>2, <2>3, <1>10 DEF Clash, PairFits, Saves, Patched
  <2>6. p.kind \in {"create", "update", "delete"} /\ q.kind \in {"update", "delete"}
    BY <1>0, <1>10, <2>1, <2>2 DEF RequestFits, AdminRequests
  <2>7. CASE p.kind = "create"
    BY <2>1, <2>3, <2>7
  <2>8. CASE p.kind # "create"
    BY <2>4, <2>5, <2>6, <2>8
  <2> QED  BY <2>7, <2>8
<1>11. Patched /\ ~q.mixed => table'[r] = t
  BY <1>3 DEF WriteFits
<1>12. ASSUME NEW p \in requests'  PROVE WriteFits(p)'
  <2> SUFFICES ASSUME Patched, p.kind # "list", ~p.mixed
               PROVE  /\ p.kind = "update" /\ p.at = "found" => Kept(p.id)'
                      /\ p.at = "ok" => table'[p.id] = (IF p.kind = "delete" THEN "removed" ELSE p.text)
                      /\ p.kind = "create" /\ p.at = "ok" => p.id \notin Ids(list) /\ form.id # p.id
    BY DEF WriteFits, Patched, Ids
  <2>1. CASE p = x
    BY <1>1, <1>11, <2>1 DEF Unseen
  <2>2. CASE p \in requests /\ p # q
    <3>1. WriteFits(p) /\ RequestFits(p)
      BY <2>2 DEF AdminFits
    <3>2. CASE p.id # r
      <4>1. table'[p.id] = table[p.id] \/ p.id \notin RowIds
        BY <1>3, <3>2
      <4> QED  BY <3>1, <4>1 DEF WriteFits, Kept, RequestFits, AdminRequests
    <3>3. CASE p.id = r
      <4>1. (p.kind = "delete" /\ q.kind = "delete") \/ (p.kind = "create" /\ p.at # "ok")
        BY <1>10, <2>2, <3>3
      <4> QED  BY <1>3, <3>3, <4>1
    <3> QED  BY <3>2, <3>3
  <2> QED  BY <1>8, <2>1, <2>2
<1>13. /\ \A o \in RowIds \ {r} : About(o)' = About(o)
       /\ x \in About(r)' /\ \A p \in About(r) : p = q \/ p \in About(r)'
       /\ \A p \in About(r)' : p = x \/ (p \in About(r) /\ p # q)
  BY <1>1, <1>8, IdsAreNotZero DEF About
<1>14. ASSUME NEW p \in requests'  PROVE LoadFits(p)'
  <2> SUFFICES ASSUME Patched, p.kind = "list"
               PROVE  /\ p.run = loadRun /\ listState = "loading"
                      /\ p.at = "ok" => \A o \in RowIds :
                           (p.mixed => o \notin raced /\ About(o)' = {}) => Displays(p.rows, o, table'[o])
    BY DEF LoadFits, Patched
  <2>1. p \in requests /\ p # q /\ LoadFits(p)
    BY <1>8
  <2>2. p.mixed
    <3>1. Clash(p, q) /\ PairFits(p, q)
      BY <2>1 DEF Clash, PairsFit
    <3> QED  BY <3>1 DEF PairFits
  <2> QED  BY <1>3, <1>13, <2>1, <2>2 DEF LoadFits
<1>15. ListFits'
  <2>1. ASSUME Patched, listState = "shown", NEW o \in RowIds \ raced, \A p \in About(o)' : ~p.mixed
        PROVE  RowFits(o)'
    <3>1. CASE o # r
      <4>1. About(o)' = About(o) /\ table'[o] = table[o]
        BY <1>3, <1>13, <3>1
      <4> QED  BY <2>1, <4>1 DEF ListFits, RowFits, Once
    <3>2. CASE o = r
      <4>1. ~q.mixed /\ \A p \in About(r) : ~p.mixed
        BY <1>13, <2>1, <3>2
      <4>2. ASSUME NEW p \in About(r)', p.kind = "update", p.at = "ok"
            PROVE  Once(list, r)
        <5>1. p = x
          <6> SUFFICES ASSUME p # x  PROVE FALSE
            OBVIOUS
          <6>1. p \in About(r) /\ p # q
            BY <1>13
          <6> QED  BY <1>10, <2>1, <4>1, <4>2, <6>1 DEF About
        <5>2. q.kind = "update" /\ q.at = "found" /\ q \in About(r)
          BY <4>2, <5>1 DEF About
        <5>3. Kept(r)
          BY <2>1, <4>1, <5>2 DEF WriteFits
        <5>4. \A p_1 \in About(r) : p_1.at # "ok"
          BY <1>10, <2>1, <4>1, <5>2 DEF About
        <5>5. Displays(list, r, table[r])
          BY <2>1, <3>2, <4>1, <5>4 DEF ListFits, RowFits
        <5> QED  BY <5>3, <5>5 DEF Displays, Kept, Once
      <4> QED  BY <1>13, <3>2, <4>2 DEF RowFits, Once
    <3> QED  BY <3>1, <3>2
  <2>2. (\E p \in requests : p.kind = "list") => \E p \in requests' : p.kind = "list"
    OBVIOUS
  <2> QED  BY <2>1, <2>2 DEF ListFits, Patched, Ids
<1>16. KeysFit'
  <2> SUFFICES ASSUME ~Patched  PROVE KeysFit'
    BY DEF KeysFit, Patched
  <2>1. table'[r] = q.text
    BY <1>0, <1>3 DEF RequestFits
  <2>2. q.kind \in {"create", "revoke"}
    BY <1>0 DEF RequestFits, AdminRequests
  <2>3. ASSUME NEW w, w.id \in RowIds, Has(w)  PROVE Has(w)'
    <3>1. CASE w.id # r
      BY <1>3, <2>3, <3>1 DEF Has
    <3>2. CASE w.id = r
      <4>1. q.kind = "revoke"
        BY <2>2, <2>3, <3>2 DEF Has
      <4> QED  BY <1>0, <2>1, <3>2, <4>1 DEF Has, RequestFits
    <3> QED  BY <3>1, <3>2
  <2>4. Has(x)'
    BY <1>2, <2>1 DEF Has
  <2>5. \A p \in requests' : p.kind # "list" /\ p.at = "ok" => Has(p)'
    <3> SUFFICES ASSUME NEW p \in requests', p \in requests, p.kind # "list", p.at = "ok"  PROVE Has(p)'
      BY <1>8, <2>4
    <3>1. RequestFits(p) /\ p \in AdminRequests
      BY DEF AdminFits, RequestFits
    <3>2. p.id \in RowIds /\ Has(p)
      BY <3>1 DEF RequestFits, AdminRequests, KeysFit
    <3> QED  BY <2>3, <3>2
  <2> QED  BY <1>8, <2>3, <2>5 DEF KeysFit
<1> QED  BY <1>7, <1>9, <1>12, <1>14, <1>15, <1>16

(* A request has its row found, or fails.                                  *)
LEMMA StatusKeeps ==
  ASSUME AdminInductive, NEW q \in requests, NEW x, RequestFits(x),
         x.kind = q.kind, x.id = q.id, x.text = q.text, x.run = q.run,
         x.mixed = q.mixed, x.rows = q.rows,
         x.at \in {"found", "failed"}, x.at = "found" => Kept(q.id),
         requests' = (requests \ {q}) \cup {x}, acts' \in 0..MaxActs,
         raced' \in SUBSET RowIds, raced \subseteq raced',
         q.kind # "list" /\ q.at = "ok" => q.id \in raced',
         UNCHANGED <<page, table, list, listState, loadRun, form, saving, confirmed>>
  PROVE  AdminInductive'
<1> USE DEF AdminInductive, TemplatesInductive
<1>1. AdminFits' /\ PairsFit'
  <2>1. /\ table \in [RowIds -> RowTexts \cup {"unused", "removed"}]
        /\ ~Patched => table \in [RowIds -> {"unused", "active", "revoked"}]
        /\ IsFiniteSet(KeptRows) /\ KeptRows' = KeptRows
    BY DEF AdminFits, KeptRows, Kept
  <2>2. /\ table' \in [RowIds -> RowTexts \cup {"unused", "removed"}]
        /\ ~Patched => table' \in [RowIds -> {"unused", "active", "revoked"}]
        /\ IsFiniteSet(KeptRows')
    BY <2>1
  <2> QED  BY <2>2, ReplaceFits
<1>2. \A p \in requests' : p = x \/ (p \in requests /\ p # q)
  OBVIOUS
<1>3. UnusedIsUnseen'
  <2> SUFFICES ASSUME NEW o \in RowIds, table[o] = "unused"  PROVE Unseen(o)'
    BY DEF UnusedIsUnseen
  <2>1. Unseen(o)
    BY DEF UnusedIsUnseen
  <2> QED  BY <1>2, <2>1 DEF Unseen, Ids
<1>4. ASSUME NEW p \in requests'  PROVE WriteFits(p)'
  <2>1. CASE p = x
    BY <2>1 DEF WriteFits, Kept
  <2>2. CASE p \in requests
    <3>1. WriteFits(p)
      BY <2>2
    <3> QED  BY <3>1 DEF WriteFits, Patched, Kept, Ids
  <2> QED  BY <1>2, <2>1, <2>2
<1>5. /\ \A o : \A p \in About(o) : p = q \/ p \in About(o)'
      /\ \A o : \A p \in About(o)' : (p = x /\ q \in About(o)) \/ (p \in About(o) /\ p # q)
      /\ \A o : q \in About(o) => x \in About(o)'
  BY <1>2 DEF About
<1>6. ASSUME NEW p \in requests'  PROVE LoadFits(p)'
  <2>1. \A o : About(o)' = {} => About(o) = {}
    BY <1>5
  <2>2. CASE p = x
    <3>1. LoadFits(q)
      OBVIOUS
    <3> QED  BY <2>2, <3>1 DEF LoadFits, Patched
  <2>3. CASE p \in requests
    <3>1. LoadFits(p)
      BY <2>3
    <3> QED  BY <2>1, <3>1 DEF LoadFits, Patched
  <2> QED  BY <1>2, <2>2, <2>3
<1>7. ListFits'
  <2>1. ASSUME Patched, listState = "shown", NEW o \in RowIds \ raced', \A p \in About(o)' : ~p.mixed
        PROVE  RowFits(o)'
    <3>1. \A p \in About(o) : ~p.mixed
      BY <1>5, <2>1
    <3>2. RowFits(o)
      BY <2>1, <3>1 DEF ListFits
    <3>3. q \in About(o) => q.at # "ok"
      BY <2>1 DEF About
    <3>4. (\A p \in About(o)' : p.at # "ok") => \A p \in About(o) : p.at # "ok"
      BY <1>5, <3>3
    <3>5. (\E p \in About(o)' : p.kind = "update" /\ p.at = "ok")
             => \E p \in About(o) : p.kind = "update" /\ p.at = "ok"
      BY <1>5
    <3> QED  BY <3>2, <3>4, <3>5 DEF RowFits, Once
  <2>2. (\E p \in requests : p.kind = "list") => \E p \in requests' : p.kind = "list"
    OBVIOUS
  <2> QED  BY <2>1, <2>2 DEF ListFits, Patched, Ids
<1>8. KeysFit'
  <2> SUFFICES ASSUME ~Patched  PROVE KeysFit'
    BY DEF KeysFit, Patched
  <2> QED  BY <1>2 DEF KeysFit, Has
<1> QED  BY <1>1, <1>3, <1>4, <1>6, <1>7, <1>8

LEMMA ServedFields ==
  ASSUME NEW q \in AdminRequests, NEW status \in {"sent", "found", "ok", "failed"}
  PROVE  LET x == [q EXCEPT !.at = status]
         IN  /\ x \in AdminRequests /\ x.kind = q.kind /\ x.id = q.id /\ x.text = q.text
             /\ x.run = q.run /\ x.mixed = q.mixed /\ x.rows = q.rows /\ x.at = status
BY DEF AdminRequests

LEMMA ServeListKeeps == AdminInductive /\ ServeList => AdminInductive'
<1> SUFFICES ASSUME AdminInductive, ServeList  PROVE AdminInductive'
  OBVIOUS
<1> USE DEF AdminInductive, TemplatesInductive
<1>1. PICK q \in requests : /\ q.kind = "list" /\ q.at = "sent"
                            /\ requests' = (requests \ {q}) \cup {[q EXCEPT !.at = "ok", !.rows = Rows]}
                            /\ UNCHANGED <<unserved, table, acts>>
  BY DEF ServeList
<1> PICK x, rows : rows = Rows /\ x = [q EXCEPT !.at = "ok", !.rows = rows]
  OBVIOUS
<1>2. /\ rows \in Seq(ShownRows) /\ Ids(rows) \subseteq KeptRows
      /\ \A r \in RowIds : Displays(rows, r, table[r])
  BY RowsDisplay
<1>3. q \in AdminRequests /\ RequestFits(q)
  BY DEF AdminFits, RequestFits
<1>4. /\ x \in AdminRequests /\ x.kind = "list" /\ x.id = q.id /\ x.text = q.text
      /\ x.run = q.run /\ x.mixed = q.mixed /\ x.rows = rows /\ x.at = "ok"
  BY <1>1, <1>2, <1>3 DEF AdminRequests
<1>5. requests' = (requests \ {q}) \cup {x}
      /\ UNCHANGED <<page, table, list, listState, loadRun, form, saving, raced, confirmed, acts>>
  BY <1>1 DEF unserved
<1>6. RequestFits(x)
  BY <1>1, <1>3, <1>4 DEF RequestFits, Saves
<1>7. AdminFits' /\ PairsFit'
  <2>1. /\ table \in [RowIds -> RowTexts \cup {"unused", "removed"}]
        /\ ~Patched => table \in [RowIds -> {"unused", "active", "revoked"}]
        /\ IsFiniteSet(KeptRows) /\ KeptRows' = KeptRows
        /\ raced \in SUBSET RowIds /\ acts \in 0..MaxActs
    BY <1>5 DEF AdminFits, KeptRows, Kept
  <2>2. /\ table' \in [RowIds -> RowTexts \cup {"unused", "removed"}]
        /\ ~Patched => table' \in [RowIds -> {"unused", "active", "revoked"}]
        /\ IsFiniteSet(KeptRows') /\ raced' \in SUBSET RowIds /\ acts' \in 0..MaxActs
    BY <1>5, <2>1
  <2>3. x.kind = q.kind
    BY <1>1, <1>4
  <2> QED  BY <1>4, <1>5, <1>6, <2>2, <2>3, ReplaceFits
<1>8. \A p \in requests' : p = x \/ (p \in requests /\ p # q)
  BY <1>5
<1>9. UnusedIsUnseen'
  <2> SUFFICES ASSUME NEW o \in RowIds, table[o] = "unused"  PROVE Unseen(o)'
    BY <1>5 DEF UnusedIsUnseen
  <2>1. Unseen(o)
    BY DEF UnusedIsUnseen
  <2>2. o \notin Ids(x.rows) /\ x.id # o
    BY <1>2, <1>4, <2>1 DEF KeptRows, Kept, Unseen
  <2> QED  BY <1>5, <1>8, <2>1, <2>2 DEF Unseen, Ids
<1>10. ASSUME NEW p \in requests'  PROVE WriteFits(p)'
  <2>1. CASE p = x
    BY <1>4, <2>1 DEF WriteFits
  <2>2. CASE p \in requests
    <3>1. WriteFits(p)
      BY <2>2
    <3> QED  BY <1>5, <3>1 DEF WriteFits, Patched, Kept, Ids
  <2> QED  BY <1>8, <2>1, <2>2
<1>11. \A o : About(o)' = About(o)
  BY <1>1, <1>4, <1>5 DEF About
<1>12. ASSUME NEW p \in requests'  PROVE LoadFits(p)'
  <2>2. CASE p = x
    <3>1. LoadFits(q)
      OBVIOUS
    <3> QED  BY <1>1, <1>2, <1>4, <1>5, <2>2, <3>1 DEF LoadFits, Patched
  <2>3. CASE p \in requests
    <3>1. LoadFits(p)
      BY <2>3
    <3> QED  BY <1>5, <1>11, <3>1 DEF LoadFits, Patched
  <2> QED  BY <1>8, <2>2, <2>3
<1>13. ListFits'
  <2>1. \A o : RowFits(o)' <=> RowFits(o)
    BY <1>5, <1>11 DEF RowFits, Once
  <2>2. (\E p \in requests : p.kind = "list") => \E p \in requests' : p.kind = "list"
    BY <1>4, <1>5
  <2> QED  BY <1>5, <1>11, <2>1, <2>2 DEF ListFits, Patched, Ids
<1>14. KeysFit'
  <2> SUFFICES ASSUME ~Patched  PROVE KeysFit'
    BY <1>5 DEF KeysFit, Patched
  <2>1. ASSUME NEW w \in confirmed  PROVE ShowsIn(rows, w)
    <3>1. w.id \in RowIds /\ Has(w)
      BY DEF KeysFit
    <3>2. table[w.id] \notin {"unused", "removed"}
      BY <3>1 DEF Has, AdminFits
    <3>3. Displays(rows, w.id, table[w.id])
      BY <1>2, <3>1
    <3> QED  BY <3>1, <3>2, <3>3 DEF Displays, Has, ShowsIn
  <2>2. ASSUME NEW p \in requests'
        PROVE  /\ p.kind # "list" /\ p.at = "ok" => Has(p)'
               /\ p.kind = "list" /\ p.at = "ok" /\ p.run = loadRun =>
                    \A w \in confirmed : ShowsIn(p.rows, w)
    <3>1. CASE p = x
      BY <1>4, <2>1, <3>1
    <3>2. CASE p \in requests
      BY <1>5, <3>2 DEF KeysFit, Has
    <3> QED  BY <1>8, <3>1, <3>2
  <2>3. \A w \in confirmed : w.id \in RowIds /\ Has(w)'
    BY <1>5 DEF KeysFit, Has
  <2> QED  BY <1>5, <2>2, <2>3 DEF KeysFit
<1> QED  BY <1>7, <1>9, <1>10, <1>12, <1>13, <1>14

-----------------------------------------------------------------------------
(* What a write's response does to the list                                *)

(* Rows other than id's show as before.                                    *)
OthersStay(rows, more, id) ==
  /\ \A r : r # id => /\ Once(rows, r) => Once(more, r)
                      /\ \A text : Displays(rows, r, text) => Displays(more, r, text)
  /\ Ids(more) \subseteq Ids(rows) \cup {id}

LEMMA CreatePatch ==
  ASSUME NEW rows \in Seq(ShownRows), NEW row \in ShownRows
  PROVE  /\ <<row>> \o rows \in Seq(ShownRows)
         /\ OthersStay(rows, <<row>> \o rows, row.id)
         /\ row.id \notin Ids(rows) /\ row.text \notin {"unused", "removed"}
              => Displays(<<row>> \o rows, row.id, row.text)
<1> DEFINE more == <<row>> \o rows
<1>1. /\ more \in Seq(ShownRows) /\ Len(rows) \in Nat /\ DOMAIN rows = 1..Len(rows)
      /\ DOMAIN more = 1..(Len(rows) + 1)
      /\ more[1] = row /\ \A i \in 1..Len(rows) : more[i + 1] = rows[i]
  OBVIOUS
<1> HIDE DEF more
<1>2. \A j \in DOMAIN more : j = 1 \/ (j - 1 \in DOMAIN rows /\ more[j] = rows[j - 1])
  <2> SUFFICES ASSUME NEW j \in 1..(Len(rows) + 1), j # 1
               PROVE  j - 1 \in 1..Len(rows) /\ more[j] = rows[j - 1]
    BY <1>1
  <2>1. j - 1 \in 1..Len(rows) /\ (j - 1) + 1 = j
    BY <1>1
  <2> QED  BY <1>1, <2>1
<1>3. \A i \in DOMAIN rows : i + 1 \in DOMAIN more /\ more[i + 1] = rows[i]
  BY <1>1
<1>4. ASSUME NEW r, r # row.id, NEW i \in DOMAIN rows,
             {j \in DOMAIN rows : rows[j].id = r} = {i}
      PROVE  {j \in DOMAIN more : more[j].id = r} = {i + 1}
  <2>1. \A j \in DOMAIN more : more[j].id = r => j = i + 1
    <3> SUFFICES ASSUME NEW j \in DOMAIN more, more[j].id = r  PROVE j = i + 1
      OBVIOUS
    <3>1. j - 1 \in DOMAIN rows /\ more[j] = rows[j - 1] /\ j \in Nat
      BY <1>1, <1>2, <1>4
    <3>2. j - 1 = i
      BY <1>4, <3>1
    <3> QED  BY <3>1, <3>2
  <2>2. more[i + 1].id = r /\ i + 1 \in DOMAIN more
    BY <1>3, <1>4
  <2> QED  BY <2>1, <2>2
<1>5. ASSUME NEW r, r # row.id, {j \in DOMAIN rows : rows[j].id = r} = {}
      PROVE  {j \in DOMAIN more : more[j].id = r} = {}
  BY <1>1, <1>2, <1>5
<1>6. ASSUME NEW r, r # row.id, Once(rows, r)  PROVE Once(more, r)
  BY <1>3, <1>4, <1>6 DEF Once
<1>7. ASSUME NEW r, r # row.id, NEW text, Displays(rows, r, text)  PROVE Displays(more, r, text)
  <2>1. CASE text \notin {"unused", "removed"}
    <3>1. PICK i \in DOMAIN rows : {j \in DOMAIN rows : rows[j].id = r} = {i} /\ rows[i].text = text
      BY <1>7, <2>1 DEF Displays
    <3>2. {j \in DOMAIN more : more[j].id = r} = {i + 1} /\ more[i + 1].text = text
      BY <1>3, <1>4, <1>7, <3>1
    <3> QED  BY <2>1, <3>2 DEF Displays
  <2>2. CASE text \in {"unused", "removed"}
    BY <1>5, <1>7, <2>2 DEF Displays
  <2> QED  BY <2>1, <2>2
<1>8. Ids(more) \subseteq Ids(rows) \cup {row.id}
  BY <1>1, <1>2 DEF Ids
<1>9. ASSUME row.id \notin Ids(rows), row.text \notin {"unused", "removed"}
      PROVE  Displays(more, row.id, row.text)
  <2>1. {j \in DOMAIN more : more[j].id = row.id} = {1}
    BY <1>1, <1>2, <1>9 DEF Ids
  <2> QED  BY <1>1, <1>9, <2>1 DEF Displays
<1> QED  BY <1>1, <1>6, <1>7, <1>8, <1>9 DEF OthersStay, more

LEMMA UpdatePatch ==
  ASSUME NEW rows \in Seq(ShownRows), NEW id, NEW text \in RowTexts,
         NEW more,
         more = [i \in DOMAIN rows |-> IF rows[i].id = id THEN [rows[i] EXCEPT !.text = text] ELSE rows[i]]
  PROVE  /\ more \in Seq(ShownRows)
         /\ OthersStay(rows, more, id)
         /\ Once(rows, id) /\ text \notin {"unused", "removed"} => Displays(more, id, text)
<1>1. Len(rows) \in Nat /\ DOMAIN rows = 1..Len(rows) /\ DOMAIN more = DOMAIN rows
      /\ \A i \in DOMAIN rows : rows[i] \in ShownRows
  OBVIOUS
<1>2. \A i \in DOMAIN rows : /\ more[i].id = rows[i].id /\ more[i] \in ShownRows
                             /\ rows[i].id = id => more[i].text = text
                             /\ rows[i].id # id => more[i] = rows[i]
  <2> TAKE i \in DOMAIN rows
  <2> PICK row \in ShownRows : row = rows[i]
    BY <1>1
  <2>1. [row EXCEPT !.text = text] \in ShownRows /\ [row EXCEPT !.text = text].id = row.id
        /\ [row EXCEPT !.text = text].text = text
    BY DEF ShownRows
  <2>2. more[i] = IF row.id = id THEN [row EXCEPT !.text = text] ELSE row
    OBVIOUS
  <2> QED  BY <2>1, <2>2
<1>3. more \in Seq(ShownRows)
  <2>1. more \in [1..Len(rows) -> ShownRows]
    BY <1>1, <1>2
  <2> QED  BY <1>1, <2>1
<1>4. \A r : {j \in DOMAIN more : more[j].id = r} = {j \in DOMAIN rows : rows[j].id = r}
  BY <1>1, <1>2
<1>5. OthersStay(rows, more, id)
  <2>1. \A r : Once(rows, r) => Once(more, r)
    BY <1>1, <1>4 DEF Once
  <2>2. ASSUME NEW r, r # id, NEW t, Displays(rows, r, t)  PROVE Displays(more, r, t)
    <3>1. CASE t \notin {"unused", "removed"}
      <4>1. PICK i \in DOMAIN rows : {j \in DOMAIN rows : rows[j].id = r} = {i} /\ rows[i].text = t
        BY <2>2, <3>1 DEF Displays
      <4>2. {j \in DOMAIN more : more[j].id = r} = {i} /\ more[i].text = t
        BY <1>2, <1>4, <2>2, <4>1
      <4> QED  BY <3>1, <4>2 DEF Displays
    <3>2. CASE t \in {"unused", "removed"}
      BY <1>4, <2>2, <3>2 DEF Displays
    <3> QED  BY <3>1, <3>2
  <2>3. Ids(more) \subseteq Ids(rows)
    BY <1>1, <1>2 DEF Ids
  <2> QED  BY <2>1, <2>2, <2>3 DEF OthersStay
<1>6. ASSUME Once(rows, id), text \notin {"unused", "removed"}  PROVE Displays(more, id, text)
  <2>1. PICK i \in DOMAIN rows : {j \in DOMAIN rows : rows[j].id = id} = {i}
    BY <1>6 DEF Once
  <2>2. {j \in DOMAIN more : more[j].id = id} = {i} /\ more[i].text = text
    BY <1>2, <1>4, <2>1
  <2> QED  BY <1>6, <2>2 DEF Displays
<1> QED  BY <1>3, <1>5, <1>6

LEMMA DeletePatch ==
  ASSUME NEW rows \in Seq(ShownRows), NEW id, NEW more,
         more = (LET others == {i \in DOMAIN rows : rows[i].id # id}
                 IN  [j \in 1..Cardinality(others) |-> rows[Nth(others, j)]])
  PROVE  /\ more \in Seq(ShownRows)
         /\ OthersStay(rows, more, id)
         /\ Displays(more, id, "removed")
<1> DEFINE others == {i \in DOMAIN rows : rows[i].id # id}
           n == Cardinality(others)
           rank(i) == Cardinality(Below(others, i)) + 1
           places(rs, r) == {j \in DOMAIN rs : rs[j].id = r}
<1>1. Len(rows) \in Nat /\ DOMAIN rows = 1..Len(rows) /\ \A i \in DOMAIN rows : rows[i] \in ShownRows
  OBVIOUS
<1>2. others \in SUBSET Nat /\ IsFiniteSet(others) /\ n \in Nat
  <2>1. others \subseteq 1..Len(rows) /\ IsFiniteSet(1..Len(rows))
    BY <1>1, FS_Interval
  <2> QED  BY <1>1, <2>1, FS_Subset, FS_CardinalityType
<1>3. more = [j \in 1..n |-> rows[Nth(others, j)]]
  OBVIOUS
<1> HIDE DEF others
<1>4. \A j \in 1..n : Nth(others, j) \in others /\ rank(Nth(others, j)) = j
  BY <1>2, NthFits
<1>5. \A i \in others : rank(i) \in 1..n /\ Nth(others, rank(i)) = i
  BY <1>2, NthOfRank
<1> HIDE DEF n, rank, places
<1>6. \A i \in others : i \in DOMAIN rows /\ rows[i].id # id
  BY DEF others
<1>7. DOMAIN more = 1..n /\ \A j \in 1..n : more[j] = rows[Nth(others, j)] /\ more[j].id # id
  BY <1>3, <1>4, <1>6
<1>8. more \in Seq(ShownRows)
  <2>1. more \in [1..n -> ShownRows]
    BY <1>1, <1>3, <1>4, <1>6
  <2>2. n \in Nat
    BY <1>2
  <2>3. \A m \in Nat : [1..m -> ShownRows] \subseteq Seq(ShownRows)
    OBVIOUS
  <2> QED  BY <2>1, <2>2, <2>3
<1>9. ASSUME NEW r, r # id, NEW i \in DOMAIN rows, places(rows, r) = {i}
      PROVE  rank(i) \in DOMAIN more /\ more[rank(i)] = rows[i] /\ places(more, r) = {rank(i)}
  <2>1. rows[i].id = r /\ i \in others
    BY <1>9 DEF others, places
  <2>2. rank(i) \in 1..n /\ more[rank(i)] = rows[i]
    BY <1>5, <1>7, <2>1
  <2>3. ASSUME NEW j \in 1..n, more[j].id = r  PROVE j = rank(i)
    <3>1. Nth(others, j) = i
      BY <1>4, <1>6, <1>7, <1>9, <2>3 DEF places
    <3> QED  BY <1>4, <3>1
  <2> QED  BY <1>7, <2>1, <2>2, <2>3 DEF places
<1>10. ASSUME NEW r, {j \in DOMAIN rows : rows[j].id = r} = {}
       PROVE  {j \in DOMAIN more : more[j].id = r} = {}
  BY <1>4, <1>6, <1>7, <1>10
<1>11. OthersStay(rows, more, id)
  <2>1. \A r : r # id /\ Once(rows, r) => Once(more, r)
    BY <1>9 DEF Once, places
  <2>2. ASSUME NEW r, r # id, NEW t, Displays(rows, r, t)  PROVE Displays(more, r, t)
    <3>1. CASE t \notin {"unused", "removed"}
      <4>1. PICK i \in DOMAIN rows : places(rows, r) = {i} /\ rows[i].text = t
        BY <2>2, <3>1 DEF Displays, places
      <4>2. /\ rank(i) \in DOMAIN more /\ more[rank(i)] = rows[i]
            /\ places(more, r) = {rank(i)}
        BY <1>9, <2>2, <4>1
      <4>3. more[rank(i)].text = t
        BY <4>1, <4>2
      <4> QED  BY <3>1, <4>2, <4>3 DEF Displays, places
    <3>2. CASE t \in {"unused", "removed"}
      BY <1>10, <2>2, <3>2 DEF Displays
    <3> QED  BY <3>1, <3>2
  <2>3. Ids(more) \subseteq Ids(rows)
    <3> SUFFICES ASSUME NEW j \in 1..n  PROVE more[j].id \in Ids(rows)
      BY <1>7 DEF Ids
    <3>1. Nth(others, j) \in DOMAIN rows /\ more[j] = rows[Nth(others, j)]
      BY <1>4, <1>6, <1>7
    <3> QED  BY <3>1 DEF Ids
  <2> QED  BY <2>1, <2>2, <2>3 DEF OthersStay
<1>12. Displays(more, id, "removed")
  BY <1>7 DEF Displays
<1> QED  BY <1>8, <1>11, <1>12

LEMMA DroppedPairsFit ==
  ASSUME PairsFit, NEW rest \in SUBSET requests, requests' = rest, page' = page
  PROVE  PairsFit'
BY DEF PairsFit, PairFits, Clash, Patched

LEMMA ReceiveRowsKeeps == AdminInductive /\ ReceiveRows => AdminInductive'
<1> SUFFICES ASSUME AdminInductive, ReceiveRows  PROVE AdminInductive'
  OBVIOUS
<1> USE DEF AdminInductive, TemplatesInductive
<1>1. PICK q \in requests :
        /\ q.kind = "list" /\ q.at \in {"ok", "failed"} /\ requests' = requests \ {q}
        /\ \/ ~CurrentLoad(q.run) /\ UNCHANGED <<list, listState, raced>>
           \/ /\ CurrentLoad(q.run) /\ q.at = "ok"
              /\ list' = q.rows /\ listState' = "shown"
              /\ raced' = IF q.mixed THEN raced ELSE {}
           \/ /\ CurrentLoad(q.run) /\ q.at = "failed" /\ UNCHANGED list
              /\ listState' = IF page = "picker" THEN "shown" ELSE "error"
              /\ raced' = raced \cup {r \in RowIds : Kept(r)}
        /\ UNCHANGED <<page, table, loadRun, form, saving, confirmed, acts>>
  BY DEF ReceiveRows
<1>2. q \in AdminRequests /\ RequestFits(q) /\ LoadFits(q)
  BY DEF AdminFits, RequestFits
<1>3. q.rows \in Seq(ShownRows)
  BY <1>2 DEF AdminRequests
<1>4. AdminFits'
  <2>1. (\E p \in requests' : Saves(p)) <=> \E p \in requests : Saves(p)
    BY <1>1 DEF Saves
  <2>2. list' \in Seq(ShownRows) /\ raced' \in SUBSET RowIds
        /\ listState' \in {"loading", "shown", "error"}
    BY <1>1, <1>3 DEF AdminFits
  <2>3. KeptRows' = KeptRows
    BY <1>1 DEF KeptRows, Kept
  <2>4. \A p \in requests' : RequestFits(p)'
    BY <1>1 DEF AdminFits, RequestFits, Patched
  <2> QED  BY <1>1, <2>1, <2>2, <2>3, <2>4 DEF AdminFits, Patched
<1>5. PairsFit'
  BY <1>1, DroppedPairsFit
<1>6. UnusedIsUnseen'
  <2> SUFFICES ASSUME NEW o \in RowIds, table[o] = "unused"  PROVE Unseen(o)'
    BY <1>1 DEF UnusedIsUnseen
  <2>1. Unseen(o)
    BY DEF UnusedIsUnseen
  <2>2. o \notin Ids(list')
    BY <1>1, <2>1 DEF Unseen
  <2> QED  BY <1>1, <2>1, <2>2 DEF Unseen, Ids
(* On the pages of templates it is the only load, and marked if a write is *)
(* on its way.                                                             *)
<1>7. Patched => /\ q.run = loadRun /\ listState = "loading"
                 /\ \A p \in requests' : p.kind # "list" /\ p.mixed /\ q.mixed
  <2> SUFFICES ASSUME Patched, NEW p \in requests'  PROVE p.kind # "list" /\ p.mixed /\ q.mixed
    BY <1>1, <1>2 DEF LoadFits
  <2>1. p \in requests /\ p # q /\ PairFits(p, q)
    BY <1>1 DEF PairsFit
  <2>2. p.kind # "list"
    BY <1>1, <2>1 DEF PairFits
  <2>3. Clash(p, q)
    BY <1>1, <2>2 DEF Clash
  <2> QED  BY <2>1, <2>2, <2>3 DEF PairFits
<1>8. ASSUME NEW p \in requests'  PROVE WriteFits(p)' /\ LoadFits(p)'
  <2>1. CASE Patched
    BY <1>1, <1>7, <2>1 DEF WriteFits, LoadFits, Patched
  <2>2. CASE ~Patched
    BY <1>1, <2>2 DEF WriteFits, LoadFits, Patched
  <2> QED  BY <2>1, <2>2
<1>9. ListFits'
  <2> SUFFICES ASSUME Patched  PROVE ListFits'
    BY <1>1 DEF ListFits, Patched
  <2>0. CurrentLoad(q.run)
    BY <1>7 DEF CurrentLoad
  <2>1. ASSUME listState' = "shown", NEW o \in RowIds \ raced', \A p \in About(o)' : ~p.mixed
        PROVE  RowFits(o)'
    <3>1. About(o)' = {} /\ About(o) = {}
      BY <1>1, <1>7, <2>1 DEF About
    <3>2. Displays(list', o, table[o])
      <4>1. CASE q.at = "ok"
        <5>1. q.mixed => o \notin raced
          BY <1>1, <2>0, <2>1, <4>1
        <5> QED  BY <1>1, <1>2, <2>0, <3>1, <4>1, <5>1 DEF LoadFits
      <4>2. CASE q.at = "failed"
        <5>1. page = "picker" /\ o \notin raced /\ ~Kept(o) /\ list' = list
          BY <1>1, <2>0, <2>1, <4>2
        <5>2. o \notin Ids(list)
          BY <1>7, <5>1 DEF ListFits
        <5> QED  BY <5>1, <5>2 DEF Displays, Kept, Ids
      <4> QED  BY <1>1, <4>1, <4>2
    <3> QED  BY <1>1, <3>1, <3>2 DEF RowFits
  <2>2. listState' # "loading" /\ (page = "picker" => listState' # "error")
    BY <1>1, <2>0
  <2> QED  BY <1>1, <2>1, <2>2 DEF ListFits
<1>10. KeysFit'
  <2> SUFFICES ASSUME ~Patched  PROVE KeysFit'
    BY <1>1 DEF KeysFit, Patched
  <2>1. listState' = "shown" => \A w \in confirmed : ShowsIn(list', w)
    <3>1. q.at = "ok" /\ q.run = loadRun => \A w \in confirmed : ShowsIn(q.rows, w)
      BY <1>1 DEF KeysFit
    <3>2. listState = "shown" => \A w \in confirmed : ShowsIn(list, w)
      BY DEF KeysFit
    <3>3. page # "picker"
      BY DEF Patched
    <3> QED  BY <1>1, <3>1, <3>2, <3>3 DEF CurrentLoad
  <2> QED  BY <1>1, <2>1 DEF KeysFit, Has
<1> QED  BY <1>4, <1>5, <1>6, <1>8, <1>9, <1>10

(* A write is answered on a page of templates.                             *)
LEMMA AnsweredKeeps ==
  ASSUME AdminInductive, Patched, NEW q \in requests, q.kind # "list",
         \/ q.at = "failed" /\ list' = list /\ form' = form
         \/ q.at = "ok" /\ list' = Patch(q) /\ form' \in {form, NoForm},
         requests' = requests \ {q}, saving' = SavingAfter(q),
         raced' = IF q.mixed THEN raced \cup ({q.id} \ {0}) ELSE raced,
         UNCHANGED <<page, table, listState, loadRun, confirmed, acts>>
  PROVE  AdminInductive'
<1> USE DEF AdminInductive, TemplatesInductive
<1>0. q \in AdminRequests /\ RequestFits(q) /\ WriteFits(q) /\ Patched' /\ KeptRows' = KeptRows
      /\ q.kind \in {"create", "update", "delete"}
  <2>1. q \in AdminRequests /\ RequestFits(q) /\ WriteFits(q)
    BY DEF AdminFits, RequestFits
  <2> QED  BY <2>1 DEF Patched, KeptRows, Kept, RequestFits, AdminRequests
<1>1. q.at = "ok" => q.id \in RowIds /\ q.text \in RowTexts \cup {"none"} /\ (Saves(q) => q.text \in Texts)
  BY <1>0 DEF RequestFits, AdminRequests, Saves
<1>2. ASSUME q.at = "ok"
      PROVE  /\ list' \in Seq(ShownRows) /\ OthersStay(list, list', q.id)
             /\ q.kind = "create" /\ q.id \notin Ids(list) => Displays(list', q.id, q.text)
             /\ q.kind = "update" /\ Once(list, q.id) => Displays(list', q.id, q.text)
             /\ q.kind = "delete" => Displays(list', q.id, "removed")
  <2>0. list \in Seq(ShownRows) /\ list' = Patch(q)
    BY <1>2 DEF AdminFits
  <2> PICK id, text, rows : id = q.id /\ text = q.text /\ rows = list
    OBVIOUS
  <2>1. CASE q.kind = "create"
    <3> PICK row : row = [id |-> id, text |-> text]
      OBVIOUS
    <3>1. text \in Texts /\ id \in RowIds
      BY <1>1, <1>2, <2>1 DEF Saves
    <3>2. row \in ShownRows /\ row.id = id /\ row.text = text /\ text \notin {"unused", "removed"}
      BY <3>1, NoTextOfTheModel DEF ShownRows, RowTexts
    <3>3. list' = <<row>> \o rows
      BY <2>0, <2>1 DEF Patch
    <3>4. /\ <<row>> \o rows \in Seq(ShownRows) /\ OthersStay(rows, <<row>> \o rows, row.id)
          /\ row.id \notin Ids(rows) /\ row.text \notin {"unused", "removed"}
               => Displays(<<row>> \o rows, row.id, row.text)
      BY <2>0, <3>2, CreatePatch
    <3> QED  BY <2>1, <3>2, <3>3, <3>4
  <2>2. CASE q.kind = "update"
    <3> PICK more : more = [i \in DOMAIN rows |->
                              IF rows[i].id = id THEN [rows[i] EXCEPT !.text = text] ELSE rows[i]]
      OBVIOUS
    <3>1. text \in RowTexts /\ text \notin {"unused", "removed"}
      BY <1>1, <1>2, <2>2, NoTextOfTheModel DEF Saves, RowTexts
    <3>2. list' = more
      BY <2>0, <2>2 DEF Patch
    <3>3. /\ more \in Seq(ShownRows) /\ OthersStay(rows, more, id)
          /\ Once(rows, id) /\ text \notin {"unused", "removed"} => Displays(more, id, text)
      BY <2>0, <3>1, UpdatePatch
    <3> QED  BY <2>2, <3>1, <3>2, <3>3
  <2>3. CASE q.kind = "delete"
    <3> PICK more : more = (LET others == {i \in DOMAIN rows : rows[i].id # id}
                            IN  [j \in 1..Cardinality(others) |-> rows[Nth(others, j)]])
      OBVIOUS
    <3>2. list' = more
      BY <2>0, <2>3 DEF Patch
    <3>3. more \in Seq(ShownRows) /\ OthersStay(rows, more, id) /\ Displays(more, id, "removed")
      BY <2>0, DeletePatch
    <3> QED  BY <2>3, <3>2, <3>3
  <2> QED  BY <1>0, <2>1, <2>2, <2>3
<1>3. list' \in Seq(ShownRows) /\ OthersStay(list, list', q.id) /\ Ids(list') \subseteq Ids(list) \cup {q.id}
  <2>1. CASE q.at = "ok"
    BY <1>2, <2>1 DEF OthersStay
  <2>2. CASE q.at = "failed"
    BY <2>2 DEF OthersStay, AdminFits
  <2> QED  BY <2>1, <2>2
<1>4. AdminFits'
  <2>1. saving' \in BOOLEAN /\ (saving' <=> page # "picker" /\ \E p \in requests' : Saves(p))
    <3>1. saving \in BOOLEAN /\ (saving <=> page # "picker" /\ \E p \in requests : Saves(p))
      BY DEF AdminFits
    <3>2. CASE Saves(q) /\ page # "picker"
      <4>1. \A p \in requests : p # q => ~Saves(p)
        BY <3>2 DEF PairsFit, PairFits
      <4> QED  BY <3>1, <3>2, <4>1 DEF SavingAfter
    <3>3. CASE ~Saves(q) \/ page = "picker"
      BY <3>1, <3>3 DEF SavingAfter
    <3> QED  BY <3>2, <3>3
  <2>2. raced' \in SUBSET RowIds
    BY <1>0 DEF AdminFits, AdminRequests
  <2>3. form' \in {NoForm, [mode |-> "new", id |-> 0]} \cup [mode : {"edit"}, id : RowIds]
    BY DEF AdminFits
  <2>4. \A p \in requests' : RequestFits(p)'
    BY DEF AdminFits, RequestFits, Patched
  <2> QED  BY <1>0, <1>3, <2>1, <2>2, <2>3, <2>4 DEF AdminFits
<1>5. PairsFit'
  BY DroppedPairsFit
<1>6. \A o : form'.id = o => form.id = o \/ o = 0
  BY DEF NoForm
<1>7. UnusedIsUnseen'
  <2> SUFFICES ASSUME NEW o \in RowIds, table[o] = "unused"  PROVE Unseen(o)'
    BY DEF UnusedIsUnseen
  <2>1. Unseen(o)
    BY DEF UnusedIsUnseen
  <2>2. o \notin Ids(list')
    BY <1>3, <2>1 DEF Unseen
  <2> QED  BY <1>6, <2>1, <2>2, IdsAreNotZero DEF Unseen, Ids
<1>8. ASSUME NEW p \in requests'  PROVE WriteFits(p)'
  <2>0. WriteFits(p) /\ RequestFits(p) /\ PairFits(p, q)
    BY DEF AdminFits, PairsFit
  <2>1. ASSUME p.kind = "create", p.at = "ok", ~p.mixed
        PROVE  p.id \notin Ids(list') /\ form'.id # p.id
    <3>1. p.id \in RowIds /\ p.id # q.id /\ p.id \notin Ids(list) /\ form.id # p.id
      BY <2>0, <2>1 DEF WriteFits, RequestFits, PairFits
    <3> QED  BY <1>3, <1>6, <3>1, IdsAreNotZero
  <2> QED  BY <2>0, <2>1 DEF WriteFits, Kept, Ids
<1>9. /\ \A o : o # q.id => About(o)' = About(o)
      /\ \A o : About(o)' = About(o) \ {q}
  BY DEF About
<1>10. ASSUME NEW p \in requests'  PROVE LoadFits(p)'
  <2> SUFFICES ASSUME p.kind = "list"
               PROVE  /\ p.run = loadRun /\ listState = "loading"
                      /\ p.at = "ok" => \A o \in RowIds :
                           (p.mixed => o \notin raced' /\ About(o)' = {}) => Displays(p.rows, o, table[o])
    BY DEF LoadFits
  <2>1. LoadFits(p) /\ p.mixed /\ q.mixed
    <3>1. Clash(p, q) /\ PairFits(p, q)
      BY DEF Clash, PairsFit
    <3> QED  BY <3>1 DEF PairFits
  <2>2. \A o \in RowIds : o \notin raced' => o \notin raced /\ o # q.id
    BY <2>1, IdsAreNotZero
  <2> QED  BY <1>9, <2>1, <2>2 DEF LoadFits
<1>11. ListFits'
  <2>1. ASSUME listState = "shown", NEW o \in RowIds \ raced', \A p \in About(o)' : ~p.mixed
        PROVE  RowFits(o)'
    <3>1. o \notin raced /\ (q \in About(o) => ~q.mixed)
      BY <2>1, IdsAreNotZero DEF About
    <3>2. \A p \in About(o) : ~p.mixed
      BY <1>9, <2>1, <3>1
    <3>3. RowFits(o)
      BY <2>1, <3>1, <3>2 DEF ListFits
    <3>4. CASE o # q.id
      <4>1. About(o)' = About(o)
        BY <1>9, <3>4
      <4> QED  BY <1>3, <3>3, <3>4, <4>1 DEF RowFits, OthersStay
    <3>5. CASE o = q.id /\ q.at = "failed"
      BY <1>9, <3>3, <3>5 DEF RowFits, Once
    <3>6. CASE o = q.id /\ q.at = "ok"
      <4>0. q \in About(o) /\ ~q.mixed
        BY <3>1, <3>6 DEF About
      <4>1. ASSUME NEW p \in About(o)'  PROVE ~(p.kind = "update" /\ p.at = "ok")
        <5> SUFFICES ASSUME p.kind = "update"  PROVE FALSE
          OBVIOUS
        <5>1. p \in requests /\ p # q /\ p.id = q.id /\ ~p.mixed /\ PairFits(p, q) /\ PairFits(q, p)
          BY <2>1, <3>6 DEF About, PairsFit
        <5>2. q.kind # "create"
          BY <3>6, <4>0, <5>1 DEF PairFits
        <5>3. ~Clash(p, q)
          BY <5>1 DEF PairFits
        <5>4. q.kind = "update" /\ page # "picker"
          BY <1>0, <5>1, <5>2, <5>3 DEF Clash
        <5> QED  BY <5>1, <5>4 DEF PairFits, Saves
      <4>2. Displays(list', o, table[o])
        <5>1. table[o] = (IF q.kind = "delete" THEN "removed" ELSE q.text)
          BY <1>0, <3>6, <4>0 DEF WriteFits
        <5>2. q.kind = "create" => q.id \notin Ids(list)
          BY <1>0, <3>6, <4>0 DEF WriteFits
        <5>3. q.kind = "update" => Once(list, q.id)
          BY <3>3, <3>6, <4>0 DEF RowFits
        <5> QED  BY <1>0, <1>2, <3>6, <5>1, <5>2, <5>3
      <4> QED  BY <4>1, <4>2 DEF RowFits
    <3> QED  BY <3>4, <3>5, <3>6
  <2>2. ASSUME page = "picker", listState = "loading"
        PROVE  Ids(list') \subseteq raced' /\ \E p \in requests' : p.kind = "list"
    <3>1. PICK p \in requests : p.kind = "list" /\ Ids(list) \subseteq raced
      BY <2>2 DEF ListFits
    <3>2. Clash(p, q) /\ PairFits(p, q) /\ p # q
      BY <3>1 DEF Clash, PairsFit
    <3>3. q.mixed
      BY <3>2 DEF PairFits
    <3>4. Ids(list') \subseteq Ids(list) \/ q.id \in RowIds
      BY <1>1
    <3> QED  BY <1>3, <3>1, <3>2, <3>3, <3>4, IdsAreNotZero
  <2> QED  BY <2>1, <2>2 DEF ListFits
<1>12. KeysFit'
  BY <1>0 DEF KeysFit
<1> QED  BY <1>4, <1>5, <1>7, <1>8, <1>10, <1>11, <1>12

LEMMA SavingRests ==
  ASSUME AdminInductive, NEW q \in requests
  PROVE  /\ SavingAfter(q) \in BOOLEAN
         /\ SavingAfter(q) <=> page # "picker" /\ \E p \in requests \ {q} : Saves(p)
<1> USE DEF AdminInductive, TemplatesInductive
<1>1. saving \in BOOLEAN /\ (saving <=> page # "picker" /\ \E p \in requests : Saves(p))
  BY DEF AdminFits
<1>2. CASE Saves(q) /\ page # "picker"
  <2>1. \A p \in requests : p # q => ~Saves(p)
    BY <1>2 DEF PairsFit, PairFits
  <2> QED  BY <1>1, <1>2, <2>1 DEF SavingAfter
<1>3. CASE ~Saves(q) \/ page = "picker"
  BY <1>1, <1>3 DEF SavingAfter
<1> QED  BY <1>2, <1>3

LEMMA ReceiveWriteKeeps == AdminInductive /\ ReceiveWrite => AdminInductive'
<1> SUFFICES ASSUME AdminInductive, ReceiveWrite  PROVE AdminInductive'
  OBVIOUS
<1>1. PICK q \in requests :
        /\ q.kind # "list" /\ q.at \in {"ok", "failed"}
        /\ saving' = SavingAfter(q)
        /\ \/ /\ q.at = "failed" /\ requests' = requests \ {q}
              /\ UNCHANGED <<list, listState, loadRun, form, confirmed>>
           \/ /\ q.at = "ok" /\ page = "apiKeys"
              /\ Reload(requests \ {q})
              /\ confirmed' = confirmed \cup {[id |-> q.id, text |-> q.text]}
              /\ UNCHANGED <<list, form>>
           \/ /\ q.at = "ok" /\ Patched
              /\ list' = Patch(q) /\ requests' = requests \ {q}
              /\ form' = IF Saves(q) \/ (page = "templates" /\ q.editing = q.id) THEN NoForm ELSE form
              /\ UNCHANGED <<listState, loadRun, confirmed>>
        /\ raced' = IF Patched /\ q.mixed THEN raced \cup ({q.id} \ {0}) ELSE raced
        /\ UNCHANGED <<page, table, acts>>
  BY DEF ReceiveWrite
<1>2. CASE Patched
  <2>1. \/ q.at = "failed" /\ list' = list /\ form' = form
        \/ q.at = "ok" /\ list' = Patch(q) /\ form' \in {form, NoForm}
    BY <1>1, <1>2 DEF Patched
  <2>2. requests' = requests \ {q} /\ UNCHANGED <<listState, loadRun, confirmed>>
    BY <1>1, <1>2 DEF Patched
  <2> QED  BY <1>1, <1>2, <2>1, <2>2, AnsweredKeeps
<1>3. CASE ~Patched /\ q.at = "ok"
  <2>1. RequestFits(q) /\ Has(q) /\ q.id \in RowIds /\ q.kind \in {"create", "revoke"}
    <3>1. q \in AdminRequests /\ RequestFits(q)
      BY DEF AdminInductive, TemplatesInductive, AdminFits, RequestFits
    <3>2. Has(q)
      BY <1>1, <1>3 DEF AdminInductive, KeysFit
    <3> QED  BY <1>1, <1>3, <3>1, <3>2 DEF RequestFits, AdminRequests
  <2>2. \A w \in confirmed' : w.id \in RowIds /\ Has(w)
    <3>1. \A w \in confirmed : w.id \in RowIds /\ Has(w)
      BY <1>3 DEF AdminInductive, KeysFit
    <3> PICK v : v = [id |-> q.id, text |-> q.text]
      OBVIOUS
    <3>2. v.id \in RowIds /\ Has(v)
      BY <2>1 DEF Has
    <3> QED  BY <1>1, <1>3, <3>1, <3>2
  <2>3. SavingAfter(q) \in BOOLEAN
        /\ (SavingAfter(q) <=> page # "picker" /\ \E p \in requests \ {q} : Saves(p))
    BY SavingRests
  <2>4. raced' \in SUBSET RowIds /\ acts' \in 0..MaxActs
    BY <1>1, <1>3 DEF AdminInductive, TemplatesInductive, AdminFits
  <2>5. Reload(requests \ {q}) /\ UNCHANGED <<list, form>>
    BY <1>1, <1>3
  <2> DEFINE rest == requests \ {q}
  <2>6. rest \in SUBSET requests
    OBVIOUS
  <2> HIDE DEF rest
  <2>7. saving' \in BOOLEAN /\ (saving' <=> page # "picker" /\ \E p \in rest : Saves(p))
    BY <1>1, <2>3 DEF rest
  <2>8. Reload(rest)
    BY <2>5 DEF rest
  <2> QED  BY <1>1, <1>3, <2>2, <2>4, <2>5, <2>6, <2>7, <2>8, SendLoadKeeps
<1>4. CASE ~Patched /\ q.at = "failed"
  <2> USE DEF AdminInductive, TemplatesInductive
  <2>1. requests' = requests \ {q}
        /\ UNCHANGED <<page, table, list, listState, loadRun, form, confirmed, acts, raced>>
    BY <1>1, <1>4
  <2>2. AdminFits'
    <3>1. SavingAfter(q) \in BOOLEAN
          /\ (SavingAfter(q) <=> page # "picker" /\ \E p \in requests \ {q} : Saves(p))
      BY SavingRests
    <3>2. \A p \in requests' : RequestFits(p)'
      BY <2>1 DEF AdminFits, RequestFits, Patched
    <3>3. KeptRows' = KeptRows
      BY <2>1 DEF KeptRows, Kept
    <3> QED  BY <1>1, <2>1, <3>1, <3>2, <3>3 DEF AdminFits, Patched
  <2>3. PairsFit'
    BY <2>1, DroppedPairsFit
  <2>4. UnusedIsUnseen'
    BY <2>1 DEF UnusedIsUnseen, Unseen, Ids
  <2>5. ListFits' /\ \A p \in requests' : WriteFits(p)' /\ LoadFits(p)'
    BY <1>4, <2>1 DEF ListFits, WriteFits, LoadFits, Patched
  <2>6. KeysFit'
    BY <1>4, <2>1 DEF KeysFit, Patched, Has
  <2> QED  BY <2>2, <2>3, <2>4, <2>5, <2>6
<1> QED  BY <1>1, <1>2, <1>3, <1>4

LEMMA OpenFormKeeps == AdminInductive /\ OpenForm => AdminInductive'
<1> SUFFICES ASSUME AdminInductive, OpenForm  PROVE AdminInductive'
  OBVIOUS
<1> USE DEF AdminInductive, TemplatesInductive
<1>1. /\ Patched /\ acts' \in 0..MaxActs
      /\ UNCHANGED <<page, table, list, listState, loadRun, saving, requests, raced, confirmed>>
  BY ActsAssumption DEF OpenForm, Act, AdminFits
<1>2. /\ form' \in {NoForm, [mode |-> "new", id |-> 0]} \cup [mode : {"edit"}, id : RowIds]
      /\ form'.id = 0 \/ form'.id \in Ids(list)
  <2>1. CASE form' = [mode |-> "new", id |-> 0] \/ form' = NoForm
    BY <2>1 DEF NoForm
  <2>2. CASE \E r \in RowIds : OnScreen(r) /\ form' = [mode |-> "edit", id |-> r]
    BY <2>2 DEF OnScreen, Ids
  <2> QED  BY <2>1, <2>2 DEF OpenForm
<1>3. AdminFits'
  <2>1. KeptRows' = KeptRows /\ Patched'
    BY <1>1 DEF KeptRows, Kept, Patched
  <2>2. \A p \in requests : RequestFits(p)'
    BY <1>1 DEF AdminFits, RequestFits, Patched
  <2> QED  BY <1>1, <1>2, <2>1, <2>2 DEF AdminFits
<1>4. PairsFit'
  BY <1>1, DroppedPairsFit
<1>5. UnusedIsUnseen'
  BY <1>1, <1>2, IdsAreNotZero DEF UnusedIsUnseen, Unseen, Ids
<1>6. ASSUME NEW p \in requests  PROVE WriteFits(p)' /\ LoadFits(p)'
  <2>1. WriteFits(p) /\ LoadFits(p) /\ RequestFits(p)
    BY DEF AdminFits
  <2>2. WriteFits(p)'
    BY <1>1, <1>2, <2>1, IdsAreNotZero DEF WriteFits, Kept, Ids, RequestFits
  <2>3. LoadFits(p)'
    BY <1>1, <2>1 DEF LoadFits, About, Patched
  <2> QED  BY <2>2, <2>3
<1>7. ListFits'
  BY <1>1 DEF ListFits, RowFits, About, Ids, Once, Patched
<1>8. KeysFit'
  BY <1>1 DEF KeysFit, Patched
<1> QED  BY <1>1, <1>3, <1>4, <1>5, <1>6, <1>7, <1>8

(* What a handler sends.                                                   *)
LEMMA RequestFields ==
  ASSUME AdminInductive, NEW kind \in {"create", "update", "delete", "revoke"},
         NEW id \in RowIds \cup {0}, NEW text \in RowTexts \cup {"none"},
         kind = "create" <=> id = 0,
         kind \in {"create", "update"} => text \in (IF Patched THEN Texts ELSE {"active"}),
         kind \in {"update", "delete"} => Patched,
         kind = "revoke" => ~Patched /\ text = "revoked"
  PROVE  LET q == Request(kind, id, text)
         IN  /\ RequestFits(q) /\ q.kind = kind /\ q.id = id /\ q.at = "sent"
             /\ ~q.mixed /\ q.rows = <<>>
<1> DEFINE q == Request(kind, id, text)
<1>1. form.id \in RowIds \cup {0} /\ acts \in Nat
  BY ActsAssumption DEF AdminInductive, TemplatesInductive, AdminFits, NoForm
<1> PICK e \in RowIds \cup {0}, a \in Nat : e = form.id /\ a = acts
  BY <1>1
<1>2. q = [kind |-> kind, id |-> id, text |-> text, editing |-> e, run |-> a,
           at |-> "sent", mixed |-> FALSE, rows |-> <<>>]
  BY DEF Request
<1>3. <<>> \in Seq(ShownRows)
  OBVIOUS
<1> HIDE DEF q
<1>4. q \in AdminRequests
  BY <1>2, <1>3 DEF AdminRequests
<1>5. q.kind = kind /\ q.id = id /\ q.text = text /\ q.at = "sent" /\ q.mixed = FALSE /\ q.rows = <<>>
  BY <1>2
<1>6. RequestFits(q)
  BY <1>4, <1>5, IdsAreNotZero DEF RequestFits, Saves
<1> QED  BY <1>5, <1>6 DEF q

LEMMA SendKeeps ==
  AdminInductive /\ (SubmitForm \/ CreateKey \/ \E r \in RowIds : DeleteRow(r)) => AdminInductive'
<1> SUFFICES ASSUME AdminInductive, SubmitForm \/ CreateKey \/ \E r \in RowIds : DeleteRow(r)
             PROVE  AdminInductive'
  OBVIOUS
<1>0. AdminFits /\ 0 \notin RowIds
  BY IdsAreNotZero DEF AdminInductive, TemplatesInductive
<1>1. CASE SubmitForm
  <2> DEFINE kind == IF form.mode = "new" THEN "create" ELSE "update"
  <2>1. PICK text \in Texts : requests' = Sent(Request(kind, form.id, text), requests)
    BY <1>1 DEF SubmitForm
  <2> PICK k, id : k = kind /\ id = form.id
    OBVIOUS
  <2>2. /\ form # NoForm /\ k \in {"create", "update"} /\ id \in RowIds \cup {0} /\ Patched
        /\ k = "create" <=> id = 0
    BY <1>0, <1>1 DEF SubmitForm, AdminFits, NoForm
  <2> PICK q : q = Request(k, id, text)
    OBVIOUS
  <2>3. text \in RowTexts \cup {"none"}
    BY DEF RowTexts
  <2>4. RequestFits(q) /\ q.kind = k /\ q.id = id /\ q.at = "sent" /\ ~q.mixed /\ q.rows = <<>>
    BY <2>2, <2>3, RequestFields
  <2>5. /\ ~saving /\ acts' \in 0..MaxActs /\ saving' = (page = "templates")
        /\ UNCHANGED <<page, table, list, listState, loadRun, form, raced, confirmed>>
    BY <1>0, <1>1, ActsAssumption DEF SubmitForm, Act, AdminFits
  <2>6. Saves(q) /\ saving' = (saving \/ (page # "picker" /\ Saves(q)))
    BY <1>0, <2>2, <2>4, <2>5 DEF Saves, Patched, AdminFits
  <2>7. requests' = Sent(q, requests)
    BY <2>1
  <2>8. q.id # 0 => OnScreen(q.id) \/ form.id = q.id
    BY <2>4
  <2>9. q.kind # "list"
    BY <2>2, <2>4
  <2> HIDE DEF kind
  <2> QED  BY <2>4, <2>5, <2>6, <2>7, <2>8, <2>9, SendWriteKeeps
<1>2. CASE CreateKey
  <2> PICK q : q = Request("create", 0, "active")
    OBVIOUS
  <2>1. ~Patched /\ "active" \in RowTexts \cup {"none"}
    BY <1>2 DEF CreateKey, Patched, RowTexts
  <2>2. RequestFits(q) /\ q.kind = "create" /\ q.id = 0 /\ q.at = "sent" /\ ~q.mixed /\ q.rows = <<>>
    <3> PICK k, id, text : k = "create" /\ id = 0 /\ text = "active"
      OBVIOUS
    <3> QED  BY <2>1, RequestFields
  <2>3. /\ ~saving /\ acts' \in 0..MaxActs /\ saving' = TRUE /\ requests' = Sent(q, requests)
        /\ page = "apiKeys"
        /\ UNCHANGED <<page, table, list, listState, loadRun, form, raced, confirmed>>
    BY <1>0, <1>2, ActsAssumption DEF CreateKey, Act, AdminFits
  <2>4. Saves(q) /\ saving' = (saving \/ (page # "picker" /\ Saves(q)))
    BY <2>2, <2>3 DEF Saves
  <2> QED  BY <2>2, <2>3, <2>4, SendWriteKeeps
<1>3. CASE \E r \in RowIds : DeleteRow(r)
  <2> PICK r \in RowIds : DeleteRow(r)
    BY <1>3
  <2>1. PICK k \in {"delete", "revoke"}, text \in RowTexts \cup {"none"} :
          /\ requests' = Sent(Request(k, r, text), requests)
          /\ k = "delete" => Patched
          /\ k = "revoke" => ~Patched /\ text = "revoked"
    BY DEF DeleteRow, RowTexts, Patched
  <2> PICK q : q = Request(k, r, text)
    OBVIOUS
  <2>2. RequestFits(q) /\ q.kind = k /\ q.id = r /\ q.at = "sent" /\ ~q.mixed /\ q.rows = <<>>
    BY <1>0, <2>1, RequestFields
  <2>3. /\ acts' \in 0..MaxActs /\ OnScreen(q.id)
        /\ UNCHANGED <<page, table, list, listState, loadRun, form, saving, raced, confirmed>>
    BY <1>0, <2>2, ActsAssumption DEF DeleteRow, Act, AdminFits
  <2>4. ~Saves(q) /\ saving' = (saving \/ (page # "picker" /\ Saves(q)))
    BY <1>0, <2>2, <2>3 DEF Saves, AdminFits
  <2>5. q.kind # "list" /\ requests' = Sent(q, requests)
    BY <2>1, <2>2
  <2> QED  BY <2>2, <2>3, <2>4, <2>5, SendWriteKeeps
<1> QED  BY <1>1, <1>2, <1>3

LEMMA RetryLoadKeeps == AdminInductive /\ RetryLoad => AdminInductive'
<1> SUFFICES ASSUME AdminInductive, RetryLoad  PROVE AdminInductive'
  OBVIOUS
<1>0. AdminFits
  BY DEF AdminInductive, TemplatesInductive
<1>1. /\ listState = "error" /\ acts' \in 0..MaxActs /\ Reload(requests)
      /\ UNCHANGED <<page, table, list, form, saving, raced, confirmed>>
  BY <1>0, ActsAssumption DEF RetryLoad, Act, AdminFits
<1>2. ~Patched => \A w \in confirmed' : w.id \in RowIds /\ Has(w)
  BY <1>1 DEF AdminInductive, KeysFit
<1>3. saving' \in BOOLEAN /\ (saving' <=> page # "picker" /\ \E p \in requests : Saves(p))
      /\ raced' \in SUBSET RowIds
  BY <1>0, <1>1 DEF AdminFits
<1>4. PICK all : all = requests /\ all \in SUBSET requests
  OBVIOUS
<1> QED  BY <1>1, <1>2, <1>3, <1>4, SendLoadKeeps

LEMMA ServeStatusKeeps == AdminInductive /\ (FindOne \/ RequestFails) => AdminInductive'
<1> SUFFICES ASSUME AdminInductive, FindOne \/ RequestFails  PROVE AdminInductive'
  OBVIOUS
<1>0. AdminFits /\ \A q \in requests : RequestFits(q) /\ q \in AdminRequests
  BY DEF AdminInductive, TemplatesInductive, AdminFits, RequestFits
<1>1. PICK q \in requests, status \in {"found", "failed"} :
        /\ Served(q, status)
        /\ status = "found" => Kept(q.id) /\ q.kind \in {"update", "delete"}
        /\ acts' \in 0..MaxActs
        /\ raced' = IF q.kind # "list" /\ q.at = "ok" THEN raced \cup {q.id} ELSE raced
        /\ UNCHANGED <<page, table, list, listState, loadRun, form, saving, confirmed>>
  <2>1. CASE FindOne
    <3>1. PICK q \in requests :
            /\ q.kind \in {"update", "delete"} /\ q.at = "sent"
            /\ Served(q, IF Kept(q.id) THEN "found" ELSE "failed")
            /\ UNCHANGED <<unserved, table, acts>>
      BY <2>1 DEF FindOne
    <3> PICK status : status = IF Kept(q.id) THEN "found" ELSE "failed"
      OBVIOUS
    <3>2. /\ status \in {"found", "failed"} /\ Served(q, status)
          /\ q.at # "ok"
          /\ status = "found" => Kept(q.id)
      BY <3>1
    <3>3. /\ acts' \in 0..MaxActs /\ raced' = raced
          /\ UNCHANGED <<page, table, list, listState, loadRun, form, saving, confirmed>>
      BY <1>0, <3>1 DEF unserved, AdminFits
    <3> QED  BY <3>1, <3>2, <3>3
  <2>2. CASE RequestFails
    <3>1. PICK q \in requests :
            /\ Act /\ Served(q, "failed")
            /\ raced' = IF q.kind # "list" /\ q.at = "ok" THEN raced \cup {q.id} ELSE raced
            /\ UNCHANGED <<page, table, list, listState, loadRun, form, saving, confirmed>>
      BY <2>2 DEF RequestFails
    <3>2. acts' \in 0..MaxActs
      BY <1>0, <3>1, ActsAssumption DEF Act, AdminFits
    <3> QED  BY <3>1, <3>2
  <2> QED  BY <2>1, <2>2
<1> PICK x : x = [q EXCEPT !.at = status]
  OBVIOUS
<1>2. /\ x \in AdminRequests /\ x.kind = q.kind /\ x.id = q.id /\ x.text = q.text
      /\ x.run = q.run /\ x.mixed = q.mixed /\ x.rows = q.rows /\ x.at = status
  <2>1. q \in AdminRequests /\ status \in {"sent", "found", "ok", "failed"}
    BY <1>0, <1>1
  <2> QED  BY <2>1, ServedFields
<1>3. RequestFits(x)
  BY <1>0, <1>1, <1>2 DEF RequestFits, Saves
<1>4. requests' = (requests \ {q}) \cup {x}
  BY <1>1 DEF Served
<1>5. raced' \in SUBSET RowIds /\ raced \subseteq raced' /\ (q.kind # "list" /\ q.at = "ok" => q.id \in raced')
  <2>1. q.kind # "list" /\ q.at = "ok" => q.id \in RowIds
    BY <1>0 DEF RequestFits, AdminRequests
  <2> QED  BY <1>0, <1>1, <2>1 DEF AdminFits
<1> QED  BY <1>1, <1>2, <1>3, <1>4, <1>5, StatusKeeps

LEMMA ServeWriteKeeps ==
  AdminInductive /\ (ServeCreate \/ FinishUpdate \/ FinishRemove \/ RevokeKey) => AdminInductive'
<1> SUFFICES ASSUME AdminInductive, ServeCreate \/ FinishUpdate \/ FinishRemove \/ RevokeKey
             PROVE  AdminInductive'
  OBVIOUS
<1>0. AdminFits /\ \A q \in requests : RequestFits(q) /\ q \in AdminRequests
  BY DEF AdminInductive, TemplatesInductive, AdminFits, RequestFits
<1>1. CASE ServeCreate
  <2>1. PICK q \in requests, r \in RowIds :
          /\ q.kind = "create" /\ q.at = "sent" /\ table[r] = "unused"
          /\ table' = [table EXCEPT ![r] = q.text]
          /\ requests' = (requests \ {q}) \cup {[q EXCEPT !.at = "ok", !.id = r]}
          /\ UNCHANGED <<unserved, acts>>
    BY <1>1 DEF ServeCreate
  <2> PICK x, t : x = [q EXCEPT !.at = "ok", !.id = r] /\ t = q.text
    OBVIOUS
  <2>2. /\ x \in AdminRequests /\ x.kind = q.kind /\ x.id = r /\ x.text = q.text
        /\ x.mixed = q.mixed /\ x.rows = q.rows /\ x.at = "ok"
    BY <1>0 DEF AdminRequests
  <2>3. RequestFits(x)
    BY <1>0, <2>1, <2>2 DEF RequestFits, Saves
  <2>4. /\ requests' = (requests \ {q}) \cup {x} /\ acts' = acts
        /\ UNCHANGED <<page, list, listState, loadRun, form, saving, raced, confirmed>>
        /\ table' = [table EXCEPT ![r] = t] /\ t = IF q.kind = "delete" THEN "removed" ELSE q.text
    BY <2>1 DEF unserved
  <2> QED  BY <2>1, <2>2, <2>3, <2>4, TableWriteKeeps
<1>2. CASE FinishUpdate \/ FinishRemove \/ RevokeKey
  <2>1. PICK q \in requests :
          /\ q.kind \in {"update", "delete", "revoke"} /\ q.at # "ok"
          /\ q.kind \in {"update", "delete"} => q.at = "found"
          /\ \/ table' = [table EXCEPT ![q.id] = IF q.kind = "delete" THEN "removed" ELSE q.text]
             \/ q.kind = "update" /\ ~Kept(q.id) /\ table' = table
          /\ Served(q, "ok") /\ UNCHANGED <<unserved, acts>>
    <3>1. CASE FinishUpdate
      BY <3>1 DEF FinishUpdate
    <3>2. CASE FinishRemove
      BY <3>2 DEF FinishRemove
    <3>3. CASE RevokeKey
      <4>1. PICK q \in requests : /\ q.kind = "revoke" /\ q.at = "sent"
                                  /\ table' = [table EXCEPT ![q.id] = "revoked"]
                                  /\ Served(q, "ok") /\ UNCHANGED <<unserved, acts>>
        BY <3>3 DEF RevokeKey
      <4>2. q.text = "revoked"
        BY <1>0, <4>1 DEF RequestFits
      <4> QED  BY <4>1, <4>2
    <3> QED  BY <1>2, <3>1, <3>2, <3>3
  <2> PICK x, t, r : /\ x = [q EXCEPT !.at = "ok"] /\ r = q.id
                     /\ t = IF q.kind = "delete" THEN "removed" ELSE q.text
    OBVIOUS
  <2>2. /\ x \in AdminRequests /\ x.kind = q.kind /\ x.id = r /\ x.text = q.text
        /\ x.mixed = q.mixed /\ x.rows = q.rows /\ x.at = "ok" /\ r \in RowIds
    BY <1>0, <2>1, ServedFields DEF RequestFits
  <2>3. RequestFits(x)
    BY <1>0, <2>1, <2>2 DEF RequestFits, Saves
  <2>4. /\ requests' = (requests \ {q}) \cup {x} /\ acts' = acts
        /\ UNCHANGED <<page, list, listState, loadRun, form, saving, raced, confirmed>>
    BY <2>1 DEF unserved, Served
  <2>5. \/ table' = [table EXCEPT ![r] = t]
        \/ q.kind = "update" /\ ~Kept(r) /\ table' = table
    BY <2>1
  <2>6. q.kind # "list" /\ q.kind # "create" /\ q.id = r
    BY <2>1
  <2> QED  BY <2>1, <2>2, <2>3, <2>4, <2>5, <2>6, TableWriteKeeps
<1> QED  BY <1>1, <1>2

LEMMA AdminInitial == AdminInit => AdminInductive
<1> SUFFICES ASSUME AdminInit  PROVE AdminInductive
  OBVIOUS
<1> PICK q : q = Load(1)
  OBVIOUS
<1>1. /\ q \in AdminRequests /\ q.kind = "list" /\ q.id = 0 /\ q.run = 1 /\ q.at = "sent"
      /\ q.mixed = FALSE /\ q.rows = <<>>
  BY LoadFields
<1>2. /\ page \in {"templates", "picker", "apiKeys"}
      /\ list = <<>> /\ listState = "loading" /\ loadRun = 1
      /\ form = NoForm /\ saving = FALSE
      /\ raced = {} /\ confirmed = {} /\ acts = 0
      /\ requests = {q}
  BY DEF AdminInit
<1>3. /\ \A r \in RowIds \ FirstRows : table[r] = "unused"
      /\ table \in [RowIds -> RowTexts \cup {"unused", "removed"}]
      /\ ~Patched => table \in [RowIds -> {"unused", "active", "revoked"}]
  <2>1. PICK text : text = CHOOSE t \in Texts : TRUE
    OBVIOUS
  <2>2. text \in Texts
    BY <2>1, TextAssumption
  <2>3. table = [r \in RowIds |-> IF r \notin FirstRows THEN "unused"
                                  ELSE IF Patched THEN text ELSE "active"]
    BY <2>1 DEF AdminInit
  <2> QED  BY <2>2, <2>3 DEF RowTexts
<1>4. IsFiniteSet(KeptRows)
  <2>1. KeptRows \subseteq FirstRows
    BY <1>3 DEF KeptRows, Kept
  <2> QED  BY <2>1, RowIdAssumption, FS_Subset
<1>5. AdminFits
  <2>1. RequestFits(q)
    BY <1>1, <1>2 DEF RequestFits, Saves
  <2>2. list \in Seq(ShownRows) /\ loadRun \in Nat /\ acts \in 0..MaxActs
    BY <1>2, ActsAssumption
  <2>3. saving <=> page # "picker" /\ \E p \in requests : Saves(p)
    BY <1>1, <1>2 DEF Saves
  <2> QED  BY <1>2, <1>3, <1>4, <2>1, <2>2, <2>3 DEF AdminFits
<1>6. PairsFit
  BY <1>2 DEF PairsFit
<1>7. UnusedIsUnseen
  BY <1>1, <1>2, IdsAreNotZero DEF UnusedIsUnseen, Unseen, Ids, NoForm
<1>8. /\ WriteFits(q) /\ LoadFits(q)
      /\ ListFits /\ KeysFit
  <2>1. Ids(list) = {}
    BY <1>2 DEF Ids
  <2> QED  BY <1>1, <1>2, <2>1 DEF WriteFits, LoadFits, ListFits, KeysFit
<1> QED  BY <1>2, <1>5, <1>6, <1>7, <1>8 DEF AdminInductive, TemplatesInductive

LEMMA AdminRests == AdminInductive /\ UNCHANGED adminVars => AdminInductive'
<1> SUFFICES ASSUME AdminInductive, UNCHANGED adminVars  PROVE AdminInductive'
  OBVIOUS
<1> USE DEF adminVars
<1>1. AdminFits'
  BY DEF AdminInductive, TemplatesInductive, AdminFits, RequestFits, KeptRows, Kept, Patched
<1>2. PairsFit' /\ UnusedIsUnseen'
  BY DEF AdminInductive, TemplatesInductive, PairsFit, PairFits, Clash, Patched,
         UnusedIsUnseen, Unseen
<1>3. \A q \in requests' : WriteFits(q)' /\ LoadFits(q)'
  BY DEF AdminInductive, TemplatesInductive, WriteFits, LoadFits, About, Patched, Kept
<1>4. ListFits'
  BY DEF AdminInductive, TemplatesInductive, ListFits, RowFits, About, Patched
<1>5. KeysFit'
  BY DEF AdminInductive, KeysFit, Has, Patched
<1> QED  BY <1>1, <1>2, <1>3, <1>4, <1>5 DEF AdminInductive, TemplatesInductive

LEMMA AdminStep == AdminInductive /\ [AdminNext]_adminVars => AdminInductive'
<1> SUFFICES ASSUME AdminInductive, [AdminNext]_adminVars  PROVE AdminInductive'
  OBVIOUS
<1>1. CASE OpenForm
  BY <1>1, OpenFormKeeps
<1>2. CASE SubmitForm \/ CreateKey \/ \E r \in RowIds : DeleteRow(r)
  BY <1>2, SendKeeps
<1>3. CASE RetryLoad
  BY <1>3, RetryLoadKeeps
<1>4. CASE ReceiveRows
  BY <1>4, ReceiveRowsKeeps
<1>5. CASE ReceiveWrite
  BY <1>5, ReceiveWriteKeeps
<1>6. CASE ServeList
  BY <1>6, ServeListKeeps
<1>7. CASE FindOne \/ RequestFails
  BY <1>7, ServeStatusKeeps
<1>8. CASE ServeCreate \/ FinishUpdate \/ FinishRemove \/ RevokeKey
  BY <1>8, ServeWriteKeeps
<1>9. CASE UNCHANGED adminVars
  BY <1>9, AdminRests
<1> QED  BY <1>1, <1>2, <1>3, <1>4, <1>5, <1>6, <1>7, <1>8, <1>9 DEF AdminNext

LEMMA AdminInvariance == AdminSpec => []AdminInductive
<1>1. AdminInit => AdminInductive
  BY AdminInitial
<1>2. AdminInductive /\ [AdminNext]_adminVars => AdminInductive'
  BY AdminStep
<1> QED  BY <1>1, <1>2, PTL DEF AdminSpec

LEMMA AdminImplies == AdminInductive => AdminTypeOK /\ ListIsCurrent /\ KeysShowConfirmed
<1> SUFFICES ASSUME AdminInductive  PROVE AdminTypeOK /\ ListIsCurrent /\ KeysShowConfirmed
  OBVIOUS
<1>0. AdminFits /\ ListFits /\ KeysFit
  BY DEF AdminInductive, TemplatesInductive
<1>1. AdminTypeOK
  <2>1. table \in [RowIds -> Texts \cup {"unused", "removed", "active", "revoked"}]
    BY <1>0 DEF AdminFits, RowTexts
  <2>2. \A i \in DOMAIN list : list[i].id \in RowIds /\ list[i].text # "unused"
    <3> SUFFICES ASSUME NEW i \in DOMAIN list
                 PROVE  list[i].id \in RowIds /\ list[i].text # "unused"
      OBVIOUS
    <3>1. list[i] \in ShownRows
      BY <1>0 DEF AdminFits
    <3> QED  BY <3>1, NoTextOfTheModel DEF ShownRows, RowTexts
  <2>3. \A q \in requests : q.id \in RowIds \cup {0} /\ q.run \in Nat
    BY <1>0 DEF AdminFits, RequestFits, AdminRequests
  <2>4. form \in {NoForm} \cup [mode : {"new", "edit"}, id : RowIds \cup {0}]
    BY <1>0 DEF AdminFits
  <2> QED  BY <1>0, <2>1, <2>2, <2>3, <2>4 DEF AdminFits, AdminTypeOK
<1>2. ListIsCurrent
  <2> SUFFICES ASSUME Patched, listState = "shown", Writes = {}, NEW r \in RowIds \ raced
               PROVE  LET places == {i \in DOMAIN list : list[i].id = r}
                      IN  IF Kept(r) THEN \E i \in places : places = {i} /\ list[i].text = table[r]
                          ELSE places = {}
    BY DEF ListIsCurrent
  <2>1. About(r) = {}
    BY DEF About, Writes
  <2>2. Displays(list, r, table[r])
    BY <1>0, <2>1 DEF ListFits, RowFits
  <2> QED  BY <2>2 DEF Displays, Kept
<1>3. KeysShowConfirmed
  BY <1>0 DEF KeysFit, KeysShowConfirmed, Patched, ShowsIn, AdminFits
<1> QED  BY <1>1, <1>2, <1>3

(* Once no write is on its way, the patched list of templates has each     *)
(* template once, with the database's text, but for those whose write met  *)
(* a load, or a deletion its update, or whose answer was lost: whatever    *)
(* the order in which requests are served and answered                     *)
(* (TemplatesPage.tsx:26-45, 92-110; TemplatePicker.tsx).                  *)
THEOREM PatchedListsAreCurrent == AdminSpec => []ListIsCurrent
<1>1. AdminInductive => ListIsCurrent
  BY AdminImplies
<1> QED  BY <1>1, AdminInvariance, PTL

(* No key whose creation was answered is missing from a list of API keys   *)
(* on screen, and none shows as active whose revocation was answered: a    *)
(* load that a write overtook is cancelled (ApiKeysPage.tsx:24-45).        *)
THEOREM AnsweredKeysAreShown == AdminSpec => []KeysShowConfirmed
<1>1. AdminInductive => KeysShowConfirmed
  BY AdminImplies
<1> QED  BY <1>1, AdminInvariance, PTL

-----------------------------------------------------------------------------
(* The dashboard                                                           *)

(* A behaviour of the dashboard is one of each part.                       *)
LEMMA DashboardParts == Spec => OrgSpec /\ AdminSpec /\ RepSpec
<1>1. Init => OrgInit /\ AdminInit /\ RepInit
  BY DEF Init
<1>2. [Next]_vars => [OrgNext]_orgVars /\ [AdminNext]_adminVars /\ [RepNext]_repVars
  BY DEF Next, vars
<1> QED  BY <1>1, <1>2, PTL DEF Spec, OrgSpec, AdminSpec, RepSpec

(* Every variable of the three parts keeps its type; a form is disabled    *)
(* exactly while its save runs.                                            *)
THEOREM DashboardTypeCorrect == Spec => []TypeOK
<1>1. AdminInductive => AdminTypeOK
  BY AdminImplies
<1>2. ReportsInductive => RepTypeOK
  BY ReportsImply
<1> QED  BY <1>1, <1>2, DashboardParts, OrgTypeCorrect, AdminInvariance, ReportsInvariance,
            PTL DEF TypeOK

(* What the parts promise holds in the dashboard that the run checks.      *)
THEOREM DashboardIsCorrect ==
  Spec => /\ []WritesHitTheirOrg /\ []SelectionIsListed /\ []TeamsAreOfSelection
          /\ []ListIsCurrent /\ []KeysShowConfirmed
          /\ []StatisticsAddUp /\ []ExportIsFaithful
BY DashboardParts, FormsWriteToTheirOrg, SelectionStaysListed, ShownTeamsAreOfSelection,
   PatchedListsAreCurrent, AnsweredKeysAreShown, CountsAddUp, ExportsAreFaithful, PTL
===============================================================================
