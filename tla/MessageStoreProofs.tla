-------------------------- MODULE MessageStoreProofs --------------------------
(***************************************************************************)
(* Theorems about MessageStore, for any clients and organizations and any  *)
(* number of messages and of requests at the same time: how tenants stay   *)
(* apart although no handler runs in a transaction.                        *)
(***************************************************************************)
EXTENDS MessageStore, TLAPS

Request ==
  [at : Steps, op : Operations, org : Buckets, id : Ids \cup {0},
   row : Row, loaded : Row, result : SUBSET Ids]

(* A message a request of org may hold: one there has been, and that it    *)
(* is entitled to.  This stays so, since organizations only go.            *)
Holds(org, m) == m \in 1..inserted /\ Entitled(org, m)

(* Two messages whose rows are in the same bucket whenever both exist.     *)
Related(m, n) ==
  n \in 1..inserted /\ (owner[m] = owner[n] \/ {owner[m], owner[n]} \cap orgs = {})

(* The entity a request has in hand was the row of a message it may hold,  *)
(* in the request's own bucket.                                            *)
RowFits(r) ==
  r.row # Absent =>
    /\ Holds(r.org, r.id)
    /\ r.row.org = r.org
    /\ r.row.replayedFrom # 0 => Related(r.id, r.row.replayedFrom)

(* What save has loaded differs in its organization only when that of the  *)
(* entity is gone, and then the foreign key refuses it.                    *)
LoadedFits(r) ==
  r.loaded # Absent =>
    r.at = "save" /\ (r.loaded.org = r.row.org \/ r.row.org \in Orgs \ orgs)

StepFits(r) ==
  /\ r.at \in {"load", "save"} => r.row # Absent
  /\ r.at = "insert" => IF r.op = "create" THEN r.id = 0 ELSE r.row # Absent
  /\ r.at \in {"announce", "publish"} => Holds(r.org, r.id)

Fits(r) ==
  /\ r \in Request
  /\ RowFits(r) /\ LoadedFits(r) /\ StepFits(r)
  /\ \A m \in r.result : Holds(r.org, m)

RowsAreInserted == \A m \in Ids : Exists(m) => m \in 1..inserted

(* The row a replay points at is there, and their owners share a fate.     *)
ReplaysAreRelated ==
  \A m \in Ids : Exists(m) /\ rows[m].replayedFrom # 0 =>
    Exists(rows[m].replayedFrom) /\ Related(m, rows[m].replayedFrom)

TablesFit ==
  /\ orgs \in SUBSET Orgs /\ keyOrg \in [Clients -> Buckets]
  /\ rows \in [Ids -> Row] /\ inserted \in 0..MaxMessages
  /\ owner \in [Ids -> Buckets]

HistoryFits ==
  announced \in SUBSET Ids /\ confirmed \in SUBSET Ids /\ deleted \in SUBSET Ids

RequestsFit ==
  /\ request \in [Clients -> Request]
  /\ \A c \in Clients : Fits(request[c])

Inductive ==
  /\ TablesFit
  /\ HistoryFits
  /\ RequestsFit
  /\ RowsAreInserted
  /\ RowsFollowTheirOrg
  /\ ReplaysAreRelated

-----------------------------------------------------------------------------
(* Facts about rows                                                        *)

LEMMA AbsentIsNoMessage ==
  /\ Absent \notin Message
  /\ \A row \in Message : row \in Row
  /\ \A row \in Row : row # Absent => row \in Message
BY OverrideAssumption DEF Absent, Message, Row, Verdicts

(* A row in a request's bucket is one the request may hold.                *)
LEMMA BucketIsEntitled ==
  ASSUME Inductive, NEW org \in Buckets, NEW m \in Bucket(org)
  PROVE  Holds(org, m)
BY OrgAssumption
   DEF Inductive, TablesFit, RowsAreInserted, RowsFollowTheirOrg, Bucket, Holds, Entitled, Buckets

(* A handler that replaces one request and touches no table.               *)
LEMMA RequestStep ==
  ASSUME Inductive, HistoryFits', UNCHANGED <<db, owner>>,
         NEW c \in Clients, NEW r, Fits(r),
         request' = [request EXCEPT ![c] = r]
  PROVE  Inductive'
<1>1. /\ request' \in [Clients -> Request]
      /\ \A d \in Clients : Fits(request'[d])
  BY DEF Inductive, RequestsFit, Fits
<1>2. RequestsFit'
  BY <1>1 DEF RequestsFit, Fits, RowFits, LoadedFits, StepFits, Holds, Entitled, Related, db
<1> QED
  BY <1>2
     DEF Inductive, TablesFit, RowsAreInserted, RowsFollowTheirOrg, ReplaysAreRelated,
         Exists, Related, db

LEMMA IdleFits == Fits(Idle)
BY AbsentIsNoMessage, OrgAssumption
   DEF Fits, Idle, Request, RowFits, LoadedFits, StepFits, Steps, Operations, Buckets,
       Absent, Row, Ids

-----------------------------------------------------------------------------
(* Steps that touch no table                                               *)

LEMMA BeginKeeps ==
  ASSUME Inductive, NEW c \in Clients, Begin(c) PROVE Inductive'
<1>1. keyOrg[c] \in Buckets
  BY DEF Inductive, TablesFit
<1>2. PICK r : r \in Request /\ r.row = Absent /\ r.loaded = Absent /\ r.result = {}
               /\ r.at \in {"insert", "find", "findAll", "remove"}
               /\ (r.at = "insert" => r.op = "create" /\ r.id = 0)
               /\ request' = [request EXCEPT ![c] = r]
  BY <1>1 DEF Begin, Idle, Request, Steps, Operations, Row
<1>3. Fits(r)
  BY <1>2 DEF Fits, RowFits, LoadedFits, StepFits
<1>4. UNCHANGED <<db, owner>> /\ HistoryFits'
  BY DEF Begin, history, Inductive, HistoryFits
<1> QED
  BY <1>2, <1>3, <1>4, RequestStep

LEMMA AnnounceKeeps ==
  ASSUME Inductive, NEW c \in Clients, Announce(c) PROVE Inductive'
<1> DEFINE r == request[c]
           s == [r EXCEPT !.at = "publish", !.result = {r.id}]
<1>1. Fits(r) /\ r.at = "announce"
  BY DEF Inductive, RequestsFit, Announce
<1>2. request' = [request EXCEPT ![c] = s]
  BY <1>1 DEF Announce, Inductive, RequestsFit, Request
<1>3. r.id \in Ids
  BY <1>1, MaxAssumption DEF Fits, StepFits, Holds, Inductive, TablesFit, Ids
<1>4. Fits(s)
  BY <1>1, <1>3 DEF Fits, RowFits, LoadedFits, StepFits, Request, Steps
<1>5. UNCHANGED <<db, owner>> /\ HistoryFits'
  BY <1>3 DEF Announce, Inductive, HistoryFits
<1> QED
  BY <1>2, <1>4, <1>5, RequestStep

LEMMA FindOneKeeps ==
  ASSUME Inductive, NEW c \in Clients, FindOne(c) PROVE Inductive'
<1> DEFINE r == request[c]
<1>1. Fits(r) /\ r.at = "find"
  BY DEF Inductive, RequestsFit, FindOne
<1>2. UNCHANGED <<db, owner>> /\ HistoryFits'
  BY DEF FindOne, history, Inductive, HistoryFits
<1>3. CASE ~Finds(r.id, r.org)
  <2>1. request' = [request EXCEPT ![c] = Idle]
    BY <1>3 DEF FindOne
  <2> QED
    BY <2>1, <1>2, IdleFits, RequestStep
<1>4. CASE Finds(r.id, r.org)
  <2>1. /\ r \in Request /\ r.id \in Ids /\ Holds(r.org, r.id)
        /\ Exists(r.id) /\ rows[r.id].org = r.org /\ rows[r.id] \in Message
    BY <1>1, <1>4, BucketIsEntitled, AbsentIsNoMessage
       DEF Finds, Bucket, Fits, Request, Inductive, TablesFit, Exists
  <2>2. rows[r.id].replayedFrom # 0 => Related(r.id, rows[r.id].replayedFrom)
    BY <2>1 DEF Inductive, ReplaysAreRelated
  <2>3. \/ request' = [request EXCEPT ![c] = [r EXCEPT !.at = "answer", !.result = {r.id}]]
        \/ /\ r.op = "replay"
           /\ request' = [request EXCEPT ![c] = [r EXCEPT !.at = "insert", !.row = rows[r.id]]]
        \/ \E isSpam \in Overrides :
             request' = [request EXCEPT ![c] =
               [r EXCEPT !.at = "load", !.row = [rows[r.id] EXCEPT !.spam = isSpam]]]
    BY <1>4 DEF FindOne
  <2>4. CASE request' = [request EXCEPT ![c] = [r EXCEPT !.at = "answer", !.result = {r.id}]]
    <3>1. Fits([r EXCEPT !.at = "answer", !.result = {r.id}])
      BY <1>1, <2>1 DEF Fits, RowFits, LoadedFits, StepFits, Request, Steps
    <3> QED
      BY <3>1, <2>4, <1>2, RequestStep
  <2>5. CASE /\ r.op = "replay"
             /\ request' = [request EXCEPT ![c] = [r EXCEPT !.at = "insert", !.row = rows[r.id]]]
    <3>1. Fits([r EXCEPT !.at = "insert", !.row = rows[r.id]])
      BY <1>1, <2>1, <2>5, <2>2, AbsentIsNoMessage
         DEF Fits, RowFits, LoadedFits, StepFits, Request, Steps
    <3> QED
      BY <3>1, <2>5, <1>2, RequestStep
  <2>6. ASSUME NEW isSpam \in Overrides,
               request' = [request EXCEPT ![c] =
                 [r EXCEPT !.at = "load", !.row = [rows[r.id] EXCEPT !.spam = isSpam]]]
        PROVE  Inductive'
    <3> DEFINE row == [rows[r.id] EXCEPT !.spam = isSpam]
    <3>1. /\ row \in Message /\ row \in Row /\ row # Absent /\ row.org = r.org
          /\ row.replayedFrom = rows[r.id].replayedFrom
      BY <2>1, AbsentIsNoMessage DEF Message, Verdicts
    <3> HIDE DEF row
    <3>2. Fits([r EXCEPT !.at = "load", !.row = row])
      BY <1>1, <2>1, <2>2, <3>1
         DEF Fits, RowFits, LoadedFits, StepFits, Request, Steps
    <3> QED
      BY <3>2, <2>6, <1>2, RequestStep DEF row
  <2> QED
    BY <2>3, <2>4, <2>5, <2>6
<1> QED
  BY <1>3, <1>4

LEMMA SaveLoadsKeeps ==
  ASSUME Inductive, NEW c \in Clients, SaveLoads(c) PROVE Inductive'
<1> DEFINE r == request[c]
           s == [r EXCEPT !.at = "save", !.loaded = rows[r.id]]
<1>1. Fits(r) /\ r.at = "load" /\ r \in Request
  BY DEF Inductive, RequestsFit, SaveLoads, Fits
<1>2. r.row # Absent /\ Holds(r.org, r.id) /\ r.row.org = r.org /\ r.id \in Ids
  BY <1>1, MaxAssumption DEF Fits, StepFits, RowFits, Holds, Inductive, TablesFit, Ids
<1>3. rows[r.id] \in Row /\ r.org \in Buckets
  BY <1>1, <1>2 DEF Inductive, TablesFit, Request
<1>4. rows[r.id] # Absent => rows[r.id].org = r.org \/ r.org \in Orgs \ orgs
  BY <1>2, <1>3 DEF Inductive, TablesFit, RowsFollowTheirOrg, Exists, Holds, Entitled, Buckets
<1>5. request' = [request EXCEPT ![c] = s]
  BY <1>1 DEF SaveLoads, Inductive, RequestsFit, Request
<1>6. Fits(s)
  BY <1>1, <1>2, <1>3, <1>4 DEF Fits, RowFits, LoadedFits, StepFits, Request, Steps
<1>7. UNCHANGED <<db, owner>> /\ HistoryFits'
  BY DEF SaveLoads, history, Inductive, HistoryFits
<1> QED
  BY <1>5, <1>6, <1>7, RequestStep

LEMMA FindAllKeeps ==
  ASSUME Inductive, NEW c \in Clients, FindAll(c) PROVE Inductive'
<1> DEFINE r == request[c]
           s == [r EXCEPT !.at = "answer", !.result = Bucket(r.org)]
<1>1. Fits(r) /\ r.at = "findAll" /\ r \in Request
  BY DEF Inductive, RequestsFit, FindAll, Fits
<1>2. Bucket(r.org) \subseteq Ids /\ \A m \in Bucket(r.org) : Holds(r.org, m)
  BY <1>1, BucketIsEntitled DEF Bucket, Request
<1>3. request' = [request EXCEPT ![c] = s]
  BY <1>1 DEF FindAll, Inductive, RequestsFit, Request
<1>4. Fits(s)
  BY <1>1, <1>2 DEF Fits, RowFits, LoadedFits, StepFits, Request, Steps
<1>5. UNCHANGED <<db, owner>> /\ HistoryFits'
  BY DEF FindAll, history, Inductive, HistoryFits
<1> QED
  BY <1>3, <1>4, <1>5, RequestStep

LEMMA AnswerOrCrashKeeps ==
  ASSUME Inductive, NEW c \in Clients, Answer(c) \/ Crash(c) PROVE Inductive'
<1>1. request' = [request EXCEPT ![c] = Idle]
  BY DEF Answer, Crash
<1>2. UNCHANGED <<db, owner>>
  BY DEF Answer, Crash, history
<1>3. HistoryFits'
  <2>1. CASE Answer(c) /\ request[c].at = "publish"
    <3>1. request[c].id \in Ids
      BY <2>1, MaxAssumption
         DEF Inductive, RequestsFit, Fits, StepFits, Holds, TablesFit, Ids
    <3> QED
      BY <2>1, <3>1 DEF Answer, Inductive, HistoryFits
  <2> QED
    BY <2>1 DEF Answer, Crash, history, Inductive, HistoryFits
<1> QED
  BY <1>1, <1>2, <1>3, IdleFits, RequestStep

-----------------------------------------------------------------------------
(* Steps that write                                                        *)

(* The steps that change rows keep what a request has in hand fitting, as  *)
(* long as organizations only go and owners of inserted messages stay.     *)
Grows ==
  /\ orgs' \subseteq orgs /\ orgs' \subseteq Orgs
  /\ inserted' \in Nat /\ inserted <= inserted'
  /\ \A m \in 1..inserted : owner'[m] = owner[m]

LEMMA FitsStays ==
  ASSUME Inductive, Grows, NEW r, Fits(r)
  PROVE  Fits(r)'
<1>1. \A org, m : Holds(org, m) => Holds(org, m)'
  BY DEF Grows, Holds, Entitled, Inductive, TablesFit
<1>2. \A m \in 1..inserted : \A n : Related(m, n) => Related(m, n)'
  BY DEF Grows, Related, Inductive, TablesFit
<1> QED
  BY <1>1, <1>2 DEF Fits, RowFits, LoadedFits, StepFits, Holds, Grows

LEMMA RequestsStay ==
  ASSUME Inductive, Grows, NEW c \in Clients, NEW r, Fits(r)',
         request' = [request EXCEPT ![c] = r]
  PROVE  RequestsFit'
<1>1. request' \in [Clients -> Request]
  BY DEF Inductive, RequestsFit, Fits
<1>2. ASSUME NEW d \in Clients PROVE Fits(request[d])'
  <2>1. CASE d = c
    <3>1. request'[d] = r
      BY <2>1 DEF Inductive, RequestsFit
    <3> QED
      BY <3>1 DEF Fits, RowFits, LoadedFits, StepFits, Holds, Entitled, Related
  <2>2. CASE d # c
    <3>1. PICK q : Fits(q) /\ request'[d] = q
      BY <2>2 DEF Inductive, RequestsFit
    <3>2. Fits(q)'
      BY <3>1, FitsStays
    <3> QED
      BY <3>1, <3>2 DEF Fits, RowFits, LoadedFits, StepFits, Holds, Entitled, Related
  <2> QED
    BY <2>1, <2>2
<1> QED
  BY <1>1, <1>2 DEF RequestsFit

LEMMA InsertKeeps ==
  ASSUME Inductive, NEW c \in Clients, Insert(c) PROVE Inductive'
<1>0. PICK r, id : r = request[c] /\ id = inserted + 1
  OBVIOUS
<1>1. /\ Fits(r) /\ r.at = "insert" /\ r \in Request
      /\ inserted \in Nat /\ id \in Ids /\ inserted < MaxMessages
  BY <1>0, MaxAssumption DEF Inductive, RequestsFit, TablesFit, Insert, Fits, Ids
<1>2. PICK row :
        /\ row \in Message /\ row.org = r.org /\ row.replayedFrom = r.id
        /\ IF Accepts(row)
           THEN /\ rows' = [rows EXCEPT ![id] = row]
                /\ inserted' = id
                /\ owner' = [owner EXCEPT ![id] = r.org]
                /\ request' = [request EXCEPT ![c] =
                     [r EXCEPT !.at = "announce", !.id = id, !.row = row]]
           ELSE /\ request' = [request EXCEPT ![c] = Idle]
                /\ UNCHANGED <<rows, inserted, owner>>
  <2>1. PICK spam \in (IF r.op = "create" THEN DetectedSpam ELSE {r.row.spam}) :
          LET row == [org |-> r.org, spam |-> spam, replayedFrom |-> r.id]
          IN  IF Accepts(row)
              THEN /\ rows' = [rows EXCEPT ![id] = row]
                   /\ inserted' = id
                   /\ owner' = [owner EXCEPT ![id] = r.org]
                   /\ request' = [request EXCEPT ![c] =
                        [r EXCEPT !.at = "announce", !.id = id, !.row = row]]
              ELSE /\ request' = [request EXCEPT ![c] = Idle]
                   /\ UNCHANGED <<rows, inserted, owner>>
    BY <1>0 DEF Insert
  <2>2. spam \in Verdicts
    <3>1. r.op # "create" => r.row \in Message
      BY <1>1, AbsentIsNoMessage DEF Fits, StepFits, Request
    <3> QED
      BY <2>1, <3>1 DEF DetectedSpam, Message
  <2>3. [org |-> r.org, spam |-> spam, replayedFrom |-> r.id] \in Message
    BY <1>1, <2>2 DEF Request, Message
  <2> QED
    BY <2>1, <2>3
<1>3. UNCHANGED <<orgs, keyOrg, announced, confirmed, deleted>>
  BY DEF Insert
<1>4. CASE ~Accepts(row)
  <2>1. UNCHANGED <<db, owner>> /\ HistoryFits'
    BY <1>2, <1>3, <1>4 DEF db, Inductive, HistoryFits
  <2> QED
    BY <1>2, <1>4, <2>1, IdleFits, RequestStep
<1>5. CASE Accepts(row)
  <2> DEFINE s == [r EXCEPT !.at = "announce", !.id = id, !.row = row]
  <2>1. /\ rows' = [rows EXCEPT ![id] = row]
        /\ inserted' = id
        /\ owner' = [owner EXCEPT ![id] = r.org]
        /\ request' = [request EXCEPT ![c] = s]
    BY <1>2, <1>5
  <2>2. row \in Row /\ row # Absent /\ r.org \in Buckets
    BY <1>1, <1>2, AbsentIsNoMessage DEF Request
  <2>3. Grows /\ TablesFit' /\ HistoryFits'
    BY <1>0, <1>1, <1>3, <2>1, <2>2, MaxAssumption DEF Grows, Inductive, TablesFit, HistoryFits
  <2>4. owner'[id] = r.org
    BY <1>1, <2>1 DEF Inductive, TablesFit
  <2>5. r.id # 0 => Holds(r.org, r.id)
    BY <1>1 DEF Fits, StepFits, RowFits
  <2>6. Holds(r.org, id)'
    BY <1>0, <1>1, <2>1, <2>4 DEF Holds, Entitled
  <2>7. r.id # 0 => Related(id, r.id)'
    BY <1>0, <1>1, <1>3, <2>1, <2>4, <2>5, OrgAssumption
       DEF Holds, Entitled, Related, Inductive, TablesFit
  <2>8. Fits(s)'
    <3>1. Fits(r)'
      BY <1>1, <2>3, FitsStays
    <3>2. s \in Request
      BY <1>1, <2>2 DEF Request, Steps
    <3> QED
      BY <1>1, <1>2, <3>1, <3>2, <2>6, <2>7
         DEF Fits, RowFits, LoadedFits, StepFits, Holds, Entitled, Related
  <2>9. RequestsFit'
    BY <2>1, <2>3, <2>8, RequestsStay
  <2>10. \A m \in Ids : Exists(m)' <=> Exists(m) \/ m = id
    BY <1>1, <2>1, <2>2 DEF Exists, Inductive, TablesFit
  <2>11. \A m \in Ids : rows'[m] = IF m = id THEN row ELSE rows[m]
    BY <1>1, <2>1 DEF Inductive, TablesFit
  <2>12. RowsAreInserted'
    BY <1>0, <1>1, <2>1, <2>10 DEF Inductive, RowsAreInserted
  <2>13. RowsFollowTheirOrg'
    <3>1. row.org = IF r.org \in orgs THEN r.org ELSE NoOrg
      BY <1>2, <1>5 DEF Accepts, OrgExists
    <3>2. \A m \in Ids : m # id => owner'[m] = owner[m]
      BY <2>1 DEF Inductive, TablesFit
    <3> QED
      BY <1>3, <2>4, <2>10, <2>11, <3>1, <3>2 DEF Inductive, RowsFollowTheirOrg
  <2>14. ReplaysAreRelated'
    <3>1. \A m \in 1..inserted : \A n : Related(m, n) => Related(m, n)'
      BY <2>3 DEF Grows, Related, Inductive, TablesFit
    <3>2. r.id # 0 => Exists(r.id)
      BY <1>2, <1>5 DEF Accepts, OriginalExists
    <3> SUFFICES ASSUME NEW m \in Ids, Exists(m)', rows'[m].replayedFrom # 0
                 PROVE  (Exists(rows[m].replayedFrom) /\ Related(m, rows[m].replayedFrom))'
      BY DEF ReplaysAreRelated
    <3>3. CASE m = id
      BY <1>2, <2>7, <2>10, <2>11, <3>2, <3>3 DEF Exists, Related
    <3>4. CASE m # id
      <4>1. Exists(m) /\ rows'[m] = rows[m]
        BY <2>10, <2>11, <3>4
      <4>2. m \in 1..inserted /\ Exists(rows[m].replayedFrom) /\ Related(m, rows[m].replayedFrom)
        BY <4>1 DEF Inductive, RowsAreInserted, ReplaysAreRelated
      <4> QED
        BY <2>10, <3>1, <4>1, <4>2 DEF Exists, Related
    <3> QED
      BY <3>3, <3>4
  <2> QED
    BY <2>3, <2>9, <2>12, <2>13, <2>14 DEF Inductive
<1> QED
  BY <1>4, <1>5

(* What save writes over a row that is there: of each column either what   *)
(* the entity has, because it differs from what was loaded, or the row's.  *)
LEMMA ChangedColumns ==
  ASSUME NEW row \in Message, NEW loaded \in Row, NEW now \in Row
  PROVE  /\ now \in Message => Changed(row, loaded, now) \in Message
         /\ Changed(row, loaded, now).org =
              IF row.org # loaded.org THEN row.org ELSE now.org
         /\ Changed(row, loaded, now).replayedFrom \in {row.replayedFrom, now.replayedFrom}
<1> DEFINE w == [f \in {"org", "spam", "replayedFrom"} |->
                   IF row[f] # loaded[f] THEN row[f] ELSE now[f]]
<1>1. DOMAIN now = {"org", "spam", "replayedFrom"}
  BY DEF Row, Message, Absent
<1>2. Changed(row, loaded, now) = w
  BY <1>1 DEF Changed
<1>3. /\ w.org = IF row.org # loaded.org THEN row.org ELSE now.org
      /\ w.spam = IF row.spam # loaded.spam THEN row.spam ELSE now.spam
      /\ w.replayedFrom = IF row.replayedFrom # loaded.replayedFrom
                          THEN row.replayedFrom ELSE now.replayedFrom
  OBVIOUS
<1>4. w = [org |-> w.org, spam |-> w.spam, replayedFrom |-> w.replayedFrom]
  OBVIOUS
<1> HIDE DEF w
<1>5. now \in Message => w \in Message
  BY <1>3, <1>4 DEF Message
<1> QED
  BY <1>2, <1>3, <1>5

LEMMA SaveWritesKeeps ==
  ASSUME Inductive, NEW c \in Clients, SaveWrites(c) PROVE Inductive'
<1>0. PICK r : r = request[c]
  OBVIOUS
<1>1. /\ Fits(r) /\ r.at = "save" /\ r \in Request
      /\ inserted \in Nat
  BY <1>0 DEF Inductive, RequestsFit, TablesFit, SaveWrites, Fits
<1>2. /\ r.row \in Message /\ r.row # Absent /\ r.loaded \in Row
      /\ Holds(r.org, r.id) /\ r.row.org = r.org /\ r.id \in Ids
      /\ r.row.replayedFrom # 0 => Related(r.id, r.row.replayedFrom)
      /\ rows[r.id] \in Row
  BY <1>1, MaxAssumption, AbsentIsNoMessage
     DEF Fits, StepFits, RowFits, Holds, Inductive, TablesFit, Ids, Request
<1>3. PICK written : written =
        IF r.loaded = Absent THEN r.row ELSE Changed(r.row, r.loaded, rows[r.id])
  OBVIOUS
<1>4. \/ request' = [request EXCEPT ![c] = Idle]
      \/ request' = [request EXCEPT ![c] =
                       [r EXCEPT !.at = "answer", !.loaded = Absent, !.result = {r.id}]]
  BY <1>0 DEF SaveWrites
<1>5. \/ rows' = rows
      \/ /\ rows' = [rows EXCEPT ![r.id] = written]
         /\ Accepts(written)
         /\ r.loaded # Absent => Exists(r.id)
  BY <1>0, <1>3 DEF SaveWrites
<1>6. UNCHANGED <<orgs, keyOrg, inserted, owner, announced, confirmed, deleted>>
  BY DEF SaveWrites, history
<1>7. \E s : Fits(s) /\ request' = [request EXCEPT ![c] = s]
  <2>1. Fits([r EXCEPT !.at = "answer", !.loaded = Absent, !.result = {r.id}])
    BY <1>1, <1>2 DEF Fits, RowFits, LoadedFits, StepFits, Request, Steps, Row
  <2> QED
    BY <1>4, <2>1, IdleFits
<1>8. PICK s : Fits(s) /\ request' = [request EXCEPT ![c] = s]
  BY <1>7
<1>9. HistoryFits'
  BY <1>6 DEF Inductive, HistoryFits
<1>10. CASE rows' = rows
  BY <1>6, <1>8, <1>9, <1>10, RequestStep DEF db
<1>11. CASE /\ rows' = [rows EXCEPT ![r.id] = written]
            /\ Accepts(written)
            /\ r.loaded # Absent => Exists(r.id)
  <2>1. /\ written \in Message
        /\ written.org \in {r.row.org, rows[r.id].org}
        /\ written.replayedFrom # 0 => Related(r.id, written.replayedFrom)
        /\ written.org = IF owner[r.id] \in orgs THEN owner[r.id] ELSE NoOrg
    <3>1. CASE r.loaded = Absent
      <4>1. written = r.row
        BY <1>3, <3>1
      <4>2. r.org \in orgs \cup {NoOrg}
        BY <1>2, <1>11, <4>1 DEF Accepts, OrgExists
      <4> QED
        BY <1>2, <4>1, <4>2, OrgAssumption DEF Holds, Entitled, Inductive, TablesFit
    <3>2. CASE r.loaded # Absent
      <4>1. /\ Exists(r.id) /\ rows[r.id] \in Message
            /\ rows[r.id].org = IF owner[r.id] \in orgs THEN owner[r.id] ELSE NoOrg
            /\ rows[r.id].replayedFrom # 0 => Related(r.id, rows[r.id].replayedFrom)
        BY <1>2, <1>11, <3>2, AbsentIsNoMessage
           DEF Exists, Inductive, RowsFollowTheirOrg, ReplaysAreRelated
      <4>2. /\ written \in Message
            /\ written.org = IF r.row.org # r.loaded.org THEN r.row.org ELSE rows[r.id].org
            /\ written.replayedFrom \in {r.row.replayedFrom, rows[r.id].replayedFrom}
        BY <1>2, <1>3, <3>2, <4>1, ChangedColumns
      <4>3. r.row.org = r.loaded.org
        <5>1. SUFFICES ASSUME r.row.org # r.loaded.org PROVE FALSE
          OBVIOUS
        <5>2. r.row.org \in Orgs \ orgs
          BY <1>1, <3>2, <5>1 DEF Fits, LoadedFits
        <5> QED
          BY <1>11, <4>2, <5>1, <5>2, OrgAssumption DEF Accepts, OrgExists
      <4> QED
        BY <1>2, <4>1, <4>2, <4>3
    <3> QED
      BY <3>1, <3>2
  <2>2. written \in Row /\ written # Absent
    BY <2>1, AbsentIsNoMessage
  <2>3. TablesFit' /\ Grows
    BY <1>1, <1>2, <1>6, <1>11, <2>2 DEF Inductive, TablesFit, Grows
  <2>4. Fits(s)'
    BY <1>8, <2>3, FitsStays
  <2>5. RequestsFit'
    BY <1>8, <2>3, <2>4, RequestsStay
  <2>6. \A m \in Ids : rows'[m] = IF m = r.id THEN written ELSE rows[m]
    BY <1>2, <1>11 DEF Inductive, TablesFit
  <2>7. \A m : Exists(m)' <=> Exists(m) \/ m = r.id
    BY <1>2, <2>2, <2>6 DEF Exists
  <2>8. RowsAreInserted'
    BY <1>2, <1>6, <2>7 DEF Inductive, RowsAreInserted, Holds
  <2>9. RowsFollowTheirOrg'
    BY <1>6, <2>1, <2>6, <2>7 DEF Inductive, RowsFollowTheirOrg
  <2>10. ReplaysAreRelated'
    <3>1. \A m, n : Related(m, n)' <=> Related(m, n)
      BY <1>6 DEF Related
    <3>2. written.replayedFrom # 0 => Exists(written.replayedFrom)
      BY <1>11 DEF Accepts, OriginalExists
    <3> SUFFICES ASSUME NEW m \in Ids, Exists(m)', rows'[m].replayedFrom # 0
                 PROVE  (Exists(rows[m].replayedFrom) /\ Related(m, rows[m].replayedFrom))'
      BY DEF ReplaysAreRelated
    <3>3. CASE m = r.id
      BY <1>6, <2>1, <2>6, <2>7, <3>2, <3>3 DEF Exists, Related
    <3>4. CASE m # r.id
      <4>1. Exists(m) /\ rows'[m] = rows[m]
        BY <2>6, <2>7, <3>4
      <4>2. Exists(rows[m].replayedFrom) /\ Related(m, rows[m].replayedFrom)
        BY <4>1 DEF Inductive, ReplaysAreRelated
      <4> QED
        BY <1>6, <2>7, <4>1, <4>2 DEF Exists, Related
    <3> QED
      BY <3>3, <3>4
  <2> QED
    BY <1>9, <2>3, <2>5, <2>8, <2>9, <2>10 DEF Inductive
<1> QED
  BY <1>5, <1>10, <1>11

LEMMA RemoveKeeps ==
  ASSUME Inductive, NEW c \in Clients, Remove(c) PROVE Inductive'
<1>1. PICK gone \in SUBSET Ids :
        rows' = Without(gone) /\ deleted' = deleted \cup gone
  BY DEF Remove, Bucket
<1>2. /\ request' = [request EXCEPT ![c] = Idle]
      /\ UNCHANGED <<orgs, keyOrg, inserted, owner, announced, confirmed>>
  BY DEF Remove
<1>3. \A m \in Ids :
        /\ rows'[m] \in Row
        /\ rows'[m] # Absent <=> rows[m] # Absent /\ m \notin gone
        /\ rows'[m] # Absent =>
             /\ rows'[m].org = rows[m].org
             /\ rows'[m].replayedFrom =
                  IF rows[m].replayedFrom \in gone THEN 0 ELSE rows[m].replayedFrom
  <2> SUFFICES ASSUME NEW m \in Ids
               PROVE  /\ rows'[m] \in Row
                      /\ rows'[m] # Absent <=> rows[m] # Absent /\ m \notin gone
                      /\ rows'[m] # Absent =>
                           /\ rows'[m].org = rows[m].org
                           /\ rows'[m].replayedFrom =
                                IF rows[m].replayedFrom \in gone THEN 0
                                ELSE rows[m].replayedFrom
    OBVIOUS
  <2>1. rows[m] \in Row
    BY DEF Inductive, TablesFit
  <2>2. rows'[m] = IF m \in gone THEN Absent
                   ELSE IF rows[m].replayedFrom \in gone
                   THEN [rows[m] EXCEPT !.replayedFrom = 0]
                   ELSE rows[m]
    BY <1>1 DEF Without
  <2>3. CASE rows[m] = Absent
    <3>1. rows[m].replayedFrom \notin gone
      BY <2>3 DEF Absent, Ids
    <3> QED
      BY <2>2, <2>3, <3>1 DEF Row
  <2>4. CASE rows[m] # Absent
    <3>1. rows[m] \in Message
      BY <2>1, <2>4, AbsentIsNoMessage
    <3>2. /\ [rows[m] EXCEPT !.replayedFrom = 0] \in Message
          /\ [rows[m] EXCEPT !.replayedFrom = 0].org = rows[m].org
          /\ [rows[m] EXCEPT !.replayedFrom = 0].replayedFrom = 0
      BY <3>1 DEF Message
    <3> QED
      BY <2>2, <2>4, <3>1, <3>2, AbsentIsNoMessage DEF Row
  <2> QED
    BY <2>3, <2>4
<1>4. TablesFit' /\ HistoryFits' /\ Grows
  <2>1. rows' = [m \in Ids |-> rows'[m]]
    BY <1>1 DEF Without
  <2> QED
    BY <1>1, <1>2, <1>3, <2>1 DEF Inductive, TablesFit, HistoryFits, Grows
<1>5. RequestsFit'
  <2>1. Fits(Idle)'
    BY <1>4, IdleFits, FitsStays
  <2> QED
    BY <1>2, <1>4, <2>1, RequestsStay
<1>6. \A m : Exists(m)' <=> Exists(m) /\ m \notin gone
  BY <1>3 DEF Exists
<1>7. RowsAreInserted' /\ RowsFollowTheirOrg'
  BY <1>2, <1>3, <1>6 DEF Inductive, RowsAreInserted, RowsFollowTheirOrg, Exists
<1>8. ReplaysAreRelated'
  <2> SUFFICES ASSUME NEW m \in Ids, Exists(m)', rows'[m].replayedFrom # 0
               PROVE  (Exists(rows[m].replayedFrom) /\ Related(m, rows[m].replayedFrom))'
    BY DEF ReplaysAreRelated
  <2>1. /\ Exists(m)
        /\ rows'[m].replayedFrom = rows[m].replayedFrom
        /\ rows[m].replayedFrom \notin gone
    BY <1>3, <1>6 DEF Exists
  <2>2. Exists(rows[m].replayedFrom) /\ Related(m, rows[m].replayedFrom)
    BY <2>1 DEF Inductive, ReplaysAreRelated
  <2> QED
    BY <1>2, <1>6, <2>1, <2>2 DEF Exists, Related
<1> QED
  BY <1>4, <1>5, <1>7, <1>8 DEF Inductive

LEMMA DestroyKeeps ==
  ASSUME Inductive, NEW o \in Orgs, DestroyOrganization(o) PROVE Inductive'
<1>1. /\ o \in orgs /\ orgs' = orgs \ {o}
      /\ keyOrg' = [c \in Clients |-> IF keyOrg[c] = o THEN NoOrg ELSE keyOrg[c]]
      /\ rows' = [m \in Ids |-> IF m \in Bucket(o) THEN [rows[m] EXCEPT !.org = NoOrg]
                                ELSE rows[m]]
      /\ UNCHANGED <<inserted, request, owner, announced, confirmed, deleted>>
  BY DEF DestroyOrganization, history
<1>2. \A m \in Ids :
        /\ rows'[m] \in Row
        /\ rows'[m] # Absent <=> rows[m] # Absent
        /\ rows'[m].replayedFrom = rows[m].replayedFrom
        /\ rows'[m].org = IF rows[m] # Absent /\ rows[m].org = o THEN NoOrg ELSE rows[m].org
  <2> SUFFICES ASSUME NEW m \in Ids
               PROVE  /\ rows'[m] \in Row
                      /\ rows'[m] # Absent <=> rows[m] # Absent
                      /\ rows'[m].replayedFrom = rows[m].replayedFrom
                      /\ rows'[m].org =
                           IF rows[m] # Absent /\ rows[m].org = o THEN NoOrg ELSE rows[m].org
    OBVIOUS
  <2>1. rows[m] \in Row
    BY DEF Inductive, TablesFit
  <2>2. CASE rows[m] # Absent /\ rows[m].org = o
    <3>1. rows[m] \in Message /\ rows'[m] = [rows[m] EXCEPT !.org = NoOrg]
      BY <1>1, <2>1, <2>2, AbsentIsNoMessage DEF Bucket, Exists
    <3>2. /\ rows'[m] \in Message /\ rows'[m].org = NoOrg
          /\ rows'[m].replayedFrom = rows[m].replayedFrom
      BY <3>1 DEF Message, Buckets
    <3> QED
      BY <2>2, <3>2, AbsentIsNoMessage
  <2>3. CASE ~(rows[m] # Absent /\ rows[m].org = o)
    BY <1>1, <2>1, <2>3 DEF Bucket, Exists
  <2> QED
    BY <2>2, <2>3
<1>3. TablesFit' /\ HistoryFits' /\ Grows
  <2>1. rows' = [m \in Ids |-> rows'[m]]
    BY <1>1
  <2>2. rows' \in [Ids -> Row]
    BY <1>2, <2>1
  <2>3. keyOrg' \in [Clients -> Buckets]
    BY <1>1 DEF Inductive, TablesFit, Buckets
  <2> QED
    BY <1>1, <2>2, <2>3 DEF Inductive, TablesFit, HistoryFits, Grows
<1>4. RequestsFit'
  <2> SUFFICES ASSUME NEW c \in Clients PROVE Fits(request[c])'
    BY <1>1 DEF Inductive, RequestsFit
  <2>1. PICK r : Fits(r) /\ r = request[c]
    BY DEF Inductive, RequestsFit
  <2>2. Fits(r)'
    BY <1>3, <2>1, FitsStays
  <2> QED
    BY <1>1, <2>1, <2>2 DEF Fits, RowFits, LoadedFits, StepFits, Holds, Entitled, Related
<1>5. \A m : Exists(m)' <=> Exists(m)
  BY <1>2 DEF Exists
<1>6. RowsAreInserted'
  BY <1>1, <1>5 DEF Inductive, RowsAreInserted
<1>7. RowsFollowTheirOrg'
  BY <1>1, <1>2, <1>5, OrgAssumption
     DEF Inductive, TablesFit, RowsFollowTheirOrg, Exists
<1>8. ReplaysAreRelated'
  <2> SUFFICES ASSUME NEW m \in Ids, Exists(m)', rows'[m].replayedFrom # 0
               PROVE  (Exists(rows[m].replayedFrom) /\ Related(m, rows[m].replayedFrom))'
    BY DEF ReplaysAreRelated
  <2>1. Exists(m) /\ rows'[m].replayedFrom = rows[m].replayedFrom
    BY <1>2, <1>5 DEF Exists
  <2>2. Exists(rows[m].replayedFrom) /\ Related(m, rows[m].replayedFrom)
    BY <2>1 DEF Inductive, ReplaysAreRelated
  <2> QED
    BY <1>1, <1>5, <2>1, <2>2 DEF Exists, Related
<1> QED
  BY <1>3, <1>4, <1>6, <1>7, <1>8 DEF Inductive

-----------------------------------------------------------------------------
(* The theorems                                                            *)

LEMMA InitHolds == Init => Inductive
<1> SUFFICES ASSUME Init PROVE Inductive
  OBVIOUS
<1>1. \A m : ~Exists(m)
  BY DEF Init, Exists
<1>2. TablesFit /\ HistoryFits
  BY OrgAssumption, MaxAssumption DEF Init, TablesFit, HistoryFits, Buckets, Row, Ids
<1>3. RequestsFit
  BY IdleFits DEF Init, RequestsFit, Fits
<1> QED
  BY <1>1, <1>2, <1>3 DEF Inductive, RowsAreInserted, RowsFollowTheirOrg, ReplaysAreRelated

(* The inductive invariant.                                                *)
THEOREM Invariance == Spec => []Inductive
<1>1. Inductive /\ [Next]_vars => Inductive'
  <2> SUFFICES ASSUME Inductive, [Next]_vars PROVE Inductive'
    OBVIOUS
  <2>1. CASE UNCHANGED vars
    BY <2>1
       DEF vars, Inductive, TablesFit, HistoryFits, RequestsFit, RowsAreInserted,
           RowsFollowTheirOrg, ReplaysAreRelated, Fits, RowFits, LoadedFits, StepFits,
           Holds, Entitled, Related, Exists
  <2>2. CASE \E o \in Orgs : DestroyOrganization(o)
    BY <2>2, DestroyKeeps
  <2>3. ASSUME NEW c \in Clients,
               \/ Begin(c) \/ Insert(c) \/ Announce(c) \/ FindOne(c) \/ SaveLoads(c)
               \/ SaveWrites(c) \/ FindAll(c) \/ Remove(c) \/ Answer(c) \/ Crash(c)
        PROVE  Inductive'
    BY <2>3, BeginKeeps, InsertKeeps, AnnounceKeeps, FindOneKeeps, SaveLoadsKeeps,
       SaveWritesKeeps, FindAllKeeps, RemoveKeeps, AnswerOrCrashKeeps
  <2> QED
    BY <2>1, <2>2, <2>3 DEF Next
<1> QED
  BY <1>1, InitHolds, PTL DEF Spec

(* Every variable of the messages API keeps its type.                      *)
THEOREM TypeCorrect == Spec => []TypeOK
<1>1. Inductive => TypeOK
  BY DEF Inductive, TablesFit, HistoryFits, RequestsFit, Request, TypeOK
<1> QED
  BY <1>1, Invariance, PTL

(* A message stays with its organization as long as this exists, though    *)
(* save updates, or inserts again, what an earlier statement read          *)
(* (messages.service.ts:176-180).                                          *)
THEOREM MessagesStayWithTheirOrg == Spec => []RowsFollowTheirOrg
<1>1. Inductive => RowsFollowTheirOrg
  BY DEF Inductive
<1> QED
  BY <1>1, Invariance, PTL

(* A replay and its original are in one bucket                             *)
(* (messages.service.ts:147-172).                                          *)
THEOREM ReplaysStayInTenant == Spec => []ReplayStaysInTenant
<1>1. Inductive => ReplayStaysInTenant
  <2> SUFFICES ASSUME Inductive, NEW m \in Ids, Exists(m), rows[m].replayedFrom # 0
               PROVE  /\ Exists(rows[m].replayedFrom)
                      /\ rows[rows[m].replayedFrom].org = rows[m].org
    BY DEF ReplayStaysInTenant
  <2>1. Exists(rows[m].replayedFrom) /\ Related(m, rows[m].replayedFrom)
    BY DEF Inductive, ReplaysAreRelated
  <2> QED
    BY <2>1 DEF Inductive, RowsFollowTheirOrg, Related, Exists
<1> QED
  BY <1>1, Invariance, PTL

(* No request holds or answers with a message that its organization was    *)
(* not entitled to (messages.service.ts:21-23, :135-145).                  *)
THEOREM TenantsSeeTheirOwn == Spec => []AnswersStayInTenant
<1>1. Inductive => AnswersStayInTenant
  BY DEF Inductive, RequestsFit, Fits, RowFits, Holds, AnswersStayInTenant
<1> QED
  BY <1>1, Invariance, PTL

-----------------------------------------------------------------------------
(* What was confirmed is kept                                              *)

Kept(m) == Exists(m) \/ m \in deleted

(* A message on its way to a 201 is kept already, and broadcast once the   *)
(* answer is all that is left.                                             *)
Underway(r) ==
  /\ r.at \in {"announce", "publish"} => Kept(r.id)
  /\ r.at = "publish" => r.id \in announced

KeptFits ==
  /\ ConfirmedIsKept
  /\ \A c \in Clients : Underway(request[c])

(* The handlers' part: the request a step replaces is underway, and        *)
(* nothing is confirmed that was not.                                      *)
LEMMA ReplacedRequest ==
  ASSUME KeptFits, NEW c \in Clients,
         \A d \in Clients \ {c} : request'[d] = request[d],
         Underway(request[c])',
         \A m : Kept(m) => Kept(m)',
         announced \subseteq announced',
         confirmed' = confirmed
  PROVE  KeptFits'
<1>1. ConfirmedIsKept'
  BY DEF KeptFits, ConfirmedIsKept, Kept
<1>2. ASSUME NEW d \in Clients \ {c} PROVE Underway(request[d])'
  <2>1. Underway(request[d]) /\ request'[d] = request[d]
    BY DEF KeptFits
  <2> QED
    BY <2>1 DEF Underway, Kept, Exists
<1> QED
  BY <1>1, <1>2 DEF KeptFits

LEMMA InsertKeepsConfirmed ==
  ASSUME Inductive, KeptFits, NEW c \in Clients, Insert(c) PROVE KeptFits'
<1>1. /\ request[c] \in Request /\ request[c].at = "insert"
      /\ inserted + 1 \in Ids
  BY MaxAssumption DEF Inductive, RequestsFit, TablesFit, Insert, Ids
<1>2. UNCHANGED <<announced, confirmed, deleted>>
  BY DEF Insert
<1>3. PICK spam \in (IF request[c].op = "create" THEN DetectedSpam ELSE {request[c].row.spam}) :
        LET r == request[c]
            id == inserted + 1
            row == [org |-> r.org, spam |-> spam, replayedFrom |-> r.id]
        IN  IF Accepts(row)
            THEN /\ rows' = [rows EXCEPT ![id] = row]
                 /\ request' = [request EXCEPT ![c] =
                      [r EXCEPT !.at = "announce", !.id = id, !.row = row]]
            ELSE /\ request' = [request EXCEPT ![c] = Idle]
                 /\ UNCHANGED rows
  BY DEF Insert
<1>4. spam \in Verdicts
  <2>1. request[c].op # "create" => request[c].row \in Message
    BY <1>1, AbsentIsNoMessage DEF Inductive, RequestsFit, Fits, StepFits, Request
  <2> QED
    BY <1>3, <2>1 DEF DetectedSpam, Message
<1>5. PICK row : row = [org |-> request[c].org, spam |-> spam, replayedFrom |-> request[c].id]
  OBVIOUS
<1>6. row # Absent
  <2>1. row \in Message
    BY <1>1, <1>4, <1>5 DEF Request, Message
  <2> QED
    BY <2>1, AbsentIsNoMessage
<1>7. CASE ~Accepts(row)
  <2>1. request' = [request EXCEPT ![c] = Idle] /\ rows' = rows
    BY <1>3, <1>5, <1>7
  <2>2. /\ \A d \in Clients \ {c} : request'[d] = request[d]
        /\ Underway(request[c])'
    BY <2>1 DEF Underway, Idle, Inductive, RequestsFit
  <2>3. \A m : Kept(m) => Kept(m)'
    BY <1>2, <2>1 DEF Kept, Exists
  <2> QED
    BY <1>2, <2>1, <2>2, <2>3, ReplacedRequest
<1>8. CASE Accepts(row)
  <2>1. /\ rows' = [rows EXCEPT ![inserted + 1] = row]
        /\ request' = [request EXCEPT ![c] =
             [request[c] EXCEPT !.at = "announce", !.id = inserted + 1, !.row = row]]
    BY <1>3, <1>5, <1>8
  <2>2. \A m : Kept(m) \/ m = inserted + 1 => Kept(m)'
    BY <1>1, <1>2, <1>6, <2>1 DEF Kept, Exists, Inductive, TablesFit
  <2>3. /\ \A d \in Clients \ {c} : request'[d] = request[d]
        /\ request'[c].at = "announce" /\ request'[c].id = inserted + 1
    BY <1>1, <2>1 DEF Inductive, RequestsFit, Request
  <2>4. Underway(request[c])'
    BY <2>2, <2>3 DEF Underway, Kept
  <2> QED
    BY <1>2, <2>2, <2>3, <2>4, ReplacedRequest
<1> QED
  BY <1>7, <1>8

LEMMA SaveWritesKeepsConfirmed ==
  ASSUME Inductive, KeptFits, NEW c \in Clients, SaveWrites(c) PROVE KeptFits'
<1>1. PICK r : r = request[c] /\ r \in Request /\ Fits(r) /\ r.at = "save"
  BY DEF Inductive, RequestsFit, SaveWrites
<1>2. /\ r.row \in Message /\ r.row # Absent /\ r.id \in Ids /\ rows[r.id] \in Row
  BY <1>1, MaxAssumption, AbsentIsNoMessage
     DEF Fits, StepFits, RowFits, Holds, Inductive, TablesFit, Ids, Request
<1>3. UNCHANGED <<announced, confirmed, deleted>> /\ r.loaded \in Row
  BY <1>1 DEF SaveWrites, history, Request
<1>4. \A m : Kept(m) => Kept(m)'
  <2>1. PICK written : written =
          IF r.loaded = Absent THEN r.row ELSE Changed(r.row, r.loaded, rows[r.id])
    OBVIOUS
  <2>2. \/ rows' = rows
        \/ /\ rows' = [rows EXCEPT ![r.id] = written]
           /\ r.loaded # Absent => Exists(r.id)
    BY <1>1, <2>1 DEF SaveWrites
  <2>3. r.loaded # Absent /\ Exists(r.id) => written # Absent
    <3>1. SUFFICES ASSUME r.loaded # Absent, Exists(r.id) PROVE written \in Message
      BY AbsentIsNoMessage
    <3>2. rows[r.id] \in Message
      BY <1>2, <3>1, AbsentIsNoMessage DEF Exists
    <3> QED
      BY <1>2, <1>3, <2>1, <3>1, <3>2, ChangedColumns
  <2>4. CASE rows' = rows
    BY <1>3, <2>4 DEF Kept, Exists
  <2>5. CASE /\ rows' = [rows EXCEPT ![r.id] = written]
             /\ r.loaded # Absent => Exists(r.id)
    <3>1. written # Absent
      BY <1>2, <2>1, <2>3, <2>5
    <3> QED
      BY <1>2, <1>3, <2>5, <3>1 DEF Kept, Exists, Inductive, TablesFit
  <2> QED
    BY <2>2, <2>4, <2>5
<1>5. \A d \in Clients \ {c} : request'[d] = request[d]
  BY DEF SaveWrites, Inductive, RequestsFit
<1>6. request'[c].at \in {"idle", "answer"}
  BY <1>1 DEF SaveWrites, Inductive, RequestsFit, Request, Idle
<1>7. Underway(request[c])'
  BY <1>6 DEF Underway
<1> QED
  BY <1>3, <1>4, <1>5, <1>7, ReplacedRequest

(* The handlers that only read, and the removal, which says what it took.  *)
LEMMA OthersKeepConfirmed ==
  ASSUME Inductive, KeptFits, NEW c \in Clients,
         \/ Begin(c) \/ FindOne(c) \/ SaveLoads(c) \/ FindAll(c)
         \/ Remove(c) \/ Crash(c)
  PROVE  KeptFits'
<1>1. request[c] \in Request
  BY DEF Inductive, RequestsFit
<1>2. announced' = announced /\ confirmed' = confirmed
  BY DEF Begin, FindOne, SaveLoads, FindAll, Remove, Crash, history
<1>3. \A m : Kept(m) => Kept(m)'
  <2>1. CASE Remove(c)
    <3>1. PICK gone : rows' = Without(gone) /\ deleted' = deleted \cup gone
      BY <2>1 DEF Remove
    <3>2. ASSUME NEW m \in Ids, rows[m] # Absent, m \notin gone
          PROVE  rows'[m] # Absent
      <4>1. rows'[m] = IF rows[m].replayedFrom \in gone
                       THEN [rows[m] EXCEPT !.replayedFrom = 0] ELSE rows[m]
        BY <3>1, <3>2 DEF Without
      <4>2. rows[m] \in Message
        BY <3>2, AbsentIsNoMessage DEF Inductive, TablesFit
      <4>3. [rows[m] EXCEPT !.replayedFrom = 0] \in Message
        BY <4>2 DEF Message
      <4> QED
        BY <4>1, <4>2, <4>3, AbsentIsNoMessage
    <3> QED
      BY <3>1, <3>2 DEF Kept, Exists
  <2>2. CASE ~Remove(c)
    <3>1. rows' = rows /\ deleted' = deleted
      BY <2>2 DEF Begin, FindOne, SaveLoads, FindAll, Crash, db, history
    <3> QED
      BY <3>1 DEF Kept, Exists
  <2> QED
    BY <2>1, <2>2
<1>4. \A d \in Clients \ {c} : request'[d] = request[d]
  BY DEF Begin, FindOne, SaveLoads, FindAll, Remove, Crash, Inductive, RequestsFit
<1>5. request'[c].at \notin {"announce", "publish"}
  <2>1. CASE Begin(c)
    BY <2>1 DEF Begin, Inductive, RequestsFit, Idle
  <2>2. CASE FindOne(c)
    <3>1. PICK r : r = request[c] /\ r \in Request
      BY <1>1
    <3>2. \/ request' = [request EXCEPT ![c] = Idle]
          \/ request' = [request EXCEPT ![c] = [r EXCEPT !.at = "answer", !.result = {r.id}]]
          \/ request' = [request EXCEPT ![c] = [r EXCEPT !.at = "insert", !.row = rows[r.id]]]
          \/ \E isSpam \in Overrides :
               request' = [request EXCEPT ![c] =
                 [r EXCEPT !.at = "load", !.row = [rows[r.id] EXCEPT !.spam = isSpam]]]
      BY <2>2, <3>1 DEF FindOne
    <3>3. ASSUME NEW row, request' = [request EXCEPT ![c] = [r EXCEPT !.at = "load", !.row = row]]
          PROVE  request'[c].at = "load"
      BY <3>1, <3>3 DEF Inductive, RequestsFit, Request
    <3>4. CASE request' = [request EXCEPT ![c] = [r EXCEPT !.at = "insert", !.row = rows[r.id]]]
      BY <3>1, <3>4 DEF Inductive, RequestsFit, Request
    <3>5. CASE request' = [request EXCEPT ![c] = [r EXCEPT !.at = "answer", !.result = {r.id}]]
      BY <3>1, <3>5 DEF Inductive, RequestsFit, Request
    <3>6. CASE request' = [request EXCEPT ![c] = Idle]
      BY <3>6 DEF Inductive, RequestsFit, Idle
    <3> QED
      BY <3>2, <3>3, <3>4, <3>5, <3>6
  <2>3. CASE SaveLoads(c) \/ FindAll(c)
    BY <1>1, <2>3 DEF SaveLoads, FindAll, Inductive, RequestsFit, Request
  <2>4. CASE Remove(c) \/ Crash(c)
    BY <2>4 DEF Remove, Crash, Inductive, RequestsFit, Idle
  <2> QED
    BY <2>1, <2>2, <2>3, <2>4
<1>6. Underway(request[c])'
  BY <1>5 DEF Underway
<1> QED
  BY <1>2, <1>3, <1>4, <1>6, ReplacedRequest

LEMMA AnnounceKeepsConfirmed ==
  ASSUME Inductive, KeptFits, NEW c \in Clients, Announce(c) PROVE KeptFits'
<1>1. PICK r : r = request[c] /\ r \in Request /\ r.at = "announce" /\ Kept(r.id)
  BY DEF Inductive, RequestsFit, Announce, KeptFits, Underway
<1>2. announced' = announced \cup {r.id}
  BY <1>1 DEF Announce
<1>3. \A d \in Clients \ {c} : request'[d] = request[d]
  BY DEF Announce, Inductive, RequestsFit
<1>4. request'[c].at = "publish" /\ request'[c].id = r.id
  BY <1>1 DEF Announce, Inductive, RequestsFit, Request
<1>5. confirmed' = confirmed /\ \A m : Kept(m) => Kept(m)'
  BY DEF Announce, db, Kept, Exists
<1>6. Kept(r.id)'
  BY <1>1, <1>5
<1>7. Underway(request[c])'
  BY <1>2, <1>4, <1>6 DEF Underway, Kept
<1> QED
  BY <1>2, <1>3, <1>5, <1>7, ReplacedRequest

LEMMA AnswerKeepsConfirmed ==
  ASSUME Inductive, KeptFits, NEW c \in Clients, Answer(c) PROVE KeptFits'
<1>1. UNCHANGED <<rows, announced, deleted>>
  BY DEF Answer, db
<1>2. \A m : Kept(m) <=> Kept(m)'
  BY <1>1 DEF Kept, Exists
<1>3. ConfirmedIsKept'
  BY <1>1, <1>2 DEF Answer, KeptFits, ConfirmedIsKept, Underway, Kept
<1>4. request' = [request EXCEPT ![c] = Idle]
  BY DEF Answer
<1>5. \A d \in Clients : request'[d] = IF d = c THEN Idle ELSE request[d]
  BY <1>4 DEF Inductive, RequestsFit
<1>6. \A d \in Clients : Underway(request[d])'
  BY <1>1, <1>5 DEF KeptFits, Underway, Kept, Exists, Idle
<1> QED
  BY <1>3, <1>6 DEF KeptFits

LEMMA DestroyKeepsConfirmed ==
  ASSUME Inductive, KeptFits, NEW o \in Orgs, DestroyOrganization(o) PROVE KeptFits'
<1>1. \A m \in Ids : rows[m] # Absent => rows'[m] # Absent
  <2> SUFFICES ASSUME NEW m \in Ids, rows[m] # Absent PROVE rows'[m] # Absent
    OBVIOUS
  <2>1. rows[m] \in Message
    BY AbsentIsNoMessage DEF Inductive, TablesFit
  <2>2. [rows[m] EXCEPT !.org = NoOrg] \in Message
    BY <2>1 DEF Message, Buckets
  <2>3. rows'[m] \in {rows[m], [rows[m] EXCEPT !.org = NoOrg]}
    BY DEF DestroyOrganization
  <2> QED
    BY <2>1, <2>2, <2>3, AbsentIsNoMessage
<1>2. UNCHANGED <<request, announced, confirmed, deleted>>
  BY DEF DestroyOrganization, history
<1>3. \A m : Kept(m) => Kept(m)'
  BY <1>1, <1>2 DEF Kept, Exists
<1> QED
  BY <1>2, <1>3 DEF KeptFits, ConfirmedIsKept, Underway, Kept

(* What was answered with 201 was broadcast and stays stored until it is   *)
(* deleted through the API (messages.service.ts:79-125, :147-172): the     *)
(* handlers of other requests, overrides that save an entity read earlier  *)
(* and the deletion of an organization included.                           *)
THEOREM ConfirmedMessagesAreKept == Spec => []ConfirmedIsKept
<1>1. Init => KeptFits
  BY DEF Init, Idle, KeptFits, ConfirmedIsKept, Underway
<1>2. Inductive /\ KeptFits /\ [Next]_vars => KeptFits'
  <2> SUFFICES ASSUME Inductive, KeptFits, [Next]_vars PROVE KeptFits'
    OBVIOUS
  <2>1. CASE UNCHANGED vars
    BY <2>1 DEF vars, KeptFits, ConfirmedIsKept, Underway, Kept, Exists
  <2>2. CASE \E o \in Orgs : DestroyOrganization(o)
    BY <2>2, DestroyKeepsConfirmed
  <2>3. ASSUME NEW c \in Clients,
               \/ Begin(c) \/ Insert(c) \/ Announce(c) \/ FindOne(c) \/ SaveLoads(c)
               \/ SaveWrites(c) \/ FindAll(c) \/ Remove(c) \/ Answer(c) \/ Crash(c)
        PROVE  KeptFits'
    BY <2>3, InsertKeepsConfirmed, AnnounceKeepsConfirmed, SaveWritesKeepsConfirmed,
       OthersKeepConfirmed, AnswerKeepsConfirmed
  <2> QED
    BY <2>1, <2>2, <2>3 DEF Next
<1>3. KeptFits => ConfirmedIsKept
  BY DEF KeptFits
<1> QED
  BY <1>1, <1>2, <1>3, Invariance, PTL DEF Spec

=============================================================================
