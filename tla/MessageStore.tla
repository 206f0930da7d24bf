---------------------------- MODULE MessageStore -----------------------------
(***************************************************************************)
(* sms-service's messages API (sms-service/src/messages) over the tables   *)
(* that auth-service migrates and whose organizations it deletes.          *)
(*                                                                         *)
(* A request runs in steps: the guard resolves its key to an organization, *)
(* then each database statement is one step, and other requests, of this   *)
(* replica or another, run between them.  PostgreSQL and TypeORM are       *)
(* external: a statement is atomic and checks the foreign keys; save reads *)
(* the row by its id alone, then inserts it or updates the columns that    *)
(* differ from what it read.                                               *)
(*                                                                         *)
(* Of a message the model keeps the organization, the spam verdict and     *)
(* replayed_from.  Its id is its number in the order of insertion.         *)
(***************************************************************************)
EXTENDS Naturals, FiniteSets

CONSTANTS
  Clients,       \* API keys, each with at most one request in progress
  Orgs,          \* organizations
  NoOrg,         \* org_id NULL: the ungrouped bucket
  OrgOf,         \* OrgOf[c]: the organization c's key was created for
  Overrides,     \* verdicts a user may set: "true", "false"
  MaxMessages,   \* bound: messages inserted in a behaviour
  MaxRequests    \* bound: requests in progress at the same time

ASSUME OrgAssumption == NoOrg \notin Orgs /\ OrgOf \in [Clients -> Orgs \cup {NoOrg}]
ASSUME OverrideAssumption == Overrides \subseteq {"true", "false"}
ASSUME MaxAssumption == MaxMessages \in Nat /\ MaxRequests \in Nat

VARIABLES
  orgs,        \* organizations.id
  keyOrg,      \* api_keys.org_id
  rows,        \* messages, by id
  inserted,    \* ids given out so far
  request,     \* request[c]: the handler running for c
  \* history
  owner,       \* owner[m]: the organization m was captured for
  announced,   \* messages broadcast to the dashboards
  confirmed,   \* messages whose capture or replay was answered with 201
  deleted      \* messages removed through the API

vars == <<orgs, keyOrg, rows, inserted, request, owner, announced, confirmed,
          deleted>>
db == <<orgs, keyOrg, rows, inserted>>
history == <<owner, announced, confirmed, deleted>>

Ids == 1..MaxMessages
Buckets == Orgs \cup {NoOrg}
Verdicts == {"null"} \cup Overrides

(* A message, and what stands for a row that is not there.                 *)
Message == [org : Buckets, spam : Verdicts, replayedFrom : Ids \cup {0}]
Absent == [org |-> NoOrg, spam |-> "absent", replayedFrom |-> 0]
Row == Message \cup {Absent}

Exists(m) == m \in Ids /\ rows[m] # Absent

(* at: the step the handler is about to take.                              *)
(* id, row: the entity in hand; loaded: what save read of it; result: the  *)
(* ids of the answer.                                                      *)
Idle == [at |-> "idle", op |-> "none", org |-> NoOrg, id |-> 0,
         row |-> Absent, loaded |-> Absent, result |-> {}]

Init ==
  /\ orgs = Orgs
  /\ keyOrg = OrgOf
  /\ rows = [m \in Ids |-> Absent]
  /\ inserted = 0
  /\ request = [c \in Clients |-> Idle]
  /\ owner = [m \in Ids |-> NoOrg]
  /\ announced = {} /\ confirmed = {} /\ deleted = {}

-----------------------------------------------------------------------------
(* PostgreSQL and TypeORM                                                  *)

(* Variants: a column without its constraint.                              *)
AnyOrg(row) == TRUE
AnyOriginal(row) == TRUE

(* The foreign keys of messages: both columns are nullable.                *)
OrgExists(row) == row.org # NoOrg => row.org \in orgs
OriginalExists(row) == row.replayedFrom # 0 => Exists(row.replayedFrom)
Accepts(row) == OrgExists(row) /\ OriginalExists(row)

(* The columns of row that differ from what save loaded, over now.         *)
Changed(row, loaded, now) ==
  [f \in DOMAIN now |-> IF row[f] # loaded[f] THEN row[f] ELSE now[f]]

(* Variant: cascadeOnDelete in place of nullOnDelete.                      *)
WithoutReplays(gone) ==
  [m \in Ids |->
     IF m \in gone \/ rows[m].replayedFrom \in gone THEN Absent ELSE rows[m]]

(* DELETE of some messages; replayed_from is set to null where it pointed  *)
(* to one of them.                                                         *)
Without(gone) ==
  [m \in Ids |->
     IF m \in gone THEN Absent
     ELSE IF rows[m].replayedFrom \in gone
     THEN [rows[m] EXCEPT !.replayedFrom = 0]
     ELSE rows[m]]

(* orgWhere: NULL is a bucket of its own.                                  *)
Bucket(org) == {m \in Ids : Exists(m) /\ rows[m].org = org}

-----------------------------------------------------------------------------
(* sms-service                                                             *)

(* detectSpam: null when ai-service is down, slow or answers something     *)
(* else.  Variant: without the ?? null.                                    *)
UncheckedSpam == Verdicts \cup {"undefined"}

DetectedSpam == Verdicts

(* findOne's lookup, by id and organization.  Variant: by id alone.        *)
FindsById(id, org) == Exists(id)

Finds(id, org) == id \in Bucket(org)

(* ApiKeyGuard: the organization is the key's at this instant.  A provider *)
(* webhook is a capture of the ungrouped bucket.                           *)
Begin(c) ==
  /\ request[c] = Idle
  /\ Cardinality({d \in Clients : request[d] # Idle}) < MaxRequests
  /\ \/ request' = [request EXCEPT ![c] =
                      [Idle EXCEPT !.at = "insert", !.op = "create", !.org = keyOrg[c]]]
     \/ \E op \in {"findOne", "replay", "setSpam"}, m \in Ids :
          request' = [request EXCEPT ![c] =
                        [Idle EXCEPT !.at = "find", !.op = op, !.org = keyOrg[c], !.id = m]]
     \/ \E op \in {"findAll", "remove"} :
          request' = [request EXCEPT ![c] =
                        [Idle EXCEPT !.at = op, !.op = op, !.org = keyOrg[c]]]
  /\ UNCHANGED <<db, history>>

(* create's INSERT, after the three calls of ai-service, whose verdict is  *)
(* null when it cannot be reached, and replay's.  A foreign key that fails *)
(* is a 500.                                                               *)
Insert(c) ==
  LET r == request[c]
      id == inserted + 1
  IN  /\ r.at = "insert" /\ inserted < MaxMessages
      /\ \E spam \in (IF r.op = "create" THEN DetectedSpam ELSE {r.row.spam}) :
           LET row == [org |-> r.org, spam |-> spam, replayedFrom |-> r.id]
           IN  IF Accepts(row)
               THEN /\ rows' = [rows EXCEPT ![id] = row]
                    /\ inserted' = id
                    /\ owner' = [owner EXCEPT ![id] = r.org]
                    /\ request' = [request EXCEPT ![c] =
                         [r EXCEPT !.at = "announce", !.id = id, !.row = row]]
               ELSE /\ request' = [request EXCEPT ![c] = Idle]
                    /\ UNCHANGED <<rows, inserted, owner>>
  /\ UNCHANGED <<orgs, keyOrg, announced, confirmed, deleted>>

(* broadcastMessageCreated; publishMessageCaptured follows, and swallows   *)
(* its errors.                                                             *)
Announce(c) ==
  /\ request[c].at = "announce"
  /\ announced' = announced \cup {request[c].id}
  /\ request' = [request EXCEPT ![c].at = "publish", ![c].result = {request[c].id}]
  /\ UNCHANGED <<db, owner, confirmed, deleted>>

(* findOne, a 404 when there is no such row, and what each handler does    *)
(* with the row.                                                           *)
FindOne(c) ==
  LET r == request[c]
  IN  /\ r.at = "find"
      /\ IF Finds(r.id, r.org)
         THEN \/ /\ r.op = "findOne"
                 /\ request' = [request EXCEPT ![c] =
                                  [r EXCEPT !.at = "answer", !.result = {r.id}]]
              \/ /\ r.op = "replay"
                 /\ request' = [request EXCEPT ![c] =
                                  [r EXCEPT !.at = "insert", !.row = rows[r.id]]]
              \/ /\ r.op = "setSpam"
                 /\ \E isSpam \in Overrides :
                      request' = [request EXCEPT ![c] =
                        [r EXCEPT !.at = "load", !.row = [rows[r.id] EXCEPT !.spam = isSpam]]]
         ELSE request' = [request EXCEPT ![c] = Idle]
  /\ UNCHANGED <<db, history>>

(* setSpam's save, first statement: the row as it is now, whoever's it is. *)
SaveLoads(c) ==
  /\ request[c].at = "load"
  /\ request' = [request EXCEPT ![c].at = "save", ![c].loaded = rows[request[c].id]]
  /\ UNCHANGED <<db, history>>

(* Second statement: an INSERT when nothing was read, or an UPDATE of what *)
(* differs, if anything does, which may match no row any more.  A foreign  *)
(* key, or a row that is back already, makes it a 500.                     *)
SaveWrites(c) ==
  LET r == request[c]
      inserts == r.loaded = Absent
      written == IF inserts THEN r.row ELSE Changed(r.row, r.loaded, rows[r.id])
      untouched == ~inserts /\ (r.row = r.loaded \/ ~Exists(r.id))
      refused == ~untouched /\ (~Accepts(written) \/ (inserts /\ Exists(r.id)))
  IN  /\ r.at = "save"
      /\ rows' = IF untouched \/ refused THEN rows ELSE [rows EXCEPT ![r.id] = written]
      /\ request' = [request EXCEPT ![c] =
           IF refused THEN Idle
           ELSE [r EXCEPT !.at = "answer", !.loaded = Absent, !.result = {r.id}]]
  /\ UNCHANGED <<orgs, keyOrg, inserted, history>>

FindAll(c) ==
  /\ request[c].at = "findAll"
  /\ request' = [request EXCEPT ![c].at = "answer", ![c].result = Bucket(request[c].org)]
  /\ UNCHANGED <<db, history>>

(* One DELETE: of given ids, or, confirmed, of the whole bucket.           *)
Remove(c) ==
  /\ request[c].at = "remove"
  /\ \E ids \in (SUBSET Ids) \ {{}} :
       LET gone == ids \cap Bucket(request[c].org)
       IN  /\ rows' = Without(gone)
           /\ deleted' = deleted \cup gone
  /\ request' = [request EXCEPT ![c] = Idle]
  /\ UNCHANGED <<orgs, keyOrg, inserted, owner, announced, confirmed>>

Answer(c) ==
  /\ request[c].at \in {"publish", "answer"}
  /\ confirmed' = IF request[c].at = "publish"
                  THEN confirmed \cup {request[c].id} ELSE confirmed
  /\ request' = [request EXCEPT ![c] = Idle]
  /\ UNCHANGED <<db, owner, announced, deleted>>

(* The replica serving c stops: what it had not sent is never sent.        *)
Crash(c) ==
  /\ request[c] # Idle
  /\ request' = [request EXCEPT ![c] = Idle]
  /\ UNCHANGED <<db, history>>

-----------------------------------------------------------------------------
(* auth-service                                                            *)

(* OrganizationController.destroy; both foreign keys are nullOnDelete.     *)
DestroyOrganization(o) ==
  /\ o \in orgs
  /\ orgs' = orgs \ {o}
  /\ keyOrg' = [c \in Clients |-> IF keyOrg[c] = o THEN NoOrg ELSE keyOrg[c]]
  /\ rows' = [m \in Ids |-> IF m \in Bucket(o) THEN [rows[m] EXCEPT !.org = NoOrg]
                            ELSE rows[m]]
  /\ UNCHANGED <<inserted, request, history>>

Next ==
  \/ \E c \in Clients :
       \/ Begin(c) \/ Insert(c) \/ Announce(c) \/ FindOne(c) \/ SaveLoads(c)
       \/ SaveWrites(c) \/ FindAll(c) \/ Remove(c) \/ Answer(c) \/ Crash(c)
  \/ \E o \in Orgs : DestroyOrganization(o)

Spec == Init /\ [][Next]_vars

-----------------------------------------------------------------------------
(* Properties                                                              *)

Steps == {"idle", "insert", "announce", "publish", "find", "load", "save",
          "findAll", "remove", "answer"}
Operations == {"none", "create", "replay", "findOne", "setSpam", "findAll", "remove"}

TypeOK ==
  /\ orgs \in SUBSET Orgs
  /\ keyOrg \in [Clients -> Buckets]
  /\ rows \in [Ids -> Row]
  /\ inserted \in 0..MaxMessages
  /\ request \in [Clients ->
       [at : Steps, op : Operations, org : Buckets, id : Ids \cup {0},
        row : Row, loaded : Row, result : SUBSET Ids]]
  /\ owner \in [Ids -> Buckets]
  /\ announced \in SUBSET Ids
  /\ confirmed \in SUBSET Ids
  /\ deleted \in SUBSET Ids

(* A message stays with the organization it was captured for as long as    *)
(* this exists, and is ungrouped from then on: no handler that read the    *)
(* organization or the row before it was deleted moves a message.          *)
RowsFollowTheirOrg ==
  \A m \in Ids : Exists(m) =>
    rows[m].org = IF owner[m] \in orgs THEN owner[m] ELSE NoOrg

(* A replay and its original are both there and in the same bucket, even   *)
(* when the original is deleted or its organization destroyed while the    *)
(* replay, or an override that puts it back, is on its way.                *)
ReplayStaysInTenant ==
  \A m \in Ids : Exists(m) /\ rows[m].replayedFrom # 0 =>
    /\ Exists(rows[m].replayedFrom)
    /\ rows[rows[m].replayedFrom].org = rows[m].org

(* Whatever a request has in hand or answers with was captured for its own *)
(* organization or, when its key has none, for no organization that still  *)
(* exists (docs/multi-tenancy.md:65, the hardening audit).                 *)
Entitled(org, m) == owner[m] = org \/ (org = NoOrg /\ owner[m] \notin orgs)

AnswersStayInTenant ==
  \A c \in Clients :
    LET r == request[c]
        inHand == IF r.row # Absent THEN {r.id} ELSE {}
    IN  \A m \in r.result \cup (inHand \cap Ids) : Entitled(r.org, m)

(* A capture or replay that was answered with 201 was broadcast, and is    *)
(* stored until somebody deletes it through the API: neither a destroyed   *)
(* organization nor a failing override loses it.                           *)
ConfirmedIsKept ==
  \A m \in confirmed : m \in announced /\ (Exists(m) \/ m \in deleted)

-----------------------------------------------------------------------------
(* What the documentation says and the code does not do.                   *)

(* docs/organizations-and-teams.md:31: deleting an organization cascades   *)
(* to its API keys and messages.                                           *)
DeletionCascades ==
  \A m \in Ids : Exists(m) => owner[m] \in orgs \cup {NoOrg}

=============================================================================
