------------------------------ MODULE AdminPages ------------------------------
(***************************************************************************)
(* The dashboard's lists with forms: TemplatesPage, TemplatePicker (on the *)
(* Compose page) and ApiKeysPage, with the services they call.             *)
(*                                                                         *)
(* The template lists are loaded once and then patched by each write's     *)
(* response; the API keys are loaded again after each write.  Requests are *)
(* served and their responses handled in any order.  sms-service updates   *)
(* and removes a template in two statements.  The page is taken to be the  *)
(* only one that writes: what another tab, user or API key of the          *)
(* organization changes meanwhile is not on a patched list until it is     *)
(* loaded again, and is left out.                                          *)
(*                                                                         *)
(* A row is its text: a template's name and body, or a key's status.       *)
(***************************************************************************)
EXTENDS Naturals, Sequences, FiniteSets, Ranking

CONSTANTS
  RowIds,      \* ids of templates or API keys, numbers from 1
  FirstRows,   \* those that exist at the start
  Texts,       \* what may be typed into a template
  MaxActs      \* bound: what the user does, and requests that fail

ASSUME RowIdAssumption ==
  RowIds \subseteq Nat \ {0} /\ FirstRows \subseteq RowIds /\ IsFiniteSet(FirstRows)
(* No text is what the model writes for a row that is not there.           *)
ASSUME TextAssumption == Texts # {} /\ Texts \cap {"unused", "removed"} = {}
ASSUME ActsAssumption == MaxActs \in Nat

VARIABLES
  page,        \* "templates", "picker" or "apiKeys"
  table,       \* table[r]: a row's text, "unused" before and "removed" after it
  list,        \* templates, apiKeys: what is shown, as [id, text]
  listState,   \* "loading", "shown", "error"
  loadRun,     \* number of the load effect's run that is not cancelled
  form,        \* editingId: [mode, id], mode "none", "new" or "edit"
  saving,      \* saving, creating
  requests,    \* requests and responses on their way
  \* history
  raced,       \* templates the list may be wrong about until it is loaded again
  confirmed,   \* [id, text] of the API key writes that were answered
  acts

adminVars == <<page, table, list, listState, loadRun, form, saving, requests,
               raced, confirmed, acts>>

NoForm == [mode |-> "none", id |-> 0]
Patched == page \in {"templates", "picker"}
Kept(r) == table[r] \notin {"unused", "removed"}

(* id: 0 until a new row has one; editing: editingId as the handler knows  *)
(* it; run: a load's effect run, or which act a write is; at: "sent",      *)
(* "found" (between sms-service's statements), "ok", "failed"; mixed: a    *)
(* load and this write, or this write and another of the same template,    *)
(* were on their way together; rows: a load's response.                    *)
Request(kind, id, text) ==
  [kind |-> kind, id |-> id, text |-> text, editing |-> form.id, run |-> acts,
   at |-> "sent", mixed |-> FALSE, rows |-> <<>>]

Load(run) ==
  [kind |-> "list", id |-> 0, text |-> "none", editing |-> 0, run |-> run,
   at |-> "sent", mixed |-> FALSE, rows |-> <<>>]

AdminInit ==
  /\ page \in {"templates", "picker", "apiKeys"}
  /\ table = [r \in RowIds |-> IF r \notin FirstRows THEN "unused"
              ELSE IF Patched THEN CHOOSE t \in Texts : TRUE ELSE "active"]
  /\ list = <<>> /\ listState = "loading" /\ loadRun = 1
  /\ form = NoForm /\ saving = FALSE
  /\ raced = {} /\ confirmed = {} /\ acts = 0
  /\ requests = {Load(1)}

Act == acts < MaxActs /\ acts' = acts + 1

-----------------------------------------------------------------------------
(* History: responses whose order matters.  Two updates of one template    *)
(* are left out on TemplatesPage, which disables its form meanwhile.       *)
Clash(p, q) ==
  \/ (p.kind = "list") # (q.kind = "list")
  \/ /\ p.id = q.id
     /\ \/ {p.kind, q.kind} = {"update", "delete"}
        \/ p.kind = "update" /\ q.kind = "update" /\ page = "picker"

Sent(q, before) ==
  LET clash == {p \in before : Clash(p, q)}
  IN  {[p EXCEPT !.mixed = @ \/ p \in clash] : p \in before} \cup {[q EXCEPT !.mixed = clash # {}]}

-----------------------------------------------------------------------------
(* The user                                                                *)

OnScreen(r) == listState = "shown" /\ \E i \in DOMAIN list : list[i].id = r

(* startCreate, startEdit and cancelEdit.                                  *)
OpenForm ==
  /\ Patched /\ Act
  /\ \/ (page = "picker" \/ form = NoForm) /\ form' = [mode |-> "new", id |-> 0]
     \/ \E r \in RowIds : OnScreen(r) /\ form' = [mode |-> "edit", id |-> r]
     \/ form' = NoForm
  /\ form' # form
  /\ UNCHANGED <<page, table, list, listState, loadRun, saving, requests, raced, confirmed>>

(* Variant: without the disabled button.                                   *)
SubmitFormAgain ==
  /\ form.mode # "none" /\ Act
  /\ saving' = (page = "templates")
  /\ \E t \in Texts :
       requests' = Sent(Request(IF form.mode = "new" THEN "create" ELSE "update", form.id, t), requests)
  /\ UNCHANGED <<page, table, list, listState, loadRun, form, raced, confirmed>>

(* handleSubmit, handleFormSubmit.  The picker does not disable its form.  *)
SubmitForm ==
  /\ form.mode # "none" /\ ~saving /\ Act
  /\ saving' = (page = "templates")
  /\ \E t \in Texts :
       requests' = Sent(Request(IF form.mode = "new" THEN "create" ELSE "update", form.id, t), requests)
  /\ UNCHANGED <<page, table, list, listState, loadRun, form, raced, confirmed>>

(* ApiKeysPage's handleCreate.                                             *)
CreateKey ==
  /\ page = "apiKeys" /\ ~saving /\ Act
  /\ saving' = TRUE
  /\ requests' = Sent(Request("create", 0, "active"), requests)
  /\ UNCHANGED <<page, table, list, listState, loadRun, form, raced, confirmed>>

(* handleDelete; handleRevoke, for a key that does not show as revoked.    *)
DeleteRow(r) ==
  /\ OnScreen(r) /\ Act
  /\ \/ Patched /\ requests' = Sent(Request("delete", r, "none"), requests)
     \/ /\ page = "apiKeys" /\ \E i \in DOMAIN list : list[i] = [id |-> r, text |-> "active"]
        /\ requests' = Sent(Request("revoke", r, "revoked"), requests)
  /\ UNCHANGED <<page, table, list, listState, loadRun, form, saving, raced, confirmed>>

(* The effect, run anew because the retry token changed.                   *)
Reload(before) ==
  /\ listState' = "loading" /\ loadRun' = loadRun + 1
  /\ requests' = Sent(Load(loadRun + 1), before)

(* TemplatePicker has no retry.                                            *)
RetryLoad ==
  /\ listState = "error" /\ Act
  /\ Reload(requests)
  /\ UNCHANGED <<page, table, list, form, saving, raced, confirmed>>

-----------------------------------------------------------------------------
(* Responses                                                               *)

(* Variant: without the effect's cancelled flag.                           *)
AnyLoad(run) == TRUE
CurrentLoad(run) == run = loadRun

(* The load effect's two callbacks.  When its load fails, the picker shows *)
(* the list it has.                                                        *)
ReceiveRows ==
  \E q \in {p \in requests : p.kind = "list" /\ p.at \in {"ok", "failed"}} :
    /\ requests' = requests \ {q}
    /\ \/ ~CurrentLoad(q.run) /\ UNCHANGED <<list, listState, raced>>
       \/ /\ CurrentLoad(q.run) /\ q.at = "ok"
          /\ list' = q.rows /\ listState' = "shown"
          /\ raced' = IF q.mixed THEN raced ELSE {}
       \/ /\ CurrentLoad(q.run) /\ q.at = "failed" /\ UNCHANGED list
          /\ listState' = IF page = "picker" THEN "shown" ELSE "error"
          /\ raced' = raced \cup {r \in RowIds : Kept(r)}
    /\ UNCHANGED <<page, table, loadRun, form, saving, confirmed, acts>>

(* What a write's response does to the list of templates.                  *)
Patch(q) ==
  CASE q.kind = "create" -> <<[id |-> q.id, text |-> q.text]>> \o list
    [] q.kind = "update" -> [i \in DOMAIN list |->
                               IF list[i].id = q.id THEN [list[i] EXCEPT !.text = q.text] ELSE list[i]]
    [] q.kind = "delete" -> LET others == {i \in DOMAIN list : list[i].id # q.id}
                            IN  [j \in 1..Cardinality(others) |-> list[Nth(others, j)]]

Saves(q) == q.kind \in {"create", "update"}

(* Variant: setSaving(false) only after a success.                         *)
SavedOnly(q) == saving /\ ~(Saves(q) /\ q.at = "ok")
SavingAfter(q) == saving /\ ~Saves(q)

(* A save closes the form, whatever was opened in it meanwhile; so does a  *)
(* deletion, if TemplatesPage's form was on that template when it began.   *)
ReceiveWrite ==
  \E q \in {p \in requests : p.kind # "list" /\ p.at \in {"ok", "failed"}} :
    LET rest == requests \ {q}
    IN  /\ saving' = SavingAfter(q)
        /\ \/ /\ q.at = "failed" /\ requests' = rest
              /\ UNCHANGED <<list, listState, loadRun, form, confirmed>>
           \/ /\ q.at = "ok" /\ page = "apiKeys"
              /\ Reload(rest)
              /\ confirmed' = confirmed \cup {[id |-> q.id, text |-> q.text]}
              /\ UNCHANGED <<list, form>>
           \/ /\ q.at = "ok" /\ Patched
              /\ list' = Patch(q) /\ requests' = rest
              /\ form' = IF Saves(q) \/ (page = "templates" /\ q.editing = q.id) THEN NoForm ELSE form
              /\ UNCHANGED <<listState, loadRun, confirmed>>
        /\ raced' = IF Patched /\ q.mixed THEN raced \cup ({q.id} \ {0}) ELSE raced
        /\ UNCHANGED <<page, table, acts>>

-----------------------------------------------------------------------------
(* sms-service's templates; auth-service's API keys                        *)

Served(q, status) == requests' = (requests \ {q}) \cup {[q EXCEPT !.at = status]}

unserved == <<page, list, listState, loadRun, form, saving, raced, confirmed>>

(* findAll, index: newest first.                                           *)
Rows ==
  LET ids == Descending({r \in RowIds : Kept(r)})
  IN  [i \in DOMAIN ids |-> [id |-> ids[i], text |-> table[ids[i]]]]

ServeList ==
  \E q \in {p \in requests : p.kind = "list" /\ p.at = "sent"} :
    /\ requests' = (requests \ {q}) \cup {[q EXCEPT !.at = "ok", !.rows = Rows]}
    /\ UNCHANGED <<unserved, table, acts>>

ServeCreate ==
  \E q \in {p \in requests : p.kind = "create" /\ p.at = "sent"} :
    \E r \in {o \in RowIds : table[o] = "unused"} :
      /\ \A o \in RowIds : table[o] = "unused" => r <= o
      /\ table' = [table EXCEPT ![r] = q.text]
      /\ requests' = (requests \ {q}) \cup {[q EXCEPT !.at = "ok", !.id = r]}
      /\ UNCHANGED <<unserved, acts>>

(* The first statement of update and remove.                               *)
FindOne ==
  \E q \in {p \in requests : p.kind \in {"update", "delete"} /\ p.at = "sent"} :
    /\ Served(q, IF Kept(q.id) THEN "found" ELSE "failed")
    /\ UNCHANGED <<unserved, table, acts>>

(* save looks for the row once more and inserts it when it is gone by now; *)
(* when it goes between save's two statements, nothing is written.         *)
FinishUpdate ==
  \E q \in {p \in requests : p.kind = "update" /\ p.at = "found"} :
    /\ \/ table' = [table EXCEPT ![q.id] = q.text]
       \/ ~Kept(q.id) /\ UNCHANGED table
    /\ Served(q, "ok")
    /\ UNCHANGED <<unserved, acts>>

FinishRemove ==
  \E q \in {p \in requests : p.kind = "delete" /\ p.at = "found"} :
    /\ table' = [table EXCEPT ![q.id] = "removed"]
    /\ Served(q, "ok")
    /\ UNCHANGED <<unserved, acts>>

RevokeKey ==
  \E q \in {p \in requests : p.kind = "revoke" /\ p.at = "sent"} :
    /\ table' = [table EXCEPT ![q.id] = "revoked"]
    /\ Served(q, "ok")
    /\ UNCHANGED <<unserved, acts>>

(* A service is down, or its answer is lost on the way.                    *)
RequestFails ==
  \E q \in {p \in requests : p.at # "failed"} :
    /\ Act
    /\ Served(q, "failed")
    /\ raced' = IF q.kind # "list" /\ q.at = "ok" THEN raced \cup {q.id} ELSE raced
    /\ UNCHANGED <<page, table, list, listState, loadRun, form, saving, confirmed>>

AdminNext ==
  \/ OpenForm \/ SubmitForm \/ CreateKey \/ RetryLoad \/ (\E r \in RowIds : DeleteRow(r))
  \/ ReceiveRows \/ ReceiveWrite
  \/ ServeList \/ ServeCreate \/ FindOne \/ FinishUpdate \/ FinishRemove \/ RevokeKey
  \/ RequestFails

AdminSpec == AdminInit /\ [][AdminNext]_adminVars

-----------------------------------------------------------------------------
(* Properties                                                              *)

Writes == {q \in requests : q.kind # "list"}

(* Types, and that the form is disabled exactly while its save runs.       *)
AdminTypeOK ==
  /\ page \in {"templates", "picker", "apiKeys"}
  /\ table \in [RowIds -> Texts \cup {"unused", "removed", "active", "revoked"}]
  /\ \A i \in DOMAIN list : list[i].id \in RowIds /\ list[i].text # "unused"
  /\ listState \in {"loading", "shown", "error"} /\ loadRun \in Nat
  /\ form \in {NoForm} \cup [mode : {"new", "edit"}, id : RowIds \cup {0}]
  /\ saving <=> page # "picker" /\ \E q \in requests : Saves(q)
  /\ \A q \in requests : q.id \in RowIds \cup {0} /\ q.run \in Nat
  /\ raced \in SUBSET RowIds /\ acts \in 0..MaxActs

(* Once no write is on its way, the patched list has each template once,   *)
(* with the text the database has, unless a load was under way during its  *)
(* write, or a deletion and an update of it, or the answer was lost        *)
(* (TemplatesPage.tsx:92-98).                                              *)
ListIsCurrent ==
  Patched /\ listState = "shown" /\ Writes = {} =>
    \A r \in RowIds \ raced :
      LET places == {i \in DOMAIN list : list[i].id = r}
      IN  IF Kept(r) THEN \E i \in places : places = {i} /\ list[i].text = table[r]
          ELSE places = {}

(* A list of API keys on screen has every key whose creation was answered, *)
(* and shows as revoked every key whose revocation was, in whatever order  *)
(* the loads that follow the writes come back (ApiKeysPage.tsx:24-45).     *)
KeysShowConfirmed ==
  page = "apiKeys" /\ listState = "shown" =>
    \A w \in confirmed : \E i \in DOMAIN list :
      /\ list[i].id = w.id
      /\ w.text = "revoked" => list[i].text = "revoked"

=============================================================================
