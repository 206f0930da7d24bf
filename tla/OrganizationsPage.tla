-------------------------- MODULE OrganizationsPage ---------------------------
(***************************************************************************)
(* The dashboard's organizations: OrgContext, the switcher and             *)
(* OrganizationsPage (dashboard/src), in one tab.                          *)
(*                                                                         *)
(* Requests are served and their responses handled in any order.  A        *)
(* handler goes on after its await with the values it was rendered with,   *)
(* also when its form is gone by then.  Meanwhile other users delete       *)
(* organizations, and another tab writes the stored selection.             *)
(*                                                                         *)
(* What a form holds is known by the organization it was typed for.  The   *)
(* user is an admin of every organization listed.                          *)
(***************************************************************************)
EXTENDS Naturals

CONSTANTS
  OrgIds,      \* ids of organizations, numbers from 1
  FirstOrgs,   \* those that exist at the start
  NameOf,      \* NameOf[o]: an organization's name; names are not unique
  TeamIds,     \* ids of teams, numbers from 1
  MaxOps       \* bound: what users do, and requests that fail

ASSUME OrgIdAssumption == OrgIds \subseteq Nat \ {0} /\ FirstOrgs \subseteq OrgIds
ASSUME TeamIdAssumption == TeamIds \subseteq Nat \ {0}
ASSUME OpsAssumption == MaxOps \in Nat

None == 0

VARIABLES
  \* auth-service
  orgs,          \* the user's organizations
  usedOrgs,      \* ids given to organizations so far
  owner,         \* owner[t]: a team's organization, None before it exists
  \* OrgContext
  listed,        \* organizations
  orgsLoading,   \* loading
  selected,      \* selectedOrgId
  stored,        \* localStorage's smspit_selected_org_id
  \* OrganizationsPage
  teams,         \* teams
  teamsState,    \* "loading", "shown", "error"
  effect,        \* number of the effect run that is not cancelled
  edit,          \* the organization the open edit form was typed for
  confirm,       \* the one whose name was typed to confirm a deletion
  teamText,      \* the one the text of the team form was typed for
  waiting,       \* forms that are disabled while their request runs
  orgCalls,      \* requests and responses on their way
  \* history
  crossed,       \* teams created under one selection and shown under another
  foreign,       \* another tab has changed the stored selection
  ops

accounts == <<orgs, usedOrgs, owner>>
forms == <<edit, confirm, teamText, waiting>>
panel == <<teams, teamsState, effect>>
orgHistory == <<crossed, foreign>>
orgVars == <<accounts, listed, orgsLoading, selected, stored, panel, forms,
             orgCalls, orgHistory, ops>>

Forms == {"edit", "delete", "team", "new"}

(* kind: the api/organizations.ts function; org, typed: the organization   *)
(* it names, and the one its text was typed for; pin: refetch's selectId   *)
(* (None: undefined); run: listTeams' effect run, else the act it is for;  *)
(* mounted: its form is the one on screen; at: "sent", "ok", "failed";     *)
(* result: ids in the response.                                            *)
Call(kind, org, typed, pin, run) ==
  [kind |-> kind, org |-> org, typed |-> typed, pin |-> pin, run |-> run,
   mounted |-> TRUE, at |-> "sent", result |-> {}]

ListCall(pin, run) == Call("list", None, None, pin, run)

OrgInit ==
  /\ orgs = FirstOrgs /\ usedOrgs = FirstOrgs
  /\ owner = [t \in TeamIds |-> None]
  /\ listed = {} /\ orgsLoading = TRUE
  /\ selected \in FirstOrgs \cup {None} /\ stored = selected
  /\ teams = {} /\ effect = 1
  /\ teamsState = IF selected = None THEN "shown" ELSE "loading"
  /\ edit = None /\ confirm = None /\ teamText = None /\ waiting = {}
  /\ orgCalls = {ListCall(None, 0)} \cup
       (IF selected = None THEN {} ELSE {Call("teams", selected, None, None, 1)})
  /\ crossed = {} /\ foreign = FALSE
  /\ ops = 0

Op == ops < MaxOps /\ ops' = ops + 1

(* What the page shows: the form of a user without organizations, or the   *)
(* panel of the selected organization.                                     *)
Shown ==
  IF orgsLoading \/ (listed # {} /\ selected \notin listed) THEN "nothing"
  ELSE IF listed = {} THEN "create" ELSE "panel"

PanelShown == Shown = "panel"

-----------------------------------------------------------------------------
(* Rendering                                                               *)

(* calls: the requests on their way after the handler that renders.  The   *)
(* forms keyed by the organization are mounted anew when it changes, which *)
(* the team form is not; all are when the panel was hidden.                *)
Detached(calls, kinds) ==
  {[c EXCEPT !.mounted = @ /\ c.kind \notin kinds] : c \in calls}

(* Variant: the forms without their key.                                   *)
SwitchFormsUnkeyed(calls) ==
  /\ UNCHANGED forms
  /\ orgCalls' = calls

SwitchForms(calls) ==
  /\ edit' = None /\ confirm' = None
  /\ waiting' = waiting \ {"edit", "delete"}
  /\ orgCalls' = Detached(calls, {"edit", "delete"})
  /\ UNCHANGED teamText

HideForms(calls) ==
  /\ edit' = None /\ confirm' = None /\ teamText' = None /\ waiting' = {}
  /\ orgCalls' = Detached(calls, Forms)

Render(calls) ==
  IF Shown' = "nothing" \/ Shown' # Shown THEN HideForms(calls)
  ELSE IF selected' # selected THEN SwitchForms(calls)
  ELSE UNCHANGED forms /\ orgCalls' = calls

(* The teams effect, whose dependencies are the selection and the retry    *)
(* token: what the run before it asked for is cancelled.                   *)
TeamsEffect(org, calls) ==
  IF org = None
  THEN /\ teams' = {} /\ teamsState' = "shown" /\ effect' = effect + 1
       /\ Render(calls)
  ELSE /\ teamsState' = "loading" /\ effect' = effect + 1 /\ UNCHANGED teams
       /\ Render(calls \cup {Call("teams", org, None, None, effect + 1)})

(* setSelectedOrgId, and the effect if that is a change.                   *)
Select(org, calls) ==
  /\ selected' = org /\ stored' = org
  /\ IF org = selected THEN UNCHANGED panel /\ Render(calls) ELSE TeamsEffect(org, calls)

(* refetch, up to its await: loading hides the panel.                      *)
StartRefetch(pin, run, calls) ==
  /\ orgsLoading' = TRUE
  /\ HideForms(calls \cup {ListCall(pin, run)})

-----------------------------------------------------------------------------
(* OrgContext                                                              *)

(* organizations[0], of a response in no particular order.                 *)
FirstOf(ids) == IF ids = {} THEN {None} ELSE ids

(* What refetch selects.  Variant: the pinned organization, unseen.        *)
ChosenUnseen(pin, ids) == IF pin = None THEN FirstOf(ids) ELSE {pin}

Chosen(pin, ids) ==
  IF pin = None THEN FirstOf(ids) ELSE IF pin \in ids THEN {pin} ELSE {None}

(* refetch after its await.  When the stored selection is still valid, the *)
(* state of this tab is left as it is.                                     *)
ReceiveOrgs ==
  \E c \in {d \in orgCalls : d.kind = "list" /\ d.at # "sent"} :
    LET rest == orgCalls \ {c}
    IN  /\ orgsLoading' = FALSE
        /\ IF c.at = "failed"
           THEN UNCHANGED <<listed, selected, stored, panel>> /\ Render(rest)
           ELSE /\ listed' = c.result
                /\ IF c.pin = None /\ stored \in c.result
                   THEN UNCHANGED <<selected, stored, panel>> /\ Render(rest)
                   ELSE \E org \in Chosen(c.pin, c.result) : Select(org, rest)
        /\ UNCHANGED <<accounts, orgHistory, ops>>

(* OrgSwitcher                                                             *)
Switch(org) ==
  /\ ~orgsLoading /\ org \in listed /\ Op
  /\ UNCHANGED <<accounts, listed, orgsLoading, orgHistory>>
  /\ Select(org, orgCalls)

-----------------------------------------------------------------------------
(* OrganizationsPage                                                       *)

(* Variant: without the effect's cancelled flag.                           *)
KeptRun(run) == TRUE
CurrentRun(run) == run = effect

ReceiveTeams ==
  \E c \in {d \in orgCalls : d.kind = "teams" /\ d.at # "sent"} :
    /\ orgCalls' = orgCalls \ {c}
    /\ IF ~CurrentRun(c.run) THEN UNCHANGED <<teams, teamsState>>
       ELSE IF c.at = "ok" THEN teams' = c.result /\ teamsState' = "shown"
       ELSE teamsState' = "error" /\ UNCHANGED teams
    /\ UNCHANGED <<accounts, listed, orgsLoading, selected, stored, effect, forms,
                   orgHistory, ops>>

RetryTeams ==
  /\ PanelShown /\ teamsState = "error" /\ Op
  /\ teamsState' = "loading" /\ effect' = effect + 1
  /\ orgCalls' = orgCalls \cup {Call("teams", selected, None, None, effect + 1)}
  /\ UNCHANGED <<accounts, listed, orgsLoading, selected, stored, teams, forms, orgHistory>>

(* EditOrganizationControls, DeleteOrganizationControl, CreateTeamForm: a  *)
(* form is opened or its text typed for the organization on screen.        *)
FillForms ==
  /\ PanelShown /\ Op
  /\ \/ edit' \in {selected, None} /\ UNCHANGED <<confirm, teamText>>
     \/ confirm' \in {selected, None} /\ UNCHANGED <<edit, teamText>>
     \/ teamText' \in {selected, None} /\ UNCHANGED <<edit, confirm>>
  /\ UNCHANGED <<accounts, listed, orgsLoading, selected, stored, panel, waiting,
                 orgCalls, orgHistory>>

(* A form's submit, of text typed for some organization.                   *)
Submit(form, org, typed) ==
  /\ form \notin waiting
  /\ waiting' = waiting \cup {form}
  /\ orgCalls' = orgCalls \cup {Call(form, org, typed, None, ops')}
  /\ UNCHANGED <<accounts, listed, orgsLoading, selected, stored, panel, edit,
                 confirm, teamText, orgHistory>>

SubmitEdit == PanelShown /\ edit # None /\ Op /\ Submit("edit", selected, edit)

(* The button is disabled until the text is the organization's name.       *)
ConfirmDelete ==
  /\ PanelShown /\ confirm # None /\ NameOf[confirm] = NameOf[selected] /\ Op
  /\ Submit("delete", selected, confirm)

(* NewOrganizationButton, or CreateOrganizationForm when there is none.    *)
SubmitNew ==
  /\ Shown # "nothing" /\ Op /\ Submit("new", None, None)

(* The name may have been typed before the selection changed.              *)
SubmitTeam ==
  /\ PanelShown /\ teamText # None /\ Op
  /\ Submit("team", selected, teamText)

(* A form's response: refetch for what concerns the organizations, pinned  *)
(* to the one created or edited; a team is appended to the list on screen, *)
(* whosever that is by now, and the team form cleared, whatever it holds.  *)
ReceiveForm ==
  \E c \in {d \in orgCalls : d.kind \in Forms /\ d.at # "sent"} :
    LET rest == orgCalls \ {c}
        freed == IF c.mounted THEN waiting \ {c.kind} ELSE waiting
    IN  /\ \/ /\ c.at = "failed"
              /\ waiting' = freed /\ orgCalls' = rest
              /\ UNCHANGED <<orgsLoading, teams, edit, confirm, teamText, crossed>>
           \/ /\ c.at = "ok" /\ c.kind = "edit"
              /\ StartRefetch(c.org, c.run, rest)
              /\ UNCHANGED <<teams, crossed>>
           \/ /\ c.at = "ok" /\ c.kind = "delete"
              /\ StartRefetch(None, c.run, rest)
              /\ UNCHANGED <<teams, crossed>>
           \/ /\ c.at = "ok" /\ c.kind = "new"
              /\ \E id \in c.result : StartRefetch(id, c.run, rest)
              /\ UNCHANGED <<teams, crossed>>
           \/ /\ c.at = "ok" /\ c.kind = "team"
              /\ teams' = teams \cup c.result
              /\ crossed' = IF selected = c.org THEN crossed ELSE crossed \cup c.result
              /\ waiting' = freed /\ orgCalls' = rest
              /\ teamText' = IF c.mounted THEN None ELSE teamText
              /\ UNCHANGED <<orgsLoading, edit, confirm>>
        /\ UNCHANGED <<accounts, listed, selected, stored, teamsState, effect, foreign, ops>>

-----------------------------------------------------------------------------
(* auth-service, and others                                                *)

TeamsOf(org) == {t \in TeamIds : owner[t] = org}

Answered(c, status, ids) ==
  orgCalls' = (orgCalls \ {c}) \cup {[c EXCEPT !.at = status, !.result = ids]}

ServeOrgCall ==
  \E c \in {d \in orgCalls : d.at = "sent"} :
    /\ \/ /\ c.kind = "list"
          /\ Answered(c, "ok", orgs) /\ UNCHANGED accounts
       \/ /\ c.kind = "new"
          /\ \E id \in OrgIds \ usedOrgs :
               /\ \A lower \in OrgIds \ usedOrgs : id <= lower
               /\ orgs' = orgs \cup {id} /\ usedOrgs' = usedOrgs \cup {id}
               /\ Answered(c, "ok", {id})
          /\ UNCHANGED owner
       \/ /\ c.kind \in {"teams", "edit"} /\ c.org \in orgs
          /\ Answered(c, "ok", IF c.kind = "teams" THEN TeamsOf(c.org) ELSE {c.org})
          /\ UNCHANGED accounts
       \/ /\ c.kind = "delete" /\ c.org \in orgs
          /\ orgs' = orgs \ {c.org}
          /\ Answered(c, "ok", {c.org}) /\ UNCHANGED <<usedOrgs, owner>>
       \/ /\ c.kind = "team" /\ c.org \in orgs
          /\ \E t \in TeamsOf(None) :
               /\ owner' = [owner EXCEPT ![t] = c.org]
               /\ Answered(c, "ok", {t})
          /\ UNCHANGED <<orgs, usedOrgs>>
    /\ UNCHANGED <<listed, orgsLoading, selected, stored, panel, forms, orgHistory, ops>>

(* An organization that is gone, a server that is down, ...                *)
OrgCallFails ==
  /\ \E c \in {d \in orgCalls : d.at = "sent"} :
       /\ (c.org \notin orgs \cup {None} /\ UNCHANGED ops) \/ Op
       /\ Answered(c, "failed", {})
  /\ UNCHANGED <<accounts, listed, orgsLoading, selected, stored, panel, forms, orgHistory>>

OthersDelete(org) ==
  /\ org \in orgs /\ Op
  /\ orgs' = orgs \ {org}
  /\ UNCHANGED <<usedOrgs, owner, listed, orgsLoading, selected, stored, panel, forms,
                 orgCalls, orgHistory>>

OtherTabSelects(org) ==
  /\ org \in orgs /\ org # stored /\ Op
  /\ stored' = org /\ foreign' = TRUE
  /\ UNCHANGED <<accounts, listed, orgsLoading, selected, panel, forms, orgCalls, crossed>>

OrgNext ==
  \/ ReceiveOrgs \/ ReceiveTeams \/ ReceiveForm \/ ServeOrgCall \/ OrgCallFails
  \/ RetryTeams \/ FillForms \/ SubmitEdit \/ ConfirmDelete \/ SubmitNew \/ SubmitTeam
  \/ \E org \in OrgIds : Switch(org) \/ OthersDelete(org) \/ OtherTabSelects(org)

OrgSpec == OrgInit /\ [][OrgNext]_orgVars

-----------------------------------------------------------------------------
(* Properties                                                              *)

OrgCalls ==
  [kind : Forms \cup {"list", "teams"}, org : OrgIds \cup {None},
   typed : OrgIds \cup {None}, pin : OrgIds \cup {None}, run : Nat,
   mounted : BOOLEAN, at : {"sent", "ok", "failed"}, result : SUBSET (OrgIds \cup TeamIds)]

OrgTypeOK ==
  /\ orgs \in SUBSET usedOrgs /\ usedOrgs \in SUBSET OrgIds
  /\ owner \in [TeamIds -> OrgIds \cup {None}]
  /\ listed \in SUBSET OrgIds /\ orgsLoading \in BOOLEAN
  /\ selected \in OrgIds \cup {None} /\ stored \in OrgIds \cup {None}
  /\ teams \in SUBSET TeamIds /\ teamsState \in {"loading", "shown", "error"}
  /\ effect \in Nat
  /\ edit \in OrgIds \cup {None} /\ confirm \in OrgIds \cup {None}
  /\ teamText \in OrgIds \cup {None}
  /\ waiting \in SUBSET Forms /\ orgCalls \in SUBSET OrgCalls
  /\ crossed \in SUBSET TeamIds /\ foreign \in BOOLEAN /\ ops \in 0..MaxOps

(* An edit, or a confirmed deletion, goes to the organization it was typed *)
(* for, however the selection changes and the list reloads meanwhile       *)
(* (OrganizationsPage.tsx:88-92).                                          *)
WritesHitTheirOrg ==
  \A c \in orgCalls : c.kind \in {"edit", "delete"} => c.org = c.typed

(* Once there is a list, the selection is in it or there is none, in       *)
(* whatever order overlapping reloads come, as long as no other tab writes *)
(* the stored selection (OrgContext.tsx:47-58).                            *)
SelectionIsListed ==
  listed # {} /\ ~foreign => selected \in listed \cup {None}

(* The teams on screen are the selected organization's, except one created *)
(* just before the selection changed, which CreateTeamForm appends to      *)
(* whatever list is there (OrganizationsPage.tsx:40-60, :120).             *)
TeamsAreOfSelection ==
  teamsState = "shown" => \A t \in teams \ crossed : owner[t] = selected

=============================================================================
