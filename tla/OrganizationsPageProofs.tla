----------------------- MODULE OrganizationsPageProofs ------------------------
(***************************************************************************)
(* Theorems about OrganizationsPage, for any sets of organizations and     *)
(* teams, any names, and any number of acts: edits and deletions go to the *)
(* organization they were typed for, the selection stays in the list, and  *)
(* the teams on screen are the selection's.                                *)
(***************************************************************************)
EXTENDS OrganizationsPage, TLAPS

(* What the edit and the deletion form hold is of the selection.           *)
FormsOfSelection == edit \in {None, selected} /\ confirm \in {None, selected}

(* The team form may hold text that was typed for another organization.    *)
FormsFit == teamText \in OrgIds \cup {None} /\ waiting \in SUBSET Forms

(* Only another tab sets the stored selection apart from this one's.       *)
StoredIsSelected == foreign \/ stored = selected

(* What is on its way: a response has ids of the kind its request asked    *)
(* for, and an edit or a deletion names the organization it was typed for. *)
CallsFit(calls) ==
  /\ calls \subseteq OrgCalls
  /\ \A c \in calls :
       /\ c.kind \in {"list", "new"} => c.result \subseteq OrgIds
       /\ c.kind \in {"teams", "team"} => c.result \subseteq TeamIds
       /\ c.kind \in {"edit", "delete"} => c.org = c.typed

TypeFits ==
  /\ orgs \in SUBSET usedOrgs /\ usedOrgs \in SUBSET OrgIds
  /\ owner \in [TeamIds -> OrgIds \cup {None}]
  /\ listed \in SUBSET OrgIds /\ orgsLoading \in BOOLEAN
  /\ selected \in OrgIds \cup {None} /\ stored \in OrgIds \cup {None}
  /\ teams \in SUBSET TeamIds /\ teamsState \in {"loading", "shown", "error"}
  /\ effect \in Nat
  /\ FormsFit
  /\ crossed \in SUBSET TeamIds /\ foreign \in BOOLEAN /\ ops \in 0..MaxOps

Inductive ==
  /\ TypeFits
  /\ CallsFit(orgCalls)
  /\ FormsOfSelection
  /\ StoredIsSelected
  /\ SelectionIsListed

-----------------------------------------------------------------------------
(* Requests                                                                *)

LEMMA CallFits ==
  ASSUME NEW kind \in Forms \cup {"list", "teams"},
         NEW org \in OrgIds \cup {None}, NEW typed \in OrgIds \cup {None},
         NEW pin \in OrgIds \cup {None}, NEW run \in Nat,
         kind \in {"edit", "delete"} => org = typed
  PROVE  CallsFit({Call(kind, org, typed, pin, run)})
BY DEF CallsFit, Call, OrgCalls, Forms

LEMMA UnionFits ==
  ASSUME NEW calls, NEW more, CallsFit(calls), CallsFit(more)
  PROVE  CallsFit(calls \cup more)
BY DEF CallsFit

LEMMA SubsetFits ==
  ASSUME NEW calls, NEW rest, CallsFit(calls), rest \subseteq calls
  PROVE  CallsFit(rest)
BY DEF CallsFit

(* To unmount a form changes neither what its request is nor its answer.   *)
LEMMA DetachedFits ==
  ASSUME NEW calls, NEW kinds, CallsFit(calls)
  PROVE  CallsFit(Detached(calls, kinds))
<1> SUFFICES ASSUME NEW c \in calls
             PROVE  CallsFit({[c EXCEPT !.mounted = @ /\ c.kind \notin kinds]})
  BY DEF CallsFit, Detached
<1> DEFINE d == [c EXCEPT !.mounted = @ /\ c.kind \notin kinds]
<1>1. c \in OrgCalls
  BY DEF CallsFit
<1>2. /\ d \in OrgCalls /\ d.kind = c.kind /\ d.org = c.org
      /\ d.typed = c.typed /\ d.result = c.result
  BY <1>1 DEF OrgCalls
<1> QED
  BY <1>2 DEF CallsFit

(* A request that is answered keeps its kind and its organization.         *)
LEMMA AnswerFits ==
  ASSUME CallsFit(orgCalls), NEW c \in orgCalls,
         NEW status \in {"ok", "failed"}, NEW ids \in SUBSET (OrgIds \cup TeamIds),
         c.kind \in {"list", "new"} => ids \subseteq OrgIds,
         c.kind \in {"teams", "team"} => ids \subseteq TeamIds,
         Answered(c, status, ids)
  PROVE  CallsFit(orgCalls')
<1> DEFINE d == [c EXCEPT !.at = status, !.result = ids]
<1>1. c \in OrgCalls
  BY DEF CallsFit
<1>2. /\ d \in OrgCalls /\ d.kind = c.kind /\ d.org = c.org
      /\ d.typed = c.typed /\ d.result = ids
  BY <1>1 DEF OrgCalls
<1>3. CallsFit({d})
  BY <1>2 DEF CallsFit
<1>4. CallsFit(orgCalls \ {c})
  BY SubsetFits
<1> QED
  BY <1>3, <1>4, UnionFits DEF Answered

-----------------------------------------------------------------------------
(* Rendering                                                               *)

(* An edit or a deletion that stays on screen is the selection's.          *)
LEMMA RenderFits ==
  ASSUME NEW calls, CallsFit(calls), Render(calls),
         FormsOfSelection, FormsFit
  PROVE  CallsFit(orgCalls') /\ FormsOfSelection' /\ FormsFit'
<1>1. CASE HideForms(calls)
  BY <1>1, DetachedFits DEF HideForms, FormsFit, FormsOfSelection
<1>2. CASE SwitchForms(calls)
  BY <1>2, DetachedFits DEF SwitchForms, FormsFit, FormsOfSelection
<1>3. CASE selected' = selected /\ UNCHANGED forms /\ orgCalls' = calls
  BY <1>3 DEF FormsFit, FormsOfSelection, forms
<1> QED
  BY <1>1, <1>2, <1>3 DEF Render

(* setSelectedOrgId with its effects.                                      *)
LEMMA SelectFits ==
  ASSUME Inductive, NEW org \in OrgIds \cup {None},
         NEW calls, CallsFit(calls), Select(org, calls)
  PROVE  /\ CallsFit(orgCalls') /\ FormsOfSelection' /\ FormsFit'
         /\ selected' = org /\ stored' = org
         /\ teams' \in SUBSET TeamIds /\ teamsState' \in {"loading", "shown", "error"}
         /\ effect' \in Nat
<1>1. selected' = org /\ stored' = org
  BY DEF Select
<1>2. CASE org = selected
  BY <1>1, <1>2, RenderFits DEF Inductive, TypeFits, Select, panel
<1>3. CASE org # selected
  <2>1. TeamsEffect(org, calls)
    BY <1>3 DEF Select
  <2>2. CASE org = None
    BY <1>1, <2>1, <2>2, RenderFits DEF Inductive, TypeFits, TeamsEffect
  <2>3. CASE org # None
    <3> DEFINE more == calls \cup {Call("teams", org, None, None, effect + 1)}
    <3>1. CallsFit({Call("teams", org, None, None, effect + 1)})
      <4>1. effect + 1 \in Nat
        BY DEF Inductive, TypeFits
      <4> QED
        BY <4>1, CallFits
    <3>2. CallsFit(more)
      BY <3>1, UnionFits
    <3>3. Render(more)
      BY <2>1, <2>3 DEF TeamsEffect
    <3> QED
      BY <1>1, <2>1, <2>3, <3>2, <3>3, RenderFits DEF Inductive, TypeFits, TeamsEffect
  <2> QED
    BY <2>2, <2>3
<1> QED
  BY <1>2, <1>3

(* refetch up to its await hides every form.                               *)
LEMMA StartRefetchFits ==
  ASSUME NEW pin \in OrgIds \cup {None}, NEW run \in Nat, FormsFit,
         NEW calls, CallsFit(calls), StartRefetch(pin, run, calls)
  PROVE  /\ CallsFit(orgCalls') /\ FormsOfSelection' /\ FormsFit'
         /\ orgsLoading' = TRUE
<1>1. CallsFit({ListCall(pin, run)})
  BY CallFits DEF ListCall
<1>2. CallsFit(calls \cup {ListCall(pin, run)})
  BY <1>1, UnionFits
<1> QED
  BY <1>2, DetachedFits DEF StartRefetch, HideForms, FormsFit, FormsOfSelection

-----------------------------------------------------------------------------
(* Each action keeps the invariant                                         *)

LEMMA InitFits == OrgInit => Inductive
<1> SUFFICES ASSUME OrgInit PROVE Inductive
  OBVIOUS
<1>1. TypeFits
  <2>1. selected \in OrgIds \cup {None} /\ stored = selected
    BY OrgIdAssumption DEF OrgInit
  <2>2. teamsState \in {"loading", "shown", "error"}
    BY DEF OrgInit
  <2>3. orgs \in SUBSET usedOrgs /\ usedOrgs \in SUBSET OrgIds /\ ops \in 0..MaxOps
    BY OrgIdAssumption, OpsAssumption DEF OrgInit
  <2>4. owner \in [TeamIds -> OrgIds \cup {None}]
    BY DEF OrgInit
  <2> QED
    BY <2>1, <2>2, <2>3, <2>4 DEF OrgInit, TypeFits, FormsFit
<1>2. CallsFit({ListCall(None, 0)})
  BY CallFits DEF ListCall
<1>3. selected # None => CallsFit({Call("teams", selected, None, None, 1)})
  BY <1>1, CallFits DEF TypeFits
<1>4. CallsFit({})
  BY DEF CallsFit
<1>5. CallsFit(orgCalls)
  BY <1>2, <1>3, <1>4, UnionFits DEF OrgInit
<1> QED
  BY <1>1, <1>5 DEF OrgInit, Inductive, FormsOfSelection, StoredIsSelected, SelectionIsListed

LEMMA ReceiveOrgsFits == Inductive /\ ReceiveOrgs => Inductive'
<1> SUFFICES ASSUME Inductive, ReceiveOrgs PROVE Inductive'
  OBVIOUS
<1>1. PICK c \in {d \in orgCalls : d.kind = "list" /\ d.at # "sent"} :
        LET rest == orgCalls \ {c}
        IN  /\ orgsLoading' = FALSE
            /\ IF c.at = "failed"
               THEN UNCHANGED <<listed, selected, stored, panel>> /\ Render(rest)
               ELSE /\ listed' = c.result
                    /\ IF c.pin = None /\ stored \in c.result
                       THEN UNCHANGED <<selected, stored, panel>> /\ Render(rest)
                       ELSE \E org \in Chosen(c.pin, c.result) : Select(org, rest)
            /\ UNCHANGED <<accounts, orgHistory, ops>>
  BY DEF ReceiveOrgs
<1> DEFINE rest == orgCalls \ {c}
<1>2. /\ CallsFit(rest) /\ c.result \subseteq OrgIds /\ c.pin \in OrgIds \cup {None}
  BY SubsetFits DEF Inductive, CallsFit, OrgCalls
<1>3. CASE c.at = "failed"
  <2>1. CallsFit(orgCalls') /\ FormsOfSelection' /\ FormsFit'
    BY <1>1, <1>2, <1>3, RenderFits DEF Inductive, TypeFits
  <2> QED
    BY <1>1, <1>3, <2>1
       DEF Inductive, TypeFits, StoredIsSelected, SelectionIsListed, accounts, panel, orgHistory
<1>4. CASE c.at # "failed" /\ c.pin = None /\ stored \in c.result
  <2>1. CallsFit(orgCalls') /\ FormsOfSelection' /\ FormsFit'
    BY <1>1, <1>2, <1>4, RenderFits DEF Inductive, TypeFits
  <2>2. SelectionIsListed' /\ StoredIsSelected'
    BY <1>1, <1>4 DEF Inductive, StoredIsSelected, SelectionIsListed, orgHistory
  <2> QED
    BY <1>1, <1>2, <1>4, <2>1, <2>2 DEF Inductive, TypeFits, accounts, panel, orgHistory
<1>5. CASE c.at # "failed" /\ ~(c.pin = None /\ stored \in c.result)
  <2>1. PICK org \in Chosen(c.pin, c.result) : Select(org, rest)
    BY <1>1, <1>5
  <2>2. org \in c.result \cup {None} /\ org \in OrgIds \cup {None}
    BY <1>2, <2>1 DEF Chosen, FirstOf
  <2>3. /\ CallsFit(orgCalls') /\ FormsOfSelection' /\ FormsFit'
        /\ selected' = org /\ stored' = org
        /\ teams' \in SUBSET TeamIds /\ teamsState' \in {"loading", "shown", "error"}
        /\ effect' \in Nat
    BY <1>2, <2>1, <2>2, SelectFits
  <2>4. listed' = c.result /\ orgsLoading' = FALSE /\ UNCHANGED <<accounts, orgHistory, ops>>
    BY <1>1, <1>5
  <2> QED
    BY <1>2, <2>2, <2>3, <2>4
       DEF Inductive, TypeFits, StoredIsSelected, SelectionIsListed, accounts, orgHistory
<1> QED
  BY <1>3, <1>4, <1>5

LEMMA SwitchFits ==
  ASSUME NEW org \in OrgIds, Inductive, Switch(org)
  PROVE  Inductive'
<1>1. /\ CallsFit(orgCalls') /\ FormsOfSelection' /\ FormsFit'
      /\ selected' = org /\ stored' = org
      /\ teams' \in SUBSET TeamIds /\ teamsState' \in {"loading", "shown", "error"}
      /\ effect' \in Nat
  BY SelectFits DEF Switch, Inductive
<1>2. ops' \in 0..MaxOps
  BY OpsAssumption DEF Switch, Op, Inductive, TypeFits
<1> QED
  BY <1>1, <1>2
     DEF Switch, Inductive, TypeFits, StoredIsSelected, SelectionIsListed, accounts, orgHistory

LEMMA ReceiveTeamsFits == Inductive /\ ReceiveTeams => Inductive'
<1> SUFFICES ASSUME Inductive, ReceiveTeams PROVE Inductive'
  OBVIOUS
<1>1. CallsFit(orgCalls')
  BY SubsetFits DEF ReceiveTeams, Inductive
<1>2. teams' \in SUBSET TeamIds /\ teamsState' \in {"loading", "shown", "error"}
  BY DEF ReceiveTeams, Inductive, TypeFits, CallsFit
<1> QED
  BY <1>1, <1>2
     DEF ReceiveTeams, Inductive, TypeFits, FormsFit, FormsOfSelection, StoredIsSelected,
         SelectionIsListed, accounts, forms, orgHistory

LEMMA RetryTeamsFits == Inductive /\ RetryTeams => Inductive'
<1> SUFFICES ASSUME Inductive, RetryTeams PROVE Inductive'
  OBVIOUS
<1>1. effect + 1 \in Nat /\ ops' \in 0..MaxOps
  BY OpsAssumption DEF RetryTeams, Op, Inductive, TypeFits
<1>2. selected \in OrgIds \cup {None}
  BY DEF Inductive, TypeFits
<1>3. CallsFit({Call("teams", selected, None, None, effect + 1)})
  BY <1>1, <1>2, CallFits
<1>4. CallsFit(orgCalls')
  BY <1>3, UnionFits DEF RetryTeams, Inductive
<1> QED
  BY <1>1, <1>4
     DEF RetryTeams, Inductive, TypeFits, FormsFit, FormsOfSelection, StoredIsSelected,
         SelectionIsListed, accounts, forms, orgHistory

LEMMA FillFormsFits == Inductive /\ FillForms => Inductive'
BY OpsAssumption
   DEF FillForms, Op, Inductive, TypeFits, FormsFit, FormsOfSelection, StoredIsSelected,
       SelectionIsListed, accounts, panel, orgHistory

(* A submit sends the organization selected; an edit or a deletion was     *)
(* typed for that one.                                                     *)
LEMMA SubmitFits ==
  ASSUME Inductive, Op, NEW form \in Forms,
         NEW org \in OrgIds \cup {None}, NEW typed \in OrgIds \cup {None},
         form \in {"edit", "delete"} => org = typed,
         Submit(form, org, typed)
  PROVE  Inductive'
<1>1. ops' \in 0..MaxOps /\ ops' \in Nat
  BY OpsAssumption DEF Op, Inductive, TypeFits
<1>2. CallsFit({Call(form, org, typed, None, ops')})
  BY <1>1, CallFits
<1>3. CallsFit(orgCalls')
  BY <1>2, UnionFits DEF Submit, Inductive
<1> QED
  BY <1>1, <1>3
     DEF Submit, Inductive, TypeFits, FormsFit, FormsOfSelection, StoredIsSelected,
         SelectionIsListed, accounts, panel, orgHistory

LEMMA SubmitsFit ==
  Inductive /\ (SubmitEdit \/ ConfirmDelete \/ SubmitNew \/ SubmitTeam) => Inductive'
<1> SUFFICES ASSUME Inductive PROVE
      SubmitEdit \/ ConfirmDelete \/ SubmitNew \/ SubmitTeam => Inductive'
  OBVIOUS
<1>1. selected \in OrgIds \cup {None} /\ None \in OrgIds \cup {None}
  BY DEF Inductive, TypeFits
<1>2. (edit # None => edit = selected) /\ (confirm # None => confirm = selected)
  BY DEF Inductive, FormsOfSelection
<1>3. SubmitEdit => Inductive'
  BY <1>1, <1>2, SubmitFits DEF SubmitEdit, Forms
<1>4. ConfirmDelete => Inductive'
  BY <1>1, <1>2, SubmitFits DEF ConfirmDelete, Forms
<1>5. SubmitNew => Inductive'
  BY <1>1, SubmitFits DEF SubmitNew, Forms
<1>6. SubmitTeam => Inductive'
  BY <1>1, SubmitFits DEF SubmitTeam, Forms, Inductive, TypeFits, FormsFit
<1> QED
  BY <1>3, <1>4, <1>5, <1>6

LEMMA ReceiveFormFits == Inductive /\ ReceiveForm => Inductive'
<1> SUFFICES ASSUME Inductive, ReceiveForm PROVE Inductive'
  OBVIOUS
<1>1. PICK c \in {d \in orgCalls : d.kind \in Forms /\ d.at # "sent"} :
    LET rest == orgCalls \ {c}
        freed == IF c.mounted THEN waiting \ {c.kind} ELSE waiting
    IN  /\ \/ /\ c.at = "failed"
              /\ waiting' = freed /\ orgCalls' = rest
              /\ UNCHANGED <<orgsLoading, teams, edit, confirm, teamText, crossed>>
           \/ /\ c.at = "ok" /\ c.kind = "edit"
              /\ StartRefetch(c.org, c.run, rest)
              /\ UNCHANGED <<teams, crossed>>
           \/ /\ c.at = "ok" /\ c.kind = "delete"
              /\ StartRefetch(None, c.run, rest)
              /\ UNCHANGED <<teams, crossed>>
           \/ /\ c.at = "ok" /\ c.kind = "new"
              /\ \E id \in c.result : StartRefetch(id, c.run, rest)
              /\ UNCHANGED <<teams, crossed>>
           \/ /\ c.at = "ok" /\ c.kind = "team"
              /\ teams' = teams \cup c.result
              /\ crossed' = IF selected = c.org THEN crossed ELSE crossed \cup c.result
              /\ waiting' = freed /\ orgCalls' = rest
              /\ teamText' = IF c.mounted THEN None ELSE teamText
              /\ UNCHANGED <<orgsLoading, edit, confirm>>
        /\ UNCHANGED <<accounts, listed, selected, stored, teamsState, effect, foreign, ops>>
  BY DEF ReceiveForm
<1> DEFINE rest == orgCalls \ {c}
<1>2. /\ CallsFit(rest) /\ FormsFit
      /\ c.org \in OrgIds \cup {None} /\ None \in OrgIds \cup {None} /\ c.run \in Nat
      /\ c.kind = "new" => c.result \subseteq OrgIds
      /\ c.kind = "team" => c.result \subseteq TeamIds
  BY SubsetFits DEF Inductive, TypeFits, CallsFit, OrgCalls
<1>3. /\ CallsFit(orgCalls') /\ FormsOfSelection' /\ FormsFit'
      /\ orgsLoading' \in BOOLEAN /\ teams' \in SUBSET TeamIds /\ crossed' \in SUBSET TeamIds
  <2>1. CASE c.at = "failed" \/ c.kind = "team"
    <3>1. /\ orgCalls' = rest /\ UNCHANGED <<orgsLoading, edit, confirm, selected>>
          /\ waiting' \subseteq waiting /\ teamText' \in {teamText, None}
      BY <1>1, <2>1 DEF StartRefetch
    <3>2. teams' \in SUBSET TeamIds /\ crossed' \in SUBSET TeamIds
      BY <1>1, <1>2, <2>1 DEF Inductive, TypeFits
    <3> QED
      BY <1>2, <3>1, <3>2 DEF Inductive, TypeFits, FormsFit, FormsOfSelection
  <2>2. CASE c.at # "failed" /\ c.kind # "team"
    <3>1. /\ \E pin \in OrgIds \cup {None} : StartRefetch(pin, c.run, rest)
          /\ UNCHANGED <<teams, crossed>>
      BY <1>1, <1>2, <2>2
    <3> QED
      BY <1>2, <3>1, StartRefetchFits DEF Inductive, TypeFits
  <2> QED
    BY <2>1, <2>2
<1>4. UNCHANGED <<accounts, listed, selected, stored, teamsState, effect, foreign, ops>>
  BY <1>1
<1> QED
  BY <1>3, <1>4 DEF Inductive, TypeFits, StoredIsSelected, SelectionIsListed, accounts

LEMMA ServeOrgCallFits == Inductive /\ ServeOrgCall => Inductive'
<1> SUFFICES ASSUME Inductive, ServeOrgCall PROVE Inductive'
  OBVIOUS
<1>1. PICK c \in {d \in orgCalls : d.at = "sent"} :
        \/ /\ c.kind = "list"
           /\ Answered(c, "ok", orgs) /\ UNCHANGED accounts
        \/ /\ c.kind = "new"
           /\ \E id \in OrgIds \ usedOrgs :
                /\ \A lower \in OrgIds \ usedOrgs : id <= lower
                /\ orgs' = orgs \cup {id} /\ usedOrgs' = usedOrgs \cup {id}
                /\ Answered(c, "ok", {id})
           /\ UNCHANGED owner
        \/ /\ c.kind \in {"teams", "edit"} /\ c.org \in orgs
           /\ Answered(c, "ok", IF c.kind = "teams" THEN TeamsOf(c.org) ELSE {c.org})
           /\ UNCHANGED accounts
        \/ /\ c.kind = "delete" /\ c.org \in orgs
           /\ orgs' = orgs \ {c.org}
           /\ Answered(c, "ok", {c.org}) /\ UNCHANGED <<usedOrgs, owner>>
        \/ /\ c.kind = "team" /\ c.org \in orgs
           /\ \E t \in TeamsOf(None) :
                /\ owner' = [owner EXCEPT ![t] = c.org]
                /\ Answered(c, "ok", {t})
           /\ UNCHANGED <<orgs, usedOrgs>>
  BY DEF ServeOrgCall
<1>2. /\ orgs \subseteq OrgIds /\ orgs \subseteq usedOrgs /\ usedOrgs \subseteq OrgIds
      /\ owner \in [TeamIds -> OrgIds \cup {None}] /\ CallsFit(orgCalls)
  BY DEF Inductive, TypeFits
<1>3. CallsFit(orgCalls')
  <2> DEFINE Fits(ids) ==
        /\ ids \in SUBSET (OrgIds \cup TeamIds)
        /\ c.kind \in {"list", "new"} => ids \subseteq OrgIds
        /\ c.kind \in {"teams", "team"} => ids \subseteq TeamIds
        /\ Answered(c, "ok", ids)
  <2>1. c \in orgCalls /\ CallsFit(orgCalls)
    BY <1>2
  <2>2. ASSUME NEW ids, Fits(ids) PROVE CallsFit(orgCalls')
    BY <2>1, <2>2, AnswerFits
  <2>3. CASE c.kind = "list" /\ Answered(c, "ok", orgs)
    <3>1. Fits(orgs)
      BY <1>2, <2>3
    <3> QED
      BY <3>1, <2>2
  <2>4. CASE c.kind = "new" /\ \E id \in OrgIds : Answered(c, "ok", {id})
    <3>1. PICK id \in OrgIds : Answered(c, "ok", {id})
      BY <2>4
    <3>2. Fits({id})
      BY <2>4, <3>1
    <3> QED
      BY <3>2, <2>2
  <2>5. CASE c.kind = "teams" /\ Answered(c, "ok", TeamsOf(c.org))
    <3>1. Fits(TeamsOf(c.org))
      BY <2>5 DEF TeamsOf
    <3> QED
      BY <3>1, <2>2
  <2>6. CASE c.kind \in {"edit", "delete"} /\ c.org \in orgs /\ Answered(c, "ok", {c.org})
    <3>1. Fits({c.org})
      BY <1>2, <2>6
    <3> QED
      BY <3>1, <2>2
  <2>7. CASE c.kind = "team" /\ \E t \in TeamIds : Answered(c, "ok", {t})
    <3>1. PICK t \in TeamIds : Answered(c, "ok", {t})
      BY <2>7
    <3>2. Fits({t})
      BY <2>7, <3>1
    <3> QED
      BY <3>2, <2>2
  <2>8. \/ c.kind = "list" /\ Answered(c, "ok", orgs)
        \/ c.kind = "new" /\ \E id \in OrgIds : Answered(c, "ok", {id})
        \/ c.kind = "teams" /\ Answered(c, "ok", TeamsOf(c.org))
        \/ c.kind \in {"edit", "delete"} /\ c.org \in orgs /\ Answered(c, "ok", {c.org})
        \/ c.kind = "team" /\ \E t \in TeamIds : Answered(c, "ok", {t})
    BY <1>1 DEF TeamsOf
  <2> QED
    BY <2>3, <2>4, <2>5, <2>6, <2>7, <2>8
<1>4. /\ orgs' \in SUBSET usedOrgs' /\ usedOrgs' \in SUBSET OrgIds
      /\ owner' \in [TeamIds -> OrgIds \cup {None}]
  BY <1>1, <1>2 DEF accounts
<1> QED
  BY <1>3, <1>4
     DEF ServeOrgCall, Inductive, TypeFits, FormsFit, FormsOfSelection, StoredIsSelected,
         SelectionIsListed, panel, forms, orgHistory

LEMMA OrgCallFailsFits == Inductive /\ OrgCallFails => Inductive'
<1> SUFFICES ASSUME Inductive, OrgCallFails PROVE Inductive'
  OBVIOUS
<1>1. CallsFit(orgCalls')
  BY AnswerFits DEF OrgCallFails, Inductive
<1>2. ops' \in 0..MaxOps
  BY OpsAssumption DEF OrgCallFails, Op, Inductive, TypeFits
<1> QED
  BY <1>1, <1>2
     DEF OrgCallFails, Inductive, TypeFits, FormsFit, FormsOfSelection, StoredIsSelected,
         SelectionIsListed, accounts, panel, forms, orgHistory

LEMMA OthersFit ==
  ASSUME NEW org \in OrgIds, Inductive, OthersDelete(org) \/ OtherTabSelects(org)
  PROVE  Inductive'
<1>1. ops' \in 0..MaxOps
  BY OpsAssumption DEF OthersDelete, OtherTabSelects, Op, Inductive, TypeFits
<1>2. CASE OthersDelete(org)
  BY <1>1, <1>2
     DEF OthersDelete, Inductive, TypeFits, FormsFit, FormsOfSelection, StoredIsSelected,
         SelectionIsListed, panel, forms, orgHistory
<1>3. CASE OtherTabSelects(org)
  BY <1>1, <1>3
     DEF OtherTabSelects, Inductive, TypeFits, FormsFit, FormsOfSelection, StoredIsSelected,
         SelectionIsListed, accounts, panel, forms
<1> QED
  BY <1>2, <1>3

LEMMA StutterFits == Inductive /\ UNCHANGED orgVars => Inductive'
BY DEF orgVars, Inductive, TypeFits, FormsFit, FormsOfSelection, StoredIsSelected,
       SelectionIsListed, accounts, panel, forms, orgHistory

-----------------------------------------------------------------------------
(* The theorems                                                            *)

(* The invariant holds whatever users, other users and other tabs do, and  *)
(* in whatever order responses come (OrgContext.tsx, OrganizationsPage.tsx). *)
THEOREM OrgInvariance == OrgSpec => []Inductive
<1>1. Inductive /\ [OrgNext]_orgVars => Inductive'
  <2> SUFFICES ASSUME Inductive, [OrgNext]_orgVars PROVE Inductive'
    OBVIOUS
  <2>1. CASE ReceiveOrgs
    BY <2>1, ReceiveOrgsFits
  <2>2. CASE ReceiveTeams
    BY <2>2, ReceiveTeamsFits
  <2>3. CASE ReceiveForm
    BY <2>3, ReceiveFormFits
  <2>4. CASE ServeOrgCall
    BY <2>4, ServeOrgCallFits
  <2>5. CASE OrgCallFails
    BY <2>5, OrgCallFailsFits
  <2>6. CASE RetryTeams
    BY <2>6, RetryTeamsFits
  <2>7. CASE FillForms
    BY <2>7, FillFormsFits
  <2>8. CASE SubmitEdit \/ ConfirmDelete \/ SubmitNew \/ SubmitTeam
    BY <2>8, SubmitsFit
  <2>9. CASE \E org \in OrgIds : Switch(org)
    BY <2>9, SwitchFits
  <2>10. CASE \E org \in OrgIds : OthersDelete(org) \/ OtherTabSelects(org)
    BY <2>10, OthersFit
  <2>11. CASE UNCHANGED orgVars
    BY <2>11, StutterFits
  <2> QED
    BY <2>1, <2>2, <2>3, <2>4, <2>5, <2>6, <2>7, <2>8, <2>9, <2>10, <2>11 DEF OrgNext
<1> QED
  BY <1>1, InitFits, PTL DEF OrgSpec

(* Every variable of the organizations' page keeps its type.               *)
THEOREM OrgTypeCorrect == OrgSpec => []OrgTypeOK
<1>1. Inductive => OrgTypeOK
  BY DEF Inductive, TypeFits, CallsFit, FormsFit, FormsOfSelection, OrgTypeOK
<1> QED
  BY <1>1, OrgInvariance, PTL

(* No edit and no confirmed deletion goes to another organization than the *)
(* one it was typed for (OrganizationsPage.tsx:88-92).                     *)
THEOREM FormsWriteToTheirOrg == OrgSpec => []WritesHitTheirOrg
<1>1. Inductive => WritesHitTheirOrg
  BY DEF Inductive, CallsFit, WritesHitTheirOrg
<1> QED
  BY <1>1, OrgInvariance, PTL

(* The selection is in the list, or there is none, unless another tab has  *)
(* written the stored selection (OrgContext.tsx:47-58).                    *)
THEOREM SelectionStaysListed == OrgSpec => []SelectionIsListed
<1>1. Inductive => SelectionIsListed
  BY DEF Inductive
<1> QED
  BY <1>1, OrgInvariance, PTL

-----------------------------------------------------------------------------
(* The teams on screen                                                     *)

(* own, run, org: the owners of teams, the effect run that counts and the  *)
(* selection.  A response with teams has those of the organization it was  *)
(* asked for, and the request of the run that counts is for the selection. *)
TeamsFit(calls, own, run, org) ==
  \A c \in calls :
    /\ c.kind \in {"teams", "team"} => \A t \in c.result : own[t] = c.org /\ c.org # None
    /\ c.kind = "teams" => c.run <= run /\ (c.run = run => c.org = org)

ShownTeamsFit ==
  teamsState = "shown" => \A t \in teams \ crossed : owner[t] = selected /\ selected # None

TeamsInductive == TeamsFit(orgCalls, owner, effect, selected) /\ ShownTeamsFit

LEMMA TeamsSubset ==
  ASSUME NEW calls, NEW rest, NEW own, NEW run, NEW org,
         TeamsFit(calls, own, run, org), rest \subseteq calls
  PROVE  TeamsFit(rest, own, run, org)
BY DEF TeamsFit

LEMMA TeamsUnion ==
  ASSUME NEW calls, NEW more, NEW own, NEW run, NEW org,
         TeamsFit(calls, own, run, org), TeamsFit(more, own, run, org)
  PROVE  TeamsFit(calls \cup more, own, run, org)
BY DEF TeamsFit

LEMMA NewCallTeams ==
  ASSUME NEW kind, NEW org, NEW typed, NEW pin, NEW n, NEW own, NEW run \in Nat, NEW sel,
         kind = "teams" => n = run /\ org = sel
  PROVE  TeamsFit({Call(kind, org, typed, pin, n)}, own, run, sel)
BY DEF TeamsFit, Call

LEMMA DetachedTeams ==
  ASSUME NEW calls, calls \subseteq OrgCalls, NEW kinds, NEW own, NEW run, NEW org,
         TeamsFit(calls, own, run, org)
  PROVE  TeamsFit(Detached(calls, kinds), own, run, org)
<1> SUFFICES ASSUME NEW d \in Detached(calls, kinds)
             PROVE  TeamsFit({d}, own, run, org)
  BY DEF TeamsFit
<1>1. PICK c \in calls : d = [c EXCEPT !.mounted = @ /\ c.kind \notin kinds]
  BY DEF Detached
<1>2. d.kind = c.kind /\ d.org = c.org /\ d.run = c.run /\ d.result = c.result
  BY <1>1 DEF OrgCalls
<1> QED
  BY <1>2 DEF TeamsFit

(* A run that counts no more has nothing to say about the selection.       *)
LEMMA NextRunTeams ==
  ASSUME NEW calls, calls \subseteq OrgCalls, NEW own, NEW run \in Nat, NEW org, NEW next,
         TeamsFit(calls, own, run, org)
  PROVE  TeamsFit(calls, own, run + 1, next)
<1>1. \A c \in calls : c.run \in Nat
  BY DEF OrgCalls
<1> QED
  BY <1>1 DEF TeamsFit

LEMMA RenderTeams ==
  ASSUME NEW calls, calls \subseteq OrgCalls, Render(calls),
         NEW own, NEW run, NEW org, TeamsFit(calls, own, run, org)
  PROVE  TeamsFit(orgCalls', own, run, org)
<1>1. orgCalls' = calls \/ \E kinds : orgCalls' = Detached(calls, kinds)
  BY DEF Render, HideForms, SwitchForms
<1> QED
  BY <1>1, DetachedTeams

LEMMA SelectTeams ==
  ASSUME Inductive, TeamsInductive, NEW org \in OrgIds \cup {None},
         NEW calls, calls \subseteq orgCalls, Select(org, calls), UNCHANGED <<owner, crossed>>
  PROVE  TeamsInductive'
<1>1. /\ calls \subseteq OrgCalls /\ TeamsFit(calls, owner, effect, selected)
      /\ effect \in Nat /\ effect + 1 \in Nat /\ selected' = org
  BY TeamsSubset DEF Inductive, TypeFits, CallsFit, TeamsInductive, Select
<1>2. CASE org = selected
  <2>1. Render(calls) /\ UNCHANGED <<teams, teamsState, effect, selected>>
    BY <1>1, <1>2 DEF Select, panel
  <2>2. TeamsFit(orgCalls', owner, effect, selected)
    BY <1>1, <2>1, RenderTeams
  <2> QED
    BY <2>1, <2>2 DEF TeamsInductive, ShownTeamsFit
<1>3. CASE org # selected
  <2>1. TeamsEffect(org, calls)
    BY <1>3 DEF Select
  <2>2. effect' = effect + 1 /\ TeamsFit(calls, owner, effect + 1, org)
    BY <1>1, <2>1, NextRunTeams DEF TeamsEffect
  <2>3. ShownTeamsFit'
    BY <2>1 DEF TeamsEffect, ShownTeamsFit
  <2>4. TeamsFit(orgCalls', owner, effect + 1, org)
    <3>1. CASE org = None
      BY <1>1, <2>1, <2>2, <3>1, RenderTeams DEF TeamsEffect
    <3>2. CASE org # None
      <4> DEFINE new == Call("teams", org, None, None, effect + 1)
      <4>1. Render(calls \cup {new})
        BY <2>1, <3>2 DEF TeamsEffect
      <4>2. TeamsFit({new}, owner, effect + 1, org)
        BY <1>1, NewCallTeams
      <4>3. TeamsFit(calls \cup {new}, owner, effect + 1, org)
        BY <2>2, <4>2, TeamsUnion
      <4>4. {new} \subseteq OrgCalls
        <5>1. CallsFit({new})
          BY <1>1, CallFits
        <5> QED
          BY <5>1 DEF CallsFit
      <4> HIDE DEF new
      <4> QED
        BY <1>1, <4>1, <4>3, <4>4, RenderTeams
    <3> QED
      BY <3>1, <3>2
  <2> QED
    BY <1>1, <2>2, <2>3, <2>4 DEF TeamsInductive
<1> QED
  BY <1>2, <1>3

LEMMA InitTeams == OrgInit => TeamsInductive
<1> SUFFICES ASSUME OrgInit PROVE TeamsInductive
  OBVIOUS
<1>1. TeamsFit({ListCall(None, 0)}, owner, effect, selected)
  BY NewCallTeams DEF OrgInit, ListCall
<1>2. TeamsFit({Call("teams", selected, None, None, 1)}, owner, effect, selected)
  BY NewCallTeams DEF OrgInit
<1>3. TeamsFit({}, owner, effect, selected)
  BY DEF TeamsFit
<1>4. TeamsFit(orgCalls, owner, effect, selected)
  BY <1>1, <1>2, <1>3, TeamsUnion DEF OrgInit
<1> QED
  BY <1>4 DEF OrgInit, TeamsInductive, ShownTeamsFit

LEMMA ReceiveOrgsTeams ==
  ASSUME Inductive, TeamsInductive, ReceiveOrgs PROVE TeamsInductive'
<1>1. PICK c \in orgCalls :
        LET rest == orgCalls \ {c}
        IN  /\ c.kind = "list"
            /\ \/ UNCHANGED <<selected, panel>> /\ Render(rest)
               \/ \E org \in Chosen(c.pin, c.result) : Select(org, rest)
            /\ UNCHANGED <<accounts, orgHistory>>
  BY DEF ReceiveOrgs
<1> DEFINE rest == orgCalls \ {c}
<1>2. rest \subseteq orgCalls /\ rest \subseteq OrgCalls /\ UNCHANGED <<owner, crossed>>
  BY <1>1 DEF Inductive, CallsFit, accounts, orgHistory
<1>3. CASE UNCHANGED <<selected, panel>> /\ Render(rest)
  <2>1. TeamsFit(rest, owner, effect, selected)
    BY <1>2, TeamsSubset DEF TeamsInductive
  <2>2. TeamsFit(orgCalls', owner, effect, selected)
    BY <1>2, <1>3, <2>1, RenderTeams
  <2> QED
    BY <1>2, <1>3, <2>2 DEF TeamsInductive, ShownTeamsFit, panel
<1>4. CASE \E org \in Chosen(c.pin, c.result) : Select(org, rest)
  <2>1. PICK org \in Chosen(c.pin, c.result) : Select(org, rest)
    BY <1>4
  <2>2. c.result \subseteq OrgIds
    BY <1>1 DEF Inductive, CallsFit
  <2>3. org \in OrgIds \cup {None}
    BY <2>1, <2>2 DEF Chosen, FirstOf
  <2> QED
    BY <1>2, <2>1, <2>3, SelectTeams
<1> QED
  BY <1>1, <1>3, <1>4

LEMMA ReceiveTeamsTeams ==
  ASSUME Inductive, TeamsInductive, ReceiveTeams PROVE TeamsInductive'
<1>1. PICK c \in {d \in orgCalls : d.kind = "teams" /\ d.at # "sent"} :
        /\ orgCalls' = orgCalls \ {c}
        /\ IF ~CurrentRun(c.run) THEN UNCHANGED <<teams, teamsState>>
           ELSE IF c.at = "ok" THEN teams' = c.result /\ teamsState' = "shown"
           ELSE teamsState' = "error" /\ UNCHANGED teams
  BY DEF ReceiveTeams
<1>2. UNCHANGED <<owner, crossed, selected, effect>>
  BY DEF ReceiveTeams, accounts, orgHistory
<1>3. TeamsFit(orgCalls', owner, effect, selected)
  BY <1>1, TeamsSubset DEF TeamsInductive
<1>4. ShownTeamsFit'
  <2>1. c.run = effect => \A t \in c.result : owner[t] = selected /\ selected # None
    BY <1>1 DEF TeamsInductive, TeamsFit
  <2> QED
    BY <1>1, <1>2, <2>1 DEF TeamsInductive, ShownTeamsFit, CurrentRun
<1> QED
  BY <1>2, <1>3, <1>4 DEF TeamsInductive

LEMMA ReceiveFormTeams ==
  ASSUME Inductive, TeamsInductive, ReceiveForm PROVE TeamsInductive'
<1>1. PICK c \in orgCalls :
        /\ c.kind \in Forms
        /\ \/ /\ orgCalls' = orgCalls \ {c}
              /\ UNCHANGED <<teams, crossed>>
           \/ /\ \E pin : StartRefetch(pin, c.run, orgCalls \ {c})
              /\ UNCHANGED <<teams, crossed>>
           \/ /\ c.kind = "team" /\ orgCalls' = orgCalls \ {c}
              /\ teams' = teams \cup c.result
              /\ crossed' = IF selected = c.org THEN crossed ELSE crossed \cup c.result
  BY DEF ReceiveForm
<1>2. UNCHANGED <<owner, selected, teamsState, effect>>
  BY DEF ReceiveForm, accounts
<1> DEFINE rest == orgCalls \ {c}
<1>3. rest \subseteq OrgCalls /\ TeamsFit(rest, owner, effect, selected)
  BY TeamsSubset DEF Inductive, CallsFit, TeamsInductive
<1>4. effect \in Nat
  BY DEF Inductive, TypeFits
<1>5. ASSUME NEW pin, StartRefetch(pin, c.run, rest)
      PROVE  TeamsFit(orgCalls', owner, effect, selected)
  <2>1. orgCalls' = Detached(rest \cup {ListCall(pin, c.run)}, Forms)
    BY <1>5 DEF StartRefetch, HideForms
  <2>2. TeamsFit({ListCall(pin, c.run)}, owner, effect, selected)
    BY <1>4, NewCallTeams DEF ListCall
  <2>3. TeamsFit(Detached(rest, Forms), owner, effect, selected)
    BY <1>3, DetachedTeams
  <2>4. TeamsFit(Detached({ListCall(pin, c.run)}, Forms), owner, effect, selected)
    BY DEF Detached, ListCall, Call, TeamsFit
  <2>5. orgCalls' = Detached(rest, Forms) \cup Detached({ListCall(pin, c.run)}, Forms)
    BY <2>1 DEF Detached
  <2> QED
    BY <2>3, <2>4, <2>5, TeamsUnion
<1>6. TeamsFit(orgCalls', owner, effect, selected)
  BY <1>1, <1>3, <1>5
<1>7. ShownTeamsFit'
  <2>1. c.kind = "team" => \A t \in c.result : owner[t] = c.org /\ c.org # None
    BY DEF TeamsInductive, TeamsFit
  <2> QED
    BY <1>1, <1>2, <2>1 DEF TeamsInductive, ShownTeamsFit
<1> QED
  BY <1>2, <1>6, <1>7 DEF TeamsInductive

(* A team gets an owner once.                                              *)
LEMMA ServeTeams ==
  ASSUME Inductive, TeamsInductive, ServeOrgCall PROVE TeamsInductive'
<1>0. PICK c \in orgCalls : \E ids :
        /\ Answered(c, "ok", ids)
        /\ c.kind \in {"teams", "team"} => c.org \in orgs
        /\ c.kind = "teams" => ids = TeamsOf(c.org) /\ owner' = owner
        /\ c.kind = "team" =>
             \E t \in TeamsOf(None) : owner' = [owner EXCEPT ![t] = c.org] /\ ids = {t}
        /\ c.kind \notin {"team", "teams"} => owner' = owner
  <2>1. PICK c \in {d \in orgCalls : d.at = "sent"} :
          \/ /\ c.kind = "list"
             /\ Answered(c, "ok", orgs) /\ UNCHANGED accounts
          \/ /\ c.kind = "new"
             /\ \E id \in OrgIds \ usedOrgs : Answered(c, "ok", {id})
             /\ UNCHANGED owner
          \/ /\ c.kind \in {"teams", "edit"} /\ c.org \in orgs
             /\ Answered(c, "ok", IF c.kind = "teams" THEN TeamsOf(c.org) ELSE {c.org})
             /\ UNCHANGED accounts
          \/ /\ c.kind = "delete"
             /\ Answered(c, "ok", {c.org}) /\ UNCHANGED owner
          \/ /\ c.kind = "team" /\ c.org \in orgs
             /\ \E t \in TeamsOf(None) :
                  /\ owner' = [owner EXCEPT ![t] = c.org]
                  /\ Answered(c, "ok", {t})
    BY DEF ServeOrgCall
  <2>2. CASE c.kind = "list" /\ Answered(c, "ok", orgs) /\ UNCHANGED accounts
    BY <2>2 DEF accounts
  <2>3. CASE c.kind = "new" /\ (\E id \in OrgIds \ usedOrgs : Answered(c, "ok", {id}))
             /\ UNCHANGED owner
    BY <2>3
  <2>4. CASE /\ c.kind \in {"teams", "edit"} /\ c.org \in orgs
             /\ Answered(c, "ok", IF c.kind = "teams" THEN TeamsOf(c.org) ELSE {c.org})
             /\ UNCHANGED accounts
    BY <2>4 DEF accounts
  <2>5. CASE c.kind = "delete" /\ Answered(c, "ok", {c.org}) /\ UNCHANGED owner
    BY <2>5
  <2>6. CASE /\ c.kind = "team" /\ c.org \in orgs
             /\ \E t \in TeamsOf(None) :
                  owner' = [owner EXCEPT ![t] = c.org] /\ Answered(c, "ok", {t})
    BY <2>6
  <2> QED
    BY <2>1, <2>2, <2>3, <2>4, <2>5, <2>6
<1>1. PICK ids :
        /\ Answered(c, "ok", ids)
        /\ c.kind \in {"teams", "team"} => c.org \in orgs
        /\ c.kind = "teams" => ids = TeamsOf(c.org) /\ owner' = owner
        /\ c.kind = "team" =>
             \E t \in TeamsOf(None) : owner' = [owner EXCEPT ![t] = c.org] /\ ids = {t}
        /\ c.kind \notin {"team", "teams"} => owner' = owner
  BY <1>0
<1>2. UNCHANGED <<selected, effect, teams, teamsState, crossed>>
  BY DEF ServeOrgCall, panel, orgHistory
<1>3. /\ None \notin orgs /\ owner \in [TeamIds -> OrgIds \cup {None}]
      /\ orgCalls \subseteq OrgCalls
      /\ \A d \in orgCalls : d.kind \in {"teams", "team"} => d.result \subseteq TeamIds
      /\ teams \subseteq TeamIds
  BY OrgIdAssumption DEF Inductive, TypeFits, CallsFit, None
<1>4. \A t \in TeamIds : owner[t] # None => owner'[t] = owner[t]
  BY <1>1, <1>3 DEF TeamsOf
<1>5. TeamsFit(orgCalls, owner', effect, selected)
  BY <1>3, <1>4 DEF TeamsInductive, TeamsFit
<1>6. c.kind \in {"teams", "team"} => \A t \in ids : owner'[t] = c.org /\ c.org # None
  BY <1>1, <1>3 DEF TeamsOf
<1>7. TeamsFit({[c EXCEPT !.at = "ok", !.result = ids]}, owner', effect, selected)
  <2> DEFINE d == [c EXCEPT !.at = "ok", !.result = ids]
  <2>1. c \in OrgCalls
    BY <1>3
  <2>2. d.kind = c.kind /\ d.org = c.org /\ d.run = c.run /\ d.result = ids
    BY <2>1 DEF OrgCalls
  <2> QED
    BY <1>5, <1>6, <2>2 DEF TeamsFit
<1>8. TeamsFit(orgCalls', owner', effect, selected)
  BY <1>1, <1>5, <1>7, TeamsSubset, TeamsUnion DEF Answered
<1>9. ShownTeamsFit'
  BY <1>2, <1>3, <1>4 DEF TeamsInductive, ShownTeamsFit
<1> QED
  BY <1>2, <1>8, <1>9 DEF TeamsInductive

LEMMA RetryAndFailTeams ==
  ASSUME Inductive, TeamsInductive, RetryTeams \/ OrgCallFails PROVE TeamsInductive'
<1>1. effect \in Nat /\ effect + 1 \in Nat /\ orgCalls \subseteq OrgCalls
  BY DEF Inductive, TypeFits, CallsFit
<1>2. CASE RetryTeams
  <2>1. TeamsFit(orgCalls, owner, effect + 1, selected)
    BY <1>1, NextRunTeams DEF TeamsInductive
  <2>2. TeamsFit({Call("teams", selected, None, None, effect + 1)}, owner, effect + 1, selected)
    BY <1>1, NewCallTeams
  <2>3. TeamsFit(orgCalls', owner, effect + 1, selected)
    BY <1>2, <2>1, <2>2, TeamsUnion DEF RetryTeams
  <2> QED
    BY <1>2, <2>3 DEF RetryTeams, TeamsInductive, ShownTeamsFit, accounts
<1>3. CASE OrgCallFails
  <2>1. PICK c \in orgCalls : Answered(c, "failed", {})
    BY <1>3 DEF OrgCallFails
  <2> DEFINE d == [c EXCEPT !.at = "failed", !.result = {}]
  <2>2. c \in OrgCalls
    BY <1>1
  <2>3. d.kind = c.kind /\ d.org = c.org /\ d.run = c.run /\ d.result = {}
    BY <2>2 DEF OrgCalls
  <2>4. TeamsFit({d}, owner, effect, selected)
    BY <2>3 DEF TeamsInductive, TeamsFit
  <2>5. TeamsFit(orgCalls', owner, effect, selected)
    BY <2>1, <2>4, TeamsSubset, TeamsUnion DEF Answered, TeamsInductive
  <2> QED
    BY <1>3, <2>5 DEF OrgCallFails, TeamsInductive, ShownTeamsFit, accounts, panel, orgHistory
<1> QED
  BY <1>2, <1>3

LEMMA SubmitTeams ==
  ASSUME Inductive, TeamsInductive, NEW form \in Forms, NEW org, NEW typed,
         Submit(form, org, typed)
  PROVE  TeamsInductive'
<1>1. TeamsFit({Call(form, org, typed, None, ops')}, owner, effect, selected)
  BY NewCallTeams DEF Inductive, TypeFits, Forms
<1>2. TeamsFit(orgCalls', owner, effect, selected)
  BY <1>1, TeamsUnion DEF Submit, TeamsInductive
<1> QED
  BY <1>2 DEF Submit, TeamsInductive, ShownTeamsFit, accounts, panel, orgHistory

LEMMA SameTeams ==
  ASSUME TeamsInductive,
         UNCHANGED <<orgCalls, owner, effect, selected, teams, teamsState, crossed>>
  PROVE  TeamsInductive'
BY DEF TeamsInductive, TeamsFit, ShownTeamsFit

(* The teams on screen are the selected organization's, but for one that   *)
(* was created under another selection: the effect's cancelled flag keeps  *)
(* every response of an earlier run out, in whatever order they come       *)
(* (OrganizationsPage.tsx:40-60).                                          *)
THEOREM ShownTeamsAreOfSelection == OrgSpec => []TeamsAreOfSelection
<1>1. Inductive /\ TeamsInductive /\ [OrgNext]_orgVars => TeamsInductive'
  <2> SUFFICES ASSUME Inductive, TeamsInductive, [OrgNext]_orgVars PROVE TeamsInductive'
    OBVIOUS
  <2>1. CASE ReceiveOrgs \/ ReceiveTeams \/ ReceiveForm
    BY <2>1, ReceiveOrgsTeams, ReceiveTeamsTeams, ReceiveFormTeams
  <2>2. CASE ServeOrgCall \/ OrgCallFails \/ RetryTeams
    BY <2>2, ServeTeams, RetryAndFailTeams
  <2>3. CASE FillForms
    BY <2>3, SameTeams DEF FillForms, accounts, panel, orgHistory
  <2>4. CASE SubmitEdit \/ ConfirmDelete \/ SubmitNew \/ SubmitTeam
    BY <2>4, SubmitTeams DEF SubmitEdit, ConfirmDelete, SubmitNew, SubmitTeam, Forms
  <2>5. CASE \E org \in OrgIds : Switch(org)
    BY <2>5, SelectTeams DEF Switch, accounts, orgHistory
  <2>6. CASE \E org \in OrgIds : OthersDelete(org) \/ OtherTabSelects(org)
    BY <2>6, SameTeams DEF OthersDelete, OtherTabSelects, accounts, panel, orgHistory
  <2>7. CASE UNCHANGED orgVars
    BY <2>7, SameTeams DEF orgVars, accounts, panel, orgHistory
  <2> QED
    BY <2>1, <2>2, <2>3, <2>4, <2>5, <2>6, <2>7 DEF OrgNext
<1>2. TeamsInductive => TeamsAreOfSelection
  BY DEF TeamsInductive, ShownTeamsFit, TeamsAreOfSelection
<1> QED
  BY <1>1, <1>2, InitTeams, OrgInvariance, PTL DEF OrgSpec

=============================================================================
