----------------------------- MODULE MCDashboard ------------------------------
(***************************************************************************)
(* What an administrator sees: the organizations, the lists with forms,    *)
(* the reports.  The three share no state, so a behaviour is one of them;  *)
(* the others rest in an initial state.                                    *)
(***************************************************************************)
EXTENDS OrganizationsPage, AdminPages, Reports

VARIABLE view   \* "organizations", "lists" or "reports"

MCNameOf == [o \in OrgIds |-> IF o = 3 THEN "beta" ELSE "acme"]

vars == <<orgVars, adminVars, repVars, view>>

Init ==
  /\ OrgInit /\ AdminInit /\ RepInit
  /\ view \in {"organizations", "lists", "reports"}
  /\ view # "organizations" => selected = None
  /\ view # "lists" => page = "templates"
  /\ view # "reports" => messages = {}

Next ==
  \/ view = "organizations" /\ OrgNext /\ UNCHANGED <<adminVars, repVars, view>>
  \/ view = "lists" /\ AdminNext /\ UNCHANGED <<orgVars, repVars, view>>
  \/ view = "reports" /\ RepNext /\ UNCHANGED <<orgVars, adminVars, view>>

Spec == Init /\ [][Next]_vars

(* The variables of every part have their types.                           *)
TypeOK == OrgTypeOK /\ AdminTypeOK /\ RepTypeOK

===============================================================================
