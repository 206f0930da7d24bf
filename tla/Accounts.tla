------------------------------- MODULE Accounts ------------------------------
(***************************************************************************)
(* auth-service: API keys (ApiKeyController, ValidateApiKey) and the       *)
(* organizations and teams they act on (OrganizationController,            *)
(* TeamController, OrganizationPolicy), with the foreign keys of its       *)
(* migrations.                                                             *)
(*                                                                         *)
(* A PHP process serves a request in steps and may die between any two;    *)
(* no handler opens a transaction.  A step is one statement, or several    *)
(* reads of rows that only the organization's deletion changes, which the  *)
(* foreign keys turn into an error of the write that follows.  Eloquent's  *)
(* save updates the attributes that were set and no other.                 *)
(*                                                                         *)
(* Ids are numbers in the order of insertion, 0 is null.  Names, slugs,    *)
(* scopes and the times themselves are left out.                           *)
(***************************************************************************)
EXTENDS Naturals, FiniteSets

CONSTANTS
  Clients,     \* requests that may be in progress at the same time
  Users,       \* the users table, which no endpoint changes
  Founder,     \* the first user, whom the seeder makes admin of organization 1
  MaxKeys,     \* bound: API keys created
  MaxOrgs,     \* bound: organizations created
  MaxTeams     \* bound: teams created

ASSUME UserAssumption == Founder \in Users
ASSUME MaxAssumption ==
  MaxKeys \in Nat \ {0} /\ MaxOrgs \in Nat \ {0} /\ MaxTeams \in Nat

VARIABLES
  keys,        \* api_keys
  lastKey,
  orgs,        \* organizations
  lastOrg,
  members,     \* organization_user: members[o], of any role
  admins,      \* admins[o]: those whose role is admin
  teamOrg,     \* teams.organization_id, or 0 when there is no such team
  lastTeam,
  teamUsers,   \* team_user
  request,     \* request[c]: the handler running for c
  \* history
  known,       \* keys whose secret was returned to somebody
  retired,     \* keys whose revocation or rotation was answered
  unmanaged    \* organizations whose creation died before attach

vars == <<keys, lastKey, orgs, lastOrg, members, admins, teamOrg, lastTeam,
          teamUsers, request, known, retired, unmanaged>>
keyTable == <<keys, lastKey>>
orgTables == <<orgs, lastOrg, members, admins>>
teamTables == <<teamOrg, lastTeam, teamUsers>>
history == <<known, retired, unmanaged>>

KeyIds == 1..MaxKeys
OrgIds == 1..MaxOrgs
TeamIds == 1..MaxTeams

NoKey == [owner |-> Founder, org |-> 0, revoked |-> "absent", from |-> 0]

(* at: the next step; key: the key of the route, or the one that           *)
(* authenticates the request, with its revoked_at as loaded; user: who     *)
(* acts, or who shall own the key; made: the key that was created.         *)
Idle == [at |-> "idle", op |-> "none", key |-> 0, was |-> "absent",
         user |-> Founder, org |-> 0, team |-> 0, member |-> Founder, made |-> 0]

Init ==
  /\ keys = [k \in KeyIds |-> NoKey] /\ lastKey = 0
  /\ orgs = {1} /\ lastOrg = 1
  /\ members \in {[o \in OrgIds |-> IF o = 1 THEN us ELSE {}] :
                    us \in {vs \in SUBSET Users : Founder \in vs}}
  /\ admins = [o \in OrgIds |-> IF o = 1 THEN {Founder} ELSE {}]
  /\ teamOrg = [t \in TeamIds |-> 0] /\ lastTeam = 0
  /\ teamUsers = [t \in TeamIds |-> {}]
  /\ request = [c \in Clients |-> Idle]
  /\ known = {} /\ retired = {} /\ unmanaged = {}

Exists(k) == k \in KeyIds /\ keys[k] # NoKey

Set(c, r) == request' = [request EXCEPT ![c] = r]

-----------------------------------------------------------------------------
(* API keys; these routes ask for no key                                   *)

(* store's validation: the organization exists and the owner is a member.  *)
(* Variant: without the second rule.                                       *)
BeginStoreKeyForAny(c) ==
  /\ request[c] = Idle
  /\ \E owner \in Users, org \in {0} \cup orgs :
       Set(c, [Idle EXCEPT !.at = "createKey", !.op = "storeKey",
                           !.user = owner, !.org = org])
  /\ UNCHANGED <<keyTable, orgTables, teamTables, history>>

BeginStoreKey(c) ==
  /\ request[c] = Idle
  /\ \E owner \in Users, org \in {0} \cup orgs :
       /\ org # 0 => owner \in members[org]
       /\ Set(c, [Idle EXCEPT !.at = "createKey", !.op = "storeKey",
                              !.user = owner, !.org = org])
  /\ UNCHANGED <<keyTable, orgTables, teamTables, history>>

(* The route's key is loaded.                                              *)
BeginOnKey(c) ==
  /\ request[c] = Idle
  /\ \E k \in KeyIds :
       /\ Exists(k)
       /\ \/ Set(c, [Idle EXCEPT !.at = "createKey", !.op = "rotate", !.key = k,
                                 !.was = keys[k].revoked, !.user = keys[k].owner,
                                 !.org = keys[k].org])
          \/ Set(c, [Idle EXCEPT !.at = "revoke", !.op = "revoke", !.key = k,
                                 !.was = keys[k].revoked])
  /\ UNCHANGED <<keyTable, orgTables, teamTables, history>>

(* The foreign key of api_keys.org_id.  Variant: a plain column.           *)
AnyOrg(org) == TRUE

OrgAccepted(org) == org \in {0} \cup orgs

(* ApiKey::create, by store and rotate.                                    *)
CreateKey(c) ==
  LET r == request[c]
      new == [owner |-> r.user, org |-> r.org, revoked |-> "no", from |-> r.key]
  IN  /\ r.at = "createKey" /\ lastKey < MaxKeys
      /\ IF OrgAccepted(r.org)
         THEN /\ keys' = [keys EXCEPT ![lastKey + 1] = new]
              /\ lastKey' = lastKey + 1
              /\ Set(c, [Idle EXCEPT !.at = IF r.op = "rotate" THEN "revoke" ELSE "answer",
                                     !.op = r.op, !.key = r.key, !.was = r.was,
                                     !.made = lastKey + 1])
         ELSE Set(c, Idle) /\ UNCHANGED keyTable
  /\ UNCHANGED <<orgTables, teamTables, history>>

(* revoked_at is set when the loaded model had none.                       *)
Revoke(c) ==
  LET r == request[c]
  IN  /\ r.at = "revoke"
      /\ keys' = IF r.was = "no" THEN [keys EXCEPT ![r.key].revoked = "yes"] ELSE keys
      /\ Set(c, [r EXCEPT !.at = "answer"])
  /\ UNCHANGED <<lastKey, orgTables, teamTables, history>>

(* The answer of store and rotate is the only one that holds the secret.   *)
Answer(c) ==
  LET r == request[c]
  IN  /\ r.at = "answer"
      /\ known' = known \cup ({r.made} \ {0})
      /\ retired' = retired \cup ({r.key} \ {0})
      /\ Set(c, Idle)
  /\ UNCHANGED <<keyTable, orgTables, teamTables, unmanaged>>

-----------------------------------------------------------------------------
(* Requests with a key                                                     *)

(* ValidateApiKey: the key is looked up and checked.                       *)
Lookup(c) ==
  /\ request[c] = Idle
  /\ \E k \in known :
       /\ keys[k].revoked = "no"
       /\ Set(c, [Idle EXCEPT !.at = "touch", !.key = k, !.was = "no",
                              !.user = keys[k].owner])
  /\ UNCHANGED <<keyTable, orgTables, teamTables, history>>

(* What follows for a request of user: validate's answer, or a handler     *)
(* with the organization and the team of its route.                        *)
OnOrg == {"destroyOrg", "storeTeam"}
OnTeam == {"addMember", "removeMember"}

Route(c, user) ==
  LET r == [Idle EXCEPT !.user = user]
  IN  \/ Set(c, Idle)
      \/ Set(c, [r EXCEPT !.at = "createOrg"])
      \/ \E o \in OrgIds :
           \/ \E op \in OnOrg :
                Set(c, [r EXCEPT !.at = "authorize", !.op = op, !.org = o])
           \/ \E op \in OnTeam, t \in TeamIds :
                Set(c, [r EXCEPT !.at = "authorize", !.op = op, !.org = o, !.team = t])

(* last_used_at is saved.  Variants: in the wrong column; with all the     *)
(* attributes of the loaded model.                                         *)
TouchWrongColumn(c) ==
  LET r == request[c]
  IN  /\ r.at = "touch"
      /\ keys' = [keys EXCEPT ![r.key].revoked = "last used"]
      /\ Route(c, r.user)
  /\ UNCHANGED <<lastKey, orgTables, teamTables, history>>

TouchAll(c) ==
  LET r == request[c]
  IN  /\ r.at = "touch"
      /\ keys' = [keys EXCEPT ![r.key].revoked = r.was]
      /\ Route(c, r.user)
  /\ UNCHANGED <<lastKey, orgTables, teamTables, history>>

Touch(c) ==
  LET r == request[c]
  IN  /\ r.at = "touch"
      /\ Route(c, r.user)
  /\ UNCHANGED <<keyTable, orgTables, teamTables, history>>

(* OrganizationPolicy::update, which delete follows.  Variant: view.       *)
MayView(user, org) == user \in members[org]

MayUpdate(user, org) == user \in admins[org]

BelongsTo(team, org) == teamOrg[team] = org

(* Route binding, the policy and the team's organization: 404 or 403.      *)
Authorize(c) ==
  LET r == request[c]
  IN  /\ r.at = "authorize"
      /\ Set(c, IF /\ r.org \in orgs /\ MayUpdate(r.user, r.org)
                   /\ r.team # 0 => BelongsTo(r.team, r.org)
                THEN [r EXCEPT !.at = r.op, !.op = "none"] ELSE Idle)
  /\ UNCHANGED <<keyTable, orgTables, teamTables, history>>

(* OrganizationController::store, in two statements.                       *)
CreateOrg(c) ==
  /\ request[c].at = "createOrg" /\ lastOrg < MaxOrgs
  /\ orgs' = orgs \cup {lastOrg + 1}
  /\ lastOrg' = lastOrg + 1
  /\ Set(c, [request[c] EXCEPT !.at = "attach", !.org = lastOrg + 1])
  /\ UNCHANGED <<keyTable, members, admins, teamTables, history>>

(* Variant: attach without a role, which is then member.                   *)
AttachMember(c) ==
  LET r == request[c]
  IN  /\ r.at = "attach"
      /\ members' = [members EXCEPT ![r.org] = @ \cup {r.user}]
      /\ Set(c, Idle)
  /\ UNCHANGED <<keyTable, orgs, lastOrg, admins, teamTables, history>>

AttachAdmin(c) ==
  LET r == request[c]
  IN  /\ r.at = "attach"
      /\ members' = [members EXCEPT ![r.org] = @ \cup {r.user}]
      /\ admins' = [admins EXCEPT ![r.org] = @ \cup {r.user}]
      /\ Set(c, Idle)
  /\ UNCHANGED <<keyTable, orgs, lastOrg, teamTables, history>>

(* One DELETE: memberships and teams cascade, the keys' org_id is nulled.  *)
DestroyOrg(c) ==
  LET r == request[c]
  IN  /\ r.at = "destroyOrg"
      /\ orgs' = orgs \ {r.org}
      /\ members' = [members EXCEPT ![r.org] = {}]
      /\ admins' = [admins EXCEPT ![r.org] = {}]
      /\ teamOrg' = [t \in TeamIds |-> IF teamOrg[t] = r.org THEN 0 ELSE teamOrg[t]]
      /\ teamUsers' = [t \in TeamIds |-> IF teamOrg[t] = r.org THEN {} ELSE teamUsers[t]]
      /\ keys' = [k \in KeyIds |-> IF keys[k].org = r.org
                                   THEN [keys[k] EXCEPT !.org = 0] ELSE keys[k]]
      /\ Set(c, Idle)
  /\ UNCHANGED <<lastKey, lastOrg, lastTeam, history>>

StoreTeam(c) ==
  LET r == request[c]
  IN  /\ r.at = "storeTeam" /\ lastTeam < MaxTeams
      /\ IF r.org \in orgs
         THEN /\ teamOrg' = [teamOrg EXCEPT ![lastTeam + 1] = r.org]
              /\ lastTeam' = lastTeam + 1
              /\ Set(c, Idle)
         ELSE Set(c, Idle) /\ UNCHANGED <<teamOrg, lastTeam>>
  /\ UNCHANGED <<keyTable, orgTables, teamUsers, history>>

(* addMember's own check, a 422, before syncWithoutDetaching.  Variant:    *)
(* the request's rule alone, that the user exists.                         *)
IsUser(user, org) == user \in Users

IsMember(user, org) == user \in members[org]

CheckMember(c) ==
  LET r == request[c]
  IN  /\ r.at = "addMember"
      /\ \E user \in Users :
           Set(c, IF IsMember(user, r.org)
                  THEN [r EXCEPT !.at = "sync", !.member = user] ELSE Idle)
  /\ UNCHANGED <<keyTable, orgTables, teamTables, history>>

SyncMember(c) ==
  LET r == request[c]
  IN  /\ r.at = "sync"
      /\ IF teamOrg[r.team] # 0
         THEN /\ teamUsers' = [teamUsers EXCEPT ![r.team] = @ \cup {r.member}]
              /\ Set(c, Idle)
         ELSE Set(c, Idle) /\ UNCHANGED teamUsers
  /\ UNCHANGED <<keyTable, orgTables, teamOrg, lastTeam, history>>

RemoveMember(c) ==
  LET r == request[c]
  IN  /\ r.at = "removeMember"
      /\ \E user \in Users : teamUsers' = [teamUsers EXCEPT ![r.team] = @ \ {user}]
      /\ Set(c, Idle)
  /\ UNCHANGED <<keyTable, orgTables, teamOrg, lastTeam, history>>

(* The process dies.                                                       *)
Crash(c) ==
  /\ request[c] # Idle
  /\ unmanaged' = IF request[c].at = "attach"
                  THEN unmanaged \cup {request[c].org} ELSE unmanaged
  /\ Set(c, Idle)
  /\ UNCHANGED <<keyTable, orgTables, teamTables, known, retired>>

Next ==
  \E c \in Clients :
    \/ BeginStoreKey(c) \/ BeginOnKey(c) \/ CreateKey(c) \/ Revoke(c) \/ Answer(c)
    \/ Lookup(c) \/ Touch(c) \/ Authorize(c)
    \/ CreateOrg(c) \/ AttachAdmin(c) \/ DestroyOrg(c)
    \/ StoreTeam(c) \/ CheckMember(c) \/ SyncMember(c) \/ RemoveMember(c)
    \/ Crash(c)

Spec == Init /\ [][Next]_vars

-----------------------------------------------------------------------------
(* Properties                                                              *)

TypeOK ==
  /\ keys \in [KeyIds -> [owner : Users, org : {0} \cup OrgIds,
                          revoked : {"absent", "no", "yes"}, from : {0} \cup KeyIds]]
  /\ lastKey \in {0} \cup KeyIds
  /\ orgs \in SUBSET OrgIds
  /\ lastOrg \in OrgIds
  /\ members \in [OrgIds -> SUBSET Users]
  /\ admins \in [OrgIds -> SUBSET Users]
  /\ teamOrg \in [TeamIds -> {0} \cup OrgIds]
  /\ lastTeam \in {0} \cup TeamIds
  /\ teamUsers \in [TeamIds -> SUBSET Users]
  /\ request \in [Clients ->
       [at : {"idle", "createKey", "revoke", "answer", "touch", "authorize", "createOrg",
              "attach", "destroyOrg", "storeTeam", "addMember", "sync", "removeMember"},
        op : {"none", "storeKey", "rotate", "revoke"} \cup OnOrg \cup OnTeam,
        key : {0} \cup KeyIds, was : {"absent", "no", "yes"}, user : Users,
        org : {0} \cup OrgIds, team : {0} \cup TeamIds, member : Users,
        made : {0} \cup KeyIds]]
  /\ known \in SUBSET KeyIds
  /\ retired \in SUBSET KeyIds
  /\ unmanaged \in SUBSET OrgIds

(* A key is bound to an organization that exists and its owner belongs to  *)
(* (StoreApiKeyRequest.php:33-45), however old the check or the copy it    *)
(* was made from.                                                          *)
KeyOwnersAreMembers ==
  \A k \in KeyIds : keys[k].org # 0 =>
    keys[k].org \in orgs /\ keys[k].owner \in members[keys[k].org]

(* A team's users are members of its organization, which no constraint of  *)
(* the database says (docs/multi-tenancy.md:20).                           *)
TeamUsersAreMembers ==
  \A t \in TeamIds : teamUsers[t] # {} =>
    teamOrg[t] \in orgs /\ teamUsers[t] \subseteq members[teamOrg[t]]

(* A rotation keeps the owner and the organization of its source           *)
(* (docs/api-key-rotation.md:9), also when the organization is deleted     *)
(* while it runs.                                                          *)
RotationKeepsIdentity ==
  \A k \in KeyIds : keys[k].from # 0 =>
    LET source == keys[keys[k].from]
    IN  keys[k].owner = source.owner /\ keys[k].org = source.org

(* Once its revocation or rotation was answered, a key stays revoked: the  *)
(* last_used_at of a request that was let in before does not revive it.    *)
RetiredStaysRevoked == \A k \in retired : keys[k].revoked = "yes"

(* An organization has an admin from the moment its creation ends, unless  *)
(* the process died in between.                                            *)
OrganizationsAreManaged ==
  \A o \in orgs :
    \/ admins[o] # {} \/ o \in unmanaged
    \/ \E c \in Clients : request[c].at = "attach" /\ request[c].org = o

(* Only an admin's request deletes an organization or changes its teams,   *)
(* and it is still an admin's when it does, though it was authorized       *)
(* earlier (TeamController.php:24-64).                                     *)
Touched(o) ==
  \/ o \in orgs \ orgs'
  \/ \E t \in TeamIds :
       /\ o \in {teamOrg[t], teamOrg'[t]}
       /\ teamOrg'[t] # teamOrg[t] \/ teamUsers'[t] # teamUsers[t]

OnlyAdminsChange ==
  [][\A o \in OrgIds : Touched(o) =>
       \E c \in Clients :
         /\ request'[c] # request[c]
         /\ request[c].org = o /\ request[c].user \in admins[o]]_vars

=============================================================================
