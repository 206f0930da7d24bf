---------------------------- MODULE AccountsProofs ----------------------------
(***************************************************************************)
(* Theorems about Accounts, for any users and requests at the same time    *)
(* and any number of keys, organizations and teams: what checks made in an *)
(* earlier statement still guarantee when the write is made.               *)
(***************************************************************************)
EXTENDS Accounts, TLAPS

Request ==
  [at : {"idle", "createKey", "revoke", "answer", "touch", "authorize", "createOrg",
         "attach", "destroyOrg", "storeTeam", "addMember", "sync", "removeMember"},
   op : {"none", "storeKey", "rotate", "revoke"} \cup OnOrg \cup OnTeam,
   key : {0} \cup KeyIds, was : {"absent", "no", "yes"}, user : Users,
   org : {0} \cup OrgIds, team : {0} \cup TeamIds, member : Users,
   made : {0} \cup KeyIds]

Key == [owner : Users, org : {0} \cup OrgIds,
        revoked : {"absent", "no", "yes"}, from : {0} \cup KeyIds]

-----------------------------------------------------------------------------
(* What a handler may rely on between two of its statements                *)

(* The owner was a member; the organization may be gone, but no other has  *)
(* its id.                                                                 *)
OwnerFits(r) ==
  r.org # 0 => r.org \in 1..lastOrg /\ (r.org \in orgs => r.user \in members[r.org])

(* revoked_at as loaded is not newer than the row.                         *)
LoadedFits(r) ==
  /\ r.key \in 1..lastKey /\ r.was \in {"no", "yes"}
  /\ r.was = "yes" => keys[r.key].revoked = "yes"

(* The source of a rotation has lost its organization only with this.      *)
SourceFits(r) ==
  /\ keys[r.key].owner = r.user
  /\ keys[r.key].org = r.org \/ (keys[r.key].org = 0 /\ r.org \notin orgs)

KeyStepFits(r) ==
  /\ r.at = "createKey" =>
       /\ OwnerFits(r)
       /\ IF r.op = "rotate" THEN LoadedFits(r) /\ SourceFits(r) ELSE r.key = 0
  /\ r.at = "revoke" => LoadedFits(r)
  /\ r.at = "answer" =>
       r.key = 0 \/ (r.key \in 1..lastKey /\ keys[r.key].revoked = "yes")

(* Who was let in is an admin as long as there is the organization.        *)
AdminSteps == {"destroyOrg", "storeTeam", "addMember", "sync", "removeMember"}
TeamSteps == {"addMember", "sync", "removeMember"}

OrgStepFits(r) ==
  /\ r.at = "authorize" =>
       r.org \in OrgIds /\ (r.op \in OnOrg \/ (r.op \in OnTeam /\ r.team \in TeamIds))
  /\ r.at = "attach" => r.org \in 1..lastOrg
  /\ r.at \in AdminSteps =>
       r.org \in 1..lastOrg /\ (r.org \in orgs => r.user \in admins[r.org])
  /\ r.at \in TeamSteps => r.team \in 1..lastTeam /\ teamOrg[r.team] \in {0, r.org}
  /\ r.at = "sync" => (r.org \in orgs => r.member \in members[r.org])

Fits(r) == r \in Request /\ KeyStepFits(r) /\ OrgStepFits(r)

RequestsFit ==
  request \in [Clients -> Request] /\ \A c \in Clients : Fits(request[c])

-----------------------------------------------------------------------------
(* The inductive invariant                                                 *)

KeysFit ==
  /\ keys \in [KeyIds -> Key] /\ lastKey \in 0..MaxKeys
  /\ \A k \in KeyIds :
       IF k \in 1..lastKey THEN keys[k].revoked \in {"no", "yes"} ELSE keys[k] = NoKey
  /\ \A k \in KeyIds : keys[k].from \in {0} \cup 1..lastKey

OrgsFit ==
  /\ lastOrg \in 1..MaxOrgs /\ orgs \subseteq 1..lastOrg
  /\ members \in [OrgIds -> SUBSET Users] /\ admins \in [OrgIds -> SUBSET Users]

(* Foreign keys: a team's organization exists.                             *)
TeamsFit ==
  /\ teamOrg \in [TeamIds -> {0} \cup OrgIds] /\ lastTeam \in 0..MaxTeams
  /\ teamUsers \in [TeamIds -> SUBSET Users]
  /\ \A t \in TeamIds : teamOrg[t] # 0 => teamOrg[t] \in orgs /\ t \in 1..lastTeam

HistoryFits ==
  known \in SUBSET KeyIds /\ retired \in SUBSET KeyIds /\ unmanaged \in SUBSET OrgIds

TablesFit == KeysFit /\ OrgsFit /\ TeamsFit

Inductive ==
  /\ TablesFit
  /\ HistoryFits
  /\ RequestsFit
  /\ KeyOwnersAreMembers
  /\ TeamUsersAreMembers
  /\ RotationKeepsIdentity
  /\ RetiredStaysRevoked

(* What any step does to the rows a request may have read: organizations   *)
(* go for good, keys and teams lose theirs only then, revocations stay.    *)
Evolves ==
  /\ lastKey' \in Nat /\ lastKey <= lastKey'
  /\ lastOrg' \in Nat /\ lastOrg <= lastOrg'
  /\ lastTeam' \in Nat /\ lastTeam <= lastTeam'
  /\ \A o \in 1..lastOrg : o \in orgs' =>
       o \in orgs /\ members[o] \subseteq members'[o] /\ admins[o] \subseteq admins'[o]
  /\ \A t \in 1..lastTeam : teamOrg'[t] \in {0, teamOrg[t]}
  /\ \A k \in 1..lastKey :
       /\ keys'[k].owner = keys[k].owner
       /\ keys[k].revoked = "yes" => keys'[k].revoked = "yes"
       /\ keys'[k].org = keys[k].org \/ (keys'[k].org = 0 /\ keys[k].org \notin orgs')

-----------------------------------------------------------------------------
(* Requests                                                                *)

LEMMA Bounds ==
  ASSUME TablesFit
  PROVE  /\ lastKey \in Nat /\ lastOrg \in Nat /\ lastTeam \in Nat
         /\ 1..lastKey \subseteq KeyIds /\ 1..lastOrg \subseteq OrgIds
         /\ 1..lastTeam \subseteq TeamIds
BY MaxAssumption DEF TablesFit, KeysFit, OrgsFit, TeamsFit, KeyIds, OrgIds, TeamIds

LEMMA FitsStays ==
  ASSUME Inductive, Evolves, NEW r, Fits(r)
  PROVE  Fits(r)'
<1>0. /\ lastKey \in Nat /\ lastOrg \in Nat /\ lastTeam \in Nat
      /\ lastKey' \in Nat /\ lastOrg' \in Nat /\ lastTeam' \in Nat
      /\ r \in Request
  BY Bounds DEF Inductive, Evolves, Fits
<1>1. OwnerFits(r) => OwnerFits(r)'
  BY <1>0 DEF OwnerFits, Evolves
<1>2. LoadedFits(r) => LoadedFits(r)'
  BY <1>0 DEF LoadedFits, Evolves
<1>3. LoadedFits(r) /\ OwnerFits(r) /\ SourceFits(r) => SourceFits(r)'
  BY <1>0 DEF LoadedFits, OwnerFits, SourceFits, Evolves
<1>4. KeyStepFits(r)'
  <2>1. r.at = "answer" =>
          r.key = 0 \/ (r.key \in 1..lastKey' /\ keys'[r.key].revoked = "yes")
    BY <1>0 DEF Fits, KeyStepFits, Evolves
  <2> QED
    BY <1>1, <1>2, <1>3, <2>1 DEF Fits, KeyStepFits
<1>5. OrgStepFits(r)'
  <2>1. r.at \in AdminSteps =>
          r.org \in 1..lastOrg' /\ (r.org \in orgs' => r.user \in admins'[r.org])
    BY <1>0 DEF Fits, OrgStepFits, Evolves
  <2>2. r.at \in TeamSteps => r.team \in 1..lastTeam' /\ teamOrg'[r.team] \in {0, r.org}
    BY <1>0 DEF Fits, OrgStepFits, Evolves
  <2>3. r.at = "sync" => (r.org \in orgs' => r.member \in members'[r.org])
    BY <1>0 DEF Fits, OrgStepFits, Evolves, AdminSteps
  <2>4. r.at = "attach" => r.org \in 1..lastOrg'
    BY <1>0 DEF Fits, OrgStepFits, Evolves
  <2> QED
    BY <2>1, <2>2, <2>3, <2>4 DEF Fits, OrgStepFits
<1> QED
  BY <1>0, <1>4, <1>5 DEF Fits

LEMMA RequestsStay ==
  ASSUME Inductive, Evolves, NEW c \in Clients, NEW s, Fits(s)', Set(c, s)
  PROVE  RequestsFit'
<1>1. request' \in [Clients -> Request]
  BY DEF Inductive, RequestsFit, Fits, Set
<1>2. ASSUME NEW d \in Clients PROVE Fits(request[d])'
  <2>1. PICK q : q = request'[d] /\ (q = s \/ q = request[d])
    BY DEF Inductive, RequestsFit, Set
  <2>2. Fits(q)'
    BY <2>1, FitsStays DEF Inductive, RequestsFit
  <2> QED
    BY <2>1, <2>2
       DEF Fits, KeyStepFits, OrgStepFits, OwnerFits, LoadedFits, SourceFits
<1> QED
  BY <1>1, <1>2 DEF RequestsFit

LEMMA QuietEvolves ==
  ASSUME Inductive, UNCHANGED <<keyTable, orgTables, teamTables>>
  PROVE  Evolves
BY Bounds DEF Inductive, Evolves, keyTable, orgTables, teamTables

(* A handler that replaces one request and touches no table.               *)
LEMMA RequestStep ==
  ASSUME Inductive, HistoryFits', UNCHANGED <<keyTable, orgTables, teamTables>>,
         RetiredStaysRevoked', NEW c \in Clients, NEW s, Fits(s), Set(c, s)
  PROVE  Inductive'
<1>1. RequestsFit'
  BY QuietEvolves, FitsStays, RequestsStay
<1> QED
  BY <1>1
     DEF Inductive, TablesFit, KeysFit, OrgsFit, TeamsFit, KeyOwnersAreMembers,
         TeamUsersAreMembers, RotationKeepsIdentity, keyTable, orgTables, teamTables

LEMMA QuietStep ==
  ASSUME Inductive, UNCHANGED <<keyTable, orgTables, teamTables, history>>,
         NEW c \in Clients, NEW s, Fits(s), Set(c, s)
  PROVE  Inductive'
<1>1. HistoryFits' /\ RetiredStaysRevoked'
  BY DEF Inductive, HistoryFits, RetiredStaysRevoked, history, keyTable
<1> QED
  BY <1>1, RequestStep

LEMMA IdleFits == Fits(Idle)
BY UserAssumption
   DEF Fits, Idle, Request, KeyStepFits, OrgStepFits, AdminSteps, TeamSteps

-----------------------------------------------------------------------------
(* Steps that touch no table                                               *)

LEMMA BeginStoreKeyKeeps ==
  ASSUME Inductive, NEW c \in Clients, BeginStoreKey(c) PROVE Inductive'
<1>1. PICK owner \in Users, org \in {0} \cup orgs :
        /\ org # 0 => owner \in members[org]
        /\ Set(c, [Idle EXCEPT !.at = "createKey", !.op = "storeKey",
                               !.user = owner, !.org = org])
  BY DEF BeginStoreKey
<1>2. orgs \subseteq 1..lastOrg /\ 1..lastOrg \subseteq OrgIds
  BY Bounds DEF Inductive, TablesFit, OrgsFit
<1>3. Fits([Idle EXCEPT !.at = "createKey", !.op = "storeKey", !.user = owner, !.org = org])
  BY <1>1, <1>2, UserAssumption
     DEF Fits, Idle, Request, KeyStepFits, OrgStepFits, OwnerFits, AdminSteps, TeamSteps
<1> QED
  BY <1>1, <1>3, QuietStep DEF BeginStoreKey

LEMMA BeginOnKeyKeeps ==
  ASSUME Inductive, NEW c \in Clients, BeginOnKey(c) PROVE Inductive'
<1>1. PICK k \in KeyIds :
        /\ Exists(k)
        /\ \/ Set(c, [Idle EXCEPT !.at = "createKey", !.op = "rotate", !.key = k,
                                  !.was = keys[k].revoked, !.user = keys[k].owner,
                                  !.org = keys[k].org])
           \/ Set(c, [Idle EXCEPT !.at = "revoke", !.op = "revoke", !.key = k,
                                  !.was = keys[k].revoked])
  BY DEF BeginOnKey
<1>2. k \in 1..lastKey /\ keys[k].revoked \in {"no", "yes"} /\ keys[k] \in Key
  BY <1>1 DEF Exists, Inductive, TablesFit, KeysFit
<1>3. keys[k].org # 0 =>
        keys[k].org \in 1..lastOrg /\ keys[k].owner \in members[keys[k].org]
  BY DEF Inductive, TablesFit, OrgsFit, KeyOwnersAreMembers
<1>4. Fits([Idle EXCEPT !.at = "createKey", !.op = "rotate", !.key = k,
                        !.was = keys[k].revoked, !.user = keys[k].owner, !.org = keys[k].org])
  BY <1>2, <1>3, UserAssumption
     DEF Fits, Idle, Request, Key, KeyStepFits, OrgStepFits, OwnerFits, LoadedFits,
         SourceFits, AdminSteps, TeamSteps
<1>5. Fits([Idle EXCEPT !.at = "revoke", !.op = "revoke", !.key = k, !.was = keys[k].revoked])
  BY <1>2, UserAssumption
     DEF Fits, Idle, Request, KeyStepFits, OrgStepFits, LoadedFits, AdminSteps, TeamSteps
<1> QED
  BY <1>1, <1>4, <1>5, QuietStep DEF BeginOnKey

LEMMA AnswerKeeps ==
  ASSUME Inductive, NEW c \in Clients, Answer(c) PROVE Inductive'
<1>1. PICK r : r = request[c] /\ Fits(r) /\ r.at = "answer" /\ r \in Request
  BY DEF Inductive, RequestsFit, Fits, Answer
<1>2. /\ known' = known \cup ({r.made} \ {0})
      /\ retired' = retired \cup ({r.key} \ {0})
      /\ Set(c, Idle)
      /\ UNCHANGED <<keyTable, orgTables, teamTables, unmanaged>>
  BY <1>1 DEF Answer
<1>3. HistoryFits'
  BY <1>1, <1>2 DEF Inductive, HistoryFits, Request
<1>4. RetiredStaysRevoked'
  BY <1>1, <1>2 DEF Inductive, RetiredStaysRevoked, Fits, KeyStepFits, keyTable
<1> QED
  BY <1>2, <1>3, <1>4, IdleFits, RequestStep

LEMMA LookupKeeps ==
  ASSUME Inductive, NEW c \in Clients, Lookup(c) PROVE Inductive'
<1>1. PICK k \in known :
        Set(c, [Idle EXCEPT !.at = "touch", !.key = k, !.was = "no", !.user = keys[k].owner])
  BY DEF Lookup
<1>2. k \in KeyIds /\ keys[k].owner \in Users
  BY DEF Inductive, HistoryFits, TablesFit, KeysFit, Key
<1>3. Fits([Idle EXCEPT !.at = "touch", !.key = k, !.was = "no", !.user = keys[k].owner])
  BY <1>2, UserAssumption
     DEF Fits, Idle, Request, KeyStepFits, OrgStepFits, AdminSteps, TeamSteps
<1> QED
  BY <1>1, <1>3, QuietStep DEF Lookup

LEMMA TouchKeeps ==
  ASSUME Inductive, NEW c \in Clients, Touch(c) PROVE Inductive'
<1> DEFINE r == [Idle EXCEPT !.user = request[c].user]
<1>1. r \in Request
  BY UserAssumption DEF Inductive, RequestsFit, Idle, Request
<1>2. \/ Set(c, Idle)
      \/ Set(c, [r EXCEPT !.at = "createOrg"])
      \/ \E o \in OrgIds :
           \/ \E op \in OnOrg :
                Set(c, [r EXCEPT !.at = "authorize", !.op = op, !.org = o])
           \/ \E op \in OnTeam, t \in TeamIds :
                Set(c, [r EXCEPT !.at = "authorize", !.op = op, !.org = o, !.team = t])
  BY DEF Touch, Route
<1> HIDE DEF r
<1>3. Fits([r EXCEPT !.at = "createOrg"])
  BY <1>1 DEF Fits, Request, KeyStepFits, OrgStepFits, AdminSteps, TeamSteps
<1>4. ASSUME NEW op \in OnOrg, NEW o \in OrgIds
      PROVE  Fits([r EXCEPT !.at = "authorize", !.op = op, !.org = o])
  BY <1>1 DEF Fits, Request, KeyStepFits, OrgStepFits, AdminSteps, TeamSteps
<1>5. ASSUME NEW op \in OnTeam, NEW o \in OrgIds, NEW t \in TeamIds
      PROVE  Fits([r EXCEPT !.at = "authorize", !.op = op, !.org = o, !.team = t])
  BY <1>1 DEF Fits, Request, KeyStepFits, OrgStepFits, AdminSteps, TeamSteps
<1> QED
  BY <1>2, <1>3, <1>4, <1>5, IdleFits, QuietStep DEF Touch

LEMMA AuthorizeKeeps ==
  ASSUME Inductive, NEW c \in Clients, Authorize(c) PROVE Inductive'
<1>1. PICK r : r = request[c] /\ Fits(r) /\ r.at = "authorize" /\ r \in Request
  BY DEF Inductive, RequestsFit, Fits, Authorize
<1>2. CASE Set(c, Idle)
  BY <1>2, IdleFits, QuietStep DEF Authorize
<1>3. CASE /\ r.org \in orgs /\ MayUpdate(r.user, r.org)
           /\ r.team # 0 => BelongsTo(r.team, r.org)
           /\ Set(c, [r EXCEPT !.at = r.op, !.op = "none"])
  <2> DEFINE s == [r EXCEPT !.at = r.op, !.op = "none"]
  <2>1. /\ s \in Request /\ s.at = r.op /\ s.org = r.org /\ s.user = r.user
        /\ s.team = r.team /\ s.at \in OnOrg \cup OnTeam
        /\ s.at \in OnTeam => s.team \in TeamIds
    BY <1>1 DEF Fits, OrgStepFits, Request, OnOrg, OnTeam
  <2>2. r.org \in 1..lastOrg /\ r.org # 0 /\ r.user \in admins[r.org]
    BY <1>3, Bounds DEF Inductive, TablesFit, OrgsFit, MayUpdate
  <2>3. s.at \in OnTeam => s.team \in 1..lastTeam /\ teamOrg[s.team] = s.org
    BY <1>3, <2>1, <2>2, MaxAssumption
       DEF BelongsTo, Inductive, TablesFit, TeamsFit, TeamIds
  <2> HIDE DEF s
  <2>4. Fits(s)
    BY <2>1, <2>2, <2>3
       DEF Fits, KeyStepFits, OrgStepFits, AdminSteps, TeamSteps, OnOrg, OnTeam
  <2> QED
    BY <1>3, <2>4, QuietStep DEF Authorize, s
<1> QED
  BY <1>1, <1>2, <1>3 DEF Authorize

LEMMA CheckMemberKeeps ==
  ASSUME Inductive, NEW c \in Clients, CheckMember(c) PROVE Inductive'
<1>1. PICK r : r = request[c] /\ Fits(r) /\ r.at = "addMember" /\ r \in Request
  BY DEF Inductive, RequestsFit, Fits, CheckMember
<1>2. PICK user \in Users :
        Set(c, IF IsMember(user, r.org)
               THEN [r EXCEPT !.at = "sync", !.member = user] ELSE Idle)
  BY <1>1 DEF CheckMember
<1>3. IsMember(user, r.org) => Fits([r EXCEPT !.at = "sync", !.member = user])
  BY <1>1 DEF IsMember, Fits, Request, KeyStepFits, OrgStepFits, AdminSteps, TeamSteps
<1> QED
  BY <1>2, <1>3, IdleFits, QuietStep DEF CheckMember

LEMMA CrashKeeps ==
  ASSUME Inductive, NEW c \in Clients, Crash(c) PROVE Inductive'
<1>1. HistoryFits' /\ RetiredStaysRevoked'
  BY Bounds
     DEF Crash, Inductive, HistoryFits, RetiredStaysRevoked, RequestsFit, Fits, OrgStepFits,
         keyTable
<1> QED
  BY <1>1, IdleFits, RequestStep DEF Crash

-----------------------------------------------------------------------------
(* Steps that write                                                        *)

LEMMA CreatedRequest ==
  ASSUME NEW at \in {"revoke", "answer"},
         NEW op \in {"none", "storeKey", "rotate", "revoke"} \cup OnOrg \cup OnTeam,
         NEW key \in {0} \cup KeyIds, NEW was \in {"absent", "no", "yes"}, NEW made \in KeyIds
  PROVE  [Idle EXCEPT !.at = at, !.op = op, !.key = key, !.was = was, !.made = made] \in Request
BY UserAssumption DEF Idle, Request

LEMMA CreateKeyKeeps ==
  ASSUME Inductive, NEW c \in Clients, CreateKey(c) PROVE Inductive'
<1>1. PICK r, k : /\ r = request[c] /\ Fits(r) /\ r.at = "createKey" /\ r \in Request
                  /\ k = lastKey + 1 /\ k \in KeyIds /\ lastKey \in Nat
  BY Bounds, MaxAssumption
     DEF Inductive, RequestsFit, Fits, CreateKey, KeyIds, TablesFit, KeysFit
<1>2. CASE ~OrgAccepted(r.org)
  BY <1>1, <1>2, IdleFits, QuietStep DEF CreateKey
<1>3. CASE OrgAccepted(r.org)
  <2> DEFINE new == [owner |-> r.user, org |-> r.org, revoked |-> "no", from |-> r.key]
             s == [Idle EXCEPT !.at = IF r.op = "rotate" THEN "revoke" ELSE "answer",
                               !.op = r.op, !.key = r.key, !.was = r.was, !.made = k]
  <2>1. /\ keys' = [keys EXCEPT ![k] = new] /\ lastKey' = k /\ Set(c, s)
        /\ UNCHANGED <<orgTables, teamTables, history>>
    BY <1>1, <1>3 DEF CreateKey
  <2>2. new \in Key /\ \A j \in KeyIds : keys'[j] = IF j = k THEN new ELSE keys[j]
    BY <1>1, <2>1 DEF Key, Request, Inductive, TablesFit, KeysFit
  <2>3. r.key \in {0} \cup 1..lastKey /\ k \notin 1..lastKey
    BY <1>1 DEF Fits, KeyStepFits, LoadedFits
  <2>4. TablesFit'
    <3>1. KeysFit'
      BY <1>1, <2>1, <2>2, <2>3, MaxAssumption DEF Inductive, TablesFit, KeysFit, KeyIds
    <3> QED
      BY <2>1, <3>1 DEF Inductive, TablesFit, OrgsFit, TeamsFit, orgTables, teamTables
  <2>5. Evolves
    BY <1>1, <2>1, <2>2, <2>3, Bounds DEF Inductive, Evolves, orgTables, teamTables
  <2>6. Fits(r)'
    BY <1>1, <2>5, FitsStays
  <2>7. Fits(s)'
    <3>1. s \in Request
      <4>1. /\ r.op \in {"none", "storeKey", "rotate", "revoke"} \cup OnOrg \cup OnTeam
            /\ r.key \in {0} \cup KeyIds /\ r.was \in {"absent", "no", "yes"}
        BY <1>1 DEF Request
      <4>2. CASE r.op = "rotate"
        BY <1>1, <4>1, <4>2, CreatedRequest
      <4>3. CASE r.op # "rotate"
        BY <1>1, <4>1, <4>3, CreatedRequest
      <4> QED
        BY <4>2, <4>3
    <3>2. /\ s.at = IF r.op = "rotate" THEN "revoke" ELSE "answer"
          /\ s.key = r.key /\ s.was = r.was
      BY DEF Idle
    <3>3. IF r.op = "rotate" THEN LoadedFits(r)' ELSE r.key = 0
      BY <1>1, <2>6 DEF Fits, KeyStepFits
    <3>4. KeyStepFits(s)'
      BY <3>2, <3>3 DEF KeyStepFits, LoadedFits
    <3>5. OrgStepFits(s)'
      BY <3>2 DEF OrgStepFits, AdminSteps, TeamSteps
    <3> QED
      BY <3>1, <3>4, <3>5 DEF Fits
  <2>8. RequestsFit'
    BY <2>1, <2>5, <2>7, RequestsStay
  <2>9. KeyOwnersAreMembers'
    <3>1. r.org # 0 => r.org \in orgs /\ r.user \in members[r.org]
      BY <1>1, <1>3 DEF OrgAccepted, Fits, KeyStepFits, OwnerFits
    <3> QED
      BY <2>1, <2>2, <3>1 DEF Inductive, KeyOwnersAreMembers, orgTables
  <2>10. TeamUsersAreMembers'
    BY <2>1 DEF Inductive, TeamUsersAreMembers, orgTables, teamTables
  <2>11. RotationKeepsIdentity'
    <3>1. r.key # 0 => keys[r.key].owner = r.user /\ keys[r.key].org = r.org
      BY <1>1, <1>3 DEF OrgAccepted, Fits, KeyStepFits, SourceFits
    <3>2. \A j \in KeyIds : keys[j].from \in {0} \cup 1..lastKey
      BY DEF Inductive, TablesFit, KeysFit
    <3>3. \A j \in 1..lastKey : j \in KeyIds /\ keys'[j] = keys[j]
      BY <2>2, <2>3, Bounds DEF Inductive
    <3> QED
      BY <2>2, <2>3, <3>1, <3>2, <3>3 DEF Inductive, RotationKeepsIdentity
  <2>12. RetiredStaysRevoked' /\ HistoryFits'
    <3>1. k \notin retired
      BY <1>1, <2>3 DEF Inductive, RetiredStaysRevoked, TablesFit, KeysFit, NoKey
    <3> QED
      BY <2>1, <2>2, <3>1 DEF Inductive, RetiredStaysRevoked, HistoryFits, history
  <2> QED
    BY <2>4, <2>8, <2>9, <2>10, <2>11, <2>12 DEF Inductive
<1> QED
  BY <1>2, <1>3

LEMMA RevokeKeeps ==
  ASSUME Inductive, NEW c \in Clients, Revoke(c) PROVE Inductive'
<1>1. PICK r : r = request[c] /\ Fits(r) /\ r.at = "revoke" /\ r \in Request
  BY DEF Inductive, RequestsFit, Fits, Revoke
<1> DEFINE s == [r EXCEPT !.at = "answer"]
<1>2. /\ keys' = IF r.was = "no" THEN [keys EXCEPT ![r.key].revoked = "yes"] ELSE keys
      /\ Set(c, s)
      /\ UNCHANGED <<lastKey, orgTables, teamTables, history>>
  BY <1>1 DEF Revoke
<1>3. r.key \in 1..lastKey /\ r.key \in KeyIds
      /\ r.was \in {"no", "yes"} /\ (r.was = "yes" => keys[r.key].revoked = "yes")
  BY <1>1, Bounds DEF Inductive, Fits, KeyStepFits, LoadedFits
<1>4. /\ keys' \in [KeyIds -> Key]
      /\ \A k \in KeyIds :
           /\ keys'[k].owner = keys[k].owner /\ keys'[k].org = keys[k].org
           /\ keys'[k].from = keys[k].from
           /\ keys'[k].revoked = IF k = r.key THEN "yes" ELSE keys[k].revoked
           /\ k # r.key => keys'[k] = keys[k]
  <2>1. keys \in [KeyIds -> Key]
    BY DEF Inductive, TablesFit, KeysFit
  <2>2. /\ [keys[r.key] EXCEPT !.revoked = "yes"] \in Key
        /\ [keys[r.key] EXCEPT !.revoked = "yes"].owner = keys[r.key].owner
        /\ [keys[r.key] EXCEPT !.revoked = "yes"].org = keys[r.key].org
        /\ [keys[r.key] EXCEPT !.revoked = "yes"].from = keys[r.key].from
        /\ [keys[r.key] EXCEPT !.revoked = "yes"].revoked = "yes"
    BY <1>3, <2>1 DEF Key
  <2>3. CASE r.was = "no"
    <3>1. keys' = [keys EXCEPT ![r.key] = [keys[r.key] EXCEPT !.revoked = "yes"]]
      BY <1>2, <2>3
    <3> QED
      BY <1>3, <2>1, <2>2, <3>1
  <2>4. CASE r.was = "yes"
    BY <1>2, <1>3, <2>1, <2>4
  <2> QED
    BY <1>3, <2>3, <2>4
<1>5. TablesFit'
  BY <1>2, <1>3, <1>4
     DEF Inductive, TablesFit, KeysFit, OrgsFit, TeamsFit, orgTables, teamTables
<1>6. Evolves
  BY <1>2, <1>4, Bounds DEF Inductive, Evolves, orgTables, teamTables
<1>7. Fits(s)'
  BY <1>1, <1>2, <1>3, <1>4
     DEF Fits, Request, KeyStepFits, OrgStepFits, AdminSteps, TeamSteps
<1>8. RequestsFit'
  BY <1>2, <1>6, <1>7, RequestsStay
<1>9. KeyOwnersAreMembers' /\ TeamUsersAreMembers'
  BY <1>2, <1>4 DEF Inductive, KeyOwnersAreMembers, TeamUsersAreMembers, orgTables, teamTables
<1>10. RotationKeepsIdentity'
  <2>1. \A k \in KeyIds : keys[k].from # 0 => keys[k].from \in KeyIds
    BY Bounds DEF Inductive, TablesFit, KeysFit
  <2> QED
    BY <1>4, <2>1 DEF Inductive, RotationKeepsIdentity
<1>11. RetiredStaysRevoked' /\ HistoryFits'
  BY <1>2, <1>4 DEF Inductive, RetiredStaysRevoked, HistoryFits, history
<1> QED
  BY <1>5, <1>8, <1>9, <1>10, <1>11 DEF Inductive

(* A step that leaves the keys alone.                                      *)
LEMMA KeysStay ==
  ASSUME Inductive, UNCHANGED <<keyTable, known, retired>>, unmanaged' \in SUBSET OrgIds
  PROVE  KeysFit' /\ HistoryFits' /\ RotationKeepsIdentity' /\ RetiredStaysRevoked'
BY DEF Inductive, TablesFit, KeysFit, HistoryFits, RotationKeepsIdentity,
       RetiredStaysRevoked, keyTable

LEMMA CreateOrgKeeps ==
  ASSUME Inductive, NEW c \in Clients, CreateOrg(c) PROVE Inductive'
<1>1. PICK r, o : r = request[c] /\ Fits(r) /\ r.at = "createOrg" /\ r \in Request
                  /\ o = lastOrg + 1 /\ o \in OrgIds /\ lastOrg \in Nat /\ lastOrg < o
  BY Bounds, MaxAssumption
     DEF Inductive, RequestsFit, Fits, CreateOrg, OrgIds, TablesFit, OrgsFit
<1> DEFINE s == [r EXCEPT !.at = "attach", !.org = o]
<1>2. /\ orgs' = orgs \cup {o} /\ lastOrg' = o /\ Set(c, s)
      /\ UNCHANGED <<keyTable, members, admins, teamTables, history>>
  BY <1>1 DEF CreateOrg
<1>3. KeysFit' /\ HistoryFits' /\ RotationKeepsIdentity' /\ RetiredStaysRevoked'
  BY <1>2, KeysStay DEF Inductive, HistoryFits, history
<1>4. OrgsFit'
  BY <1>1, <1>2, MaxAssumption DEF Inductive, TablesFit, OrgsFit, OrgIds
<1>5. TeamsFit' /\ KeyOwnersAreMembers' /\ TeamUsersAreMembers'
  BY <1>2
     DEF Inductive, TablesFit, TeamsFit, KeyOwnersAreMembers, TeamUsersAreMembers,
         keyTable, teamTables
<1>6. Evolves
  BY <1>1, <1>2, Bounds DEF Inductive, TablesFit, OrgsFit, Evolves, keyTable, teamTables
<1>7. Fits(s)'
  <2>1. s \in Request /\ s.at = "attach" /\ s.org = o
    BY <1>1 DEF Request
  <2>2. o \in 1..lastOrg'
    BY <1>1, <1>2 DEF OrgIds
  <2> HIDE DEF s
  <2> QED
    BY <2>1, <2>2 DEF Fits, KeyStepFits, OrgStepFits, AdminSteps, TeamSteps
<1>8. RequestsFit'
  BY <1>2, <1>6, <1>7, RequestsStay
<1> QED
  BY <1>3, <1>4, <1>5, <1>8 DEF Inductive, TablesFit

LEMMA AttachAdminKeeps ==
  ASSUME Inductive, NEW c \in Clients, AttachAdmin(c) PROVE Inductive'
<1>1. PICK r : r = request[c] /\ Fits(r) /\ r.at = "attach" /\ r \in Request
  BY DEF Inductive, RequestsFit, Fits, AttachAdmin
<1>2. /\ members' = [members EXCEPT ![r.org] = @ \cup {r.user}]
      /\ admins' = [admins EXCEPT ![r.org] = @ \cup {r.user}]
      /\ Set(c, Idle)
      /\ UNCHANGED <<keyTable, orgs, lastOrg, teamTables, history>>
  BY <1>1 DEF AttachAdmin
<1>3. r.org \in OrgIds /\ r.user \in Users
  BY <1>1, Bounds DEF Inductive, Fits, OrgStepFits, Request
<1>4. /\ members' \in [OrgIds -> SUBSET Users] /\ admins' \in [OrgIds -> SUBSET Users]
      /\ \A o \in OrgIds : members[o] \subseteq members'[o] /\ admins[o] \subseteq admins'[o]
  BY <1>2, <1>3 DEF Inductive, TablesFit, OrgsFit
<1>5. KeysFit' /\ HistoryFits' /\ RotationKeepsIdentity' /\ RetiredStaysRevoked'
  BY <1>2, KeysStay DEF Inductive, HistoryFits, history
<1>6. OrgsFit' /\ TeamsFit'
  BY <1>2, <1>4 DEF Inductive, TablesFit, OrgsFit, TeamsFit, teamTables
<1>7. orgs \subseteq OrgIds
  BY Bounds DEF Inductive, TablesFit, OrgsFit
<1>8. KeyOwnersAreMembers'
  BY <1>2, <1>4, <1>7 DEF Inductive, KeyOwnersAreMembers, keyTable
<1>9. TeamUsersAreMembers'
  BY <1>2, <1>4, <1>7 DEF Inductive, TeamUsersAreMembers, teamTables
<1>10. Evolves
  BY <1>2, <1>4, Bounds DEF Inductive, Evolves, keyTable, teamTables
<1>11. RequestsFit'
  BY <1>2, <1>10, IdleFits, FitsStays, RequestsStay
<1> QED
  BY <1>5, <1>6, <1>8, <1>9, <1>11 DEF Inductive, TablesFit

LEMMA DestroyOrgKeeps ==
  ASSUME Inductive, NEW c \in Clients, DestroyOrg(c) PROVE Inductive'
<1>0. PICK o : o = request[c].org
  OBVIOUS
<1>1. /\ o \in 1..lastOrg /\ o \in OrgIds /\ o # 0
      /\ orgs' = orgs \ {o}
      /\ members' = [members EXCEPT ![o] = {}]
      /\ admins' = [admins EXCEPT ![o] = {}]
      /\ teamOrg' = [t \in TeamIds |-> IF teamOrg[t] = o THEN 0 ELSE teamOrg[t]]
      /\ teamUsers' = [t \in TeamIds |-> IF teamOrg[t] = o THEN {} ELSE teamUsers[t]]
      /\ keys' = [k \in KeyIds |-> IF keys[k].org = o
                                   THEN [keys[k] EXCEPT !.org = 0] ELSE keys[k]]
      /\ Set(c, Idle)
      /\ UNCHANGED <<lastKey, lastOrg, lastTeam, history>>
  <2>1. Fits(request[c]) /\ request[c].at = "destroyOrg"
    BY DEF Inductive, RequestsFit, DestroyOrg
  <2>2. o \in 1..lastOrg
    BY <1>0, <2>1 DEF Fits, OrgStepFits, AdminSteps
  <2>3. o \in OrgIds /\ o # 0
    BY <2>2, Bounds DEF Inductive
  <2> QED
    BY <1>0, <2>2, <2>3 DEF DestroyOrg
<1>2. \A k \in KeyIds :
        /\ keys'[k] \in Key
        /\ keys'[k].owner = keys[k].owner /\ keys'[k].from = keys[k].from
        /\ keys'[k].revoked = keys[k].revoked
        /\ keys'[k].org = IF keys[k].org = o THEN 0 ELSE keys[k].org
        /\ keys[k] = NoKey => keys'[k] = NoKey
  <2> SUFFICES ASSUME NEW k \in KeyIds
               PROVE  /\ keys'[k] \in Key
                      /\ keys'[k].owner = keys[k].owner /\ keys'[k].from = keys[k].from
                      /\ keys'[k].revoked = keys[k].revoked
                      /\ keys'[k].org = IF keys[k].org = o THEN 0 ELSE keys[k].org
                      /\ keys[k] = NoKey => keys'[k] = NoKey
    OBVIOUS
  <2>1. keys[k] \in Key
    BY DEF Inductive, TablesFit, KeysFit
  <2>2. keys'[k] = IF keys[k].org = o THEN [keys[k] EXCEPT !.org = 0] ELSE keys[k]
    BY <1>1
  <2>3. NoKey.org # o
    BY <1>1 DEF NoKey
  <2>4. \A key \in Key :
          /\ [key EXCEPT !.org = 0] \in Key /\ [key EXCEPT !.org = 0].org = 0
          /\ [key EXCEPT !.org = 0].owner = key.owner
          /\ [key EXCEPT !.org = 0].from = key.from
          /\ [key EXCEPT !.org = 0].revoked = key.revoked
    BY DEF Key
  <2>5. CASE keys[k].org = o
    BY <2>1, <2>2, <2>3, <2>4, <2>5
  <2>6. CASE keys[k].org # o
    BY <2>1, <2>2, <2>6
  <2> QED
    BY <2>5, <2>6
<1>3. keys' \in [KeyIds -> Key]
  <2>1. keys' = [k \in KeyIds |-> keys'[k]]
    BY <1>1
  <2> QED
    BY <1>2, <2>1
<1>4. KeysFit'
  BY <1>1, <1>2, <1>3 DEF Inductive, TablesFit, KeysFit
<1>5. OrgsFit' /\ TeamsFit' /\ HistoryFits'
  BY <1>1 DEF Inductive, TablesFit, OrgsFit, TeamsFit, HistoryFits, history
<1>6. KeyOwnersAreMembers'
  <2>1. \A k \in KeyIds : keys'[k].org # 0 =>
          keys'[k].org \in orgs' /\ keys'[k].owner \in members[keys'[k].org]
    BY <1>1, <1>2 DEF Inductive, KeyOwnersAreMembers
  <2>2. \A p \in OrgIds : p # o => members'[p] = members[p]
    BY <1>1 DEF Inductive, TablesFit, OrgsFit
  <2>3. orgs' \subseteq OrgIds \ {o}
    BY <1>1, Bounds DEF Inductive, TablesFit, OrgsFit
  <2> QED
    BY <2>1, <2>2, <2>3 DEF KeyOwnersAreMembers
<1>7. TeamUsersAreMembers'
  <2>1. \A p \in OrgIds : p # o => members'[p] = members[p]
    BY <1>1 DEF Inductive, TablesFit, OrgsFit
  <2>2. orgs \subseteq OrgIds
    BY Bounds DEF Inductive, TablesFit, OrgsFit
  <2> QED
    BY <1>1, <2>1, <2>2 DEF Inductive, TeamUsersAreMembers
<1>8. RotationKeepsIdentity'
  <2>1. \A k \in KeyIds : keys[k].from # 0 => keys[k].from \in KeyIds
    BY Bounds DEF Inductive, TablesFit, KeysFit
  <2> QED
    BY <1>2, <2>1 DEF Inductive, RotationKeepsIdentity
<1>9. RetiredStaysRevoked'
  BY <1>1, <1>2 DEF Inductive, RetiredStaysRevoked, HistoryFits, history
<1>10. Evolves
  <2>1. \A p \in OrgIds : p # o => members'[p] = members[p] /\ admins'[p] = admins[p]
    BY <1>1 DEF Inductive, TablesFit, OrgsFit
  <2>2. \A t \in 1..lastTeam : teamOrg'[t] \in {0, teamOrg[t]}
    BY <1>1, Bounds DEF Inductive
  <2>3. \A k \in 1..lastKey :
          /\ keys'[k].owner = keys[k].owner
          /\ keys[k].revoked = "yes" => keys'[k].revoked = "yes"
          /\ keys'[k].org = keys[k].org \/ (keys'[k].org = 0 /\ keys[k].org \notin orgs')
    BY <1>1, <1>2, Bounds DEF Inductive
  <2> QED
    BY <1>1, <2>1, <2>2, <2>3, Bounds DEF Inductive, Evolves
<1>11. RequestsFit'
  BY <1>1, <1>10, IdleFits, FitsStays, RequestsStay
<1> QED
  BY <1>4, <1>5, <1>6, <1>7, <1>8, <1>9, <1>11 DEF Inductive, TablesFit

LEMMA StoreTeamKeeps ==
  ASSUME Inductive, NEW c \in Clients, StoreTeam(c) PROVE Inductive'
<1>1. PICK r, t : r = request[c] /\ Fits(r) /\ r.at = "storeTeam" /\ r \in Request
                  /\ t = lastTeam + 1 /\ t \in TeamIds /\ lastTeam \in Nat /\ lastTeam < t
  BY Bounds, MaxAssumption
     DEF Inductive, RequestsFit, Fits, StoreTeam, TeamIds, TablesFit, TeamsFit
<1>2. CASE r.org \notin orgs
  BY <1>1, <1>2, IdleFits, QuietStep DEF StoreTeam, teamTables
<1>3. CASE r.org \in orgs
  <2>1. /\ teamOrg' = [teamOrg EXCEPT ![t] = r.org] /\ lastTeam' = t /\ Set(c, Idle)
        /\ UNCHANGED <<keyTable, orgTables, teamUsers, history>>
    BY <1>1, <1>3 DEF StoreTeam
  <2>2. KeysFit' /\ HistoryFits' /\ RotationKeepsIdentity' /\ RetiredStaysRevoked'
    BY <2>1, KeysStay DEF Inductive, HistoryFits, history
  <2>3. OrgsFit' /\ KeyOwnersAreMembers'
    BY <2>1 DEF Inductive, TablesFit, OrgsFit, KeyOwnersAreMembers, keyTable, orgTables
  <2>4. teamOrg[t] = 0 /\ teamUsers[t] = {}
    BY <1>1, Bounds
       DEF Inductive, TablesFit, TeamsFit, OrgsFit, TeamUsersAreMembers
  <2>5. TeamsFit'
    BY <1>1, <1>3, <2>1, MaxAssumption
       DEF Inductive, TablesFit, TeamsFit, orgTables, Request, TeamIds
  <2>6. TeamUsersAreMembers'
    BY <1>1, <2>1, <2>4 DEF Inductive, TablesFit, TeamsFit, TeamUsersAreMembers, orgTables
  <2>7. Evolves
    BY <1>1, <2>1, Bounds DEF Inductive, TablesFit, TeamsFit, Evolves, keyTable, orgTables
  <2>8. RequestsFit'
    BY <2>1, <2>7, IdleFits, FitsStays, RequestsStay
  <2> QED
    BY <2>2, <2>3, <2>5, <2>6, <2>8 DEF Inductive, TablesFit
<1> QED
  BY <1>2, <1>3

LEMMA TeamUsersChange ==
  ASSUME Inductive, NEW c \in Clients, Set(c, Idle),
         UNCHANGED <<keyTable, orgTables, teamOrg, lastTeam, history>>,
         teamUsers' \in [TeamIds -> SUBSET Users], TeamUsersAreMembers'
  PROVE  Inductive'
<1>1. KeysFit' /\ HistoryFits' /\ RotationKeepsIdentity' /\ RetiredStaysRevoked'
  BY KeysStay DEF Inductive, HistoryFits, history
<1>2. OrgsFit' /\ TeamsFit' /\ KeyOwnersAreMembers'
  BY DEF Inductive, TablesFit, OrgsFit, TeamsFit, KeyOwnersAreMembers, keyTable, orgTables
<1>3. Evolves
  BY Bounds DEF Inductive, Evolves, keyTable, orgTables
<1>4. RequestsFit'
  BY <1>3, IdleFits, FitsStays, RequestsStay
<1> QED
  BY <1>1, <1>2, <1>4 DEF Inductive, TablesFit

LEMMA SyncMemberKeeps ==
  ASSUME Inductive, NEW c \in Clients, SyncMember(c) PROVE Inductive'
<1>1. PICK r : r = request[c] /\ Fits(r) /\ r.at = "sync" /\ r \in Request
  BY DEF Inductive, RequestsFit, Fits, SyncMember
<1>2. CASE teamOrg[r.team] = 0
  BY <1>1, <1>2, IdleFits, QuietStep DEF SyncMember, teamTables
<1>3. CASE teamOrg[r.team] # 0
  <2>1. /\ teamUsers' = [teamUsers EXCEPT ![r.team] = @ \cup {r.member}]
        /\ Set(c, Idle) /\ UNCHANGED <<keyTable, orgTables, teamOrg, lastTeam, history>>
    BY <1>1, <1>3 DEF SyncMember
  <2>2. r.team \in TeamIds /\ r.member \in Users
    BY <1>1, Bounds DEF Inductive, Fits, OrgStepFits, TeamSteps, Request
  <2>3. teamOrg[r.team] = r.org /\ r.org \in orgs /\ r.member \in members[r.org]
    BY <1>1, <1>3, <2>2 DEF Fits, OrgStepFits, TeamSteps, Inductive, TablesFit, TeamsFit
  <2>4. teamUsers' \in [TeamIds -> SUBSET Users]
    BY <2>1, <2>2 DEF Inductive, TablesFit, TeamsFit
  <2>5. TeamUsersAreMembers'
    BY <2>1, <2>2, <2>3 DEF Inductive, TablesFit, TeamsFit, TeamUsersAreMembers, orgTables
  <2> QED
    BY <2>1, <2>4, <2>5, TeamUsersChange
<1> QED
  BY <1>2, <1>3

LEMMA RemoveMemberKeeps ==
  ASSUME Inductive, NEW c \in Clients, RemoveMember(c) PROVE Inductive'
<1>1. PICK user \in Users :
        /\ teamUsers' = [teamUsers EXCEPT ![request[c].team] = @ \ {user}]
        /\ Set(c, Idle) /\ UNCHANGED <<keyTable, orgTables, teamOrg, lastTeam, history>>
  BY DEF RemoveMember
<1>2. teamUsers' \in [TeamIds -> SUBSET Users]
  BY <1>1 DEF Inductive, TablesFit, TeamsFit
<1>3. \A t \in TeamIds : teamUsers'[t] \subseteq teamUsers[t]
  BY <1>1 DEF Inductive, TablesFit, TeamsFit
<1>4. TeamUsersAreMembers'
  BY <1>1, <1>3 DEF Inductive, TeamUsersAreMembers, orgTables
<1> QED
  BY <1>1, <1>2, <1>4, TeamUsersChange

-----------------------------------------------------------------------------
(* The theorems                                                            *)

LEMMA InitHolds == Init => Inductive
<1> SUFFICES ASSUME Init PROVE Inductive
  OBVIOUS
<1>1. NoKey \in Key
  BY UserAssumption DEF NoKey, Key
<1>2. KeysFit /\ KeyOwnersAreMembers /\ RotationKeepsIdentity
  BY <1>1, MaxAssumption
     DEF Init, KeysFit, KeyOwnersAreMembers, RotationKeepsIdentity, NoKey
<1>3. OrgsFit
  BY UserAssumption, MaxAssumption DEF Init, OrgsFit, OrgIds
<1>4. TeamsFit /\ TeamUsersAreMembers /\ HistoryFits /\ RetiredStaysRevoked
  BY MaxAssumption
     DEF Init, TeamsFit, TeamUsersAreMembers, HistoryFits, RetiredStaysRevoked
<1>5. RequestsFit
  BY IdleFits DEF Init, RequestsFit, Fits
<1> QED
  BY <1>2, <1>3, <1>4, <1>5 DEF Inductive, TablesFit

LEMMA NextKeeps == Inductive /\ [Next]_vars => Inductive'
<1> SUFFICES ASSUME Inductive, [Next]_vars PROVE Inductive'
  OBVIOUS
<1>1. CASE UNCHANGED vars
  BY <1>1
     DEF vars, Inductive, TablesFit, KeysFit, OrgsFit, TeamsFit, HistoryFits, RequestsFit,
         Fits, KeyStepFits, OrgStepFits, OwnerFits, LoadedFits, SourceFits,
         KeyOwnersAreMembers, TeamUsersAreMembers, RotationKeepsIdentity, RetiredStaysRevoked
<1>2. ASSUME NEW c \in Clients,
             \/ BeginStoreKey(c) \/ BeginOnKey(c) \/ CreateKey(c) \/ Revoke(c) \/ Answer(c)
             \/ Lookup(c) \/ Touch(c) \/ Authorize(c)
             \/ CreateOrg(c) \/ AttachAdmin(c) \/ DestroyOrg(c)
             \/ StoreTeam(c) \/ CheckMember(c) \/ SyncMember(c) \/ RemoveMember(c)
             \/ Crash(c)
      PROVE  Inductive'
  BY <1>2, BeginStoreKeyKeeps, BeginOnKeyKeeps, CreateKeyKeeps, RevokeKeeps, AnswerKeeps,
     LookupKeeps, TouchKeeps, AuthorizeKeeps, CreateOrgKeeps, AttachAdminKeeps,
     DestroyOrgKeeps, StoreTeamKeeps, CheckMemberKeeps, SyncMemberKeeps,
     RemoveMemberKeeps, CrashKeeps
<1> QED
  BY <1>1, <1>2 DEF Next

(* The inductive invariant.                                                *)
THEOREM Invariance == Spec => []Inductive
BY InitHolds, NextKeeps, PTL DEF Spec

(* Every variable of auth-service's tables and handlers keeps its type.    *)
THEOREM TypeCorrect == Spec => []TypeOK
<1>1. Inductive => TypeOK
  BY MaxAssumption
     DEF Inductive, TablesFit, KeysFit, OrgsFit, TeamsFit, HistoryFits, RequestsFit,
         Request, Key, TypeOK, KeyIds, OrgIds, TeamIds
<1> QED
  BY <1>1, Invariance, PTL

(* A key's owner belongs to its organization (StoreApiKeyRequest.php:33-45),*)
(* however old the check or the copy is that it was made from.             *)
THEOREM KeysStayWithMembers == Spec => []KeyOwnersAreMembers
<1>1. Inductive => KeyOwnersAreMembers
  BY DEF Inductive
<1> QED
  BY <1>1, Invariance, PTL

(* A team's users belong to its organization, though only the handler      *)
(* checks it, one statement earlier (TeamController.php:33-49).            *)
THEOREM TeamsStayWithMembers == Spec => []TeamUsersAreMembers
<1>1. Inductive => TeamUsersAreMembers
  BY DEF Inductive
<1> QED
  BY <1>1, Invariance, PTL

(* A rotated key has the owner and organization of its source, also when   *)
(* that organization is deleted while the rotation runs.                   *)
THEOREM RotationsKeepIdentity == Spec => []RotationKeepsIdentity
<1>1. Inductive => RotationKeepsIdentity
  BY DEF Inductive
<1> QED
  BY <1>1, Invariance, PTL

(* No later write revives a key whose revocation was answered.             *)
THEOREM RevocationsLast == Spec => []RetiredStaysRevoked
<1>1. Inductive => RetiredStaysRevoked
  BY DEF Inductive
<1> QED
  BY <1>1, Invariance, PTL

(* An organization whose creation did not die half-way has an admin.       *)
THEOREM OrganizationsHaveAdmins == Spec => []OrganizationsAreManaged
<1>1. Init => OrganizationsAreManaged
  BY MaxAssumption DEF Init, OrganizationsAreManaged, OrgIds
<1>2. Inductive /\ OrganizationsAreManaged /\ [Next]_vars => OrganizationsAreManaged'
  <2> SUFFICES ASSUME Inductive, OrganizationsAreManaged, [Next]_vars
               PROVE  OrganizationsAreManaged'
    OBVIOUS
  <2>1. ASSUME NEW c \in Clients, request[c].at # "attach",
               \A d \in Clients : d # c => request'[d] = request[d],
               UNCHANGED <<orgs, admins, unmanaged>>
        PROVE  OrganizationsAreManaged'
    BY <2>1 DEF OrganizationsAreManaged
  <2>2. ASSUME NEW c \in Clients,
               \/ BeginStoreKey(c) \/ BeginOnKey(c) \/ CreateKey(c) \/ Revoke(c) \/ Answer(c)
               \/ Lookup(c) \/ Touch(c) \/ Authorize(c)
               \/ StoreTeam(c) \/ CheckMember(c) \/ SyncMember(c) \/ RemoveMember(c)
        PROVE  OrganizationsAreManaged'
    <3>1. request[c].at # "attach" /\ UNCHANGED <<orgs, admins, unmanaged>>
      <4>1. Idle.at # "attach"
        BY DEF Idle
      <4>2. CASE BeginStoreKey(c) \/ BeginOnKey(c) \/ Lookup(c)
        BY <4>1, <4>2 DEF BeginStoreKey, BeginOnKey, Lookup, orgTables, history
      <4>3. CASE CreateKey(c) \/ Revoke(c) \/ Answer(c)
        BY <4>3 DEF CreateKey, Revoke, Answer, orgTables, history
      <4>4. CASE Touch(c) \/ Authorize(c) \/ CheckMember(c)
        BY <4>4 DEF Touch, Authorize, CheckMember, orgTables, history
      <4>5. CASE StoreTeam(c) \/ SyncMember(c) \/ RemoveMember(c)
        BY <4>5 DEF StoreTeam, SyncMember, RemoveMember, orgTables, history
      <4> QED
        BY <2>2, <4>2, <4>3, <4>4, <4>5
    <3>2. \A d \in Clients : d # c => request'[d] = request[d]
      <4>1. \A s : Set(c, s) => \A d \in Clients : d # c => request'[d] = request[d]
        BY DEF Set, Inductive, RequestsFit
      <4>2. CASE BeginStoreKey(c) \/ BeginOnKey(c) \/ CreateKey(c) \/ Revoke(c) \/ Answer(c)
        BY <4>1, <4>2 DEF BeginStoreKey, BeginOnKey, CreateKey, Revoke, Answer
      <4>3. CASE Lookup(c)
        BY <4>1, <4>3 DEF Lookup
      <4>4. CASE Touch(c)
        BY <4>1, <4>4 DEF Touch, Route
      <4>5. CASE Authorize(c) \/ StoreTeam(c) \/ CheckMember(c)
        BY <4>1, <4>5 DEF Authorize, StoreTeam, CheckMember
      <4>6. CASE SyncMember(c) \/ RemoveMember(c)
        BY <4>1, <4>6 DEF SyncMember, RemoveMember
      <4> QED
        BY <2>2, <4>2, <4>3, <4>4, <4>5, <4>6
    <3> QED
      BY <2>1, <3>1, <3>2
  <2>3. ASSUME NEW c \in Clients, CreateOrg(c) PROVE OrganizationsAreManaged'
    <3>1. /\ request'[c].at = "attach" /\ request'[c].org = lastOrg + 1
          /\ \A d \in Clients : d # c => request'[d] = request[d]
          /\ request[c].at # "attach"
      BY <2>3 DEF CreateOrg, Set, Inductive, RequestsFit, Request
    <3> QED
      BY <2>3, <3>1 DEF CreateOrg, OrganizationsAreManaged, history
  <2>4. ASSUME NEW c \in Clients, AttachAdmin(c) PROVE OrganizationsAreManaged'
    <3>1. /\ request[c].org \in OrgIds
          /\ \A d \in Clients : d # c => request'[d] = request[d]
          /\ orgs' = orgs /\ unmanaged' = unmanaged
          /\ \A o \in OrgIds : admins'[o] =
               IF o = request[c].org THEN admins[o] \cup {request[c].user} ELSE admins[o]
      BY <2>4, Bounds
         DEF AttachAdmin, Set, Inductive, RequestsFit, Fits, OrgStepFits, TablesFit, OrgsFit,
             history
    <3>2. orgs \subseteq OrgIds
      BY Bounds DEF Inductive, TablesFit, OrgsFit
    <3> QED
      BY <3>1, <3>2 DEF OrganizationsAreManaged
  <2>5. ASSUME NEW c \in Clients, DestroyOrg(c) PROVE OrganizationsAreManaged'
    <3>1. /\ request[c].at = "destroyOrg"
          /\ \A d \in Clients : d # c => request'[d] = request[d]
          /\ orgs' = orgs \ {request[c].org} /\ unmanaged' = unmanaged
          /\ \A o \in orgs' : admins'[o] = admins[o]
      BY <2>5, Bounds
         DEF DestroyOrg, Set, Inductive, RequestsFit, TablesFit, OrgsFit, history
    <3> QED
      BY <3>1 DEF OrganizationsAreManaged
  <2>6. ASSUME NEW c \in Clients, Crash(c) PROVE OrganizationsAreManaged'
    <3>1. /\ \A d \in Clients : d # c => request'[d] = request[d]
          /\ orgs' = orgs /\ admins' = admins
          /\ unmanaged' = IF request[c].at = "attach"
                          THEN unmanaged \cup {request[c].org} ELSE unmanaged
      BY <2>6 DEF Crash, Set, Inductive, RequestsFit, orgTables
    <3> QED
      BY <3>1 DEF OrganizationsAreManaged
  <2>7. CASE UNCHANGED vars
    BY <2>7 DEF vars, OrganizationsAreManaged
  <2> QED
    BY <2>2, <2>3, <2>4, <2>5, <2>6, <2>7 DEF Next
<1> QED
  BY <1>1, <1>2, Invariance, PTL DEF Spec

(* Whoever changes an organization or its teams is its admin when the      *)
(* change is made, although the policy ran in an earlier statement.        *)
THEOREM OnlyAdminsMakeChanges == Spec => OnlyAdminsChange
<1> DEFINE ByAdmin(o) ==
      \E c \in Clients :
        request'[c] # request[c] /\ request[c].org = o /\ request[c].user \in admins[o]
<1>1. Inductive /\ [Next]_vars => \A o \in OrgIds : Touched(o) => ByAdmin(o)
  <2> SUFFICES ASSUME Inductive, [Next]_vars, NEW o \in OrgIds, Touched(o)
               PROVE  ByAdmin(o)
    OBVIOUS
  <2>0. o # 0 /\ orgs \subseteq OrgIds
    BY Bounds DEF OrgIds, Inductive, TablesFit, OrgsFit
  <2>1. ASSUME NEW c \in Clients, Set(c, Idle), request[c].at \in AdminSteps,
               request[c].org = o, o \in orgs
        PROVE  ByAdmin(o)
    <3>1. request[c].user \in admins[o]
      BY <2>1 DEF Inductive, RequestsFit, Fits, OrgStepFits
    <3>2. request'[c].at = "idle"
      BY <2>1 DEF Set, Idle, Inductive, RequestsFit
    <3> QED
      BY <2>1, <3>1, <3>2 DEF AdminSteps
  <2>2. ASSUME orgs \subseteq orgs', UNCHANGED <<teamOrg, teamUsers>> PROVE FALSE
    BY <2>2 DEF Touched
  <2>3. ASSUME NEW c \in Clients, DestroyOrg(c) PROVE ByAdmin(o)
    <3>1. request[c].org = o /\ o \in orgs
      BY <2>0, <2>3 DEF DestroyOrg, Touched, Inductive, TablesFit, TeamsFit
    <3> QED
      BY <2>1, <2>3, <3>1 DEF DestroyOrg, AdminSteps
  <2>4. ASSUME NEW c \in Clients, StoreTeam(c) PROVE ByAdmin(o)
    <3>1. request[c].org \in orgs /\ Set(c, Idle) /\ orgs' = orgs
          /\ teamOrg' = [teamOrg EXCEPT ![lastTeam + 1] = request[c].org]
          /\ UNCHANGED teamUsers
      BY <2>2, <2>4 DEF StoreTeam, orgTables
    <3>2. \A t \in TeamIds : t = lastTeam + 1 => teamOrg[t] = 0
      BY Bounds DEF Inductive, TablesFit, TeamsFit
    <3>3. request[c].org = o
      BY <2>0, <3>1, <3>2 DEF Touched, Inductive, TablesFit, TeamsFit
    <3> QED
      BY <2>1, <2>4, <3>1, <3>3 DEF StoreTeam, AdminSteps
  <2>5. ASSUME NEW c \in Clients, SyncMember(c) \/ RemoveMember(c) PROVE ByAdmin(o)
    <3>1. /\ request[c].at \in {"sync", "removeMember"} /\ Set(c, Idle) /\ orgs' = orgs
          /\ teamOrg' = teamOrg
          /\ \A t \in TeamIds : teamUsers'[t] # teamUsers[t] => t = request[c].team
      BY <2>5 DEF SyncMember, RemoveMember, orgTables, Inductive, TablesFit, TeamsFit
    <3>2. request[c].team \in TeamIds /\ teamOrg[request[c].team] = o
      BY <3>1 DEF Touched
    <3>3. teamOrg[request[c].team] \in {0, request[c].org}
      BY <3>1 DEF Inductive, RequestsFit, Fits, OrgStepFits, TeamSteps
    <3>4. request[c].org = o /\ o \in orgs
      BY <2>0, <3>2, <3>3 DEF Inductive, TablesFit, TeamsFit
    <3> QED
      BY <2>1, <3>1, <3>4 DEF AdminSteps
  <2>6. ASSUME NEW c \in Clients,
               \/ BeginStoreKey(c) \/ BeginOnKey(c) \/ CreateKey(c) \/ Revoke(c) \/ Answer(c)
               \/ Lookup(c) \/ Touch(c) \/ Authorize(c)
               \/ CreateOrg(c) \/ AttachAdmin(c) \/ CheckMember(c) \/ Crash(c)
        PROVE  FALSE
    BY <2>2, <2>6
       DEF BeginStoreKey, BeginOnKey, CreateKey, Revoke, Answer, Lookup, Touch, Authorize,
           CreateOrg, AttachAdmin, CheckMember, Crash, orgTables, teamTables
  <2>7. CASE UNCHANGED vars
    BY <2>2, <2>7 DEF vars
  <2> QED
    BY <2>3, <2>4, <2>5, <2>6, <2>7 DEF Next
<1>2. Inductive /\ [Next]_vars =>
        [\A o \in OrgIds : Touched(o) =>
           \E c \in Clients :
             /\ request'[c] # request[c]
             /\ request[c].org = o /\ request[c].user \in admins[o]]_vars
  BY <1>1
<1> QED
  BY <1>2, Invariance, PTL DEF OnlyAdminsChange, Spec

=============================================================================
