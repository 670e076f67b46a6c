-------------------------- MODULE DirectoryProofs --------------------------
(***************************************************************************)
(* Proofs about Directory for every set of names, servers and requests.    *)
(***************************************************************************)
EXTENDS Directory, FiniteSetTheorems, WellFoundedInduction, TLAPS

-----------------------------------------------------------------------------
(* What the three computations of a permission have in common, for all     *)
(* tables P of permissions and M of memberships.                           *)

LEMMA CheckIsDocumented ==
  ASSUME NEW P, NEW M, NEW s, NEW u
  PROVE  CheckServerPermission(P, M, s, u) <=> DocumentedPermission(P, M, s, u)
<1> DEFINE own == UserRules(P, s, u)
           shared == GroupRules(P, s, GroupIdsOf(M, u))
           row == <<Denies(own), Permits(own), Denies(shared), Permits(shared)>>
           first(i) == row[i] /\ \A j \in 1 .. i - 1 : ~row[j]
<1>1. DocumentedPermission(P, M, s, u) <=> first(2) \/ first(4)
  BY DEF DocumentedPermission
<1>2. 1 .. 2 - 1 = {1} /\ 1 .. 4 - 1 = {1, 2, 3}
  OBVIOUS
<1>3. row[1] = Denies(own) /\ row[2] = Permits(own) /\ row[3] = Denies(shared) /\ row[4] = Permits(shared)
  OBVIOUS
<1>4. first(2) <=> Permits(own) /\ ~Denies(own)
  <2> HIDE DEF own, shared, row
  <2> QED
    BY <1>2, <1>3
<1>5. first(4) <=> Permits(shared) /\ ~Denies(own) /\ ~Permits(own) /\ ~Denies(shared)
  <2> HIDE DEF own, shared, row
  <2> QED
    BY <1>2, <1>3
<1> QED
  BY <1>1, <1>4, <1>5 DEF CheckServerPermission

LEMMA CheckIsShown ==
  ASSUME NEW P, NEW M, NEW s, NEW u, \A p \in P : p.action \in {Permit, Deny}
  PROVE  CheckServerPermission(P, M, s, u)
           <=> ShownPermission(ListServerByUserPermission(P, M, u), s)
<1> DEFINE own == UserRules(P, s, u)
           shared == GroupRules(P, s, GroupIdsOf(M, u))
           lists == ListServerByUserPermission(P, M, u)
<1>1. s \in lists.userAllow <=> Permits(own)
  BY DEF ListServerByUserPermission, UserRules, Permits
<1>2. s \in lists.userDeny <=> Denies(own)
  BY DEF ListServerByUserPermission, UserRules, Denies
<1>3. s \in lists.groupAllow <=> Permits(shared)
  BY DEF ListServerByUserPermission, GroupRules, Permits
<1>4. s \in lists.groupDeny <=> Denies(shared)
  BY DEF ListServerByUserPermission, GroupRules, Denies, Permit, Deny
<1> QED
  BY <1>1, <1>2, <1>3, <1>4 DEF CheckServerPermission, ShownPermission

\* Who has no membership in a deleted group gets the ACLs of the active groups.
LEMMA AclsOfActiveGroups ==
  ASSUME NEW P, NEW G, NEW M, NEW A, NEW s, NEW u, NoStrayMembership(G, M, u)
  PROVE  GetACLByUser(P, G, M, A, s, u)
           = {a \in A : a.group \in ListActiveGroupsForUser(P, G, M, s, u)}
<1>1. ListGroupsForUser(G, M, u) = GroupIdsOf(M, u)
  BY DEF NoStrayMembership, ListGroupsForUser
<1> QED
  BY <1>1 DEF GetACLByUser, ListActiveGroupsForUser

\* Who is let in by a group has an active one.
LEMMA AdmittedIsActive ==
  ASSUME NEW P, NEW G, NEW M, NEW s, NEW u, NoStrayMembership(G, M, u),
         CheckServerPermission(P, M, s, u), UserRules(P, s, u) = {}
  PROVE  ListActiveGroupsForUser(P, G, M, s, u) # {}
<1> DEFINE mine == GroupIdsOf(M, u)
<1>1. ListGroupsForUser(G, M, u) = mine
  BY DEF NoStrayMembership, ListGroupsForUser
<1>2. ~Denies(UserRules(P, s, u)) /\ ~Permits(UserRules(P, s, u))
  BY DEF Denies, Permits
<1>3. ~Denies(GroupRules(P, s, mine)) /\ Permits(GroupRules(P, s, mine))
  BY <1>2 DEF CheckServerPermission
<1>4. PICK r \in GroupRules(P, s, mine) : r.action = Permit
  BY <1>3 DEF Permits
<1>5. r.obj \in Granted(P, s, mine)
  BY <1>3, <1>4 DEF Granted, GroupRules, Permits, Denies
<1> QED
  BY <1>1, <1>2, <1>5 DEF ListActiveGroupsForUser

-----------------------------------------------------------------------------
(* The inductive invariant.  A group id in a row, or in the hands of a     *)
(* handler, is one of a group that exists, or of a group deleted while an  *)
(* add was in flight.                                                      *)

Known(g) == g \in GroupIds \cup raced

RowsKnown ==
  /\ \A m \in members : Known(m.group) /\ m.user # 0
  /\ \A a \in acls : Known(a.group)

RequestsKnown ==
  /\ DOMAIN request = Requests
  /\ \A r \in Requests : request[r] # NoRequest => Known(request[r].gid)
  /\ \A r \in Requests : request[r].op = "add" => 0 \notin request[r].ids

TablesInv ==
  /\ DOMAIN users = UserNames /\ DOMAIN groups = GroupNames
  /\ DOMAIN next = {"user", "group", "member", "acl"} /\ next["user"] \in Nat \ {0}
  /\ \A p \in perms : p.action \in {Permit, Deny}

DirectoryInv == RowsKnown /\ RequestsKnown /\ TablesInv

\* Rows and requests stay known when no group goes.
LEMMA StillKnown ==
  ASSUME DirectoryInv, GroupIds \subseteq GroupIds', raced' = raced
  PROVE  \A g : Known(g) => Known(g)'
BY DEF Known

\* A handler that starts with a known group, and one that ends.
LEMMA RequestStep ==
  ASSUME RequestsKnown, \A g : Known(g) => Known(g)', NEW r \in Requests, NEW q,
         request' = [request EXCEPT ![r] = q],
         q # NoRequest => Known(q.gid), q.op = "add" => 0 \notin q.ids
  PROVE  RequestsKnown'
BY DEF RequestsKnown

LEMMA EndsKnown ==
  ASSUME RequestsKnown, \A g : Known(g) => Known(g)', NEW r \in Requests, Ends(r)
  PROVE  RequestsKnown'
BY DEF RequestsKnown, Ends, NoRequest

LEMMA InFlightKnown ==
  ASSUME RequestsKnown, NEW r \in Requests, request[r].op \in {"batch", "add", "acl"}
  PROVE  Known(request[r].gid)
BY DEF RequestsKnown, NoRequest

LEMMA UserStepKnown ==
  ASSUME DirectoryInv, UserStep
  PROVE  DirectoryInv'
<1> USE DEF tables
<1>1. GroupIds' = GroupIds /\ raced' = raced
  BY DEF UserStep, CreateUserHandler, CreateUser, BatchCreateUserHandler, CreateUserWithGroup,
         DeleteUserHandler, BlukDeleteUser, GroupIds
<1>2. \A g : Known(g) <=> Known(g)'
  BY <1>1 DEF Known
<1>3. ASSUME NEW n \in UserNames, CreateUserHandler(n) PROVE DirectoryInv'
  BY <1>2, <1>3 DEF CreateUserHandler, CreateUser, Taken, DirectoryInv, RowsKnown, RequestsKnown, TablesInv
<1>4. ASSUME NEW r \in Requests, NEW n \in UserNames, NEW g \in GroupNames,
             BatchCreateUserHandler(r, n, g)
      PROVE  DirectoryInv'
  <2>1. RequestsKnown'
    <3>1. Known(groups[g])
      BY <1>4 DEF BatchCreateUserHandler, Known, GroupIds
    <3> QED
      BY <1>2, <1>4, <3>1, RequestStep DEF DirectoryInv, BatchCreateUserHandler, Starts
  <2> QED
    BY <1>2, <1>4, <2>1 DEF BatchCreateUserHandler, DirectoryInv, RowsKnown, TablesInv
<1>5. ASSUME NEW r \in Requests, CreateUserWithGroup(r) PROVE DirectoryInv'
  <2>1. Known(request[r].gid) /\ RequestsKnown'
    BY <1>2, <1>5, InFlightKnown, EndsKnown DEF CreateUserWithGroup, DirectoryInv
  <2>2. RowsKnown'
    BY <1>2, <1>5, <2>1 DEF CreateUserWithGroup, DirectoryInv, RowsKnown, TablesInv
  <2>3. TablesInv'
    BY <1>5 DEF CreateUserWithGroup, DirectoryInv, TablesInv
  <2> QED
    BY <2>1, <2>2, <2>3 DEF DirectoryInv
<1>6. ASSUME NEW ids, DeleteUserHandler(ids) PROVE DirectoryInv'
  BY <1>2, <1>6 DEF DeleteUserHandler, BlukDeleteUser, DirectoryInv, RowsKnown, RequestsKnown, TablesInv
<1> QED
  BY <1>3, <1>4, <1>5, <1>6 DEF UserStep

LEMMA DeleteGroupKnown ==
  ASSUME DirectoryInv, NEW d, DeleteGroup(d)
  PROVE  DirectoryInv'
<1>1. GroupIds \ {d} \subseteq GroupIds'
  BY DEF DeleteGroup, GroupIds, DirectoryInv, TablesInv
<1>2. \A g : Known(g) /\ g # d => Known(g)'
  BY <1>1 DEF Known, DeleteGroup
<1>3. RowsKnown'
  BY <1>2 DEF DeleteGroup, DirectoryInv, RowsKnown
<1>4. \A r \in Requests : request[r] # NoRequest => Known(request[r].gid)'
  <2> SUFFICES ASSUME NEW r \in Requests, request[r] # NoRequest
               PROVE  request[r].gid \in GroupIds' \cup raced'
    BY DEF DeleteGroup, Known
  <2>1. request[r].gid \in Meant
    BY DEF Meant
  <2>2. Known(request[r].gid)
    BY DEF DirectoryInv, RequestsKnown
  <2> QED
    BY <1>1, <2>1, <2>2 DEF Known, DeleteGroup
<1>5. RequestsKnown'
  BY <1>4 DEF DeleteGroup, DirectoryInv, RequestsKnown
<1>6. TablesInv'
  BY DEF DeleteGroup, DirectoryInv, TablesInv
<1> QED
  BY <1>3, <1>5, <1>6 DEF DirectoryInv

LEMMA AddUserToGroupKnown ==
  ASSUME DirectoryInv, NEW r \in Requests, AddUserToGroup(r)
  PROVE  DirectoryInv'
<1>1. GroupIds' = GroupIds /\ raced' = raced
  BY DEF AddUserToGroup, GroupIds
<1>2. \A g : Known(g) => Known(g)'
  BY <1>1 DEF Known
<1>3. Known(request[r].gid) /\ 0 \notin request[r].ids
  <2>1. request[r].op = "add" /\ RequestsKnown
    BY DEF AddUserToGroup, DirectoryInv
  <2>2. Known(request[r].gid)
    BY <2>1, InFlightKnown
  <2>3. 0 \notin request[r].ids
    BY <2>1 DEF RequestsKnown
  <2> QED
    BY <2>2, <2>3
<1>4. \A m \in members' : m \in members \/ (m.user \in request[r].ids /\ m.group = request[r].gid)
  <2> DEFINE key(i) == next["member"] + Cardinality({j \in request[r].ids : j < i})
             rows == {[id |-> key(i), user |-> i, group |-> request[r].gid] : i \in request[r].ids}
  <2>1. members' = members \cup rows
    BY ZenonT(30) DEF AddUserToGroup
  <2>2. \A m \in rows : m.user \in request[r].ids /\ m.group = request[r].gid
    <3> HIDE DEF key
    <3> QED
      OBVIOUS
  <2> QED
    BY <2>1, <2>2
<1>5. RowsKnown'
  BY <1>2, <1>3, <1>4 DEF AddUserToGroup, DirectoryInv, RowsKnown
<1>6. RequestsKnown'
  BY <1>2, EndsKnown DEF AddUserToGroup, DirectoryInv
<1>7. TablesInv'
  BY DEF AddUserToGroup, DirectoryInv, TablesInv
<1> QED
  BY <1>5, <1>6, <1>7 DEF DirectoryInv

LEMMA GroupStepKnown ==
  ASSUME DirectoryInv, GroupStep
  PROVE  DirectoryInv'
<1> USE DEF tables
<1>1. ASSUME NEW g \in GroupNames, CreateGroupHandler(g) PROVE DirectoryInv'
  <2>1. GroupIds \subseteq GroupIds' /\ raced' = raced
    BY <1>1 DEF CreateGroupHandler, CreateGroup, GroupIds, DirectoryInv, TablesInv
  <2>2. \A h : Known(h) => Known(h)'
    BY <2>1, StillKnown
  <2> QED
    BY <1>1, <2>2 DEF CreateGroupHandler, CreateGroup, Taken, DirectoryInv, RowsKnown, RequestsKnown, TablesInv
<1>2. ASSUME NEW g \in GroupNames, DeleteGroupHandler(g) PROVE DirectoryInv'
  BY <1>2, DeleteGroupKnown DEF DeleteGroupHandler
<1>3. ASSUME NEW N \in SUBSET UserNames, NEW g \in GroupNames,
             BatchRemoveUsersFromGroupHandler(N, g)
      PROVE  DirectoryInv'
  BY <1>3 DEF BatchRemoveUsersFromGroupHandler, BatchRemoveUsersFromGroup, Known, GroupIds,
              DirectoryInv, RowsKnown, RequestsKnown, TablesInv
<1>4. ASSUME NEW n \in UserNames, NEW g \in GroupNames, RemoveUserFromGroupHandler(n, g)
      PROVE  DirectoryInv'
  BY <1>4 DEF RemoveUserFromGroupHandler, RemoveUserFromGroup, Known, GroupIds,
              DirectoryInv, RowsKnown, RequestsKnown, TablesInv
<1>5. ASSUME NEW r \in Requests, NEW N \in SUBSET UserNames, NEW g \in GroupNames,
             BatchAddUsersToGroupHandler(r, N, g)
      PROVE  DirectoryInv'
  <2>1. (\A h : Known(h) => Known(h)') /\ Known(groups[g])
    BY <1>5 DEF BatchAddUsersToGroupHandler, Known, GroupIds
  <2>2. RequestsKnown'
    BY <1>5, <2>1, RequestStep DEF BatchAddUsersToGroupHandler, Starts, DirectoryInv
  <2> QED
    BY <1>5, <2>1, <2>2 DEF BatchAddUsersToGroupHandler, DirectoryInv, RowsKnown, TablesInv
<1>6. ASSUME NEW r \in Requests, NEW n \in UserNames, NEW g \in GroupNames,
             AddUserToGroupHandler(r, n, g)
      PROVE  DirectoryInv'
  <2>1. (\A h : Known(h) => Known(h)') /\ Known(groups[g])
    BY <1>6 DEF AddUserToGroupHandler, Known, GroupIds
  <2>2. RequestsKnown'
    BY <1>6, <2>1, RequestStep DEF AddUserToGroupHandler, Starts, DirectoryInv
  <2> QED
    BY <1>6, <2>1, <2>2 DEF AddUserToGroupHandler, DirectoryInv, RowsKnown, TablesInv
<1>7. ASSUME NEW r \in Requests, AddGroupACL(r) PROVE DirectoryInv'
  <2>1. \A h : Known(h) => Known(h)'
    BY <1>7 DEF AddGroupACL, Known, GroupIds
  <2>2. Known(request[r].gid) /\ RequestsKnown'
    BY <1>7, <2>1, InFlightKnown, EndsKnown DEF AddGroupACL, DirectoryInv
  <2> QED
    BY <1>7, <2>1, <2>2 DEF AddGroupACL, Taken, DirectoryInv, RowsKnown, TablesInv
<1>8. ASSUME NEW r \in Requests, NEW g \in GroupNames, NEW v \in Rules, AddGroupACLHandler(r, g, v)
      PROVE  DirectoryInv'
  <2>1. (\A h : Known(h) => Known(h)') /\ Known(groups[g])
    BY <1>8 DEF AddGroupACLHandler, Known, GroupIds
  <2>2. RequestsKnown'
    BY <1>8, <2>1, RequestStep DEF AddGroupACLHandler, Starts, DirectoryInv
  <2> QED
    BY <1>8, <2>1, <2>2 DEF AddGroupACLHandler, DirectoryInv, RowsKnown, TablesInv
<1>9. ASSUME NEW id, DeleteGroupACLHandler(id) PROVE DirectoryInv'
  BY <1>9 DEF DeleteGroupACLHandler, Known, GroupIds, DirectoryInv, RowsKnown, RequestsKnown, TablesInv
<1> QED
  BY <1>1, <1>2, <1>3, <1>4, <1>5, <1>6, <1>7, <1>8, <1>9, AddUserToGroupKnown DEF GroupStep

LEMMA PermissionStepKnown ==
  ASSUME DirectoryInv, PermissionStep
  PROVE  DirectoryInv'
<1>1. \A h : Known(h) <=> Known(h)'
  BY DEF PermissionStep, AddOpenVPNServerPermissionHandler, DelOpenVPNServerPermissionHandler,
         Known, GroupIds
<1>2. RowsKnown' /\ RequestsKnown'
  BY <1>1 DEF PermissionStep, AddOpenVPNServerPermissionHandler,
              DelOpenVPNServerPermissionHandler, DirectoryInv, RowsKnown, RequestsKnown
<1>3. \A p \in perms' : p.action \in {Permit, Deny}
  <2>1. ASSUME NEW sv \in Servers, NEW a \in {Permit, Deny}, NEW o \in Subjects,
               AddOpenVPNServerPermissionHandler(sv, o[1], o[2], a)
        PROVE  \A p \in perms' : p \in perms \/ p.action = a
    BY <2>1 DEF AddOpenVPNServerPermissionHandler
  <2>2. ASSUME NEW p \in perms, DelOpenVPNServerPermissionHandler(p)
        PROVE  perms' \subseteq perms
    BY <2>2 DEF DelOpenVPNServerPermissionHandler
  <2> QED
    BY <2>1, <2>2 DEF PermissionStep, DirectoryInv, TablesInv
<1>4. TablesInv'
  BY <1>3 DEF PermissionStep, AddOpenVPNServerPermissionHandler,
              DelOpenVPNServerPermissionHandler, DirectoryInv, TablesInv
<1> QED
  BY <1>2, <1>4 DEF DirectoryInv

THEOREM DirectoryInvariant == Spec => []DirectoryInv
<1>1. Init => DirectoryInv
  <2> SUFFICES ASSUME Init PROVE DirectoryInv
    OBVIOUS
  <2>1. Known(1)
    BY DirectoryAssumption DEF Init, Known, GroupIds
  <2>2. DOMAIN next = {"user", "group", "member", "acl"} /\ next["user"] = 2
    BY DirectoryAssumption DEF Init
  <2> QED
    BY <2>1, <2>2 DEF Init, NoRequest, DirectoryInv, RowsKnown, RequestsKnown, TablesInv
<1>2. DirectoryInv /\ [Next]_vars => DirectoryInv'
  <2> SUFFICES ASSUME DirectoryInv, [Next]_vars PROVE DirectoryInv'
    OBVIOUS
  <2>1. CASE UNCHANGED vars
    BY <2>1 DEF vars, tables, Known, GroupIds, DirectoryInv, RowsKnown, RequestsKnown, TablesInv
  <2> QED
    BY <2>1, UserStepKnown, GroupStepKnown, PermissionStepKnown DEF Next
<1> QED
  BY <1>1, <1>2, PTL DEF Spec

\* A group that was deleted leaves nothing behind but what a racing add inserts.
THEOREM GroupsCascade == Spec => []GroupCascade
<1>1. DirectoryInv => GroupCascade
  BY DEF DirectoryInv, RowsKnown, Known, GroupCascade
<1> QED
  BY <1>1, DirectoryInvariant, PTL

\* The check at login, the documentation and the page agree about everybody.
THEOREM PermissionsAlwaysAgree == Spec => []PermissionsAgree
<1>1. DirectoryInv => PermissionsAgree
  BY CheckIsDocumented, CheckIsShown
     DEF DirectoryInv, TablesInv, PermissionsAgree, ListOpenVPNServerByUserPermissionHandler
<1> QED
  BY <1>1, DirectoryInvariant, PTL

\* ACLs and rates come from the same groups.
THEOREM AclsFollowActiveGroups == Spec => []AclFollowsActive
<1>1. AclFollowsActive
  <2> SUFFICES ASSUME NEW s \in Servers, NEW u \in SeenIds("user"),
                      NoStrayMembership(GroupIds, members, u)
               PROVE  LET active == ListActiveGroupsForUser(perms, GroupIds, members, s, u) IN
                      /\ GetACLByUser(perms, GroupIds, members, acls, s, u)
                           = {a \in acls : a.group \in active}
                      /\ /\ CheckServerPermission(perms, members, s, u)
                         /\ UserRules(perms, s, u) = {}
                         => active # {}
    BY DEF AclFollowsActive, ListOpenVPNServerByUserPermissionHandler
  <2> QED
    BY AclsOfActiveGroups, AdmittedIsActive
<1> QED
  BY <1>1, PTL

\* Who is removed from a group has no membership in it left.
THEOREM RemovalsAreFinal == Spec => RemovedIsOut
<1>1. DirectoryInv /\ [Next]_vars =>
        [members' # members =>
          \A N \in SUBSET UserNames, g \in GroupNames :
             BatchRemoveUsersFromGroup(N, g) =>
                \A n \in N, m \in members' : ~(m.user = users[n] /\ m.group = groups[g])]_vars
  BY DEF DirectoryInv, RowsKnown, BatchRemoveUsersFromGroup
<1> QED
  BY <1>1, DirectoryInvariant, PTL DEF Spec, RemovedIsOut

-----------------------------------------------------------------------------
(* Types.  Keys are smaller than the next one to be given out, those of    *)
(* rows in the tables and those in the hands of handlers; the permissions  *)
(* are finitely many, so that one below the bound has a free number.       *)

Keyed == next \in [DOMAIN MaxId -> Nat \ {0}]

InFlight ==
  /\ DOMAIN request = Requests
  /\ \A r \in Requests :
       /\ request[r].op \in {"batch", "add", "acl"} => request[r].gid \in SeenIds("group")
       /\ request[r].op = "add" => request[r].ids \subseteq SeenIds("user")
       /\ request[r].op = "acl" => request[r].rule \in Rules
       /\ request[r].op = "batch" => request[r].name \in UserNames

TypedInv == Keyed /\ InFlight /\ IsFiniteSet(perms) /\ TypeOK

\* Keys are only added: what was seen stays seen.
LEMMA SeenGrows ==
  ASSUME Keyed, Keyed', \A t \in DOMAIN MaxId : next[t] <= next'[t]
  PROVE  /\ SeenIds("user") \subseteq SeenIds("user")' /\ SeenIds("group") \subseteq SeenIds("group")'
         /\ SeenIds("member") \subseteq SeenIds("member")' /\ SeenIds("acl") \subseteq SeenIds("acl")'
<1>1. DOMAIN MaxId = {"user", "group", "member", "acl"}
  BY DirectoryAssumption
<1>2. \A t \in DOMAIN MaxId : next[t] \in Nat /\ next'[t] \in Nat
  BY DEF Keyed
<1> QED
  BY <1>1, <1>2 DEF SeenIds

\* A key that is taken is seen from then on.
LEMMA TakenKey ==
  ASSUME Keyed, NEW t \in {"user", "group", "member", "acl"}, next' = Taken(t)
  PROVE  /\ Keyed' /\ \A k \in DOMAIN MaxId : next[k] <= next'[k]
         /\ next[t] \in SeenIds(t)' /\ next'[t] = next[t] + 1
<1>1. DOMAIN MaxId = {"user", "group", "member", "acl"}
  BY DirectoryAssumption
<1>2. \A k \in DOMAIN MaxId : next[k] \in Nat \ {0}
  BY DEF Keyed
<1>3. Keyed'
  BY <1>1, <1>2 DEF Keyed, Taken
<1> QED
  BY <1>1, <1>2, <1>3 DEF Keyed, Taken, SeenIds

\* What handlers in flight hold stays seen, and what a handler starts with is.
LEMMA StartedTyped ==
  ASSUME InFlight, SeenIds("user") \subseteq SeenIds("user")', SeenIds("group") \subseteq SeenIds("group")',
         NEW r \in Requests, NEW q, request' = [request EXCEPT ![r] = q],
         q.op \in {"batch", "add", "acl"} => q.gid \in SeenIds("group")',
         q.op = "add" => q.ids \subseteq SeenIds("user")',
         q.op = "acl" => q.rule \in Rules, q.op = "batch" => q.name \in UserNames
  PROVE  InFlight'
<1> DEFINE Held(p) == /\ p.op \in {"batch", "add", "acl"} => p.gid \in SeenIds("group")'
                      /\ p.op = "add" => p.ids \subseteq SeenIds("user")'
                      /\ p.op = "acl" => p.rule \in Rules
                      /\ p.op = "batch" => p.name \in UserNames
<1>1. \A k \in Requests : Held(request[k])
  BY DEF InFlight
<1>2. Held(q)
  OBVIOUS
<1>3. \A k \in Requests : request'[k] = request[k] \/ request'[k] = q
  BY DEF InFlight
<1>4. \A k \in Requests : Held(request'[k])
  <2> HIDE DEF Held
  <2> QED
    BY <1>1, <1>2, <1>3
<1> QED
  BY <1>4 DEF InFlight

LEMMA EndedTyped ==
  ASSUME InFlight, SeenIds("user") \subseteq SeenIds("user")', SeenIds("group") \subseteq SeenIds("group")',
         NEW r \in Requests, Ends(r)
  PROVE  InFlight'
BY StartedTyped DEF Ends, NoRequest

LEMMA SameTyped ==
  ASSUME InFlight, SeenIds("user") \subseteq SeenIds("user")', SeenIds("group") \subseteq SeenIds("group")',
         request' = request
  PROVE  InFlight'
BY DEF InFlight

UsersOK ==
  /\ users \in [UserNames -> 0 .. next["user"] - 1]
  /\ \A m, n \in UserNames : m # n /\ users[m] # 0 => users[m] # users[n]
GroupsOK == groups \in [GroupNames -> 0 .. next["group"] - 1]
MembersOK == members \subseteq [id : SeenIds("member"), user : SeenIds("user"), group : SeenIds("group")]
PermsOK == perms \subseteq [server : Servers, kind : {"user", "group"}, obj : Nat \ {0},
                            action : {Permit, Deny}, copy : 1 .. MaxPerms]
AclsOK == acls \subseteq [id : SeenIds("acl"), group : SeenIds("group"), rule : Rules]
RacedOK == raced \subseteq SeenIds("group")

Grows == Keyed /\ Keyed' /\ \A t \in DOMAIN MaxId : next[t] <= next'[t]

LEMMA TypeParts ==
  TypeOK <=> UsersOK /\ GroupsOK /\ MembersOK /\ PermsOK /\ AclsOK /\ RacedOK
BY DEF TypeOK, UsersOK, GroupsOK, MembersOK, PermsOK, AclsOK, RacedOK

\* Rows that stay, or go, keep their types when keys are only added.
LEMMA RowsStayTyped ==
  ASSUME Grows
  PROVE  /\ MembersOK /\ members' \subseteq members => MembersOK'
         /\ AclsOK /\ acls' \subseteq acls => AclsOK'
         /\ RacedOK /\ raced' = raced => RacedOK'
         /\ PermsOK /\ perms' \subseteq perms => PermsOK'
<1>1. /\ SeenIds("user") \subseteq SeenIds("user")' /\ SeenIds("group") \subseteq SeenIds("group")'
      /\ SeenIds("member") \subseteq SeenIds("member")' /\ SeenIds("acl") \subseteq SeenIds("acl")'
  BY SeenGrows DEF Grows
<1>2. ASSUME MembersOK, members' \subseteq members PROVE MembersOK'
  BY <1>1, <1>2 DEF MembersOK
<1>3. ASSUME AclsOK, acls' \subseteq acls PROVE AclsOK'
  BY <1>1, <1>3 DEF AclsOK
<1>4. ASSUME RacedOK, raced' = raced PROVE RacedOK'
  BY <1>1, <1>4 DEF RacedOK
<1>5. ASSUME PermsOK, perms' \subseteq perms PROVE PermsOK'
  BY <1>5 DEF PermsOK
<1> QED
  BY <1>2, <1>3, <1>4, <1>5

\* Users and groups keep their keys or lose them.
LEMMA NamesStayTyped ==
  ASSUME Grows
  PROVE  /\ UsersOK /\ users' = users => UsersOK'
         /\ GroupsOK /\ groups' = groups => GroupsOK'
         /\ \A ids : UsersOK /\ users' = [n \in UserNames |-> IF users[n] \in ids THEN 0 ELSE users[n]] => UsersOK'
         /\ \A d : GroupsOK /\ groups' = [g \in GroupNames |-> IF groups[g] = d THEN 0 ELSE groups[g]] => GroupsOK'
<1>1. DOMAIN MaxId = {"user", "group", "member", "acl"}
  BY DirectoryAssumption
<1>2. \A t \in {"user", "group"} : next[t] \in Nat \ {0} /\ next'[t] \in Nat \ {0} /\ next[t] <= next'[t]
  BY <1>1 DEF Grows, Keyed
<1>3. 0 .. next["user"] - 1 \subseteq 0 .. next'["user"] - 1 /\ 0 \in 0 .. next'["user"] - 1
  BY <1>2
<1>4. 0 .. next["group"] - 1 \subseteq 0 .. next'["group"] - 1 /\ 0 \in 0 .. next'["group"] - 1
  BY <1>2
<1>5. ASSUME UsersOK, users' = users PROVE UsersOK'
  BY <1>3, <1>5 DEF UsersOK
<1>6. ASSUME GroupsOK, groups' = groups PROVE GroupsOK'
  BY <1>4, <1>6 DEF GroupsOK
<1>7. ASSUME NEW ids, UsersOK, users' = [n \in UserNames |-> IF users[n] \in ids THEN 0 ELSE users[n]]
      PROVE  UsersOK'
  BY <1>3, <1>7 DEF UsersOK
<1>8. ASSUME NEW d, GroupsOK, groups' = [g \in GroupNames |-> IF groups[g] = d THEN 0 ELSE groups[g]]
      PROVE  GroupsOK'
  BY <1>4, <1>8 DEF GroupsOK
<1> QED
  BY <1>5, <1>6, <1>7, <1>8

LEMMA KeyedStays ==
  ASSUME Keyed, next' = next
  PROVE  Grows
<1>1. \A t \in DOMAIN MaxId : next[t] \in Nat
  BY DEF Keyed
<1> QED
  BY <1>1 DEF Grows, Keyed

\* A user who exists has a key that was seen, a group likewise.
LEMMA NamedIsSeen ==
  ASSUME TypedInv
  PROVE  /\ \A n \in UserNames : users[n] # 0 => users[n] \in SeenIds("user")
         /\ \A g \in GroupNames : groups[g] # 0 => groups[g] \in SeenIds("group")
<1>1. DOMAIN MaxId = {"user", "group", "member", "acl"}
  BY DirectoryAssumption
<1>2. next["user"] \in Nat /\ next["group"] \in Nat
  BY <1>1 DEF TypedInv, Keyed
<1> QED
  BY <1>2 DEF TypedInv, TypeOK, SeenIds

\* A user created with the next key has a key of his own.
LEMMA CreatedTyped ==
  ASSUME TypedInv, Grows, NEW n \in UserNames, next["user"] < next'["user"],
         users' = [users EXCEPT ![n] = next["user"]]
  PROVE  UsersOK' /\ next["user"] \in SeenIds("user")'
<1>1. DOMAIN MaxId = {"user", "group", "member", "acl"}
  BY DirectoryAssumption
<1>2. next["user"] \in Nat \ {0} /\ next'["user"] \in Nat
  BY <1>1 DEF Grows, Keyed
<1>3. users \in [UserNames -> 0 .. next["user"] - 1]
  BY DEF TypedInv, TypeOK
<1>4. \A a, b \in UserNames : a # b /\ users[a] # 0 => users[a] # users[b]
  BY DEF TypedInv, TypeOK
<1>5. users' \in [UserNames -> 0 .. next'["user"] - 1]
  BY <1>2, <1>3
<1>6. \A a \in UserNames : users[a] # next["user"]
  BY <1>2, <1>3
<1>7. \A a, b \in UserNames : a # b /\ users'[a] # 0 => users'[a] # users'[b]
  BY <1>3, <1>4, <1>6
<1> QED
  BY <1>2, <1>5, <1>7 DEF UsersOK, SeenIds

\* Steps that give out no key, change no row's type and leave the handlers in
\* flight alone but for those they start or end.
LEMMA QuietTyped ==
  ASSUME TypedInv, next' = next, InFlight', UsersOK', GroupsOK',
         members' \subseteq members, acls' \subseteq acls, perms' \subseteq perms, raced' = raced
  PROVE  TypedInv'
<1>1. Grows
  BY KeyedStays DEF TypedInv
<1>2. MembersOK' /\ AclsOK' /\ PermsOK' /\ RacedOK'
  BY <1>1, RowsStayTyped, TypeParts DEF TypedInv
<1>3. IsFiniteSet(perms')
  BY FS_Subset DEF TypedInv
<1>4. TypeOK'
  BY <1>2 DEF TypeOK, UsersOK, GroupsOK, MembersOK, PermsOK, AclsOK, RacedOK
<1> QED
  BY <1>1, <1>3, <1>4 DEF TypedInv, Grows

LEMMA StartTyped ==
  ASSUME TypedInv, UNCHANGED <<tables, next, raced>>, NEW r \in Requests, NEW q, Starts(r, q),
         q.gid \in SeenIds("group"), q.op = "add" => q.ids \subseteq SeenIds("user"),
         q.op = "acl" => q.rule \in Rules, q.op = "batch" => q.name \in UserNames
  PROVE  TypedInv'
<1>1. next' = next /\ users' = users /\ groups' = groups /\ members' = members /\ acls' = acls
      /\ perms' = perms /\ raced' = raced
  BY DEF tables
<1>2. InFlight'
  BY <1>1, StartedTyped DEF TypedInv, Starts, SeenIds
<1>3. UsersOK' /\ GroupsOK'
  BY <1>1, NamesStayTyped, KeyedStays, TypeParts DEF TypedInv
<1> QED
  BY <1>1, <1>2, <1>3, QuietTyped

LEMMA CreateUserWithGroupTyped ==
  ASSUME TypedInv, NEW r \in Requests, CreateUserWithGroup(r)
  PROVE  TypedInv'
<1> DEFINE q == request[r]
<1>1. DOMAIN MaxId = {"user", "group", "member", "acl"} /\ Keyed /\ InFlight
  BY DirectoryAssumption DEF TypedInv
<1>2. q.op = "batch" /\ q.name \in UserNames /\ q.gid \in SeenIds("group")
  BY <1>1 DEF CreateUserWithGroup, InFlight
<1>3. groups' = groups /\ perms' = perms /\ acls' = acls /\ raced' = raced /\ Ends(r)
  BY DEF CreateUserWithGroup
<1>4. CASE users[q.name] # 0
  <2>1. users' = users /\ members' = members /\ next' = next
    BY <1>4 DEF CreateUserWithGroup
  <2>2. UsersOK' /\ GroupsOK'
    BY <1>3, <2>1, NamesStayTyped, KeyedStays, TypeParts DEF TypedInv
  <2>3. InFlight'
    BY <1>1, <1>3, <2>1, EndedTyped DEF SeenIds
  <2> QED
    BY <1>3, <2>1, <2>2, <2>3, QuietTyped
<1>5. CASE users[q.name] = 0
  <2>1. /\ users' = [users EXCEPT ![q.name] = next["user"]]
        /\ members' = members \cup
              {[id |-> next["member"], user |-> next["user"], group |-> q.gid]}
        /\ next' = [next EXCEPT !["user"] = @ + 1, !["member"] = @ + 1]
    BY <1>5 DEF CreateUserWithGroup
  <2>2. \A t \in DOMAIN MaxId : next[t] \in Nat \ {0}
    BY <1>1 DEF Keyed
  <2>3. Keyed'
    BY <1>1, <2>1, <2>2 DEF Keyed
  <2>4. /\ next'["user"] = next["user"] + 1 /\ next'["member"] = next["member"] + 1
        /\ next'["group"] = next["group"] /\ next'["acl"] = next["acl"]
    BY <1>1, <2>1 DEF Keyed
  <2>5. Grows
    BY <1>1, <2>2, <2>3, <2>4 DEF Grows
  <2>6. UsersOK' /\ next["user"] \in SeenIds("user")'
    <3>1. next["user"] < next'["user"]
      BY <1>1, <2>2, <2>4
    <3> QED
      BY <1>2, <2>1, <2>5, <3>1, CreatedTyped
  <2>7. next["member"] \in SeenIds("member")'
    BY <1>1, <2>2, <2>4 DEF SeenIds
  <2>8. /\ SeenIds("user") \subseteq SeenIds("user")' /\ SeenIds("group") \subseteq SeenIds("group")'
        /\ SeenIds("member") \subseteq SeenIds("member")'
    BY <2>5, SeenGrows DEF Grows
  <2>9. MembersOK'
    <3>1. MembersOK
      BY TypeParts DEF TypedInv
    <3>2. q.gid \in SeenIds("group")'
      BY <1>2, <2>8
    <3>3. [id |-> next["member"], user |-> next["user"], group |-> q.gid]
            \in [id : SeenIds("member")', user : SeenIds("user")', group : SeenIds("group")']
      BY <2>6, <2>7, <3>2
    <3>4. members \subseteq [id : SeenIds("member")', user : SeenIds("user")', group : SeenIds("group")']
      BY <3>1, <2>8 DEF MembersOK
    <3> QED
      BY <2>1, <3>3, <3>4 DEF MembersOK
  <2>10. InFlight'
    BY <1>1, <1>3, <2>8, EndedTyped
  <2>11. GroupsOK' /\ PermsOK' /\ AclsOK' /\ RacedOK'
    BY <1>3, <2>5, NamesStayTyped, RowsStayTyped, TypeParts DEF TypedInv
  <2>12. TypeOK'
    BY <2>6, <2>9, <2>11 DEF TypeOK, UsersOK, GroupsOK, MembersOK, PermsOK, AclsOK, RacedOK
  <2> QED
    BY <1>3, <2>3, <2>10, <2>12 DEF TypedInv
<1> QED
  BY <1>4, <1>5

LEMMA UserStepTyped ==
  ASSUME TypedInv, UserStep
  PROVE  TypedInv'
<1>1. ASSUME NEW n \in UserNames, CreateUserHandler(n) PROVE TypedInv'
  <2>1. /\ users' = [users EXCEPT ![n] = next["user"]] /\ next' = Taken("user")
        /\ groups' = groups /\ members' = members /\ perms' = perms /\ acls' = acls
        /\ request' = request /\ raced' = raced
    BY <1>1 DEF CreateUserHandler, CreateUser
  <2>2. Grows /\ next'["user"] = next["user"] + 1 /\ next["user"] \in Nat
    BY <2>1, TakenKey, DirectoryAssumption DEF TypedInv, Grows, Keyed
  <2>3. UsersOK'
    <3>1. next["user"] < next'["user"]
      BY <2>2
    <3> QED
      BY <2>1, <2>2, <3>1, CreatedTyped
  <2>4. InFlight'
    BY <2>1, <2>2, SeenGrows, SameTyped DEF TypedInv, Grows
  <2>5. GroupsOK' /\ MembersOK' /\ PermsOK' /\ AclsOK' /\ RacedOK'
    BY <2>1, <2>2, NamesStayTyped, RowsStayTyped, TypeParts DEF TypedInv
  <2>6. TypeOK'
    BY <2>3, <2>5 DEF TypeOK, UsersOK, GroupsOK, MembersOK, PermsOK, AclsOK, RacedOK
  <2> QED
    BY <2>1, <2>2, <2>4, <2>6 DEF TypedInv, Grows
<1>2. ASSUME NEW r \in Requests, NEW n \in UserNames, NEW g \in GroupNames,
             BatchCreateUserHandler(r, n, g)
      PROVE  TypedInv'
  <2>1. groups[g] \in SeenIds("group")
    BY <1>2, NamedIsSeen DEF BatchCreateUserHandler
  <2> QED
    BY <1>2, <2>1, StartTyped DEF BatchCreateUserHandler
<1>3. ASSUME NEW ids, DeleteUserHandler(ids) PROVE TypedInv'
  <2>1. /\ users' = [n \in UserNames |-> IF users[n] \in ids THEN 0 ELSE users[n]]
        /\ members' \subseteq members /\ perms' \subseteq perms
        /\ groups' = groups /\ acls' = acls /\ next' = next /\ request' = request /\ raced' = raced
    BY <1>3 DEF DeleteUserHandler, BlukDeleteUser
  <2>2. UsersOK' /\ GroupsOK'
    BY <2>1, NamesStayTyped, KeyedStays, TypeParts DEF TypedInv
  <2>3. InFlight'
    BY <2>1, SameTyped DEF TypedInv, SeenIds
  <2> QED
    BY <2>1, <2>2, <2>3, QuietTyped
<1> QED
  BY <1>1, <1>2, <1>3, CreateUserWithGroupTyped DEF UserStep

\* Of finitely many numbers fewer than all are smaller than one of them.
LEMMA RankBelow ==
  ASSUME NEW S, IsFiniteSet(S), S \subseteq Nat, NEW i \in S
  PROVE  /\ Cardinality(S) \in Nat /\ Cardinality({j \in S : j < i}) \in Nat
         /\ Cardinality({j \in S : j < i}) < Cardinality(S)
<1> DEFINE T == {j \in S : j < i}
<1>1. T \in SUBSET S /\ T # S
  <2>1. i \notin T
    OBVIOUS
  <2> QED
    BY <2>1
<1> HIDE DEF T
<1>2. /\ IsFiniteSet(T) /\ Cardinality(T) <= Cardinality(S)
      /\ Cardinality(S) = Cardinality(T) => S = T
  BY <1>1, FS_Subset
<1>3. Cardinality(S) \in Nat /\ Cardinality(T) \in Nat
  BY <1>2, FS_CardinalityType
<1>4. Cardinality(T) < Cardinality(S)
  BY <1>1, <1>2, <1>3
<1> QED
  BY <1>3, <1>4 DEF T

LEMMA AddUserToGroupTyped ==
  ASSUME TypedInv, NEW r \in Requests, AddUserToGroup(r)
  PROVE  TypedInv'
<1>1. DOMAIN MaxId = {"user", "group", "member", "acl"} /\ Keyed /\ InFlight
  BY DirectoryAssumption DEF TypedInv
<1>2. \A t \in DOMAIN MaxId : next[t] \in Nat \ {0}
  BY <1>1 DEF Keyed
<1>3. PICK ids : ids = request[r].ids
  OBVIOUS
<1>4. PICK gid : gid = request[r].gid
  OBVIOUS
<1>5. ids \subseteq SeenIds("user") /\ gid \in SeenIds("group")
  BY <1>1, <1>3, <1>4 DEF InFlight, AddUserToGroup
<1>6. IsFiniteSet(ids) /\ ids \subseteq Nat
  <2>1. next["user"] - 1 \in Int
    BY <1>1, <1>2
  <2>2. IsFiniteSet(SeenIds("user"))
    BY <2>1, FS_Interval DEF SeenIds
  <2>3. SeenIds("user") \subseteq Nat
    BY <2>1 DEF SeenIds
  <2> QED
    BY <1>5, <2>2, <2>3, FS_Subset
<1>7. Cardinality(ids) \in Nat
  BY <1>6, FS_CardinalityType
<1> DEFINE key(i) == next["member"] + Cardinality({j \in ids : j < i})
           rows == {[id |-> key(i), user |-> i, group |-> gid] : i \in ids}
<1>8. members' = members \cup rows
  BY <1>3, <1>4, ZenonT(30) DEF AddUserToGroup
<1>9. next' = [next EXCEPT !["member"] = @ + Cardinality(ids)]
  BY <1>3 DEF AddUserToGroup
<1>10. users' = users /\ groups' = groups /\ perms' = perms /\ acls' = acls /\ raced' = raced /\ Ends(r)
  BY DEF AddUserToGroup
<1>11. Keyed'
  BY <1>1, <1>2, <1>7, <1>9 DEF Keyed
<1>12. /\ next'["member"] = next["member"] + Cardinality(ids)
       /\ next'["user"] = next["user"] /\ next'["group"] = next["group"] /\ next'["acl"] = next["acl"]
  BY <1>1, <1>9 DEF Keyed
<1>13. Grows
  BY <1>1, <1>2, <1>7, <1>11, <1>12 DEF Grows
<1>14. /\ SeenIds("user") \subseteq SeenIds("user")' /\ SeenIds("group") \subseteq SeenIds("group")'
       /\ SeenIds("member") \subseteq SeenIds("member")'
  BY <1>13, SeenGrows DEF Grows
<1>15. \A i \in ids : key(i) \in SeenIds("member")'
  <2> SUFFICES ASSUME NEW i \in ids PROVE key(i) \in SeenIds("member")'
    OBVIOUS
  <2>1. PICK k : k = Cardinality({j \in ids : j < i})
    OBVIOUS
  <2>2. k \in Nat /\ k < Cardinality(ids)
    BY <1>6, <2>1, RankBelow
  <2>3. next["member"] + k \in 1 .. next'["member"] - 1
    BY <1>1, <1>2, <1>7, <1>12, <2>2
  <2> QED
    BY <2>1, <2>3 DEF SeenIds
<1> HIDE DEF key
<1> DEFINE Row == [id : SeenIds("member")', user : SeenIds("user")', group : SeenIds("group")']
<1>16. rows \subseteq Row
  <2>1. \A i \in ids : i \in SeenIds("user")'
    BY <1>5, <1>14
  <2>2. gid \in SeenIds("group")'
    BY <1>5, <1>14
  <2> QED
    BY <1>15, <2>1, <2>2
<1>17. members \subseteq Row
  BY <1>14, TypeParts DEF TypedInv, MembersOK
<1>18. MembersOK'
  BY <1>8, <1>16, <1>17 DEF MembersOK
<1>19. UsersOK' /\ GroupsOK' /\ PermsOK' /\ AclsOK' /\ RacedOK'
  BY <1>10, <1>13, NamesStayTyped, RowsStayTyped, TypeParts DEF TypedInv
<1>20. TypeOK'
  BY <1>18, <1>19 DEF TypeOK, UsersOK, GroupsOK, MembersOK, PermsOK, AclsOK, RacedOK
<1>21. InFlight'
  BY <1>1, <1>10, <1>14, EndedTyped
<1> QED
  BY <1>10, <1>11, <1>20, <1>21 DEF TypedInv

LEMMA AddGroupACLTyped ==
  ASSUME TypedInv, NEW r \in Requests, AddGroupACL(r)
  PROVE  TypedInv'
<1>1. PICK q : q = request[r]
  OBVIOUS
<1>2. q.gid \in SeenIds("group") /\ q.rule \in Rules
  BY <1>1 DEF TypedInv, InFlight, AddGroupACL
<1>3. /\ acls' = acls \cup {[id |-> next["acl"], group |-> q.gid, rule |-> q.rule]}
      /\ next' = Taken("acl") /\ Ends(r)
      /\ users' = users /\ groups' = groups /\ members' = members /\ perms' = perms /\ raced' = raced
  BY <1>1 DEF AddGroupACL
<1>4. Grows /\ next["acl"] \in SeenIds("acl")'
  BY <1>3, TakenKey DEF TypedInv, Grows
<1>5. /\ SeenIds("user") \subseteq SeenIds("user")' /\ SeenIds("group") \subseteq SeenIds("group")'
      /\ SeenIds("acl") \subseteq SeenIds("acl")'
  BY <1>4, SeenGrows DEF Grows
<1>6. AclsOK'
  <2>1. acls \subseteq [id : SeenIds("acl")', group : SeenIds("group")', rule : Rules]
    BY <1>5, TypeParts DEF TypedInv, AclsOK
  <2>2. q.gid \in SeenIds("group")'
    BY <1>2, <1>5
  <2> QED
    BY <1>2, <1>3, <1>4, <2>1, <2>2 DEF AclsOK
<1>7. UsersOK' /\ GroupsOK' /\ MembersOK' /\ PermsOK' /\ RacedOK'
  BY <1>3, <1>4, NamesStayTyped, RowsStayTyped, TypeParts DEF TypedInv
<1>8. TypeOK'
  BY <1>6, <1>7 DEF TypeOK, UsersOK, GroupsOK, MembersOK, PermsOK, AclsOK, RacedOK
<1>9. InFlight'
  BY <1>3, <1>5, EndedTyped DEF TypedInv
<1> QED
  BY <1>3, <1>4, <1>8, <1>9 DEF TypedInv, Grows

LEMMA CreateGroupTyped ==
  ASSUME TypedInv, NEW g \in GroupNames, CreateGroupHandler(g)
  PROVE  TypedInv'
<1>1. /\ groups' = [groups EXCEPT ![g] = next["group"]] /\ next' = Taken("group")
      /\ users' = users /\ members' = members /\ perms' = perms /\ acls' = acls
      /\ request' = request /\ raced' = raced
  BY DEF CreateGroupHandler, CreateGroup
<1>2. Grows /\ next'["group"] = next["group"] + 1 /\ next["group"] \in Nat \ {0}
  BY <1>1, TakenKey, DirectoryAssumption DEF TypedInv, Grows, Keyed
<1>3. GroupsOK'
  <2>1. groups \in [GroupNames -> 0 .. next["group"] - 1]
    BY TypeParts DEF TypedInv, GroupsOK
  <2>2. 0 .. next["group"] - 1 \subseteq 0 .. next'["group"] - 1 /\ next["group"] \in 0 .. next'["group"] - 1
    BY <1>2
  <2> QED
    BY <1>1, <2>1, <2>2 DEF GroupsOK
<1>4. InFlight'
  BY <1>1, <1>2, SeenGrows, SameTyped DEF TypedInv, Grows
<1>5. UsersOK' /\ MembersOK' /\ PermsOK' /\ AclsOK' /\ RacedOK'
  BY <1>1, <1>2, NamesStayTyped, RowsStayTyped, TypeParts DEF TypedInv
<1>6. TypeOK'
  BY <1>3, <1>5 DEF TypeOK, UsersOK, GroupsOK, MembersOK, PermsOK, AclsOK, RacedOK
<1> QED
  BY <1>1, <1>2, <1>4, <1>6 DEF TypedInv, Grows

LEMMA DeleteGroupTyped ==
  ASSUME TypedInv, NEW g \in GroupNames, DeleteGroupHandler(g)
  PROVE  TypedInv'
<1>1. PICK d : d = groups[g]
  OBVIOUS
<1>2. d \in SeenIds("group")
  BY <1>1, NamedIsSeen DEF DeleteGroupHandler
<1>3. DeleteGroup(d)
  BY <1>1 DEF DeleteGroupHandler
<1>4. /\ groups' = [h \in GroupNames |-> IF groups[h] = d THEN 0 ELSE groups[h]]
      /\ acls' \subseteq acls /\ members' \subseteq members /\ perms' \subseteq perms
      /\ raced' \subseteq raced \cup {d}
      /\ users' = users /\ next' = next /\ request' = request
  BY <1>3 DEF DeleteGroup
<1>5. Grows
  BY <1>4, KeyedStays DEF TypedInv
<1>6. UsersOK' /\ GroupsOK' /\ MembersOK' /\ PermsOK' /\ AclsOK'
  BY <1>4, <1>5, NamesStayTyped, RowsStayTyped, TypeParts DEF TypedInv
<1>7. RacedOK'
  BY <1>2, <1>4, TypeParts DEF TypedInv, RacedOK, SeenIds
<1>8. InFlight'
  BY <1>4, SameTyped DEF TypedInv, SeenIds
<1>9. TypeOK'
  BY <1>6, <1>7 DEF TypeOK, UsersOK, GroupsOK, MembersOK, PermsOK, AclsOK, RacedOK
<1>10. IsFiniteSet(perms')
  BY <1>4, FS_Subset DEF TypedInv
<1> QED
  BY <1>5, <1>8, <1>9, <1>10 DEF TypedInv, Grows

\* Rows are taken out of the tables and nothing else happens.
LEMMA RemovalTyped ==
  ASSUME TypedInv, members' \subseteq members, acls' \subseteq acls, perms' \subseteq perms,
         users' = users, groups' = groups, next' = next, request' = request, raced' = raced
  PROVE  TypedInv'
<1>1. UsersOK' /\ GroupsOK'
  BY NamesStayTyped, KeyedStays, TypeParts DEF TypedInv
<1>2. InFlight'
  BY SameTyped DEF TypedInv, SeenIds
<1> QED
  BY <1>1, <1>2, QuietTyped

LEMMA GroupStepTyped ==
  ASSUME TypedInv, GroupStep
  PROVE  TypedInv'
<1>1. ASSUME NEW N \in SUBSET UserNames, NEW g \in GroupNames,
             BatchRemoveUsersFromGroupHandler(N, g)
      PROVE  TypedInv'
  BY <1>1, RemovalTyped DEF BatchRemoveUsersFromGroupHandler, BatchRemoveUsersFromGroup
<1>2. ASSUME NEW n \in UserNames, NEW g \in GroupNames, RemoveUserFromGroupHandler(n, g)
      PROVE  TypedInv'
  BY <1>2, RemovalTyped DEF RemoveUserFromGroupHandler, RemoveUserFromGroup
<1>3. ASSUME NEW id, DeleteGroupACLHandler(id) PROVE TypedInv'
  BY <1>3, RemovalTyped DEF DeleteGroupACLHandler
<1>4. ASSUME NEW r \in Requests, NEW N \in SUBSET UserNames, NEW g \in GroupNames,
             BatchAddUsersToGroupHandler(r, N, g)
      PROVE  TypedInv'
  <2>1. PICK ids : ids = {users[n] : n \in N} \ {0}
    OBVIOUS
  <2>2. ids \subseteq SeenIds("user")
    BY <2>1, NamedIsSeen
  <2>3. PICK gid : gid = groups[g]
    OBVIOUS
  <2>4. gid \in SeenIds("group")
    BY <1>4, <2>3, NamedIsSeen DEF BatchAddUsersToGroupHandler
  <2>5. Starts(r, [op |-> "add", ids |-> ids, gid |-> gid]) /\ UNCHANGED <<tables, next, raced>>
    BY <1>4, <2>1, <2>3 DEF BatchAddUsersToGroupHandler
  <2> QED
    BY <2>2, <2>4, <2>5, StartTyped
<1>5. ASSUME NEW r \in Requests, NEW n \in UserNames, NEW g \in GroupNames,
             AddUserToGroupHandler(r, n, g)
      PROVE  TypedInv'
  <2>1. PICK id : id = users[n]
    OBVIOUS
  <2>2. PICK gid : gid = groups[g]
    OBVIOUS
  <2>3. {id} \subseteq SeenIds("user") /\ gid \in SeenIds("group")
    BY <1>5, <2>1, <2>2, NamedIsSeen DEF AddUserToGroupHandler
  <2>4. Starts(r, [op |-> "add", ids |-> {id}, gid |-> gid]) /\ UNCHANGED <<tables, next, raced>>
    BY <1>5, <2>1, <2>2 DEF AddUserToGroupHandler
  <2> QED
    BY <2>3, <2>4, StartTyped
<1>6. ASSUME NEW r \in Requests, NEW g \in GroupNames, NEW v \in Rules, AddGroupACLHandler(r, g, v)
      PROVE  TypedInv'
  <2>1. PICK gid : gid = groups[g]
    OBVIOUS
  <2>2. gid \in SeenIds("group")
    BY <1>6, <2>1, NamedIsSeen DEF AddGroupACLHandler
  <2>3. Starts(r, [op |-> "acl", gid |-> gid, rule |-> v]) /\ UNCHANGED <<tables, next, raced>>
    BY <1>6, <2>1 DEF AddGroupACLHandler
  <2> QED
    BY <2>2, <2>3, StartTyped
<1> QED
  BY <1>1, <1>2, <1>3, <1>4, <1>5, <1>6, CreateGroupTyped, DeleteGroupTyped, AddUserToGroupTyped,
     AddGroupACLTyped DEF GroupStep

LEMMA LeastNumber ==
  ASSUME NEW T, T \subseteq Nat, T # {}
  PROVE  \E n \in T : \A m \in T : n <= m
<1>1. IsWellFoundedOn(OpToRel(<, Nat), Nat)
  BY NatLessThanWellFounded
<1>2. PICK n \in T : \A m \in T : ~(<<m, n>> \in OpToRel(<, Nat))
  BY <1>1, WFMin
<1>3. \A m \in T : ~(m < n)
  BY <1>2 DEF OpToRel
<1> QED
  BY <1>3

\* Copies of a row that are all there are as many rows: while there are fewer
\* than MaxPerms permissions, one of the MaxPerms copies is free.
LEMMA FreeCopy ==
  ASSUME NEW P, IsFiniteSet(P), Cardinality(P) < MaxPerms, NEW s, NEW kind, NEW obj, NEW action
  PROVE  \E k \in 1 .. MaxPerms :
            [server |-> s, kind |-> kind, obj |-> obj, action |-> action, copy |-> k] \notin P
<1> DEFINE row(k) == [server |-> s, kind |-> kind, obj |-> obj, action |-> action, copy |-> k]
<1> SUFFICES ASSUME \A k \in 1 .. MaxPerms : row(k) \in P PROVE FALSE
  OBVIOUS
<1> DEFINE f == [k \in 1 .. MaxPerms |-> row(k)]
<1>1. f \in [1 .. MaxPerms -> P]
  OBVIOUS
<1>2. \A k, l \in 1 .. MaxPerms : f[k] = f[l] => k = l
  <2> SUFFICES ASSUME NEW k \in 1 .. MaxPerms, NEW l \in 1 .. MaxPerms, row(k) = row(l) PROVE k = l
    OBVIOUS
  <2>1. row(k).copy = k /\ row(l).copy = l
    OBVIOUS
  <2> QED
    BY <2>1
<1>3. IsFiniteSet(1 .. MaxPerms) /\ Cardinality(1 .. MaxPerms) = MaxPerms
  <2>1. MaxPerms \in Nat
    BY DirectoryAssumption
  <2> QED
    BY <2>1, FS_Interval
<1> HIDE DEF f
<1>4. \E k, l \in 1 .. MaxPerms : k # l /\ f[k] = f[l]
  BY <1>1, <1>3, FS_PigeonHole
<1> QED
  BY <1>2, <1>4

LEMMA AddPermissionTyped ==
  ASSUME TypedInv, NEW s \in Servers, NEW a \in {Permit, Deny}, NEW o \in Subjects,
         AddOpenVPNServerPermissionHandler(s, o[1], o[2], a)
  PROVE  TypedInv'
<1> DEFINE row(k) == [server |-> s, kind |-> o[1], obj |-> o[2], action |-> a, copy |-> k]
           free == {k \in 1 .. MaxPerms : row(k) \notin perms}
           least == CHOOSE k \in free : \A j \in free : k <= j
<1>1. Cardinality(perms) < MaxPerms /\ IsFiniteSet(perms)
  BY DEF AddOpenVPNServerPermissionHandler, TypedInv
<1>2. free # {}
  BY <1>1, FreeCopy
<1>3. free \subseteq Nat
  OBVIOUS
<1>4. \E k \in free : \A j \in free : k <= j
  <2> HIDE DEF free
  <2> QED
    BY <1>2, <1>3, LeastNumber
<1>5. least \in free
  <2> HIDE DEF free
  <2> QED
    BY <1>4
<1>6. least \in 1 .. MaxPerms
  BY <1>5
<1>7. perms' = perms \cup {row(least)}
  BY DEF AddOpenVPNServerPermissionHandler
<1>8. /\ users' = users /\ groups' = groups /\ members' = members /\ acls' = acls
      /\ next' = next /\ request' = request /\ raced' = raced
  BY DEF AddOpenVPNServerPermissionHandler
<1> HIDE DEF least
<1>9. o[1] \in {"user", "group"} /\ o[2] \in Nat \ {0}
  BY DirectoryAssumption
<1>10. PermsOK'
  <2>1. PermsOK
    BY TypeParts DEF TypedInv
  <2>2. row(least) \in [server : Servers, kind : {"user", "group"}, obj : Nat \ {0},
                        action : {Permit, Deny}, copy : 1 .. MaxPerms]
    BY <1>6, <1>9
  <2> QED
    BY <1>7, <2>1, <2>2 DEF PermsOK
<1>11. IsFiniteSet(perms')
  BY <1>1, <1>7, FS_AddElement
<1>12. Grows
  BY <1>8, KeyedStays DEF TypedInv
<1>13. UsersOK' /\ GroupsOK' /\ MembersOK' /\ AclsOK' /\ RacedOK'
  BY <1>8, <1>12, NamesStayTyped, RowsStayTyped, TypeParts DEF TypedInv
<1>14. TypeOK'
  BY <1>10, <1>13 DEF TypeOK, UsersOK, GroupsOK, MembersOK, PermsOK, AclsOK, RacedOK
<1>15. InFlight'
  BY <1>8, SameTyped DEF TypedInv, SeenIds
<1> QED
  BY <1>11, <1>12, <1>14, <1>15 DEF TypedInv, Grows

LEMMA PermissionStepTyped ==
  ASSUME TypedInv, PermissionStep
  PROVE  TypedInv'
<1>1. ASSUME NEW p, DelOpenVPNServerPermissionHandler(p) PROVE TypedInv'
  BY <1>1, RemovalTyped DEF DelOpenVPNServerPermissionHandler
<1> QED
  BY <1>1, AddPermissionTyped DEF PermissionStep

LEMMA InitTyped == Init => TypedInv
<1> SUFFICES ASSUME Init PROVE TypedInv
  OBVIOUS
<1>1. DOMAIN MaxId = {"user", "group", "member", "acl"}
  BY DirectoryAssumption
<1>2. /\ next["user"] = 2 /\ next["group"] = 2 /\ next["member"] = 2 /\ next["acl"] = 1
      /\ next \in [DOMAIN MaxId -> Nat \ {0}]
  BY <1>1 DEF Init
<1>3. 1 \in SeenIds("user") /\ 1 \in SeenIds("group") /\ 1 \in SeenIds("member")
  BY <1>2 DEF SeenIds
<1>4. UsersOK
  <2>1. 0 .. next["user"] - 1 = {0, 1}
    BY <1>2
  <2> QED
    BY <2>1 DEF Init, UsersOK
<1>5. GroupsOK
  <2>1. 0 .. next["group"] - 1 = {0, 1}
    BY <1>2
  <2> QED
    BY <2>1 DEF Init, GroupsOK
<1>6. MembersOK
  BY <1>3 DEF Init, MembersOK
<1>7. PermsOK /\ AclsOK /\ RacedOK
  BY DEF Init, PermsOK, AclsOK, RacedOK
<1>8. IsFiniteSet(perms)
  BY FS_EmptySet DEF Init
<1>9. InFlight
  BY DEF Init, InFlight, NoRequest
<1> QED
  BY <1>2, <1>4, <1>5, <1>6, <1>7, <1>8, <1>9, TypeParts DEF TypedInv, Keyed

\* Keys in rows, and in the hands of handlers, are keys that were given out.
THEOREM KeysInvariant == Spec => []TypedInv
<1>1. TypedInv /\ [Next]_vars => TypedInv'
  <2> SUFFICES ASSUME TypedInv, [Next]_vars PROVE TypedInv'
    OBVIOUS
  <2>1. CASE UNCHANGED vars
    BY <2>1, RemovalTyped DEF vars, tables
  <2> QED
    BY <2>1, UserStepTyped, GroupStepTyped, PermissionStepTyped DEF Next
<1> QED
  BY <1>1, InitTyped, PTL DEF Spec

\* Every row of the tables is one a handler can have written, and no two users
\* have the same key.
THEOREM DirectoryTypes == Spec => []TypeOK
<1>1. TypedInv => TypeOK
  BY DEF TypedInv
<1> QED
  BY <1>1, KeysInvariant, PTL
=============================================================================
