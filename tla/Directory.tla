----------------------------- MODULE Directory -----------------------------
(***************************************************************************)
(* Users, groups, memberships, ACLs of groups and permissions of servers:  *)
(* the tables an administrator changes with the user and group handlers.   *)
(*                                                                         *)
(* A handler that is one statement or one transaction on the database is   *)
(* one step.  A handler that reads before it writes stays in flight in     *)
(* between, and other handlers run meanwhile: gin serves every request in  *)
(* a goroutine of its own and nothing locks the tables.  Primary keys are  *)
(* auto-increment columns and never given out twice.  What else a user row *)
(* holds, and how it is updated, is in module Accounts.                    *)
(* Operators named as functions of internal/dao change tables; those named *)
(* ...Handler are the requests that call them.                             *)
(***************************************************************************)
EXTENDS Naturals, FiniteSets, Permissions

CONSTANTS UserNames,   \* usernames
          GroupNames,  \* names of groups
          Root,        \* the user created at installation
          Admin,       \* the name of the group of administrators
          Servers,     \* ids of servers
          Subjects,    \* bound: whom permissions are given to, <<kind, id>>
          Rules,       \* values of ACL rows
          Requests,    \* slots for handlers in flight
          MaxId,       \* bound: per table, how many keys are given out
          MaxPerms     \* bound: how many permissions there are at once

ASSUME DirectoryAssumption == /\ Root \in UserNames
                              /\ Admin \in GroupNames
                              /\ MaxId \in [{"user", "group", "member", "acl"} -> Nat \ {0}]
                              /\ Subjects \subseteq {"user", "group"} \X (Nat \ {0})
                              /\ MaxPerms \in Nat

VARIABLES users,     \* id of the user of each name, 0 if there is none
          groups,    \* id of the group of each name, 0 if there is none
          members,   \* user_groups
          perms,     \* server_permissions; rows that agree are told apart by copy
          acls,      \* group_acls
          next,      \* the next key of each table
          request,   \* the handlers in flight
          raced      \* history: ids of groups deleted while an add was in flight

tables == <<users, groups, members, perms, acls>>
vars == <<tables, next, request, raced>>
-----------------------------------------------------------------------------
NoRequest == [op |-> "none"]

UserIds == {users[n] : n \in UserNames} \ {0}
GroupIds == {groups[g] : g \in GroupNames} \ {0}
Free(table) == next[table] <= MaxId[table]
Taken(table) == [next EXCEPT ![table] = @ + 1]

\* AdminLoginWarper lets somebody through: a user who exists and has a
\* membership in the group called "admin".
Administered ==
    /\ groups[Admin] # 0
    /\ \E m \in members : m.user \in UserIds /\ m.group = groups[Admin]

Starts(r, what) == request[r] = NoRequest /\ request' = [request EXCEPT ![r] = what]
Ends(r) == request' = [request EXCEPT ![r] = NoRequest]

\* Group ids handlers in flight mean to insert rows for.
Meant == {request[r].gid : r \in {q \in Requests : request[q] # NoRequest}}

Init ==
    /\ users = [n \in UserNames |-> IF n = Root THEN 1 ELSE 0]
    /\ groups = [g \in GroupNames |-> IF g = Admin THEN 1 ELSE 0]
    /\ members = {[id |-> 1, user |-> 1, group |-> 1]}
    /\ perms = {}
    /\ acls = {}
    /\ next = [t \in DOMAIN MaxId |-> IF t \in {"user", "group", "member"} THEN 2 ELSE 1]
    /\ request = [r \in Requests |-> NoRequest]
    /\ raced = {}
-----------------------------------------------------------------------------
(* Users *)

\* The unique index refuses a name that exists.
CreateUser(n) ==
    /\ users[n] = 0 /\ Free("user")
    /\ users' = [users EXCEPT ![n] = next["user"]]
    /\ next' = Taken("user")
    /\ UNCHANGED <<groups, members, perms, acls, request, raced>>

CreateUserHandler(n) == Administered /\ CreateUser(n)

\* A row of an uploaded list: the name is new, and the group, if one is named,
\* is looked up.
BatchCreateUserHandler(r, n, g) ==
    /\ Administered
    /\ users[n] = 0 /\ groups[g] # 0
    /\ Starts(r, [op |-> "batch", name |-> n, gid |-> groups[g]])
    /\ UNCHANGED <<tables, next, raced>>

CreateUserWithGroupKeepsKey(r) ==
    LET q == request[r] IN
    /\ q.op = "batch"
    /\ users[q.name] = 0 /\ Free("user") /\ Free("member")
    /\ users' = [users EXCEPT ![q.name] = next["user"]]
    /\ members' = members \cup
            {[id |-> next["member"], user |-> next["user"], group |-> q.gid]}
    /\ next' = Taken("user")
    /\ Ends(r)
    /\ UNCHANGED <<groups, perms, acls, raced>>

\* ... then user and membership are inserted in one transaction.
CreateUserWithGroup(r) ==
    LET q == request[r] IN
    /\ q.op = "batch"
    /\ \/ /\ users[q.name] = 0 /\ Free("user") /\ Free("member")
          /\ users' = [users EXCEPT ![q.name] = next["user"]]
          /\ members' = members \cup
                {[id |-> next["member"], user |-> next["user"], group |-> q.gid]}
          /\ next' = [next EXCEPT !["user"] = @ + 1, !["member"] = @ + 1]
       \/ /\ users[q.name] # 0
          /\ UNCHANGED <<users, members, next>>
    /\ Ends(r)
    /\ UNCHANGED <<groups, perms, acls, raced>>

\* One transaction.  The memberships are matched by their own key, not by the
\* user's.
BlukDeleteUser(ids) ==
    /\ members' = {m \in members : m.id \notin ids}
    /\ perms' = {p \in perms : ~(p.kind = "user" /\ p.obj \in ids)}
    /\ users' = [n \in UserNames |-> IF users[n] \in ids THEN 0 ELSE users[n]]
    /\ UNCHANGED <<groups, acls, next, request, raced>>

\* The ids come from a list the administrator looked at before.
DeleteUserHandler(ids) == Administered /\ BlukDeleteUser(ids)
-----------------------------------------------------------------------------
(* Groups *)

CreateGroup(g) ==
    /\ groups[g] = 0 /\ Free("group")
    /\ groups' = [groups EXCEPT ![g] = next["group"]]
    /\ next' = Taken("group")
    /\ UNCHANGED <<users, members, perms, acls, request, raced>>

CreateGroupHandler(g) == Administered /\ CreateGroup(g)

DeleteGroupByRowKey(gid) ==
    /\ acls' = {a \in acls : a.group # gid}
    /\ members' = {m \in members : m.id # gid}
    /\ perms' = {p \in perms : ~(p.kind = "group" /\ p.obj = gid)}
    /\ groups' = [g \in GroupNames |-> IF groups[g] = gid THEN 0 ELSE groups[g]]
    /\ raced' = raced \cup (Meant \cap {gid})
    /\ UNCHANGED <<users, next, request>>

\* One transaction.
DeleteGroup(gid) ==
    /\ acls' = {a \in acls : a.group # gid}
    /\ members' = {m \in members : m.group # gid}
    /\ perms' = {p \in perms : ~(p.kind = "group" /\ p.obj = gid)}
    /\ groups' = [g \in GroupNames |-> IF groups[g] = gid THEN 0 ELSE groups[g]]
    /\ raced' = raced \cup (Meant \cap {gid})
    /\ UNCHANGED <<users, next, request>>

DeleteGroupHandler(g) ==
    /\ Administered
    /\ groups[g] # 0
    /\ DeleteGroup(groups[g])

\* User, group and membership are looked up ...
AddUserToGroupHandler(r, n, g) ==
    /\ Administered
    /\ users[n] # 0 /\ groups[g] # 0
    /\ \A m \in members : ~(m.user = users[n] /\ m.group = groups[g])
    /\ Starts(r, [op |-> "add", ids |-> {users[n]}, gid |-> groups[g]])
    /\ UNCHANGED <<tables, next, raced>>

\* The batch ignores names that do not exist and fails as a whole when a user is
\* a member already.  Its transaction covers the insertions: users and
\* memberships are read outside of it.
BatchAddUsersToGroupHandler(r, N, g) ==
    LET ids == {users[n] : n \in N} \ {0} IN
    /\ Administered
    /\ groups[g] # 0 /\ ids # {}
    /\ \A m \in members : ~(m.user \in ids /\ m.group = groups[g])
    /\ Starts(r, [op |-> "add", ids |-> ids, gid |-> groups[g]])
    /\ UNCHANGED <<tables, next, raced>>

\* ... then the rows are inserted; nothing makes them unique.
AddUserToGroup(r) ==
    LET q == request[r]
        rank(i) == Cardinality({j \in q.ids : j < i})
    IN
    /\ q.op = "add"
    /\ next["member"] + Cardinality(q.ids) <= MaxId["member"] + 1
    /\ members' = members \cup
            {[id |-> next["member"] + rank(i), user |-> i, group |-> q.gid] : i \in q.ids}
    /\ next' = [next EXCEPT !["member"] = @ + Cardinality(q.ids)]
    /\ Ends(r)
    /\ UNCHANGED <<users, groups, perms, acls, raced>>

\* One statement.
RemoveUserFromGroup(uid, gid) ==
    /\ members' = {m \in members : ~(m.user = uid /\ m.group = gid)}
    /\ UNCHANGED <<users, groups, perms, acls, next, request, raced>>

RemoveUserFromGroupHandler(n, g) ==
    /\ Administered
    /\ users[n] # 0 /\ groups[g] # 0
    /\ RemoveUserFromGroup(users[n], groups[g])

BatchRemoveOneRow(N, g) ==
    LET ids == {users[n] : n \in N} \ {0}
        rows == {m \in members : m.user \in ids /\ m.group = groups[g]}
    IN
    /\ groups[g] # 0 /\ rows # {}
    /\ members' = members \ {CHOOSE m \in rows : TRUE}
    /\ UNCHANGED <<users, groups, perms, acls, next, request, raced>>

\* One statement; names that do not exist are ignored.
BatchRemoveUsersFromGroup(N, g) ==
    LET ids == {users[n] : n \in N} \ {0} IN
    /\ groups[g] # 0
    /\ members' = {m \in members : ~(m.user \in ids /\ m.group = groups[g])}
    /\ UNCHANGED <<users, groups, perms, acls, next, request, raced>>

BatchRemoveUsersFromGroupHandler(N, g) == Administered /\ BatchRemoveUsersFromGroup(N, g)

\* The network is normalised before it is looked up and stored.
AddGroupACLHandler(r, g, v) ==
    /\ Administered
    /\ groups[g] # 0
    /\ \A a \in acls : ~(a.group = groups[g] /\ a.rule = v)
    /\ Starts(r, [op |-> "acl", gid |-> groups[g], rule |-> v])
    /\ UNCHANGED <<tables, next, raced>>

AddGroupACL(r) ==
    LET q == request[r] IN
    /\ q.op = "acl" /\ Free("acl")
    /\ acls' = acls \cup {[id |-> next["acl"], group |-> q.gid, rule |-> q.rule]}
    /\ next' = Taken("acl")
    /\ Ends(r)
    /\ UNCHANGED <<users, groups, members, perms, raced>>

DeleteGroupACLHandler(id) ==
    /\ Administered
    /\ acls' = {a \in acls : a.id # id}
    /\ UNCHANGED <<users, groups, members, perms, next, request, raced>>
-----------------------------------------------------------------------------
(* Permissions of servers: nothing checks that server, user or group exist, *)
(* nor that the row is new.                                                 *)

AddOpenVPNServerPermissionHandler(s, kind, obj, action) ==
    LET row(k) == [server |-> s, kind |-> kind, obj |-> obj, action |-> action, copy |-> k]
        free == {k \in 1 .. MaxPerms : row(k) \notin perms}
    IN
    /\ Administered
    /\ Cardinality(perms) < MaxPerms
    /\ perms' = perms \cup {row(CHOOSE k \in free : \A j \in free : k <= j)}
    /\ UNCHANGED <<users, groups, members, acls, next, request, raced>>

DelOpenVPNServerPermissionHandler(p) ==
    /\ Administered
    /\ perms' = perms \ {p}
    /\ UNCHANGED <<users, groups, members, acls, next, request, raced>>

\* What the page about a user shows: his lists, and the ACLs of each server.
ListOpenVPNServerByUserPermissionHandler(u) ==
    [data |-> ListServerByUserPermission(perms, members, u),
     acl  |-> [s \in Servers |-> GetACLByUser(perms, GroupIds, members, acls, s, u)]]
-----------------------------------------------------------------------------
\* Ids a page of the panel may still show.
SeenIds(table) == 1 .. next[table] - 1

UserStep ==
    \/ \E n \in UserNames : CreateUserHandler(n)
    \/ \E r \in Requests, n \in UserNames, g \in GroupNames : BatchCreateUserHandler(r, n, g)
    \/ \E r \in Requests : CreateUserWithGroup(r)
    \/ \E ids \in SUBSET SeenIds("user") \ {{}} : DeleteUserHandler(ids)

GroupStep ==
    \/ \E g \in GroupNames : CreateGroupHandler(g) \/ DeleteGroupHandler(g)
    \/ \E N \in SUBSET UserNames \ {{}}, g \in GroupNames :
          \/ BatchRemoveUsersFromGroupHandler(N, g)
          \/ \E r \in Requests : BatchAddUsersToGroupHandler(r, N, g)
    \/ \E n \in UserNames, g \in GroupNames :
          \/ RemoveUserFromGroupHandler(n, g)
          \/ \E r \in Requests : AddUserToGroupHandler(r, n, g)
    \/ \E r \in Requests : AddUserToGroup(r) \/ AddGroupACL(r)
    \/ \E r \in Requests, g \in GroupNames, v \in Rules : AddGroupACLHandler(r, g, v)
    \/ \E id \in SeenIds("acl") : DeleteGroupACLHandler(id)

PermissionStep ==
    \/ \E s \in Servers, a \in {Permit, Deny}, o \in Subjects :
          /\ o[2] \in SeenIds(o[1])
          /\ AddOpenVPNServerPermissionHandler(s, o[1], o[2], a)
    \/ \E p \in perms : DelOpenVPNServerPermissionHandler(p)

Next == UserStep \/ GroupStep \/ PermissionStep

Spec == Init /\ [][Next]_vars
-----------------------------------------------------------------------------
\* Every row of the tables is one a handler can have written.
TypeOK ==
    /\ users \in [UserNames -> 0 .. next["user"] - 1]
    /\ \A m, n \in UserNames : m # n /\ users[m] # 0 => users[m] # users[n]
    /\ groups \in [GroupNames -> 0 .. next["group"] - 1]
    /\ members \subseteq [id : SeenIds("member"), user : SeenIds("user"), group : SeenIds("group")]
    /\ perms \subseteq [server : Servers, kind : {"user", "group"}, obj : Nat \ {0},
                     action : {Permit, Deny}, copy : 1 .. MaxPerms]
    /\ acls \subseteq [id : SeenIds("acl"), group : SeenIds("group"), rule : Rules]
    /\ raced \subseteq SeenIds("group")

\* A group that was deleted leaves neither members nor ACLs behind, unless a
\* handler that had looked the group up before inserts its row afterwards.
GroupCascade ==
    /\ \A m \in members : m.group \in GroupIds \cup raced
    /\ \A a \in acls : a.group \in GroupIds \cup raced

\* The check at login decides as the documentation's order of precedence says,
\* and as the lists an administrator is shown for the user suggest.
PermissionsAgree ==
    \A s \in Servers, u \in SeenIds("user") :
        LET allowed == CheckServerPermission(perms, members, s, u) IN
        /\ allowed <=> DocumentedPermission(perms, members, s, u)
        /\ allowed <=> ShownPermission(ListOpenVPNServerByUserPermissionHandler(u).data, s)

\* ACLs and rates come from the same groups: the rows a user gets are those of
\* his active groups, and a user let in by a group has an active group.
AclFollowsActive ==
    \A s \in Servers, u \in SeenIds("user") :
        NoStrayMembership(GroupIds, members, u) =>
            LET active == ListActiveGroupsForUser(perms, GroupIds, members, s, u) IN
            /\ ListOpenVPNServerByUserPermissionHandler(u).acl[s] = {a \in acls : a.group \in active}
            /\ /\ CheckServerPermission(perms, members, s, u)
               /\ UserRules(perms, s, u) = {}
               => active # {}

\* A removal takes a user out of the group for good, also when two handlers had
\* added him at the same time.
RemovedIsOut ==
    [][members' # members =>
          \A N \in SUBSET UserNames, g \in GroupNames :
             BatchRemoveUsersFromGroup(N, g) =>
                \A n \in N, m \in members' : ~(m.user = users[n] /\ m.group = groups[g])]_vars

\* What the comment in BlukDeleteUser says of the memberships: those of the
\* deleted users are removed, and no others.
DeleteOwnMemberships ==
    [][\A ids \in SUBSET SeenIds("user") : ids # {} /\ BlukDeleteUser(ids) =>
          members' = {m \in members : m.user \notin ids}]_vars
=============================================================================
