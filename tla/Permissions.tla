---------------------------- MODULE Permissions ----------------------------
(***************************************************************************)
(* Who may connect to which server, with which ACLs and at which rate, as  *)
(* functions of the tables of the database:                                *)
(*   perms   server_permissions, rows [server, kind, obj, action]          *)
(*   groups  the ids of groups                                             *)
(*   members user_groups, rows [id, user, group]                           *)
(*   acls    group_acls, rows [id, group, rule]                            *)
(* The loops over query results stop at the first denying row and remember *)
(* a permitting one, so the order of the rows does not matter and a result *)
(* is a set here.                                                          *)
(***************************************************************************)
EXTENDS Naturals

Permit == "permit"
Deny == "deny"

UserRules(perms, s, u) == {r \in perms : r.server = s /\ r.kind = "user" /\ r.obj = u}
GroupRules(perms, s, G) == {r \in perms : r.server = s /\ r.kind = "group" /\ r.obj \in G}

Permits(rules) == \E r \in rules : r.action = Permit
Denies(rules) == \E r \in rules : r.action = Deny

\* The subquery "SELECT group_id FROM user_groups": rows of deleted groups count.
GroupIdsOf(members, u) == {m.group : m \in {n \in members : n.user = u}}

\* The join with the groups table: rows of deleted groups do not count.
ListGroupsForUser(groups, members, u) == groups \cap GroupIdsOf(members, u)

CheckForgetsGroupDeny(perms, members, s, u) ==
    LET own == UserRules(perms, s, u) IN
    /\ ~Denies(own)
    /\ Permits(own) \/ Permits(GroupRules(perms, s, GroupIdsOf(members, u)))

\* May the user log in at the server?
CheckServerPermission(perms, members, s, u) ==
    LET own == UserRules(perms, s, u)
        shared == GroupRules(perms, s, GroupIdsOf(members, u))
    IN  /\ ~Denies(own)
        /\ Permits(own) \/ (~Denies(shared) /\ Permits(shared))

\* The four lists of servers shown for a user.
ListServerByUserPermission(perms, members, u) ==
    LET own == {r \in perms : r.kind = "user" /\ r.obj = u}
        shared == {r \in perms : r.kind = "group" /\ r.obj \in GroupIdsOf(members, u)}
    IN  [userAllow  |-> {r.server : r \in {q \in own : q.action = Permit}},
         userDeny   |-> {r.server : r \in {q \in own : q.action = Deny}},
         groupAllow |-> {r.server : r \in {q \in shared : q.action = Permit}},
         groupDeny  |-> {r.server : r \in {q \in shared : q.action # Permit}}]

\* Of some groups, those the server permits and does not deny.
Granted(perms, s, G) ==
    {g \in G : LET rules == GroupRules(perms, s, {g}) IN Permits(rules) /\ ~Denies(rules)}

\* The active groups of a user at a server, which set the rate.
ListActiveGroupsForUser(perms, groups, members, s, u) ==
    LET own == UserRules(perms, s, u)
        mine == ListGroupsForUser(groups, members, u)
    IN  IF Denies(own) THEN {}
        ELSE IF Permits(own) THEN mine
        ELSE Granted(perms, s, mine)

\* The ACL rows a user gets at a server.
GetACLByUser(perms, groups, members, acls, s, u) ==
    LET own == UserRules(perms, s, u)
        mine == ListGroupsForUser(groups, members, u)
    IN  IF Denies(own) THEN {}
        ELSE IF Permits(own) THEN {a \in acls : a.group \in GroupIdsOf(members, u)}
        ELSE {a \in acls : a.group \in Granted(perms, s, mine)}

-----------------------------------------------------------------------------
\* The rule of the documentation: of user deny, user permit, group deny and
\* group permit the first that has a row decides, and nobody gets in by default.
DocumentedPermission(perms, members, s, u) ==
    LET own == UserRules(perms, s, u)
        shared == GroupRules(perms, s, GroupIdsOf(members, u))
        row == <<Denies(own), Permits(own), Denies(shared), Permits(shared)>>
    IN  \E i \in {2, 4} : row[i] /\ \A j \in 1 .. i - 1 : ~row[j]

\* The same rule read off the four lists shown to an administrator.
ShownPermission(lists, s) ==
    /\ s \notin lists.userDeny
    /\ s \in lists.userAllow \/ (s \notin lists.groupDeny /\ s \in lists.groupAllow)

\* Every membership of the user is one of a group that exists.
NoStrayMembership(groups, members, u) == GroupIdsOf(members, u) \subseteq groups
=============================================================================
