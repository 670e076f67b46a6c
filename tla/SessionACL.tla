----------------------------- MODULE SessionACL -----------------------------
(***************************************************************************)
(* The sessions of the VPN clients of one server: the scripts openvpn runs *)
(* when a client comes online and goes offline, the handlers of the        *)
(* internal API they call, the self-service page where users with a second *)
(* factor log in and out, the records of clients and ACLs, and the rules   *)
(* in the kernel.                                                          *)
(*                                                                         *)
(* Scripts and handlers take no common lock (flock covers the kernel       *)
(* commands only), so each call and each statement on the database is a    *)
(* step.  openvpn gives an address to the next client only when the        *)
(* offline script of the previous one has ended.                           *)
(***************************************************************************)
CONSTANTS Users,       \* usernames
          MfaUsers,    \* those with a second factor (MFAType # MFA_TYPE_NONE)
          IPs,         \* virtual addresses (the primary one of each client)
          Networks,    \* CIDRs an ACL may hold
          Requests,    \* requests the self-service page may work on at once
          Faults,      \* what may go wrong, see AllFaults
          None         \* no user

\* What may happen besides the plain course of events:
\*   panel_down    the panel is killed, and calls of the scripts are lost
\*   flock_timeout a script waits 60 s for the lock in vain and skips its rules
\*   early_client  a client connects before the start of the server is over
\*   relogin       a session that is logged in logs in again
\*   overlap       something else happens to a client while the page works for it
AllFaults == {"panel_down", "flock_timeout", "early_client", "relogin", "overlap"}

ASSUME SessionAssumption == /\ MfaUsers \subseteq Users
                            /\ None \notin Users
                            /\ Faults \subseteq AllFaults

VARIABLES entitled,  \* what GetACLByUser answers for each user now
          server,    \* how far the start or stop of the server has come
          panel,     \* the panel runs
          memory,    \* max_memory_events > 0: records are kept in memory
          session,   \* openvpn: who is connected with each address
          script,    \* the online or offline script of each address
          clients,   \* connected_client_info_records of each address
          acls,      \* added_server_acl_records of each address
          groups,    \* kernel: the ACL groups whose source set holds the address
          flow,      \* kernel: connections of the address in the state table
          portal,    \* the requests of the self-service page
          tainted    \* history: addresses a fault has happened to since the start

config == <<server, panel, memory>>
vars == <<entitled, config, session, script, clients, acls, groups, flow, portal, tainted>>
-----------------------------------------------------------------------------
ACL == SUBSET Networks
Row == [user : Users, mfa : BOOLEAN]

Idle == [at |-> "idle", user |-> None, acl |-> {}]
NoRequest == [op |-> "none", ip |-> None, user |-> None, acl |-> {}]

LoginOps == {"drop", "add", "save", "verify"}
LogoutOps == {"del", "flush", "forget", "unverify"}

\* No request of the page is at work for this address.
Quiet(ip) == \A p \in Requests : portal[p].op # "none" => portal[p].ip # ip

\* Somebody uses this address or works for it.
Exposed(ip) == session[ip] # None \/ script[ip] # Idle \/ ~Quiet(ip)

\* Mutant: an error of SaveAddedACL goes unnoticed.
NeverSaved(ip, acl) == acls[ip]

\* SaveAddedACL: the memory store overwrites, the database adds rows; an empty
\* list changes nothing in either.
Saved(ip, acl) ==
    IF acl = {} THEN acls[ip]
    ELSE IF memory THEN acl ELSE acls[ip] \cup acl

\* Mutant: the username is not decoded.
CreatedWithoutUser(ip, row) == {[row EXCEPT !.user = None]}

\* CreateConnectedClientInfoRecord: upsert in memory, one more row in the database.
Created(ip, row) == IF memory THEN {row} ELSE clients[ip] \cup {row}

\* The kernel's rules when an ACL group is added for an address.  The group is
\* named by the hash of its networks, so taking one away needs the same set.
Granted(ip, acl) == IF acl = {} THEN groups[ip] ELSE groups[ip] \cup {acl}
Revoked(ip, acl) == groups[ip] \ {acl}

Taint(ip, bad) == tainted' = IF bad THEN tainted \cup {ip} ELSE tainted

Init ==
    /\ entitled \in [Users -> ACL]
    /\ server = "down"
    /\ panel = TRUE
    /\ memory \in BOOLEAN
    /\ session = [ip \in IPs |-> None]
    /\ script = [ip \in IPs |-> Idle]
    /\ clients = [ip \in IPs |-> {}]
    /\ acls = [ip \in IPs |-> {}]
    /\ groups = [ip \in IPs |-> {}]
    /\ flow = [ip \in IPs |-> "none"]
    /\ portal = [p \in Requests |-> NoRequest]
    /\ tainted = {}
-----------------------------------------------------------------------------
(* openvpn and its scripts *)

\* auth.sh has succeeded, which needs the panel, and client_online.sh begins.
\* Connections the previous holder of the address left in the state table stay.
ClientConnects(ip, u) ==
    /\ panel
    /\ \/ server = "up"
       \/ server \in {"starting", "flushed"} /\ "early_client" \in Faults
    /\ session[ip] = None
    /\ script[ip] = Idle
    /\ Quiet(ip) \/ "overlap" \in Faults
    /\ session' = [session EXCEPT ![ip] = u]
    /\ script' = [script EXCEPT ![ip] = [at |-> "online", user |-> u, acl |-> {}]]
    /\ flow' = [flow EXCEPT ![ip] = IF @ = "own" THEN "stale" ELSE @]
    /\ Taint(ip, server # "up" \/ ~Quiet(ip))
    /\ UNCHANGED <<entitled, config, clients, acls, groups, portal>>

\* POST /user/online.
UserOnline(ip) ==
    /\ panel
    /\ script[ip].at = "online"
    /\ clients' = [clients EXCEPT ![ip] =
                      Created(ip, [user |-> script[ip].user, mfa |-> FALSE])]
    /\ script' = [script EXCEPT ![ip].at = "aclget"]
    /\ UNCHANGED <<entitled, config, session, acls, groups, flow, portal, tainted>>

\* Mutant: everybody gets the rules at once.
GetUserACLUngated(ip) ==
    /\ panel
    /\ script[ip].at = "aclget"
    /\ acls' = [acls EXCEPT ![ip] = Saved(ip, entitled[script[ip].user])]
    /\ script' = [script EXCEPT ![ip].at = "rules", ![ip].acl = entitled[script[ip].user]]
    /\ UNCHANGED <<entitled, config, session, clients, groups, flow, portal, tainted>>

\* POST /user/acl/get: a user with a second factor gets nothing yet; what
\* others get is recorded, and the script goes on when it is not empty.
GetUserACL(ip) ==
    LET u == script[ip].user
        acl == IF u \in MfaUsers THEN {} ELSE entitled[u]
    IN  /\ panel
        /\ script[ip].at = "aclget"
        /\ acls' = [acls EXCEPT ![ip] = Saved(ip, acl)]
        /\ script' = [script EXCEPT ![ip] =
                         IF acl = {} THEN Idle ELSE [at |-> "rules", user |-> u, acl |-> acl]]
        /\ UNCHANGED <<entitled, config, session, clients, groups, flow, portal, tainted>>

\* The rest of client_online.sh, under flock.
AddRules(ip) ==
    /\ script[ip].at = "rules"
    /\ groups' = [groups EXCEPT ![ip] = Granted(ip, script[ip].acl)]
    /\ script' = [script EXCEPT ![ip] = Idle]
    /\ UNCHANGED <<entitled, config, session, clients, acls, flow, portal, tainted>>

\* The client goes (or is kicked) and client_offline.sh begins.
ClientDisconnects(ip) ==
    /\ server # "down"
    /\ session[ip] # None
    /\ script[ip] = Idle
    /\ Quiet(ip) \/ "overlap" \in Faults
    /\ session' = [session EXCEPT ![ip] = None]
    /\ script' = [script EXCEPT ![ip] =
                     [at |-> "offline", user |-> session[ip], acl |-> {}]]
    /\ Taint(ip, ~Quiet(ip))
    /\ UNCHANGED <<entitled, config, clients, acls, groups, flow, portal>>

\* POST /user/offline deletes every record of the address.
UserOffline(ip) ==
    /\ panel
    /\ script[ip].at = "offline"
    /\ clients' = [clients EXCEPT ![ip] = {}]
    /\ script' = [script EXCEPT ![ip].at = "acldel"]
    /\ UNCHANGED <<entitled, config, session, acls, groups, flow, portal, tainted>>

\* Mutant: computes the ACLs again instead of reading what was recorded.
DelUserACLComputes(ip) ==
    /\ panel
    /\ script[ip].at = "acldel"
    /\ script' = [script EXCEPT ![ip].at = "delrows", ![ip].acl = entitled[script[ip].user]]
    /\ UNCHANGED <<entitled, config, session, clients, acls, groups, flow, portal, tainted>>

\* POST /user/acl/del lists the recorded ACLs of the address ...
DelUserACLList(ip) ==
    /\ panel
    /\ script[ip].at = "acldel"
    /\ script' = [script EXCEPT ![ip].at = "delrows", ![ip].acl = acls[ip]]
    /\ UNCHANGED <<entitled, config, session, clients, acls, groups, flow, portal, tainted>>

\* Mutant: returns nothing.
DelUserACLSilent(ip) ==
    /\ panel
    /\ script[ip].at = "delrows"
    /\ acls' = [acls EXCEPT ![ip] = {}]
    /\ script' = [script EXCEPT ![ip] = Idle]
    /\ UNCHANGED <<entitled, config, session, clients, groups, flow, portal, tainted>>

\* ... deletes them, and returns the list; the script stops when it is empty.
DelUserACLRecords(ip) ==
    /\ panel
    /\ script[ip].at = "delrows"
    /\ acls' = [acls EXCEPT ![ip] = {}]
    /\ script' = [script EXCEPT ![ip] =
                     IF script[ip].acl = {} THEN Idle ELSE [@ EXCEPT !.at = "clean"]]
    /\ UNCHANGED <<entitled, config, session, clients, groups, flow, portal, tainted>>

\* The rest of client_offline.sh, under flock.  The state table is left alone.
CleanRules(ip) ==
    /\ script[ip].at = "clean"
    /\ groups' = [groups EXCEPT ![ip] = Revoked(ip, script[ip].acl)]
    /\ script' = [script EXCEPT ![ip] = Idle]
    /\ UNCHANGED <<entitled, config, session, clients, acls, flow, portal, tainted>>

\* flock -w 60 gives up: the script ends without touching the rules.
FlockTimeout(ip) ==
    /\ "flock_timeout" \in Faults
    /\ script[ip].at \in {"rules", "clean"}
    /\ script' = [script EXCEPT ![ip] = Idle]
    /\ Taint(ip, TRUE)
    /\ UNCHANGED <<entitled, config, session, clients, acls, groups, flow, portal>>

\* curl fails while the panel is down.  The scripts ignore it: no record is
\* written or deleted, and no ACL is returned.
CallLost(ip) ==
    /\ ~panel
    /\ script[ip].at \in {"online", "aclget", "offline", "acldel"}
    /\ script' = [script EXCEPT ![ip] =
                     CASE @.at = "online"  -> [@ EXCEPT !.at = "aclget"]
                       [] @.at = "offline" -> [@ EXCEPT !.at = "acldel"]
                       [] OTHER            -> Idle]
    /\ Taint(ip, TRUE)
    /\ UNCHANGED <<entitled, config, session, clients, acls, groups, flow, portal>>
-----------------------------------------------------------------------------
(* The self-service page *)

Step(p, op) == portal' = [portal EXCEPT ![p].op = op]

\* resolveClient finds a record of the source address; a code is right only
\* for the user who is really there, so other records lead to no change.
MayAsk(p, ip, row) ==
    /\ panel
    /\ portal[p].op = "none"
    /\ row \in clients[ip]
    /\ row.user = session[ip]
    /\ row.user \in MfaUsers
    /\ (script[ip] = Idle /\ Quiet(ip)) \/ "overlap" \in Faults

\* POST /login with a valid code: GetACLByUser, ...
PortalLogin(p, ip, row) ==
    /\ MayAsk(p, ip, row)
    /\ row.mfa => "relogin" \in Faults
    /\ portal' = [portal EXCEPT ![p] =
                     [op |-> "drop", ip |-> ip, user |-> row.user, acl |-> entitled[row.user]]]
    /\ Taint(ip, row.mfa \/ script[ip] # Idle \/ ~Quiet(ip))
    /\ UNCHANGED <<entitled, config, session, script, clients, acls, groups, flow>>

\* ... DeleteAddedACLByIP, ...
PortalDrop(p) ==
    /\ panel
    /\ portal[p].op = "drop"
    /\ acls' = [acls EXCEPT ![portal[p].ip] = {}]
    /\ Step(p, "add")
    /\ UNCHANGED <<entitled, config, session, script, clients, groups, flow, tainted>>

\* ... acl_add.sh, ...
PortalAdd(p) ==
    /\ panel
    /\ portal[p].op = "add"
    /\ groups' = [groups EXCEPT ![portal[p].ip] = Granted(portal[p].ip, portal[p].acl)]
    /\ Step(p, "save")
    /\ UNCHANGED <<entitled, config, session, script, clients, acls, flow, tainted>>

\* Mutant: the request ends before the session is marked.
PortalSaveLast(p) ==
    /\ panel
    /\ portal[p].op = "save"
    /\ acls' = [acls EXCEPT ![portal[p].ip] = Saved(portal[p].ip, portal[p].acl)]
    /\ portal' = [portal EXCEPT ![p] = NoRequest]
    /\ UNCHANGED <<entitled, config, session, script, clients, groups, flow, tainted>>

\* ... SaveAddedACL, ...
PortalSave(p) ==
    /\ panel
    /\ portal[p].op = "save"
    /\ acls' = [acls EXCEPT ![portal[p].ip] = Saved(portal[p].ip, portal[p].acl)]
    /\ Step(p, "verify")
    /\ UNCHANGED <<entitled, config, session, script, clients, groups, flow, tainted>>

\* UpdateConnectedClientInfoRecordMFAVerified changes all records of the address.
Marked(ip, verified) == {[row EXCEPT !.mfa = verified] : row \in clients[ip]}

\* ... and the session is logged in.
PortalVerify(p) ==
    /\ panel
    /\ portal[p].op = "verify"
    /\ clients' = [clients EXCEPT ![portal[p].ip] = Marked(portal[p].ip, TRUE)]
    /\ portal' = [portal EXCEPT ![p] = NoRequest]
    /\ UNCHANGED <<entitled, config, session, script, acls, groups, flow, tainted>>

\* POST /logout: ListAddedACLByIP, ...
PortalLogout(p, ip, row) ==
    /\ MayAsk(p, ip, row)
    /\ portal' = [portal EXCEPT ![p] =
                     [op |-> "del", ip |-> ip, user |-> row.user, acl |-> acls[ip]]]
    /\ Taint(ip, script[ip] # Idle \/ ~Quiet(ip))
    /\ UNCHANGED <<entitled, config, session, script, clients, acls, groups, flow>>

\* ... acl_del.sh takes the rules away ...
PortalDel(p) ==
    /\ panel
    /\ portal[p].op = "del"
    /\ groups' = [groups EXCEPT ![portal[p].ip] = Revoked(portal[p].ip, portal[p].acl)]
    /\ Step(p, "flush")
    /\ UNCHANGED <<entitled, config, session, script, clients, acls, flow, tainted>>

\* Mutant: the state table is left alone.
PortalKeepsFlow(p) ==
    /\ panel
    /\ portal[p].op = "flush"
    /\ Step(p, "forget")
    /\ UNCHANGED <<entitled, config, session, script, clients, acls, groups, flow, tainted>>

\* ... and then, on its exit, empties the state table for the address, ...
PortalFlush(p) ==
    /\ panel
    /\ portal[p].op = "flush"
    /\ flow' = [flow EXCEPT ![portal[p].ip] = "none"]
    /\ Step(p, "forget")
    /\ UNCHANGED <<entitled, config, session, script, clients, acls, groups, tainted>>

\* ... DeleteAddedACLByIP, ...
PortalForget(p) ==
    /\ panel
    /\ portal[p].op = "forget"
    /\ acls' = [acls EXCEPT ![portal[p].ip] = {}]
    /\ Step(p, "unverify")
    /\ UNCHANGED <<entitled, config, session, script, clients, groups, flow, tainted>>

\* ... and the session is logged out.
PortalUnverify(p) ==
    /\ panel
    /\ portal[p].op = "unverify"
    /\ clients' = [clients EXCEPT ![portal[p].ip] = Marked(portal[p].ip, FALSE)]
    /\ portal' = [portal EXCEPT ![p] = NoRequest]
    /\ UNCHANGED <<entitled, config, session, script, acls, groups, flow, tainted>>

\* flock gives up in acl_add.sh or acl_del.sh, which still exit with 0.
PortalTimeout(p) ==
    /\ panel
    /\ "flock_timeout" \in Faults
    /\ \/ portal[p].op = "add" /\ Step(p, "save")
       \/ portal[p].op = "del" /\ Step(p, "flush")
    /\ Taint(portal[p].ip, TRUE)
    /\ UNCHANGED <<entitled, config, session, script, clients, acls, groups, flow>>
-----------------------------------------------------------------------------
(* The panel and the server *)

Working == {ip \in IPs : ~Quiet(ip) \/ script[ip].at = "delrows"}

\* The panel is killed in the middle of everything, and openvpn lives on, as
\* stop_instances_on_exit=false has it; memory mode forces that to true.
PanelCrash ==
    /\ "panel_down" \in Faults
    /\ panel /\ ~memory
    /\ server \in {"down", "up"}
    /\ panel' = FALSE
    /\ portal' = [p \in Requests |-> NoRequest]
    /\ script' = [ip \in IPs |-> IF script[ip].at = "delrows" THEN Idle ELSE script[ip]]
    /\ tainted' = tainted \cup Working
    /\ UNCHANGED <<entitled, server, memory, session, clients, acls, groups, flow>>

\* The next panel listens on the internal API again.
PanelBack ==
    /\ ~panel
    /\ panel' = TRUE
    /\ UNCHANGED <<entitled, server, memory, session, script, clients, acls, groups, flow,
                   portal, tainted>>

\* A start launches openvpn, when the scripts of the previous one are over ...
ServerStart ==
    /\ panel
    /\ server = "down"
    /\ \A ip \in IPs : script[ip] = Idle
    /\ server' = "starting"
    /\ UNCHANGED <<entitled, panel, memory, session, script, clients, acls, groups, flow,
                   portal, tainted>>

\* ... server_start.sh flushes the chain and destroys the sets of the server ...
StartScript ==
    /\ panel
    /\ server = "starting"
    /\ server' = "flushed"
    /\ groups' = [ip \in IPs |-> {}]
    /\ tainted' = {ip \in IPs : Exposed(ip)}
    /\ UNCHANGED <<entitled, panel, memory, session, script, clients, acls, flow, portal>>

\* ... and the records of the server are deleted.
StartWipe ==
    /\ panel
    /\ server = "flushed"
    /\ server' = "up"
    /\ clients' = [ip \in IPs |-> {}]
    /\ acls' = [ip \in IPs |-> {}]
    /\ tainted' = tainted \cup {ip \in IPs : Exposed(ip)}
    /\ UNCHANGED <<entitled, panel, memory, session, script, groups, flow, portal>>

\* A stop interrupts openvpn, which runs the offline scripts of its clients ...
ServerStop ==
    /\ panel
    /\ server = "up"
    /\ server' = "stopping"
    /\ UNCHANGED <<entitled, panel, memory, session, script, clients, acls, groups, flow,
                   portal, tainted>>

\* ... until it ends or is killed; then server_exit.sh, and the ACL records go.
StopFinish ==
    /\ panel
    /\ server = "stopping"
    /\ \A ip \in IPs : script[ip] = Idle
    /\ server' = "down"
    /\ session' = [ip \in IPs |-> None]
    /\ groups' = [ip \in IPs |-> {}]
    /\ acls' = [ip \in IPs |-> {}]
    /\ UNCHANGED <<entitled, panel, memory, script, clients, flow, portal, tainted>>

\* openvpn dies: no offline script runs.
ServerDies ==
    /\ server = "up"
    /\ server' = "down"
    /\ session' = [ip \in IPs |-> None]
    /\ UNCHANGED <<entitled, panel, memory, script, clients, acls, groups, flow, portal, tainted>>

\* An administrator changes permissions, groups or ACLs.
ChangeACL(u, acl) ==
    /\ entitled' = [entitled EXCEPT ![u] = acl]
    /\ UNCHANGED <<config, session, script, clients, acls, groups, flow, portal, tainted>>

\* The client opens a connection its rules accept; the state table lets it pass
\* from then on, until it ends.
OpenFlow(ip) ==
    /\ session[ip] # None
    /\ groups[ip] # {}
    /\ flow' = [flow EXCEPT ![ip] = "own"]
    /\ UNCHANGED <<entitled, config, session, script, clients, acls, groups, portal, tainted>>

FlowEnds(ip) ==
    /\ flow' = [flow EXCEPT ![ip] = "none"]
    /\ UNCHANGED <<entitled, config, session, script, clients, acls, groups, portal, tainted>>

ScriptStep(ip) ==
    \/ UserOnline(ip) \/ GetUserACL(ip) \/ AddRules(ip)
    \/ UserOffline(ip) \/ DelUserACLList(ip) \/ DelUserACLRecords(ip) \/ CleanRules(ip)
    \/ FlockTimeout(ip) \/ CallLost(ip)

ClientStep(ip) ==
    \/ \E u \in Users : ClientConnects(ip, u)
    \/ ClientDisconnects(ip)
    \/ OpenFlow(ip) \/ FlowEnds(ip)

PortalStep(p) ==
    \/ PortalDrop(p) \/ PortalAdd(p) \/ PortalSave(p) \/ PortalVerify(p)
    \/ PortalDel(p) \/ PortalFlush(p) \/ PortalForget(p) \/ PortalUnverify(p)
    \/ PortalTimeout(p)

PortalRequest(p) ==
    \E ip \in IPs : \E row \in clients[ip] : PortalLogin(p, ip, row) \/ PortalLogout(p, ip, row)

ServerStep ==
    \/ ServerStart \/ StartScript \/ StartWipe \/ ServerStop \/ StopFinish \/ ServerDies
    \/ PanelCrash \/ PanelBack

Next ==
    \/ \E ip \in IPs : ScriptStep(ip) \/ ClientStep(ip)
    \/ \E p \in Requests : PortalRequest(p) \/ PortalStep(p)
    \/ ServerStep
    \/ \E u \in Users, acl \in ACL : ChangeACL(u, acl)

Spec == Init /\ [][Next]_vars

\* A script goes on until it ends, and so does a handler.
Fairness == /\ \A ip \in IPs : WF_vars(ScriptStep(ip))
            /\ \A p \in Requests : WF_vars(PortalStep(p))

FairSpec == Spec /\ Fairness
-----------------------------------------------------------------------------
(* Properties *)

\* Every variable keeps its type, and a script or request its user and address.
TypeOK ==
    /\ entitled \in [Users -> ACL]
    /\ server \in {"down", "starting", "flushed", "up", "stopping"}
    /\ panel \in BOOLEAN /\ memory \in BOOLEAN
    /\ session \in [IPs -> Users \cup {None}]
    /\ script \in [IPs -> [at : {"idle", "online", "aclget", "rules", "offline", "acldel",
                                 "delrows", "clean"},
                           user : Users \cup {None}, acl : ACL]]
    /\ \A ip \in IPs : script[ip].at # "idle" => script[ip].user \in Users
    /\ clients \in [IPs -> SUBSET Row]
    /\ acls \in [IPs -> ACL]
    /\ groups \in [IPs -> SUBSET ACL]
    /\ flow \in [IPs -> {"none", "own", "stale"}]
    /\ portal \in [Requests -> [op : {"none"} \cup LoginOps \cup LogoutOps,
                                ip : IPs \cup {None}, user : Users \cup {None}, acl : ACL]]
    /\ \A p \in Requests : portal[p].op # "none" => portal[p].ip \in IPs
    /\ tainted \subseteq IPs

\* Openvpn serves clients, and nothing has gone wrong for this address since it
\* was started.
Sound(ip) == server \in {"up", "stopping"} /\ ip \notin tainted

\* Nobody is at work for the address.
AtRest(ip) == script[ip] = Idle /\ Quiet(ip)

\* An address nobody uses has no rule in the kernel and no record: what a client
\* was granted is taken back when it goes offline, although the ACLs of its user
\* may have changed in between (client_online.sh keeps them for that purpose),
\* and the next holder of the address inherits nothing.
NoLeftovers ==
    \A ip \in IPs : Sound(ip) /\ session[ip] = None /\ AtRest(ip) =>
        groups[ip] = {} /\ acls[ip] = {} /\ clients[ip] = {}

\* The ACLs recorded for a session are those the kernel applies: what the page
\* shows is what is let through (clientPortalStatus), and what the offline script
\* will find.
RecordedIsApplied ==
    \A ip \in IPs : Sound(ip) /\ session[ip] # None /\ AtRest(ip) =>
        groups[ip] = IF acls[ip] = {} THEN {} ELSE {acls[ip]}

\* A session is known by exactly one record, that of its user, so the page works
\* for the user who is really there (resolveClient).
OneRecord ==
    \A ip \in IPs : Sound(ip) /\ session[ip] # None /\ AtRest(ip) =>
        \E b \in BOOLEAN : clients[ip] = {[user |-> session[ip], mfa |-> b]}

\* The session of a user with a second factor has rules only when it is logged
\* in, or while a login is under way (GetUserACLInternalHandler gives nothing).
MfaGate ==
    \A ip \in IPs :
        Sound(ip) /\ session[ip] \in MfaUsers /\ script[ip] = Idle /\ groups[ip] # {} =>
            \/ \E row \in clients[ip] : row.mfa
            \/ \E p \in Requests : portal[p].ip = ip /\ portal[p].op \in {"save", "verify"}

\* After a logout no connection opened by the session goes on (acl_del.sh takes
\* the rules away before it empties the state table).
LoggedOutIsCut ==
    \A ip \in IPs :
        Sound(ip) /\ session[ip] \in MfaUsers /\ AtRest(ip)
                  /\ (\A row \in clients[ip] : ~row.mfa) =>
            flow[ip] # "own"

\* What went wrong for one address stays with it: every other one is in order.
Containment == NoLeftovers /\ RecordedIsApplied /\ OneRecord /\ MfaGate /\ LoggedOutIsCut

\* Once a client goes offline its rules are taken away, unless the server ends or
\* a fault happens to the address.
DisconnectReclaims ==
    \A ip \in IPs : script[ip].at = "offline" ~>
        groups[ip] = {} \/ server = "down" \/ ip \in tainted

\* A login comes to its end: the session is logged in, unless the server ends or
\* a fault happens to the address.
LoginCompletes ==
    \A p \in Requests, ip \in IPs :
        portal[p].op = "drop" /\ portal[p].ip = ip /\ portal[p].user = session[ip] ~>
            (\E row \in clients[ip] : row.mfa) \/ server = "down" \/ ip \in tainted

\* full-doc.md: the rules are written when a client comes online and taken back
\* when it goes offline.
OfflineReclaims ==
    \A ip \in IPs : server = "up" /\ session[ip] = None /\ AtRest(ip) => groups[ip] = {}

(* The inductive invariant behind Containment. *)

Applied(ip) == groups[ip] = IF acls[ip] = {} THEN {} ELSE {acls[ip]}
LoggedIn(ip) == \E row \in clients[ip] : row.mfa
At(p, ip) == portal[p].op # "none" /\ portal[p].ip = ip

\* Nobody uses the address.
Vacant(ip) ==
    session[ip] = None /\ script[ip] = Idle =>
        Quiet(ip) /\ groups[ip] = {} /\ acls[ip] = {} /\ clients[ip] = {}

\* The online script runs.
Connecting(ip) ==
    script[ip].at \in {"online", "aclget", "rules"} =>
        /\ Quiet(ip) /\ session[ip] # None /\ script[ip].user = session[ip]
        /\ groups[ip] = {} /\ flow[ip] # "own"
        /\ clients[ip] = IF script[ip].at = "online" THEN {}
                         ELSE {[user |-> session[ip], mfa |-> FALSE]}
        /\ acls[ip] = IF script[ip].at = "rules" THEN script[ip].acl ELSE {}
        /\ script[ip].at = "rules" => script[ip].acl # {} /\ session[ip] \notin MfaUsers

\* The offline script runs.
Leaving(ip) ==
    script[ip].at \in {"offline", "acldel", "delrows", "clean"} =>
        /\ Quiet(ip) /\ session[ip] = None
        /\ script[ip].at # "offline" => clients[ip] = {}
        /\ script[ip].at # "clean" => Applied(ip)
        /\ script[ip].at = "delrows" => script[ip].acl = acls[ip]
        /\ script[ip].at = "clean" => acls[ip] = {} /\ groups[ip] = {script[ip].acl}

\* No script runs for the session.
Connected(ip) ==
    session[ip] # None /\ script[ip] = Idle =>
        /\ \E b \in BOOLEAN : clients[ip] = {[user |-> session[ip], mfa |-> b]}
        /\ Quiet(ip) => Applied(ip)
        /\ Quiet(ip) /\ session[ip] \in MfaUsers /\ ~LoggedIn(ip) =>
              groups[ip] = {} /\ flow[ip] # "own"

\* A request of the page works for the session, and it is the only one.
Served(p, ip) ==
    At(p, ip) =>
        /\ session[ip] \in MfaUsers /\ script[ip] = Idle
        /\ \A q \in Requests : At(q, ip) => q = p
        /\ portal[p].op \in LoginOps =>
              /\ ~LoggedIn(ip)
              /\ acls[ip] = IF portal[p].op = "verify" THEN portal[p].acl ELSE {}
              /\ groups[ip] = IF portal[p].op \in {"drop", "add"} \/ portal[p].acl = {}
                              THEN {} ELSE {portal[p].acl}
        /\ portal[p].op = "del" =>
              /\ Applied(ip) /\ portal[p].acl = acls[ip]
              /\ ~LoggedIn(ip) => groups[ip] = {}
        /\ portal[p].op \in {"flush", "forget", "unverify"} => groups[ip] = {}
        /\ portal[p].op \in {"forget", "unverify"} => flow[ip] # "own"
        /\ portal[p].op = "unverify" => acls[ip] = {}

InOrder(ip) ==
    /\ script[ip].at = "idle" => script[ip] = Idle
    /\ Vacant(ip) /\ Connecting(ip) /\ Leaving(ip) /\ Connected(ip)
    /\ \A p \in Requests : Served(p, ip)

\* Between server_start.sh and the wipe of the records.
Fresh(ip) == ~Exposed(ip) /\ groups[ip] = {}

ContainmentInv ==
    \A ip \in IPs \ tainted :
        /\ server = "flushed" => Fresh(ip)
        /\ server \in {"up", "stopping"} => InOrder(ip)
=============================================================================
