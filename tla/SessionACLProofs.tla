-------------------------- MODULE SessionACLProofs --------------------------
(***************************************************************************)
(* Proofs about SessionACL, for every set of users, addresses, networks,   *)
(* requests and faults: type correctness, and that an address no fault has *)
(* happened to is in order (Containment), whatever happens to the others.  *)
(***************************************************************************)
EXTENDS SessionACL, TLAPS

(* Types *)

\* Marking the records of an address keeps them records.
LEMMA MarkedType ==
  ASSUME TypeOK, NEW ip \in IPs, NEW b \in BOOLEAN
  PROVE  Marked(ip, b) \in SUBSET Row
<1>1. ASSUME NEW r \in clients[ip] PROVE [r EXCEPT !.mfa = b] \in Row
  BY DEF TypeOK, Row
<1> QED
  BY <1>1 DEF Marked

\* An active request keeps its address, its user and its list.
LEMMA StepTypes ==
  ASSUME TypeOK, NEW p \in Requests, portal[p].op # "none",
         NEW op \in LoginOps \cup LogoutOps, Step(p, op)
  PROVE  /\ portal' \in [Requests -> [op : {"none"} \cup LoginOps \cup LogoutOps,
                                      ip : IPs \cup {None}, user : Users \cup {None}, acl : ACL]]
         /\ \A q \in Requests : portal'[q].op # "none" => portal'[q].ip \in IPs
  BY DEF TypeOK, Step

\* A request that is over.
LEMMA EndTypes ==
  ASSUME TypeOK, NEW p \in Requests, portal' = [portal EXCEPT ![p] = NoRequest]
  PROVE  /\ portal' \in [Requests -> [op : {"none"} \cup LoginOps \cup LogoutOps,
                                      ip : IPs \cup {None}, user : Users \cup {None}, acl : ACL]]
         /\ \A q \in Requests : portal'[q].op # "none" => portal'[q].ip \in IPs
  BY DEF TypeOK, NoRequest, ACL

LEMMA InitTypes == Init => TypeOK
  BY SessionAssumption DEF Init, TypeOK, Idle, NoRequest, ACL, Row

\* Scripts and clients keep the types.
LEMMA ClientTypes ==
  ASSUME TypeOK, NEW ip \in IPs, ScriptStep(ip) \/ ClientStep(ip)
  PROVE  TypeOK'
<1>0. /\ script[ip].acl \in ACL /\ session[ip] \in Users \cup {None}
      /\ script[ip].at # "idle" => script[ip].user \in Users
      /\ acls[ip] \in ACL /\ groups[ip] \in SUBSET ACL /\ {} \in ACL
  BY DEF TypeOK, ACL
<1>1. ASSUME NEW u \in Users, ClientConnects(ip, u) PROVE TypeOK'
  BY <1>1, <1>0 DEF ClientConnects, Taint, TypeOK, config
<1>2. CASE UserOnline(ip)
  <2>1. [user |-> script[ip].user, mfa |-> FALSE] \in Row
    BY <1>2, <1>0 DEF UserOnline, Row
  <2> DEFINE new == Created(ip, [user |-> script[ip].user, mfa |-> FALSE])
  <2>2. new \in SUBSET Row
    BY <2>1 DEF TypeOK, Created
  <2>3. clients' = [clients EXCEPT ![ip] = new]
    BY <1>2 DEF UserOnline
  <2> HIDE DEF new
  <2> QED
    BY <1>2, <1>0, <2>2, <2>3 DEF UserOnline, TypeOK, config
<1>3. CASE GetUserACL(ip)
  <2> DEFINE acl == IF script[ip].user \in MfaUsers THEN {} ELSE entitled[script[ip].user]
             new == Saved(ip, acl)
  <2>1. script[ip].user \in Users /\ acl \in ACL
    BY <1>3, <1>0 DEF GetUserACL, TypeOK
  <2>2. new \in ACL
    <3> HIDE DEF acl
    <3> QED BY <2>1 DEF TypeOK, Saved, ACL
  <2>3. /\ acls' = [acls EXCEPT ![ip] = new]
        /\ script' = [script EXCEPT ![ip] =
             IF acl = {} THEN Idle ELSE [at |-> "rules", user |-> script[ip].user, acl |-> acl]]
    BY <1>3 DEF GetUserACL
  <2> HIDE DEF new, acl
  <2> QED
    BY <1>3, <1>0, <2>1, <2>2, <2>3 DEF GetUserACL, TypeOK, config, Idle
<1>4. CASE AddRules(ip)
  BY <1>4, <1>0 DEF AddRules, Granted, TypeOK, config, Idle
<1>5. CASE UserOffline(ip)
  BY <1>5, <1>0 DEF UserOffline, TypeOK, config
<1>6. CASE DelUserACLList(ip)
  <2> DEFINE Scripts == [at : {"idle", "online", "aclget", "rules", "offline", "acldel", "delrows", "clean"},
                         user : Users \cup {None}, acl : ACL]
             new == [script[ip] EXCEPT !.at = "delrows", !.acl = acls[ip]]
  <2>1. script' = [script EXCEPT ![ip] = new]
    BY <1>6 DEF DelUserACLList, TypeOK
  <2>2. script[ip] \in Scripts /\ script[ip].user \in Users /\ script \in [IPs -> Scripts]
    BY <1>6, <1>0 DEF DelUserACLList, TypeOK
  <2>3. \A s \in Scripts, acl \in ACL :
           LET t == [s EXCEPT !.at = "delrows", !.acl = acl] IN t \in Scripts /\ t.user = s.user
    OBVIOUS
  <2>4. new \in Scripts /\ new.user \in Users
    BY <1>0, <2>2, <2>3
  <2> HIDE DEF new
  <2>5. script' \in [IPs -> Scripts]
    BY <2>1, <2>2, <2>4
  <2>6. \A i \in IPs : script'[i].at # "idle" => script'[i].user \in Users
    BY <2>1, <2>2, <2>4 DEF TypeOK
  <2> QED
    BY <1>6, <2>5, <2>6 DEF DelUserACLList, TypeOK, config
<1>7. CASE DelUserACLRecords(ip)
  BY <1>7, <1>0 DEF DelUserACLRecords, TypeOK, config, Idle
<1>8. CASE CleanRules(ip)
  BY <1>8, <1>0 DEF CleanRules, Revoked, TypeOK, config, Idle
<1>9. CASE FlockTimeout(ip)
  BY <1>9, <1>0 DEF FlockTimeout, Taint, TypeOK, config, Idle
<1>10. CASE CallLost(ip)
  BY <1>10, <1>0 DEF CallLost, Taint, TypeOK, config, Idle
<1>11. CASE ClientDisconnects(ip)
  BY <1>11, <1>0 DEF ClientDisconnects, Taint, TypeOK, config
<1>12. CASE OpenFlow(ip) \/ FlowEnds(ip)
  BY <1>12 DEF OpenFlow, FlowEnds, TypeOK, config
<1> QED
  BY <1>1, <1>2, <1>3, <1>4, <1>5, <1>6, <1>7, <1>8, <1>9, <1>10, <1>11, <1>12
  DEF ScriptStep, ClientStep

\* What PortalLogin and PortalLogout have in common: a request begins.
LEMMA RequestTypes ==
  ASSUME TypeOK, NEW p \in Requests, NEW ip \in IPs, NEW row \in clients[ip],
         PortalLogin(p, ip, row) \/ PortalLogout(p, ip, row)
  PROVE  TypeOK'
<1>0. /\ row.user \in Users /\ entitled[row.user] \in ACL /\ acls[ip] \in ACL
  BY DEF TypeOK, Row
<1>1. CASE PortalLogin(p, ip, row)
  BY <1>1, <1>0 DEF PortalLogin, Taint, TypeOK, config, LoginOps
<1>2. CASE PortalLogout(p, ip, row)
  BY <1>2, <1>0 DEF PortalLogout, Taint, TypeOK, config, LogoutOps
<1> QED
  BY <1>1, <1>2

\* The steps of a request keep the types.
LEMMA PortalTypes ==
  ASSUME TypeOK, NEW p \in Requests, PortalStep(p)
  PROVE  TypeOK'
<1>0. portal[p].op # "none" => portal[p].ip \in IPs /\ portal[p].acl \in ACL
  BY DEF TypeOK
<1> DEFINE ip == portal[p].ip
<1>1. CASE PortalDrop(p)
  <2>1. {} \in ACL
    BY DEF ACL
  <2> QED
    BY <1>1, <1>0, <2>1, StepTypes DEF PortalDrop, TypeOK, config, LoginOps
<1>2. CASE PortalAdd(p)
  <2>1. Granted(ip, portal[p].acl) \in SUBSET ACL
    BY <1>2, <1>0 DEF PortalAdd, TypeOK, Granted
  <2> QED
    BY <1>2, <1>0, <2>1, StepTypes DEF PortalAdd, TypeOK, config, LoginOps
<1>3. CASE PortalSave(p)
  <2>1. Saved(ip, portal[p].acl) \in ACL
    BY <1>3, <1>0 DEF PortalSave, TypeOK, Saved, ACL
  <2> QED
    BY <1>3, <1>0, <2>1, StepTypes DEF PortalSave, TypeOK, config, LoginOps
<1>4. CASE PortalVerify(p)
  <2>1. Marked(ip, TRUE) \in SUBSET Row
    BY <1>4, <1>0, MarkedType DEF PortalVerify
  <2>2. clients' \in [IPs -> SUBSET Row]
    <3> DEFINE new == Marked(ip, TRUE)
    <3>1. clients' = [clients EXCEPT ![ip] = new]
      BY <1>4 DEF PortalVerify
    <3>2. clients \in [IPs -> SUBSET Row] /\ new \in SUBSET Row
      BY <2>1 DEF TypeOK
    <3> HIDE DEF new
    <3> QED
      BY <3>1, <3>2
  <2>3. UNCHANGED <<entitled, config, session, script, acls, groups, flow, tainted>>
    BY <1>4 DEF PortalVerify
  <2>4. portal' = [portal EXCEPT ![p] = NoRequest]
    BY <1>4 DEF PortalVerify
  <2> QED
    BY <2>2, <2>3, <2>4, EndTypes DEF TypeOK, config
<1>5. CASE PortalDel(p)
  <2>1. Revoked(ip, portal[p].acl) \in SUBSET ACL
    BY <1>5, <1>0 DEF PortalDel, TypeOK, Revoked
  <2> QED
    BY <1>5, <1>0, <2>1, StepTypes DEF PortalDel, TypeOK, config, LogoutOps
<1>6. CASE PortalFlush(p)
  BY <1>6, <1>0, StepTypes DEF PortalFlush, TypeOK, config, LogoutOps
<1>7. CASE PortalForget(p)
  <2>1. {} \in ACL
    BY DEF ACL
  <2> QED
    BY <1>7, <1>0, <2>1, StepTypes DEF PortalForget, TypeOK, config, LogoutOps
<1>8. CASE PortalUnverify(p)
  <2>1. Marked(ip, FALSE) \in SUBSET Row
    BY <1>8, <1>0, MarkedType DEF PortalUnverify
  <2>2. clients' \in [IPs -> SUBSET Row]
    <3> DEFINE new == Marked(ip, FALSE)
    <3>1. clients' = [clients EXCEPT ![ip] = new]
      BY <1>8 DEF PortalUnverify
    <3>2. clients \in [IPs -> SUBSET Row] /\ new \in SUBSET Row
      BY <2>1 DEF TypeOK
    <3> HIDE DEF new
    <3> QED
      BY <3>1, <3>2
  <2>3. UNCHANGED <<entitled, config, session, script, acls, groups, flow, tainted>>
    BY <1>8 DEF PortalUnverify
  <2>4. portal' = [portal EXCEPT ![p] = NoRequest]
    BY <1>8 DEF PortalUnverify
  <2> QED
    BY <2>2, <2>3, <2>4, EndTypes DEF TypeOK, config
<1>9. CASE PortalTimeout(p)
  BY <1>9, <1>0, StepTypes DEF PortalTimeout, Taint, TypeOK, config, LoginOps, LogoutOps
<1> QED
  BY <1>1, <1>2, <1>3, <1>4, <1>5, <1>6, <1>7, <1>8, <1>9 DEF PortalStep

\* Starts and stops of the server and of the panel keep the types.
LEMMA ServerTypes ==
  ASSUME TypeOK, ServerStep
  PROVE  TypeOK'
<1>0. {} \in ACL
  BY DEF ACL
<1>1. CASE ServerStart \/ ServerStop \/ ServerDies \/ PanelBack
  BY <1>1 DEF ServerStart, ServerStop, ServerDies, PanelBack, TypeOK
<1>2. CASE StartScript
  BY <1>2 DEF StartScript, TypeOK
<1>3. CASE StartWipe
  BY <1>3, <1>0 DEF StartWipe, TypeOK
<1>4. CASE StopFinish
  BY <1>4, <1>0 DEF StopFinish, TypeOK
<1>5. CASE PanelCrash
  BY <1>5, <1>0 DEF PanelCrash, Working, TypeOK, Idle, NoRequest
<1> QED
  BY <1>1, <1>2, <1>3, <1>4, <1>5 DEF ServerStep

LEMMA NextTypes == TypeOK /\ [Next]_vars => TypeOK'
<1> SUFFICES ASSUME TypeOK, [Next]_vars PROVE TypeOK'
  OBVIOUS
<1>1. ASSUME NEW u \in Users, NEW acl \in ACL, ChangeACL(u, acl) PROVE TypeOK'
  BY <1>1 DEF ChangeACL, TypeOK, config
<1>2. ASSUME NEW p \in Requests, PortalRequest(p) PROVE TypeOK'
  BY <1>2, RequestTypes DEF PortalRequest
<1>3. CASE UNCHANGED vars
  BY <1>3 DEF vars, config, TypeOK
<1> QED
  BY <1>1, <1>2, <1>3, ClientTypes, PortalTypes, ServerTypes DEF Next

\* Every variable keeps its type, whatever goes wrong.
THEOREM SessionsTyped == Spec => []TypeOK
  BY InitTypes, NextTypes, PTL DEF Spec

-----------------------------------------------------------------------------
(* Containment *)

\* A step that leaves an address and the requests that work for it alone.
Unmoved(ip) ==
    /\ session'[ip] = session[ip] /\ script'[ip] = script[ip] /\ clients'[ip] = clients[ip]
    /\ acls'[ip] = acls[ip] /\ groups'[ip] = groups[ip]
    /\ flow'[ip] = flow[ip] \/ flow'[ip] # "own"
    /\ \A p \in Requests : At(p, ip)' = At(p, ip) /\ (At(p, ip) => portal'[p] = portal[p])

\* What is in order, or fresh, stays so when it is left alone.
LEMMA Frame ==
  ASSUME NEW ip \in IPs, Unmoved(ip)
  PROVE  /\ InOrder(ip) => InOrder(ip)'
         /\ Fresh(ip) => Fresh(ip)'
<1>0. Quiet(ip)' = Quiet(ip)
  BY DEF Unmoved, At, Quiet
<1>1. Applied(ip)' = Applied(ip) /\ LoggedIn(ip)' = LoggedIn(ip)
  BY DEF Unmoved, Applied, LoggedIn
<1>2. ASSUME NEW p \in Requests, Served(p, ip) PROVE Served(p, ip)'
  BY <1>1, <1>2 DEF Unmoved, Served
<1>3. Vacant(ip) => Vacant(ip)'
  BY <1>0 DEF Unmoved, Vacant
<1>4. Connecting(ip) => Connecting(ip)'
  BY <1>0 DEF Unmoved, Connecting
<1>5. Leaving(ip) => Leaving(ip)'
  BY <1>0, <1>1 DEF Unmoved, Leaving
<1>6. Connected(ip) => Connected(ip)'
  BY <1>0, <1>1 DEF Unmoved, Connected
<1>7. Fresh(ip) => Fresh(ip)'
  BY <1>0 DEF Unmoved, Fresh, Exposed
<1> QED
  BY <1>2, <1>3, <1>4, <1>5, <1>6, <1>7 DEF InOrder, Unmoved

\* A step on one address: the others are left alone.
LEMMA Local ==
  ASSUME ContainmentInv, NEW ip \in IPs,
         server' = server, tainted \subseteq tainted',
         \A j \in IPs \ {ip} : Unmoved(j),
         ip \notin tainted' /\ server = "flushed" => Fresh(ip)',
         ip \notin tainted' /\ server \in {"up", "stopping"} => InOrder(ip)'
  PROVE  ContainmentInv'
<1> SUFFICES ASSUME NEW j \in IPs, j \notin tainted'
             PROVE  /\ server' = "flushed" => Fresh(j)'
                    /\ server' \in {"up", "stopping"} => InOrder(j)'
  BY DEF ContainmentInv
<1>1. CASE j = ip
  BY <1>1
<1>2. CASE j # ip
  BY <1>2, Frame DEF ContainmentInv
<1> QED
  BY <1>1, <1>2

\* The steps of a script keep its address in order.
LEMMA ScriptInOrder ==
  ASSUME TypeOK, NEW ip \in IPs, InOrder(ip), ip \notin tainted', ScriptStep(ip)
  PROVE  InOrder(ip)'
<1> USE DEF At, Idle
<1>1. CASE UserOnline(ip)
  BY <1>1 DEF UserOnline, TypeOK, InOrder, Vacant, Connecting, Leaving, Connected, Served, Quiet, Created
<1>2. CASE GetUserACL(ip)
  BY <1>2 DEF GetUserACL, TypeOK, InOrder, Vacant, Connecting, Leaving, Connected, Served, Quiet, Applied, LoggedIn, Saved
<1>3. CASE AddRules(ip)
  BY <1>3 DEF AddRules, TypeOK, InOrder, Vacant, Connecting, Leaving, Connected, Served, Quiet, Applied, LoggedIn, Granted
<1>4. CASE UserOffline(ip)
  BY <1>4 DEF UserOffline, TypeOK, InOrder, Vacant, Connecting, Leaving, Connected, Served, Quiet, Applied
<1>5. CASE DelUserACLList(ip)
  BY <1>5 DEF DelUserACLList, TypeOK, InOrder, Vacant, Connecting, Leaving, Connected, Served, Quiet, Applied
<1>6. CASE DelUserACLRecords(ip)
  BY <1>6 DEF DelUserACLRecords, TypeOK, InOrder, Vacant, Connecting, Leaving, Connected, Served, Quiet, Applied
<1>7. CASE CleanRules(ip)
  BY <1>7 DEF CleanRules, TypeOK, InOrder, Vacant, Connecting, Leaving, Connected, Served, Quiet, Applied, Revoked
<1>8. CASE FlockTimeout(ip) \/ CallLost(ip)
  BY <1>8 DEF FlockTimeout, CallLost, Taint, TypeOK
<1> QED
  BY <1>1, <1>2, <1>3, <1>4, <1>5, <1>6, <1>7, <1>8 DEF ScriptStep

\* The steps of a client keep its address in order.
LEMMA ClientInOrder ==
  ASSUME TypeOK, NEW ip \in IPs, InOrder(ip), ip \notin tainted', ClientStep(ip)
  PROVE  InOrder(ip)'
<1> USE DEF At, Idle
<1>1. ASSUME NEW u \in Users, ClientConnects(ip, u) PROVE InOrder(ip)'
  BY <1>1, SessionAssumption DEF ClientConnects, Taint, TypeOK, InOrder, Vacant, Connecting, Leaving, Connected, Served, Quiet
<1>2. CASE ClientDisconnects(ip)
  BY <1>2 DEF ClientDisconnects, Taint, TypeOK, InOrder, Vacant, Connecting, Leaving, Connected, Served, Quiet, Applied
<1>3. CASE OpenFlow(ip)
  <2>1. groups[ip] # {} /\ UNCHANGED <<session, script, clients, acls, groups, portal>>
    BY <1>3 DEF OpenFlow
  <2>2. Quiet(ip)' = Quiet(ip) /\ Applied(ip)' = Applied(ip) /\ LoggedIn(ip)' = LoggedIn(ip)
    BY <2>1 DEF Quiet, Applied, LoggedIn
  <2>3. Vacant(ip)' /\ Leaving(ip)'
    BY <2>1, <2>2 DEF InOrder, Vacant, Leaving
  <2>4. Connecting(ip)' /\ Connected(ip)'
    BY <2>1, <2>2 DEF InOrder, Connecting, Connected
  <2>5. \A p \in Requests : Served(p, ip)'
    BY <2>1, <2>2 DEF InOrder, Served
  <2> QED
    BY <2>1, <2>3, <2>4, <2>5 DEF InOrder
<1>4. CASE FlowEnds(ip)
  <2>1. Unmoved(ip)
    BY <1>4 DEF FlowEnds, Unmoved, TypeOK
  <2> QED
    BY <2>1, Frame
<1> QED
  BY <1>1, <1>2, <1>3, <1>4 DEF ClientStep

\* Scripts and clients touch their own address only.
LEMMA ClientContained ==
  ASSUME TypeOK, ContainmentInv, NEW ip \in IPs, ScriptStep(ip) \/ ClientStep(ip)
  PROVE  ContainmentInv'
<1> USE DEF config
<1>1. server' = server /\ tainted \subseteq tainted' /\ portal' = portal
  BY DEF ScriptStep, ClientStep, UserOnline, GetUserACL, AddRules, UserOffline, DelUserACLList,
         DelUserACLRecords, CleanRules, FlockTimeout, CallLost, ClientConnects, ClientDisconnects,
         OpenFlow, FlowEnds, Taint
<1>2. ASSUME NEW j \in IPs, j # ip PROVE Unmoved(j)
  <2>1. /\ session'[j] = session[j] /\ script'[j] = script[j] /\ clients'[j] = clients[j]
        /\ acls'[j] = acls[j] /\ groups'[j] = groups[j] /\ flow'[j] = flow[j]
    <3>1. CASE UserOnline(ip) \/ GetUserACL(ip) \/ AddRules(ip)
      BY <1>2, <3>1 DEF UserOnline, GetUserACL, AddRules, TypeOK
    <3>2. CASE UserOffline(ip) \/ DelUserACLList(ip) \/ DelUserACLRecords(ip) \/ CleanRules(ip)
      BY <1>2, <3>2 DEF UserOffline, DelUserACLList, DelUserACLRecords, CleanRules, TypeOK
    <3>3. CASE FlockTimeout(ip) \/ CallLost(ip)
      BY <1>2, <3>3 DEF FlockTimeout, CallLost, TypeOK
    <3>4. CASE ClientStep(ip)
      BY <1>2, <3>4 DEF ClientStep, ClientConnects, ClientDisconnects, OpenFlow, FlowEnds, TypeOK
    <3> QED
      BY <3>1, <3>2, <3>3, <3>4 DEF ScriptStep
  <2> QED
    BY <1>1, <2>1 DEF Unmoved, At
<1>3. ASSUME ip \notin tainted', server = "flushed" PROVE Fresh(ip)'
  <2>1. Fresh(ip) /\ ip \notin tainted
    BY <1>3, <1>1 DEF ContainmentInv
  <2>2. session[ip] = None /\ script[ip].at = "idle" /\ groups[ip] = {}
    BY <2>1 DEF Fresh, Exposed, Idle
  <2>3. FlowEnds(ip)
    BY <1>3, <2>2 DEF ScriptStep, ClientStep, UserOnline, GetUserACL, AddRules, UserOffline, DelUserACLList,
      DelUserACLRecords, CleanRules, FlockTimeout, CallLost, ClientConnects, ClientDisconnects,
      OpenFlow, Taint, TypeOK
  <2>4. Unmoved(ip)
    BY <2>3 DEF FlowEnds, Unmoved, TypeOK, At
  <2> QED
    BY <2>1, <2>4, Frame
<1>4. ASSUME ip \notin tainted', server \in {"up", "stopping"} PROVE InOrder(ip)'
  BY <1>1, <1>4, ScriptInOrder, ClientInOrder DEF ContainmentInv
<1> QED
  BY <1>1, <1>2, <1>3, <1>4, Local

\* A request begins: it is the only one of its address, or a fault.
LEMMA RequestContained ==
  ASSUME TypeOK, ContainmentInv, NEW p \in Requests, PortalRequest(p)
  PROVE  ContainmentInv'
<1> USE DEF config
<1>0. PICK ip \in IPs : \E row \in clients[ip] :
                           PortalLogin(p, ip, row) \/ PortalLogout(p, ip, row)
  BY DEF PortalRequest
<1>1. PICK row \in clients[ip] : PortalLogin(p, ip, row) \/ PortalLogout(p, ip, row)
  BY <1>0
<1>2. server' = server /\ tainted \subseteq tainted'
  BY <1>1 DEF PortalLogin, PortalLogout, Taint
<1>3. ASSUME NEW j \in IPs, j # ip PROVE Unmoved(j)
  BY <1>1, <1>3 DEF PortalLogin, PortalLogout, MayAsk, Unmoved, At, TypeOK
<1>4. row.user \in Users /\ row.user = session[ip] /\ row.user \in MfaUsers /\ portal[p].op = "none"
  BY <1>1 DEF PortalLogin, PortalLogout, MayAsk, TypeOK, Row
<1>5. ASSUME ip \notin tainted', server = "flushed" PROVE FALSE
  BY <1>2, <1>4, <1>5, SessionAssumption DEF ContainmentInv, Fresh, Exposed
<1>6. ASSUME ip \notin tainted', server \in {"up", "stopping"} PROVE InOrder(ip)'
  <2>1. InOrder(ip) /\ script[ip] = Idle /\ Quiet(ip) /\ session[ip] # None
    BY <1>1, <1>2, <1>4, <1>6, SessionAssumption DEF ContainmentInv, PortalLogin, PortalLogout, Taint
  <2>2. /\ Applied(ip) /\ clients[ip] = {row}
        /\ ~row.mfa => groups[ip] = {} /\ flow[ip] # "own"
    BY <2>1, <1>4 DEF InOrder, Connected, LoggedIn
  <2>3. CASE PortalLogin(p, ip, row)
    BY <2>1, <2>2, <2>3, <1>4, <1>6 DEF PortalLogin, Taint, TypeOK, InOrder, Vacant, Connecting, Leaving,
       Connected, Served, Quiet, Applied, LoggedIn, At, Idle, LoginOps
  <2>4. CASE PortalLogout(p, ip, row)
    BY <2>1, <2>2, <2>4, <1>4, <1>6 DEF PortalLogout, Taint, TypeOK, InOrder, Vacant, Connecting, Leaving,
       Connected, Served, Quiet, Applied, LoggedIn, At, Idle, LoginOps
  <2> QED
    BY <1>1, <2>3, <2>4
<1> QED
  BY <1>2, <1>3, <1>5, <1>6, Local

\* An address is in order when its one request serves its session ...
LEMMA ServedInOrder ==
  ASSUME NEW p \in Requests, NEW ip \in IPs,
         At(p, ip)', Served(p, ip)', \A q \in Requests : At(q, ip)' => q = p,
         session'[ip] # None, script'[ip] = Idle,
         \E b \in BOOLEAN : clients'[ip] = {[user |-> session'[ip], mfa |-> b]}
  PROVE  InOrder(ip)'
<1>1. ~Quiet(ip)'
  BY DEF Quiet, At
<1>2. Vacant(ip)' /\ Connecting(ip)' /\ Leaving(ip)' /\ Connected(ip)'
  BY <1>1 DEF Vacant, Connecting, Leaving, Connected, Idle
<1>3. \A q \in Requests : Served(q, ip)'
  BY DEF Served
<1> QED
  BY <1>2, <1>3 DEF InOrder

\* ... or when nobody works for it and its records and rules agree.
LEMMA ConnectedInOrder ==
  ASSUME NEW ip \in IPs, Quiet(ip)', session'[ip] # None, script'[ip] = Idle,
         \E b \in BOOLEAN : clients'[ip] = {[user |-> session'[ip], mfa |-> b]},
         Applied(ip)', ~LoggedIn(ip)' => groups'[ip] = {} /\ flow'[ip] # "own"
  PROVE  InOrder(ip)'
<1>1. Vacant(ip)' /\ Connecting(ip)' /\ Leaving(ip)' /\ Connected(ip)'
  BY DEF Vacant, Connecting, Leaving, Connected, Idle
<1>2. \A q \in Requests : Served(q, ip)'
  BY DEF Served, Quiet, At
<1> QED
  BY <1>1, <1>2 DEF InOrder

\* The steps of a request keep its address in order.
LEMMA PortalInOrder ==
  ASSUME TypeOK, NEW p \in Requests, NEW ip \in IPs, At(p, ip), InOrder(ip),
         ip \notin tainted', PortalStep(p)
  PROVE  InOrder(ip)'
<1>0. /\ session[ip] # None /\ session[ip] \in MfaUsers /\ script[ip] = Idle
      /\ \A q \in Requests : At(q, ip) => q = p
      /\ Served(p, ip) /\ ip = portal[p].ip /\ portal[p].op # "none"
      /\ \E b \in BOOLEAN : clients[ip] = {[user |-> session[ip], mfa |-> b]}
  BY SessionAssumption DEF InOrder, Served, Connected, At
<1>1. CASE \E op \in LoginOps \cup LogoutOps :
              Step(p, op) /\ UNCHANGED <<session, script, clients>>
  <2>1. /\ At(p, ip)' /\ portal'[p].acl = portal[p].acl
        /\ \A q \in Requests : At(q, ip)' => q = p
    BY <1>0, <1>1 DEF Step, At, TypeOK, LoginOps, LogoutOps
  <2>2. LoggedIn(ip)' = LoggedIn(ip)
    BY <1>1 DEF LoggedIn
  <2>3. Served(p, ip)'
    <3>1. CASE PortalDrop(p)
      BY <1>0, <2>1, <2>2, <3>1 DEF PortalDrop, Step, TypeOK, Served, LoginOps
    <3>2. CASE PortalAdd(p)
      <4>1. portal'[p].op = "save" /\ portal[p].op = "add"
        BY <3>2 DEF PortalAdd, Step, TypeOK
      <4>2. groups'[ip] = Granted(ip, portal[p].acl) /\ acls'[ip] = acls[ip]
        BY <1>0, <3>2 DEF PortalAdd, TypeOK
      <4> QED
        BY <1>0, <1>1, <2>1, <2>2, <4>1, <4>2 DEF Served, Granted, LoginOps
    <3>3. CASE PortalSave(p)
      <4>1. portal'[p].op = "verify" /\ portal[p].op = "save"
        BY <3>3 DEF PortalSave, Step, TypeOK
      <4>2. acls'[ip] = Saved(ip, portal[p].acl) /\ groups'[ip] = groups[ip]
        BY <1>0, <3>3 DEF PortalSave, TypeOK
      <4> QED
        BY <1>0, <1>1, <2>1, <2>2, <4>1, <4>2 DEF Served, Saved, LoginOps
    <3>4. CASE PortalDel(p)
      BY <1>0, <2>1, <2>2, <3>4 DEF PortalDel, Revoked, Step, TypeOK, Served, Applied, LoginOps
    <3>5. CASE PortalFlush(p)
      BY <1>0, <2>1, <2>2, <3>5 DEF PortalFlush, Step, TypeOK, Served, LoginOps
    <3>6. CASE PortalForget(p)
      BY <1>0, <2>1, <2>2, <3>6 DEF PortalForget, Step, TypeOK, Served, LoginOps
    <3>7. CASE PortalTimeout(p)
      BY <1>0, <3>7 DEF PortalTimeout, Taint, TypeOK
    <3>8. CASE PortalVerify(p) \/ PortalUnverify(p)
      <4>1. portal'[p].op = "none"
        <5>1. portal' = [portal EXCEPT ![p] = NoRequest]
          BY <3>8 DEF PortalVerify, PortalUnverify
        <5> QED
          BY <5>1 DEF NoRequest, TypeOK
      <4>2. portal'[p].op \in LoginOps \cup LogoutOps
        BY <1>1 DEF Step, TypeOK
      <4> QED
        BY <4>1, <4>2 DEF LoginOps, LogoutOps
    <3> QED
      BY <3>1, <3>2, <3>3, <3>4, <3>5, <3>6, <3>7, <3>8 DEF PortalStep
  <2> QED
    BY <1>0, <1>1, <2>1, <2>3, ServedInOrder
<1>2. ASSUME NEW b \in BOOLEAN, portal' = [portal EXCEPT ![p] = NoRequest],
             clients' = [clients EXCEPT ![ip] = Marked(ip, b)],
             UNCHANGED <<session, script, acls, groups, flow>>,
             Applied(ip), ~b => groups[ip] = {} /\ flow[ip] # "own"
      PROVE  InOrder(ip)'
  <2>1. Quiet(ip)'
    BY <1>0, <1>2 DEF Quiet, At, NoRequest, TypeOK
  <2>2. Marked(ip, b) = {[user |-> session[ip], mfa |-> b]}
    BY <1>0 DEF Marked
  <2>3. clients'[ip] = {[user |-> session[ip], mfa |-> b]}
    BY <1>2, <2>2 DEF TypeOK
  <2>4. Applied(ip)' /\ (LoggedIn(ip)' <=> b)
    <3>1. LoggedIn(ip)' <=> [user |-> session[ip], mfa |-> b].mfa
      BY <2>3, Zenon DEF LoggedIn
    <3>2. Applied(ip)'
      BY <1>2 DEF Applied
    <3> QED
      BY <3>1, <3>2
  <2> QED
    BY <1>0, <1>2, <2>1, <2>3, <2>4, ConnectedInOrder
<1>3. CASE PortalVerify(p)
  <2>1. Applied(ip)
    BY <1>0, <1>3 DEF PortalVerify, Served, Applied, LoginOps
  <2> QED
    BY <1>0, <1>2, <1>3, <2>1 DEF PortalVerify
<1>4. CASE PortalUnverify(p)
  <2>1. Applied(ip) /\ groups[ip] = {} /\ flow[ip] # "own"
    BY <1>0, <1>4 DEF PortalUnverify, Served, Applied
  <2> QED
    BY <1>0, <1>2, <1>4, <2>1 DEF PortalUnverify
<1> QED
  BY <1>1, <1>3, <1>4 DEF PortalStep, PortalDrop, PortalAdd, PortalSave, PortalDel, PortalFlush,
     PortalForget, PortalTimeout, LoginOps, LogoutOps

\* A request touches the address it works for only.
LEMMA PortalContained ==
  ASSUME TypeOK, ContainmentInv, NEW p \in Requests, PortalStep(p)
  PROVE  ContainmentInv'
<1> USE DEF config
<1>0. PICK ip \in IPs : At(p, ip)
  BY DEF PortalStep, PortalDrop, PortalAdd, PortalSave, PortalVerify, PortalDel, PortalFlush,
         PortalForget, PortalUnverify, PortalTimeout, TypeOK, At
<1>1. server' = server /\ tainted \subseteq tainted'
  BY DEF PortalStep, PortalDrop, PortalAdd, PortalSave, PortalVerify, PortalDel, PortalFlush,
         PortalForget, PortalUnverify, PortalTimeout, Taint
<1>2. ASSUME NEW j \in IPs, j # ip PROVE Unmoved(j)
  <2>1. portal[p].ip = ip /\ ~At(p, j)
    BY <1>0, <1>2 DEF At
  <2>2. /\ session'[j] = session[j] /\ script'[j] = script[j] /\ clients'[j] = clients[j]
        /\ acls'[j] = acls[j] /\ groups'[j] = groups[j] /\ flow'[j] = flow[j]
    BY <1>2, <2>1
    DEF PortalStep, PortalDrop, PortalAdd, PortalSave, PortalVerify, PortalDel, PortalFlush,
        PortalForget, PortalUnverify, PortalTimeout, TypeOK
  <2>3. \/ portal' = [portal EXCEPT ![p] = NoRequest]
        \/ \E op \in LoginOps \cup LogoutOps : Step(p, op)
    BY DEF PortalStep, PortalDrop, PortalAdd, PortalSave, PortalVerify, PortalDel, PortalFlush,
           PortalForget, PortalUnverify, PortalTimeout, LoginOps, LogoutOps
  <2>4. \A q \in Requests : q # p => portal'[q] = portal[q]
    BY <2>3 DEF Step, TypeOK
  <2>5. ~At(p, j)'
    BY <1>2, <2>1, <2>3 DEF Step, NoRequest, At, TypeOK
  <2> QED
    BY <2>1, <2>2, <2>4, <2>5 DEF Unmoved, At
<1>3. ASSUME ip \notin tainted', server = "flushed" PROVE Fresh(ip)'
  BY <1>0, <1>1, <1>3 DEF ContainmentInv, Fresh, Exposed, Quiet, At
<1>4. ASSUME ip \notin tainted', server \in {"up", "stopping"} PROVE InOrder(ip)'
  BY <1>0, <1>1, <1>4, PortalInOrder DEF ContainmentInv
<1> QED
  BY <1>1, <1>2, <1>3, <1>4, Local

\* An address is fresh after server_start.sh, and in order after the wipe.
LEMMA ServerContained ==
  ASSUME TypeOK, ContainmentInv, ServerStep
  PROVE  ContainmentInv'
<1>1. CASE ServerStart \/ StopFinish \/ ServerDies
  BY <1>1 DEF ServerStart, StopFinish, ServerDies, ContainmentInv
<1>2. CASE StartScript
  BY <1>2 DEF StartScript, ContainmentInv, Fresh, Exposed, Quiet
<1>3. CASE StartWipe
  <2> SUFFICES ASSUME NEW ip \in IPs, ip \notin tainted' PROVE InOrder(ip)'
    BY <1>3 DEF StartWipe, ContainmentInv
  <2>1. /\ session[ip] = None /\ script[ip] = Idle /\ Quiet(ip) /\ groups[ip] = {}
    BY <1>3 DEF StartWipe, ContainmentInv, Fresh, Exposed
  <2> QED
    BY <1>3, <2>1 DEF StartWipe, InOrder, Vacant, Connecting, Leaving, Connected, Served, Quiet, At, Idle
<1>4. CASE ServerStop \/ PanelBack
  <2>1. \A ip \in IPs : Unmoved(ip)
    BY <1>4 DEF ServerStop, PanelBack, Unmoved, At
  <2>2. /\ tainted' = tainted
        /\ server' = "flushed" => server = "flushed"
        /\ server' \in {"up", "stopping"} => server \in {"up", "stopping"}
    BY <1>4 DEF ServerStop, PanelBack
  <2> QED
    BY <2>1, <2>2, Frame DEF ContainmentInv
<1>5. CASE PanelCrash
  <2> SUFFICES ASSUME NEW ip \in IPs, ip \notin tainted', server = "up" PROVE InOrder(ip)'
    BY <1>5 DEF PanelCrash, ContainmentInv
  <2>1. InOrder(ip) /\ Quiet(ip) /\ script[ip].at # "delrows"
    BY <1>5 DEF PanelCrash, ContainmentInv, Working
  <2>2. Unmoved(ip)
    BY <1>5, <2>1 DEF PanelCrash, Unmoved, At, Quiet, NoRequest
  <2> QED
    BY <2>1, <2>2, Frame
<1> QED
  BY <1>1, <1>2, <1>3, <1>4, <1>5 DEF ServerStep

LEMMA NextContained ==
  ASSUME TypeOK, ContainmentInv, [Next]_vars
  PROVE  ContainmentInv'
<1>1. ASSUME \/ \E u \in Users, acl \in ACL : ChangeACL(u, acl)
             \/ UNCHANGED vars
      PROVE  ContainmentInv'
  <2>1. /\ \A ip \in IPs : Unmoved(ip)
        /\ UNCHANGED <<server, tainted>>
    BY <1>1 DEF ChangeACL, vars, config, Unmoved, At
  <2> QED
    BY <2>1, Frame DEF ContainmentInv
<1> QED
  BY <1>1, ClientContained, RequestContained, PortalContained, ServerContained DEF Next

\* What the inductive invariant says of an address at any time.
LEMMA InOrderMeans ==
  ASSUME TypeOK, ContainmentInv
  PROVE  Containment
<1>1. NoLeftovers
  BY DEF NoLeftovers, ContainmentInv, Sound, AtRest, InOrder, Vacant
<1>2. RecordedIsApplied
  BY DEF RecordedIsApplied, ContainmentInv, Sound, AtRest, InOrder, Connected, Applied
<1>3. OneRecord
  BY DEF OneRecord, ContainmentInv, Sound, AtRest, InOrder, Connected
<1>4. LoggedOutIsCut
  BY SessionAssumption DEF LoggedOutIsCut, ContainmentInv, Sound, AtRest, InOrder, Connected, LoggedIn
<1>5. MfaGate
  <2> SUFFICES ASSUME NEW ip \in IPs, Sound(ip), session[ip] \in MfaUsers, script[ip] = Idle,
                      groups[ip] # {}, ~LoggedIn(ip)
               PROVE  \E p \in Requests : portal[p].ip = ip /\ portal[p].op \in {"save", "verify"}
    BY DEF MfaGate, LoggedIn
  <2>1. InOrder(ip) /\ session[ip] # None
    BY SessionAssumption DEF ContainmentInv, Sound
  <2>2. ~Quiet(ip)
    BY <2>1 DEF InOrder, Connected
  <2>3. PICK p \in Requests : At(p, ip)
    BY <2>2 DEF Quiet, At
  <2>4. portal[p].op \in {"save", "verify"}
    BY <2>1, <2>3 DEF InOrder, Served, At, TypeOK, LoginOps, LogoutOps
  <2> QED
    BY <2>3, <2>4 DEF At
<1> QED
  BY <1>1, <1>2, <1>3, <1>4, <1>5 DEF Containment

\* An address no fault has happened to since openvpn was started is in order,
\* whatever happens to the others: nothing is left behind, records and rules
\* agree, and the second factor opens the network.
THEOREM Contained == Spec => []Containment
<1>1. Init => ContainmentInv
  BY DEF Init, ContainmentInv
<1>2. TypeOK /\ ContainmentInv /\ [Next]_vars => ContainmentInv'
  BY NextContained
<1> QED
  BY <1>1, <1>2, SessionsTyped, InOrderMeans, PTL DEF Spec

\* The next holder of an address inherits neither rules nor records.
THEOREM NothingIsLeft == Spec => []NoLeftovers
<1>1. Containment => NoLeftovers
  BY DEF Containment
<1> QED
  BY <1>1, Contained, PTL

\* The page shows, and the offline script finds, what the kernel applies.
THEOREM RecordsAreApplied == Spec => []RecordedIsApplied
<1>1. Containment => RecordedIsApplied
  BY DEF Containment
<1> QED
  BY <1>1, Contained, PTL

\* The rules of a user with a second factor come with a login.
THEOREM SecondFactorOpens == Spec => []MfaGate
<1>1. Containment => MfaGate
  BY DEF Containment
<1> QED
  BY <1>1, Contained, PTL

\* A logout cuts the connections that were open.
THEOREM LogoutCuts == Spec => []LoggedOutIsCut
<1>1. Containment => LoggedOutIsCut
  BY DEF Containment
<1> QED
  BY <1>1, Contained, PTL
=============================================================================
