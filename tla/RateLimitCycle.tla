--------------------------- MODULE RateLimitCycle ---------------------------
(***************************************************************************)
(* Rate limit plans: the cycles in which the traffic of a user is counted, *)
(* the sessions it belongs to, and the status updater, which samples the   *)
(* traffic, starts new cycles, disconnects users that have used up theirs  *)
(* and adjusts the limits of the kernel (tc).                              *)
(*                                                                         *)
(* A handler reads the row of the user first and works with that copy, so  *)
(* an evaluation is two steps.  A script holds up openvpn, so a session    *)
(* moves no data and does not end while its login is worked on.  Traffic   *)
(* and rates are followed in one direction, on the addresses of one server.*)
(***************************************************************************)
EXTENDS RatePolicy, FiniteSets, Functions

CONSTANTS Users,     \* usernames
          Slots,     \* virtual addresses, one session each at a time
          Plans,     \* ids of rate limit plans
          Terms,     \* what a plan may say: its period and its rules
          Policies,  \* limits the policy of a user may give (KB/s)
          MaxTime,   \* bound of the clock
          MaxBytes,  \* bound of what a user moves between two resets
          MaxActs,   \* bound of the administrators' actions
          None       \* nothing: no user, no plan, no row

Cycle == [start : 0..MaxTime, used : Nat]
UserRow == [plan : Plans \cup {None}, start : 0..MaxTime, used : Nat]
RecordRow == [user : Users, bytes : Nat, limit : Nat]
FileRow == [user : Users, bytes : Nat]

ASSUME RateAssumption ==
    /\ None \notin Users /\ None \notin Plans /\ None \notin Nat
    /\ None \notin RecordRow /\ None \notin FileRow
    /\ IsFiniteSet(Slots)
    /\ Policies \subseteq Nat
    /\ Terms \subseteq [period : Nat \ {0}, rules : SUBSET Rule]
    /\ MaxTime \in Nat \ {0} /\ MaxBytes \in Nat /\ MaxActs \in Nat

\* A plan has finitely many rules, with ids of their own: of any of them, one
\* comes first.
ASSUME RulesAssumption ==
    \A t \in Terms : \A hit \in SUBSET t.rules :
        hit # {} => \E r \in hit : \A q \in hit \ {r} : Precedes(r, q)

VARIABLES now,      \* the clock (Unix time)
          memory,   \* max_memory_events > 0: cycles and records are kept in memory
          plans,    \* rate_limit_plans and rate_limit_rules
          planOf,   \* users.rate_limit_plan_id
          cycle,    \* start and traffic of each user's cycle, in users or in memory
          acts,     \* how many actions of administrators there have been
          policy,   \* what resolveUserGroupRateLimit answers for each user
          slot,     \* openvpn and the scripts: the session of each address
          record,   \* connected_client_info_records of each address
          tc,       \* kernel: the limit of each address, 0 for none
          updater,  \* the status updater
          owed,     \* history: bytes of the sessions a user had since the last reset
          astray    \* history: addresses whose limit went past the session it was for

admin == <<plans, planOf, policy, acts>>
vars == <<now, memory, admin, cycle, slot, record, tc, updater, owed, astray>>
-----------------------------------------------------------------------------
NoCycle == [start |-> 0, used |-> 0]
NoRow == [plan |-> None, start |-> 0, used |-> 0]
Free == [at |-> "free", user |-> None, bytes |-> 0, row |-> NoRow, limit |-> 0]

Sleeping == [at |-> "idle", todo |-> {}, roster |-> [u \in Users |-> NoRow],
             file |-> [s \in Slots |-> None], list |-> [s \in Slots |-> None],
             row |-> NoRow, work |-> None, changes |-> [s \in Slots |-> None],
             held |-> {}]

\* A copy of what users holds of this user; in the memory mode nobody looks at
\* the cycle in it.
Row(u) == [plan |-> planOf[u],
           start |-> IF memory THEN 0 ELSE cycle[u].start,
           used |-> IF memory THEN 0 ELSE cycle[u].used]

\* The records of a user are looked up by name.
RecordsOf(u) == {s \in Slots : record[s] # None /\ record[s].user = u}

\* The bytes that the records of these addresses count.
RecordBytes(S) == SumFunction([s \in S |-> record[s].bytes])

\* The last multiple of the period since the start of the old cycle.
NextStart(start, period) == start + ((now - start) \div period) * period

\* Mutant: an expired cycle is never ended.
EnsuredNever(u, row) == cycle[u]

\* ensureRateLimitCycle for a copy of the user's row; the memory store is read anew.
Ensured(u, row) ==
    LET start == IF memory THEN cycle[u].start ELSE row.start
        period == plans[row.plan].period
    IN  IF row.plan = None \/ plans[row.plan] = None THEN cycle[u]
        ELSE IF start = 0 THEN [start |-> now, used |-> 0]
        ELSE IF now < start \/ now - start < period THEN cycle[u]
        ELSE [start |-> NextStart(start, period), used |-> 0]

\* The plan's rules are looked at: the plan exists and has some.
Ruled(row) == row.plan # None /\ plans[row.plan] # None /\ plans[row.plan].rules # {}

\* GetUserCycleTraffic: in the database mode what the copy says, although the
\* cycle may just have been ended; and what the records of open sessions say.
CycleTraffic(u, row) ==
    (IF memory THEN Ensured(u, row).used ELSE row.used) + RecordBytes(RecordsOf(u))

\* ResolveUserRateLimitAndConnect.
Resolved(u, row) ==
    LET rule == IF Ruled(row)
                THEN MatchRateLimitRule(plans[row.plan].rules, CycleTraffic(u, row), 0)
                ELSE NoRule
    IN  [limit |-> MinRate({policy[u], rule.limit}), allow |-> rule.allow]

\* What an evaluation writes: the cycle, when it is over or has not begun.
Written(u, row) == IF Ruled(row) THEN Ensured(u, row) ELSE cycle[u]

\* Bytes of the sessions of a user that are not added to the cycle yet.
OpenBytes(u) ==
    LET open == {s \in Slots : slot[s].user = u /\ slot[s].at # "forget"}
    IN  SumFunction([s \in open |-> slot[s].bytes])

\* The cycle is stored; when its traffic is set to zero, history starts over.
Store(u, c) ==
    /\ cycle' = [cycle EXCEPT ![u] = c]
    /\ owed' = IF c # cycle[u] /\ c.used = 0 THEN [owed EXCEPT ![u] = OpenBytes(u)] ELSE owed

\* The panel starts on a database in which users may have a plan; cycles in
\* memory have not begun.
Init ==
    /\ now = 1
    /\ memory \in BOOLEAN
    /\ plans \in [Plans -> Terms \cup {None}]
    /\ planOf \in [Users -> {p \in Plans : plans[p] # None} \cup {None}]
    /\ cycle = [u \in Users |-> IF memory \/ planOf[u] = None THEN NoCycle
                                ELSE [start |-> now, used |-> 0]]
    /\ policy \in [Users -> Policies]
    /\ acts = 0
    /\ slot = [s \in Slots |-> Free]
    /\ record = [s \in Slots |-> None]
    /\ tc = [s \in Slots |-> 0]
    /\ updater = Sleeping
    /\ owed = [u \in Users |-> 0]
    /\ astray = {}
-----------------------------------------------------------------------------
(* Sessions: auth.sh, client_online.sh, client_offline.sh *)

\* auth.sh: password and permission are right, and the row of the user is read.
Authenticate(s, u) ==
    /\ slot[s] = Free
    /\ slot' = [slot EXCEPT ![s] = [Free EXCEPT !.at = "decide", !.user = u, !.row = Row(u)]]
    /\ UNCHANGED <<now, memory, admin, cycle, record, tc, updater, owed, astray>>

\* ... and a rule may refuse the user.
Decide(s) ==
    LET u == slot[s].user
    IN  /\ slot[s].at = "decide"
        /\ Store(u, Written(u, slot[s].row))
        /\ slot' = [slot EXCEPT ![s] =
                       IF Resolved(u, slot[s].row).allow
                       THEN [@ EXCEPT !.at = "online", !.row = NoRow] ELSE Free]
        /\ UNCHANGED <<now, memory, admin, record, tc, updater, astray>>

\* POST /user/online reads the row ...
OnlineRead(s) ==
    /\ slot[s].at = "online"
    /\ slot' = [slot EXCEPT ![s].at = "create", ![s].row = Row(slot[s].user)]
    /\ UNCHANGED <<now, memory, admin, cycle, record, tc, updater, owed, astray>>

\* ... and records the session with the limit computed for it.
OnlineCreate(s) ==
    LET u == slot[s].user
    IN  /\ slot[s].at = "create"
        /\ Store(u, Written(u, slot[s].row))
        /\ record' = [record EXCEPT ![s] =
                         [user |-> u, bytes |-> 0, limit |-> Resolved(u, slot[s].row).limit]]
        /\ slot' = [slot EXCEPT ![s].at = "ask", ![s].row = NoRow]
        /\ UNCHANGED <<now, memory, admin, tc, updater, astray>>

\* POST /user/ratelimit/get computes the limit once more, for the script.
LimitRead(s) ==
    /\ slot[s].at = "ask"
    /\ slot' = [slot EXCEPT ![s].at = "answer", ![s].row = Row(slot[s].user)]
    /\ UNCHANGED <<now, memory, admin, cycle, record, tc, updater, owed, astray>>

\* The script sets a limit only when there is one.
LimitAnswer(s) ==
    LET u == slot[s].user
        limit == Resolved(u, slot[s].row).limit
    IN  /\ slot[s].at = "answer"
        /\ Store(u, Written(u, slot[s].row))
        /\ slot' = [slot EXCEPT ![s].at = IF limit = 0 THEN "up" ELSE "shape",
                                ![s].limit = limit, ![s].row = NoRow]
        /\ astray' = IF limit # record[s].limit THEN astray \cup {s} ELSE astray
        /\ UNCHANGED <<now, memory, admin, record, tc, updater>>

\* tc, under flock.
Shape(s) ==
    /\ slot[s].at = "shape"
    /\ tc' = [tc EXCEPT ![s] = slot[s].limit]
    /\ slot' = [slot EXCEPT ![s].at = "up", ![s].limit = 0]
    /\ UNCHANGED <<now, memory, admin, cycle, record, updater, owed, astray>>

Transfer(s) ==
    /\ slot[s].at = "up"
    /\ owed[slot[s].user] < MaxBytes
    /\ slot' = [slot EXCEPT ![s].bytes = @ + 1]
    /\ owed' = [owed EXCEPT ![slot[s].user] = @ + 1]
    /\ UNCHANGED <<now, memory, admin, cycle, record, tc, updater, astray>>

\* Mutant: the end of the session is reported without its user.
EndedAnonymous(s) == [slot EXCEPT ![s] = [Free EXCEPT !.at = "offline"]]

\* The session ends, and the updater's view of it is out of date.
Ended(s) == [slot EXCEPT ![s].at = "offline"]
LetGo(s) == updater.held \ {s}

Disconnect(s) ==
    /\ slot[s].at = "up"
    /\ slot' = Ended(s)
    /\ updater' = [updater EXCEPT !.held = LetGo(s)]
    /\ UNCHANGED <<now, memory, admin, cycle, record, tc, owed, astray>>

\* POST /user/offline adds the traffic of the session (AddUserCycleTraffic; the
\* memory store begins a cycle that has not begun) ...
OfflineAdd(s) ==
    LET u == slot[s].user
        start == IF memory /\ cycle[u].start = 0 THEN now ELSE cycle[u].start
    IN  /\ slot[s].at = "offline"
        /\ cycle' = IF planOf[u] = None THEN cycle
                    ELSE [cycle EXCEPT ![u] =
                             [start |-> start, used |-> @.used + slot[s].bytes]]
        /\ slot' = [slot EXCEPT ![s].at = "forget"]
        /\ UNCHANGED <<now, memory, admin, record, tc, updater, owed, astray>>

\* Mutant: the record stays.
OfflineKeep(s) ==
    /\ slot[s].at = "forget"
    /\ slot' = [slot EXCEPT ![s] = [Free EXCEPT !.at = "unshape"]]
    /\ UNCHANGED <<now, memory, admin, cycle, record, tc, updater, owed, astray>>

\* ... and then deletes its record, which counted the same bytes.
OfflineForget(s) ==
    /\ slot[s].at = "forget"
    /\ record' = [record EXCEPT ![s] = None]
    /\ slot' = [slot EXCEPT ![s] = [Free EXCEPT !.at = "unshape"]]
    /\ UNCHANGED <<now, memory, admin, cycle, tc, updater, owed, astray>>

\* The script takes the limit away.
Unshape(s) ==
    /\ slot[s].at = "unshape"
    /\ tc' = [tc EXCEPT ![s] = 0]
    /\ slot' = [slot EXCEPT ![s] = Free]
    /\ astray' = astray \ {s}
    /\ UNCHANGED <<now, memory, admin, cycle, record, updater, owed>>
-----------------------------------------------------------------------------
(* The status updater: updateConnectedClientInfoRecords, every 20 s *)

\* ResetExpiredRateLimitCycles lists the users that have a plan ...
UpdaterStart ==
    /\ updater = Sleeping
    /\ updater' = [updater EXCEPT
                      !.at = "expire",
                      !.todo = {u \in Users : planOf[u] # None /\ plans[planOf[u]] # None},
                      !.roster = [u \in Users |-> Row(u)]]
    /\ UNCHANGED <<now, memory, admin, cycle, slot, record, tc, owed, astray>>

\* ... and ends the cycles that are over, from the copies it has listed.
UpdaterExpire(u) ==
    /\ updater.at = "expire"
    /\ u \in updater.todo
    /\ Store(u, Ensured(u, updater.roster[u]))
    /\ updater' = [updater EXCEPT !.todo = @ \ {u}, !.roster[u] = NoRow]
    /\ UNCHANGED <<now, memory, admin, slot, record, tc, astray>>

\* GetStatusFromFile: the clients and their traffic.
UpdaterReadStatus ==
    /\ updater.at = "expire"
    /\ updater.todo = {}
    /\ updater' = [updater EXCEPT
                      !.at = "sample",
                      !.roster = Sleeping.roster,
                      !.file = [s \in Slots |->
                                   IF slot[s].at = "up"
                                   THEN [user |-> slot[s].user, bytes |-> slot[s].bytes]
                                   ELSE None],
                      !.held = {s \in Slots : slot[s].at = "up"}]
    /\ UNCHANGED <<now, memory, admin, cycle, slot, record, tc, owed, astray>>

\* UpdateConnectedClientInfoRecordTraffic, by address.
Sampled(s) ==
    IF updater.file[s] = None \/ record[s] = None THEN record[s]
    ELSE [record[s] EXCEPT !.bytes = updater.file[s].bytes]

\* The records get the traffic of the status file, and are listed.
UpdaterSample ==
    /\ updater.at = "sample"
    /\ record' = [s \in Slots |-> Sampled(s)]
    /\ astray' = astray \cup {s \in Slots \ updater.held : record'[s] # record[s]}
    /\ updater' = IF \A s \in Slots : record[s] = None THEN Sleeping
                  ELSE [updater EXCEPT !.at = "check", !.list = record']
    /\ UNCHANGED <<now, memory, admin, cycle, slot, tc, owed>>

\* reconcileRateLimits looks at one record after the other: the row of its user ...
UpdaterRead(s) ==
    /\ updater.at = "check"
    /\ updater.list[s] # None
    /\ updater' = [updater EXCEPT !.at = "judge", !.work = s,
                                  !.row = Row(updater.list[s].user)]
    /\ UNCHANGED <<now, memory, admin, cycle, slot, record, tc, owed, astray>>

\* The record is done with; after the last one the changes are applied.
Judged(changes) ==
    LET s == updater.work
        list == [updater.list EXCEPT ![s] = None]
    IN  IF \E i \in Slots : list[i] # None
        THEN [updater EXCEPT !.at = "check", !.list = list, !.work = None, !.row = NoRow,
                             !.changes = changes]
        ELSE IF changes = Sleeping.changes THEN Sleeping
        ELSE [updater EXCEPT !.at = "apply", !.list = list, !.work = None, !.row = NoRow,
                             !.changes = changes]

\* Mutant: only the records are looked at.
Unchanging(s, limit) == updater.changes

\* A change is noted when the limit is not the one recorded.
Changed(s, limit) ==
    IF limit = updater.list[s].limit THEN updater.changes
    ELSE [updater.changes EXCEPT ![s] = limit]

\* ... the user is allowed and may get another limit ...
UpdaterAllow ==
    LET s == updater.work
        u == updater.list[s].user
    IN  /\ updater.at = "judge"
        /\ Resolved(u, updater.row).allow
        /\ Store(u, Written(u, updater.row))
        /\ updater' = Judged(Changed(s, Resolved(u, updater.row).limit))
        /\ UNCHANGED <<now, memory, admin, slot, record, tc, astray>>

\* Who CloseClient may find: clients with the certificate the status file gave
\* for the address.
Targets(s) ==
    {v \in Slots : updater.file[s] # None /\ slot[v].at = "up"
                     /\ slot[v].user = updater.file[s].user}

\* Mutant: nobody is disconnected.
UpdaterSpare ==
    LET s == updater.work
        u == updater.list[s].user
    IN  /\ updater.at = "judge"
        /\ ~Resolved(u, updater.row).allow
        /\ Store(u, Written(u, updater.row))
        /\ updater' = Judged(updater.changes)
        /\ UNCHANGED <<now, memory, admin, slot, record, tc, astray>>

\* ... or is refused, and the first client of that name is disconnected.
UpdaterKick ==
    LET s == updater.work
        u == updater.list[s].user
        next == Judged(updater.changes)
    IN  /\ updater.at = "judge"
        /\ ~Resolved(u, updater.row).allow
        /\ Store(u, Written(u, updater.row))
        /\ \/ /\ Targets(s) = {}
              /\ updater' = next
              /\ UNCHANGED slot
           \/ \E v \in Targets(s) :
                 /\ slot' = Ended(v)
                 /\ updater' = [next EXCEPT !.held = @ \ {v}]
        /\ UNCHANGED <<now, memory, admin, record, tc, astray>>

Due == {s \in Slots : updater.changes[s] # None}

\* ratelimit.sh sets or removes the limit of each changed address ...
UpdaterApply ==
    /\ updater.at = "apply"
    /\ tc' = [s \in Slots |-> IF s \in Due THEN updater.changes[s] ELSE tc[s]]
    /\ astray' = astray \cup (Due \ updater.held)
    /\ updater' = [updater EXCEPT !.at = "record"]
    /\ UNCHANGED <<now, memory, admin, cycle, slot, record, owed>>

\* Mutant: what was applied is not recorded.
UpdaterForget ==
    /\ updater.at = "record"
    /\ astray' = astray \cup (Due \ updater.held)
    /\ updater' = Sleeping
    /\ UNCHANGED <<now, memory, admin, cycle, slot, record, tc, owed>>

\* ... and the records of these addresses get it too.
UpdaterRecord ==
    /\ updater.at = "record"
    /\ record' = [s \in Slots |-> IF s \in Due /\ record[s] # None
                                  THEN [record[s] EXCEPT !.limit = updater.changes[s]]
                                  ELSE record[s]]
    /\ astray' = astray \cup (Due \ updater.held)
    /\ updater' = Sleeping
    /\ UNCHANGED <<now, memory, admin, cycle, slot, tc, owed>>
-----------------------------------------------------------------------------
(* Administrators *)

\* A request of an administrator, up to the bound.
Acting == acts < MaxActs /\ acts' = acts + 1

CreatePlan(p, terms) ==
    /\ Acting
    /\ plans[p] = None
    /\ plans' = [plans EXCEPT ![p] = terms]
    /\ UNCHANGED <<now, memory, planOf, policy, cycle, slot, record, tc, updater, owed, astray>>

UpdatePlan(p, terms) ==
    /\ Acting
    /\ plans[p] # None
    /\ plans' = [plans EXCEPT ![p] = terms]
    /\ UNCHANGED <<now, memory, planOf, policy, cycle, slot, record, tc, updater, owed, astray>>

\* DeleteRateLimitPlan takes its users out of it.
DeletePlan(p) ==
    LET members == {u \in Users : planOf[u] = p}
    IN  /\ Acting
        /\ plans[p] # None
        /\ plans' = [plans EXCEPT ![p] = None]
        /\ planOf' = [u \in Users |-> IF u \in members THEN None ELSE planOf[u]]
        /\ cycle' = [u \in Users |-> IF u \in members THEN NoCycle ELSE cycle[u]]
        /\ owed' = [u \in Users |-> IF u \in members THEN OpenBytes(u) ELSE owed[u]]
        /\ UNCHANGED <<now, memory, policy, slot, record, tc, updater, astray>>

\* AddUsersToRateLimitPlan, also for a user of another plan.
AddUser(p, u) ==
    /\ Acting
    /\ plans[p] # None
    /\ planOf' = [planOf EXCEPT ![u] = p]
    /\ cycle' = [cycle EXCEPT ![u] = [start |-> now, used |-> 0]]
    /\ owed' = [owed EXCEPT ![u] = OpenBytes(u)]
    /\ UNCHANGED <<now, memory, plans, policy, slot, record, tc, updater, astray>>

\* RemoveUsersFromRateLimitPlan; in memory the cycle goes whatever plan the user has.
RemoveUser(p, u) ==
    /\ Acting
    /\ planOf' = [planOf EXCEPT ![u] = IF @ = p THEN None ELSE @]
    /\ cycle' = [cycle EXCEPT ![u] = IF memory \/ planOf[u] = p THEN NoCycle ELSE @]
    /\ owed' = [owed EXCEPT ![u] = IF memory \/ planOf[u] = p THEN OpenBytes(u) ELSE @]
    /\ UNCHANGED <<now, memory, plans, policy, slot, record, tc, updater, astray>>

\* ResetUserRateLimitCycle.
ResetUser(u) ==
    /\ Acting
    /\ Store(u, [start |-> now, used |-> 0])
    /\ UNCHANGED <<now, memory, plans, planOf, policy, slot, record, tc, updater, astray>>

\* The limit of the user or of a group, or a membership or permission, changes.
ChangePolicy(u, limit) ==
    /\ Acting
    /\ policy' = [policy EXCEPT ![u] = limit]
    /\ UNCHANGED <<now, memory, plans, planOf, cycle, slot, record, tc, updater, owed, astray>>

Tick ==
    /\ now < MaxTime
    /\ now' = now + 1
    /\ UNCHANGED <<memory, admin, cycle, slot, record, tc, updater, owed, astray>>

ScriptStep(s) ==
    \/ Decide(s) \/ OnlineRead(s) \/ OnlineCreate(s) \/ LimitRead(s) \/ LimitAnswer(s)
    \/ Shape(s) \/ OfflineAdd(s) \/ OfflineForget(s) \/ Unshape(s)

ClientStep(s) ==
    \/ \E u \in Users : Authenticate(s, u)
    \/ Transfer(s) \/ Disconnect(s)

UpdaterStep ==
    \/ UpdaterStart \/ (\E u \in Users : UpdaterExpire(u)) \/ UpdaterReadStatus
    \/ UpdaterSample \/ (\E s \in Slots : UpdaterRead(s)) \/ UpdaterAllow \/ UpdaterKick
    \/ UpdaterApply \/ UpdaterRecord

AdminStep ==
    \/ \E p \in Plans :
          \/ \E t \in Terms : CreatePlan(p, t) \/ UpdatePlan(p, t)
          \/ DeletePlan(p)
          \/ \E u \in Users : AddUser(p, u) \/ RemoveUser(p, u)
    \/ \E u \in Users : ResetUser(u) \/ \E l \in Policies : ChangePolicy(u, l)

Next ==
    \/ \E s \in Slots : ScriptStep(s) \/ ClientStep(s)
    \/ UpdaterStep
    \/ AdminStep
    \/ Tick

Spec == Init /\ [][Next]_vars

\* Scripts go on until they end, and the updater wakes up again and again.
Fairness == WF_vars(UpdaterStep) /\ \A s \in Slots : WF_vars(ScriptStep(s))

FairSpec == Spec /\ Fairness
-----------------------------------------------------------------------------
(* Properties *)

SlotState == [at : {"free", "decide", "online", "create", "ask", "answer", "shape", "up",
                    "offline", "forget", "unshape"},
              user : Users \cup {None}, bytes : Nat, row : UserRow, limit : Nat]

UpdaterState == [at : {"idle", "expire", "sample", "check", "judge", "apply", "record"},
                 todo : SUBSET Users, roster : [Users -> UserRow],
                 file : [Slots -> FileRow \cup {None}], list : [Slots -> RecordRow \cup {None}],
                 row : UserRow, work : Slots \cup {None}, changes : [Slots -> Nat \cup {None}],
                 held : SUBSET Slots]

\* Every variable keeps its type, and work in hand its user and address.
TypeOK ==
    /\ now \in 1..MaxTime /\ memory \in BOOLEAN
    /\ plans \in [Plans -> Terms \cup {None}]
    /\ planOf \in [Users -> Plans \cup {None}]
    /\ cycle \in [Users -> Cycle]
    /\ policy \in [Users -> Policies]
    /\ acts \in 0..MaxActs
    /\ slot \in [Slots -> SlotState]
    /\ \A s \in Slots : slot[s].at \notin {"free", "unshape"} => slot[s].user \in Users
    /\ record \in [Slots -> RecordRow \cup {None}]
    /\ tc \in [Slots -> Nat]
    /\ updater \in UpdaterState
    /\ updater.at = "judge" => updater.work \in Slots /\ updater.list[updater.work] # None
    /\ astray \subseteq Slots

\* The updater is between setting a limit and recording it.
Recording(s) == updater.at = "record" /\ s \in Due

\* The limit recorded for a session is the one the kernel applies, unless the two
\* answers of its login differed or the updater's change met another session:
\* reconcileRateLimits only looks at the record to know whether tc must change.
RecordMatchesKernel ==
    \A s \in Slots : slot[s].at = "up" /\ s \notin astray /\ ~Recording(s) =>
        tc[s] = record[s].limit

\* How record, kernel and updater stand to each other at an address; with TypeOK
\* it is inductive and implies RecordMatchesKernel.
InLine(s) ==
    LET at == slot[s].at
    IN  /\ s \in updater.held => at = "up"
        /\ at \in {"ask", "answer", "shape", "up", "offline", "forget"} => record[s] # None
        /\ s \notin astray =>
              /\ at \in {"free", "decide", "online", "create", "ask", "answer", "shape"} =>
                    tc[s] = 0
              /\ at = "shape" => record[s].limit = slot[s].limit
              /\ at = "up" /\ ~Recording(s) => tc[s] = record[s].limit
        /\ Recording(s) /\ s \in updater.held => tc[s] = updater.changes[s]

KernelInv == \A s \in Slots : InLine(s)

\* What a user is charged for in the running cycle: bytes already added to it and
\* those of the records of sessions that are not added yet.
Charged(u) ==
    cycle[u].used
    + RecordBytes({s \in RecordsOf(u) : slot[s].at # "forget" /\ s \notin astray})

\* No byte is charged twice: a session counts by its record or by what its end
\* added, never by both once the offline handler is through.
ChargedOnce == \A u \in Users : planOf[u] # None => Charged(u) <= owed[u]

\* A cycle never starts in the future: it would not end in time, for
\* ensureRateLimitCycle waits until the clock has caught up.
StartedInThePast == \A u \in Users : cycle[u].start <= now

\* What an evaluation of the user would say now.
Refused(u) == ~Resolved(u, Row(u)).allow
Connected(u) == \E s \in Slots : slot[s].user = u /\ slot[s].at = "up"

\* A user that has used up the traffic is disconnected, from all addresses, or is
\* allowed again.
RefusedIsCut == \A u \in Users : Refused(u) /\ Connected(u) ~> ~Refused(u) \/ ~Connected(u)

Expired(u) ==
    LET p == planOf[u]
    IN  p # None /\ plans[p] # None /\ cycle[u].start # 0
          /\ now - cycle[u].start >= plans[p].period

\* A cycle that is over is ended although its user does nothing.
ExpiredIsEnded == \A u \in Users : Expired(u) ~> ~Expired(u)

\* A session is brought in line, without a new login, with what its user is
\* entitled to: it happens again and again, for as long as that may change.
LimitArrives ==
    \A s \in Slots :
        []<>(slot[s].at = "up" =>
               LET answer == Resolved(slot[s].user, Row(slot[s].user))
               IN  ~answer.allow \/ record[s].limit = answer.limit)

=============================================================================
