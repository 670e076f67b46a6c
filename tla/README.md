# Verification of openvpn-pannel

TLA+ models of the panel that starts, supervises and serves OpenVPN servers,
the TLC runs that check them on small instances, and TLAPS proofs of what
matters most for every size of instance.  Definitions keep the names of the Go
code; `PROJECT.json` maps each of them to the lines it stands for.

## 1. The system

The panel is one Go process (`cmd/openvpn-pannel/main.go`, `internal/api`). It
keeps its data in a database (`internal/dao`, `internal/models`), launches one
`openvpn` per server row (`internal/ovpn_server`), and is called back by shell
scripts openvpn runs when a client logs in, comes online or goes offline
(`internal/ovpn_server/resource_sets/*`). Administrators use a JSON API and a
React front end; VPN clients may use a self-service page for MFA.

| Component | State | Operations | What is hard |
|---|---|---|---|
| Server life cycle (`api/app.go`, `api/ovpn_server_api.go`, `ovpn_server/vpn_server.go`, `dao/server_process.go`) | servers table, process list under `App.lock`, the host's processes, PID records | create, update, delete, start, stop, clear log; watchdog; recover and auto start at boot; exit and crash | processes outlive the panel; PIDs are reused; the watchdog competes with requests; the panel may die between any two statements |
| Client sessions and ACLs (`api/internal_api.go`, `api/client_page.go`, `dao/ovpn_server.go`, `dao/runtime_memory.go`, the scripts) | client records, ACL records, firewall rules in the kernel | authenticate, online, get ACL, offline, delete ACL, MFA verify and logout | scripts and handlers run concurrently and take no lock; virtual addresses are reused; calls are lost while the panel is down; records are wiped while clients connect |
| Traffic and rate limits (`dao/ratelimit_plan.go`, `dao/ratelimit.go`, the updater of `api/app.go`) | plans, members, cycles, limits in force | create, update, delete plans; add and remove members; count traffic; reset expired cycles; reconcile every 20 s | evaluations work on copies of rows while cycles end, traffic is added and addresses change hands; memory mode and database mode differ |
| Permissions (`dao/ovpn_server.go`, `dao/group.go`, `dao/ratelimit.go`) | permissions of servers for users and groups, ACLs of groups | check at login, list for a page, active groups, ACLs of a user | the same question is answered in several places over different joins |
| Users and groups (`dao/user.go`, `dao/group.go`, `api/user_api.go`, `api/group_api.go`) | users, groups, memberships | create, update, delete, batch; validity, password, MFA | cascades over several tables; rows are read, changed as copies and saved whole |
| Certificates (`certutil`, `api/certificate_api.go`, `api/client_export_api.go`) | certificates, their parents, the servers that refer to them | create and sign, import, delete a subtree, show the chain, export a profile | names are not unique; checks and writes are separate statements |
| Instance locks, client settings, log rotation (`api/app.go`, `api/ovpn_server_api.go`, `ovpn_server/log_rotate.go`) | one RW lock per server beside `App.lock`, the `ccd` directory, log files | take, create on demand, remove; write settings; copy, truncate, prune; read in two passes | a lock may be removed while somebody waits for it; rows are committed before the lock is taken; openvpn writes on while its log is cut |
| Status and disconnection (`ovpn_server/vpn_server.go`, the updater of `api/app.go`) | openvpn's status file and management socket | list clients, find one again, kill it | what is listed is old when it is used; addresses change hands |
| Login sessions, cooldown (`api/session_store.go`, `api/cooldown.go`, `api/user_api.go`, `api/internal_api.go`) | sessions and times of attempts in memory | log in, log out, expire; allow, look, record, prune | copies of rows that change meanwhile; two doors with one key; a bounded map |
| Events (`dao/event.go`, `dao/event_memory.go`, `dao/certificate_event.go`) | a table, or a bounded list in memory | append, list by page, clear | two implementations of one listing; several servers share a limit |

What is left out, and why, is in section 11.

## 2. Plan

Modules in the order of their importance. Each has an `MC` module, and a `.cfg`
per question.

| Module | Subject | Status |
|---|---|---|
| `Supervisor` | what supervision promises, without a panel | done |
| `ServerLifecycle` | the life cycle, shown to implement `Supervisor` | done, proved |
| `SessionACL` | online and offline scripts, records, kernel rules, MFA | done, proved |
| `RatePolicy`, `RateLimitCycle` | rules and rates; traffic cycles, updater, plan changes | done, proved |
| `Permissions`, `Directory` | resolution of permissions and ACLs; users, groups, memberships | done, proved |
| `CertStore` | certificates and references to them | done, proved |
| `Accounts` | rows of users, logins and sessions | done, proved |
| `Instances` | locks, client settings, logs, status and disconnection | done, proved |
| `EventStore`, `Entrance` | lists of events; cooldown and authentication | done, proved |

`Directory` extends `Permissions`, `RateLimitCycle` extends `RatePolicy`, and
`Entrance` extends `EventStore`: the first of each pair is the pure computation, the
second the state it is applied to. `ServerLifecycle` instantiates `Supervisor` for
its refinement. The other modules touch at a few points, where each takes what the
other does as a choice of its environment: `Instances` starts and stops a server in one
step each, whose inner steps are in `ServerLifecycle`; the rights `SessionACL`
grants (`entitled`) and the limit by groups (`policy` of `RateLimitCycle`) may
change at any time, as the handlers of `Directory` change them; `Entrance` takes the
outcome of a password as a choice, and `Accounts` has the row it is compared with.

Every safety invariant and action property that a passing run checks is also a theorem; the
run shows it on a small instance, the theorem for every value of the constants that
the named assumptions allow. Section 12 says what stays with TLC. What could still be
added: the events of a session and the limits of `tc` in one model with `SessionACL`, and several
servers in `RateLimitCycle`.

## 3. Server life cycle

### 3.1 Modules

`ServerLifecycle` models every operation that starts, stops or forgets a
process.

| Variable | In the code |
|---|---|
| `row`, `auto` | the `servers` table and its `auto_start` column |
| `record` | `server_process_records`, the PID of each server, kept only with `stop_instances_on_exit=false` |
| `proc` | the process table of the host |
| `inst` | `App.ovpnProcessList`: where the process of an instance comes from (`cmd`, `exited`, `AttachPID`), its PID and `keepAlive` |
| `panel`, `exiting`, `stopOnExit` | the main goroutine of `App.Run`, the signal goroutine of `main`, the configuration |
| `holder`, `todo`, `stage` | who holds `App.lock`, what its loop has still to visit, how far the start, stop or delete of a server has come |
| `command` | history only: what the operator was last told about a server |

Handlers and background tasks run under `App.lock`, so one at a time is in the
middle of something. They are nevertheless split where the code waits or where
the panel may die: a launch (`Launch`), the start script and the PID record
(`StartFinish`); the interrupt (`Interrupt`), the end of the process
(`StopKill`), the exit script and the deletion of the record (`StopFinish`); the
transaction of a delete (`DeleteHandler`) and what follows it
(`DeleteFinish`). Between these, openvpn may die (`ProcessExits`), a row may be
created or updated (those two handlers take no lock), a signal may come
(`TermPreserve`, `TermStop`) and the panel may crash (`PanelCrash`). The next
panel runs `PanelStart`, `RecoverServer`, `AutoStartServer`.

What can go wrong in the environment is a set, `Faults`. `OrphanFaults` are those
that can make the panel lose sight of a process:

| Fault | Meaning | In the proofs |
|---|---|---|
| `start_fails` | `WriteConfig` or `cmd.Start` fails | allowed |
| `pid_reuse` | the host gives a PID to somebody else while the panel remembers it | allowed |
| `stop_fails`, `lookup_fails`, `recover_fails` | a configuration that does not parse, a database that does not answer | excluded |
| `die_in_start` | the panel dies while a start script runs | excluded |
| `crash_managed` | the panel is killed with `stop_instances_on_exit=true` | excluded |
| `mode_switch` | `stop_instances_on_exit` is edited between two runs | excluded |
| `late_start` | a handler gets `App.lock` between the return of `StopAllOpenVPNServer` and `os.Exit` | excluded |

`Supervisor` knows only which servers exist, which processes each has, and which
were stopped. `ServerLifecycle` implements it under the mapping `ProcsOf`,
`Existing`, `Stopped`.

### 3.2 Assumptions

* SIGKILL is effective: `stopAttachedProcess` gives up 5 s after it, which is not modelled.
* Children survive the panel (`KillMode=process`, full-doc 5.7).
* An openvpn that dies and `Wait` that reaps it are one step; a zombie counts as dead, as in `processIsZombie`.
* A handler that fails before it changes anything is a stutter.
* Identifiers are not reused by `CreateServer` (auto-increment); `UpdateServer` inserts a deleted row again, as `Save` of gorm does.
* Configuration files, events and the records of clients and ACLs, which a start and a stop wipe, are not part of this module.
* `todo` of the watchdog holds only instances with `keepAlive`, which changes only under `App.lock`.

### 3.3 Runs

All use two servers and three PIDs unless noted: two servers are needed for one
process to be taken for another's, three PIDs let both run while a third is free
or foreign. Counters do not occur, so nothing is capped.

| Run | Question | Answer |
|---|---|---|
| `lifecycle` | `TypeOK`, `NoOrphan`, `DeletedIsForgotten`, `StopIsFinal`, `ImplementsSupervisor` under `start_fails`, `pid_reuse` | hold |
| `lifecycle_live` | `WatchdogRestarts`, `TermExits` under `recover_fails` and `Fairness` | hold |

`AtMostOneProcess` and `ChildIsOwn`, which says that only processes of its own
server are ever signalled, are not run: they are proved, the second under all
faults. Recovery that fails (`recover_fails`) leaves processes behind, which is why
`WatchdogRestarts` makes an exception of a host without a free PID. With `start_fails` `WatchdogRestarts` does not hold: after one failed relaunch
the watchdog never tries again. With `die_in_start` `NoOrphan` does not hold: there
is no record while the start script runs.
The other `OrphanFaults` violate `NoOrphan` as well, each in its own way:
`mode_switch`, for one, makes recovery wipe the records of running processes.
Two more limits show in the model and are accepted there: a reused PID is
adopted by recovery (`RecoverAdopts` asks only that some process has it), and a
stop that is answered with "no need to stop" (`StopRefused`) leaves `keepAlive`
set, so the watchdog relaunches the server.

Fairness: a goroutine that holds `App.lock` goes on (weak fairness of each step
of a handler or a loop), the panel is restarted by its service manager, openvpn
ends when it is killed. The watchdog's timer and the signal goroutine compete
with requests for `App.lock`; a Go lock hands over to a waiter that has waited
1 ms, hence strong fairness of `WatchBegin` and `StopAllBegin`. No fairness is
assumed of requests, of openvpn dying, of crashes or of signals.

### 3.4 Proofs (`ServerLifecycleProofs`)

* `TypeCorrect` and `ChildrenAreOwn` hold under all faults.
* `Safe`: `SafetyInv` is inductive together with `TypeOK`. `NoOrphan` alone is not:
  `StageInv` says that a stop and a delete forget a server only when its process is
  gone; `RecoverInv` says that recovery has adopted every process it has passed;
  `ExitInv` says that an exit that stops the instances visits every process and
  leaves none; `LockInv` says who may hold the lock, so that no two activities
  are in the middle of something.
* `NoneIsLost` is `NoOrphan`; `OneProcess` follows: the process of a server is the one its instance, or its
  record, names.
* `StopsAreFinal` needs `StopInv`: a stopped server has neither `keepAlive` nor a
  record, so neither the watchdog nor recovery takes it up.
* `DeletedAreForgotten`: `DeletedIsForgotten` is not inductive. `ForgetInv` follows a
  deleted server through the phases: between its row and the statements that follow
  (`rowgone`) it may be listed and recorded; a panel that dies there leaves a record
  that recovery has still to visit; afterwards neither is there.
* `Refinement`: every step is a launch of a server that has none, the end of a
  process, or leaves the processes alone (`StepKinds`), and each kind maps to a
  step of `Supervisor` or a stutter.

Liveness is model-checked only.

## 4. Client sessions and ACLs

### 4.1 Module

`SessionACL` models one server, its clients, the scripts openvpn runs for them,
the handlers of the internal API and of the self-service page.

| Variable | In the code |
|---|---|
| `entitled` | what `GetACLByUser` answers; an administrator may change it at any time |
| `server`, `panel`, `memory` | the phases of a start and a stop, whether the panel runs, `max_memory_events > 0` |
| `session` | openvpn's own table: who is connected with an address |
| `script` | `client_online.sh` or `client_offline.sh` of an address: the call it is at, and the list it got |
| `clients` | `connected_client_info_records`, a set of rows per address |
| `acls` | `added_server_acl_records`, the networks recorded per address |
| `groups` | kernel: the ACL groups (a pair of sets and a rule, named by the hash of the networks) that hold the address |
| `flow` | kernel: entries of the address in the state table, opened by its present (`own`) or an earlier (`stale`) holder |
| `portal` | `ClientLoginHandler` and `ClientLogoutHandler`, one statement or script at a time |
| `tainted` | history only: the addresses a fault has happened to since openvpn was started |

A session is the sequence `ClientConnects`, `UserOnline`, `GetUserACL`,
`AddRules`, and when it ends `ClientDisconnects`, `UserOffline`,
`DelUserACLList`, `DelUserACLRecords`, `CleanRules`; each is one HTTP call, one
statement of a handler, or the part of a script under `flock`. A login is
`PortalLogin`, `PortalDrop`, `PortalAdd`, `PortalSave`, `PortalVerify`, a logout
`PortalLogout`, `PortalDel`, `PortalFlush`, `PortalForget`, `PortalUnverify`. A
start launches openvpn, runs `server_start.sh` (`StartScript`) and wipes the
records (`StartWipe`).

`Faults` holds what goes beyond the plain course of events:

| Fault | Meaning | What it does to `NoLeftovers` and the others when it is not set apart |
|---|---|---|
| `panel_down` | the panel is killed and calls of the scripts are lost | `client_offline.sh` gets no list and leaves the rules |
| `flock_timeout` | `flock -w 60` gives up | rules are neither added nor taken away, records say otherwise |
| `early_client` | a client connects before `StartWipe` | its records go, its rules stay |
| `relogin` | a session that is logged in logs in again | the group of the first login is forgotten |
| `overlap` | a client connects, disconnects or asks again while the page works for its address | the login adds rules after the offline script has cleaned |

The safety properties speak of addresses no fault has happened to since the
start (`Sound`), while every fault may happen to others, and to the same address
before the next start: they say that trouble stays where it began and that a
start ends it. The documentation promises more, without any such condition:
`OfflineReclaims` states it and is violated. So is what the comment at
`client_page.go:258` says of the page after a second login (`relogin`): the rules of
the first one stay.

### 4.2 Assumptions

* `MfaUsers` does not change; the type of a user's second factor is read once per request.
* An address stands for the primary address of a client (IPv4, or IPv6 when there is no other); its IPv6 twin follows the same steps.
* The hosts have `ipset` (`HAVE_IPSET=1`); without it a group is a set of rules of the same content.
* openvpn runs the scripts of an address one after the other and reuses the address only when its offline script has ended. A new openvpn is started when the scripts of the previous one have ended (`ServerStart`).
* `StartScript` is one step: the start script flushes its chain before openvpn can hand out addresses, or `early_client` covers it.
* The panel is not killed during a start or a stop here; `ServerLifecycle` has these. In memory mode the panel never leaves openvpn behind (`ShouldStopInstancesOnExit`).
* Statements on the database do not fail while the panel runs. Events and `tc` limits are left out.

### 4.3 Runs

| Run | Instance | Answer |
|---|---|---|
| `acl` | one address, a user with and one without a second factor, one network, one request, all faults, `FairSpec` | `TypeOK`, `NoLeftovers`, `RecordedIsApplied`, `MfaGate`, `LoggedOutIsCut`, `DisconnectReclaims` and `LoginCompletes` hold |
| `acl_overlap` | the user with a second factor, only `overlap` | `OfflineReclaims` violated: rules for an address nobody holds |

One network gives two ACLs, empty and full, which is enough for the group that
is taken away to differ from the one that was granted; the proofs hold for any
set of networks. One request is enough for a script to run between any two
of its steps. That a step on one address does not disturb another is what the proof
shows (`Local`, `Frame`); no run has two.

Two limits of the code show without any fault: going offline leaves the
state table alone (`CleanRules`, only `PortalFlush` empties it), so a
connection may outlive its session until it ends; and the next holder of the
address finds it (`flow` = `stale`), which is why `LoggedOutIsCut` is about
connections of the session itself.

Fairness: a script goes on until it ends, also when its calls fail
(`CallLost`), and so does a handler of the running panel. Nothing is assumed of
clients, administrators, the server, or of the panel coming back.

### 4.4 Proofs (`SessionACLProofs`)

* `SessionsTyped`: `TypeOK` is inductive under all faults.
* `Contained`: `Containment`, the conjunction of the five safety properties, for
  every number of users, addresses, networks and concurrent requests, and for
  every set of faults. The properties speak of addresses at rest; the inductive
  invariant `ContainmentInv` adds what holds while a script or a request is in
  the middle of its work, one part per phase of a session: `Vacant`,
  `Connecting`, `Connected`, `Leaving`, and `Served` for a request, which says
  that it is the only one and how far records and rules have come. `Fresh` is
  what `server_start.sh` leaves to the wipe of the records.
* The argument is local: a step touches one address (`Local`), what it leaves
  alone stays in order (`Frame`), and each step keeps its own address in order
  (`ScriptInOrder`, `ClientInOrder`, `PortalInOrder`) or a fault is noted.
* `NothingIsLeft`, `RecordsAreApplied`, `SecondFactorOpens`, `LogoutCuts` state its parts
  one by one, as the run checks them.
* `DisconnectReclaims` and `LoginCompletes` are liveness and model-checked only.

## 5. Traffic and rate limits

### 5.1 Modules

`RatePolicy` holds the computations: the lowest of several rates, where 0 means
no limit (`MinRate`), the order of a plan's rules (`Precedes`) and the first
triggered rule (`MatchRateLimitRule`). `RateLimitCycle` models everything that
writes a cycle, a recorded limit or a limit of the kernel.

| Variable | In the code |
|---|---|
| `now` | `time.Now().Unix()` |
| `memory` | `max_memory_events > 0`: cycles and records in `runtimeMemory` |
| `plans`, `planOf` | `rate_limit_plans` with their rules, `users.rate_limit_plan_id` |
| `cycle` | start and traffic of each user's cycle, in `users` or in memory |
| `policy` | what `resolveUserGroupRateLimit` answers; an administrator may change it at any time |
| `slot` | the session of an address and the call its script is at, with the row the handler has read |
| `record` | `connected_client_info_records` of the address: user, sampled bytes, recorded limit |
| `tc` | kernel: the limit of the address |
| `updater` | `updateConnectedClientInfoRecords`: the users and records it has listed, the status file it has read, the row in hand, the changes it has collected |
| `acts` | bound only: how many requests of administrators there have been |
| `owed` | history only: bytes of a user's sessions since the cycle was last set to zero |
| `updater.held`, `astray` | history only: the sessions that were up when the status file was read and still are; the addresses whose record or `tc` was written for another session |

A session is `Authenticate`, `Decide`, `OnlineRead`, `OnlineCreate`, `LimitRead`,
`LimitAnswer`, `Shape`, then `Transfer`, and `Disconnect`, `OfflineAdd`,
`OfflineForget`, `Unshape`. An evaluation of a user is two steps, the read of
the row and what is computed from it, because in between anybody may end the
cycle, add to it, or move the user to another plan. The updater is
`UpdaterStart`, `UpdaterExpire` for each listed user, `UpdaterReadStatus`,
`UpdaterSample`, then `UpdaterRead` and `UpdaterAllow` or `UpdaterKick` for each
record, `UpdaterApply`, `UpdaterRecord`.

### 5.2 Assumptions

* Bytes and rates are followed in one direction; a rule is triggered by either, each direction is computed alone. There is one server, so sessions of one user differ by address only.
* A rate is 0 or a positive number, periods are positive; `uint64` does not overflow.
* Database statements do not fail and the panel is not restarted; the scripts get `flock` in time.
* `ensureRateLimitCycle` reads the cycle of the memory store and writes it back in one step; in the database mode the copy is as old as the row.
* All records are sampled in one step, and listed in the same step; `enforceUserValidity`, which runs in between, and the lifetime totals (`UpdateUserTraffic`) are left out.
* The name of a client's certificate stands for its user, so `Targets` are all sessions of that user: the code takes the first one in the list of the management interface, whose order it does not control.
* openvpn waits for its scripts, so a session transfers and ends only when its login is complete.

### 5.3 Runs

| Run | Instance | Answer |
|---|---|---|
| `ratelimit` | one user, one address, one plan with a refusing and a slowing rule, period 2, clock up to 3, 2 bytes between resets, 2 requests of administrators | `TypeOK`, `RecordMatchesKernel`, `ChargedOnce` hold |
| `ratelimit_live` | the same with period 1, clock up to 2, one request, under `FairSpec` | `RefusedIsCut`, `ExpiredIsEnded`, `LimitArrives` hold |

Bounds: `MaxTime` 3 with a period of 2 lets a cycle end while a copy of it is in
hand, start again off the grid of the old one, and be reset by an administrator
in between; `MaxBytes` 2 reaches both thresholds (0 and 1); two requests are
enough to take a user out of a plan and put it back, or to change a plan twice
while an evaluation is in hand. One address is enough for a session to meet what
the updater collected for the one before it. Several sessions of a user, where
`UpdaterKick` may hit the wrong one, are beyond these instances for the runs; the
theorems cover them.

`ChargedOnce` is an upper bound. The code gives no lower one: a session that
spans the end of a cycle is charged to the new one with its whole traffic, and
bytes added between the read and the write of `ensureRateLimitCycle` are lost
with the old cycle.

In the database mode the login that ends a cycle is judged by the traffic of the
old one, although `full-doc.md:512` says the cycle starts anew by itself; the
next evaluation corrects it (`ExpiredIsEnded`).

Two kinds of sessions are set apart by `astray`. A login asks for the limit
twice, once for the record (`OnlineCreate`) and once for `tc` (`LimitAnswer`);
when the answers differ, the updater trusts the record and leaves `tc` alone.
And the updater applies changes by address, to whatever session is there by
then; when there is none, the limit stays in the kernel until the next session
of the address ends.

Fairness: a script runs to its end (weak fairness of each `ScriptStep`), and the
updater, a goroutine with a ticker, wakes up and goes on (weak fairness of
`UpdaterStep`). Nothing is assumed of clients, of traffic, of administrators or
of the clock.

### 5.4 Proofs (`RateLimitCycleProofs`)

* `MatchType`, `MinRateType`: a plan answers with a rate, whatever the traffic;
  this needs `RulesAssumption`, that of any set of rules of a plan one comes
  first, which finitely many rules with different ids satisfy.
* `NextStartBounds`: adding whole periods to the start of a cycle does not pass
  the clock.
* `TypeCorrect` and `CyclesHaveBegun`, that no cycle starts in the future: the two are inductive together (`Begun`);
  that a stale copy of a row does no harm rests on `ensureRateLimitCycle`
  comparing with the clock before it divides.
* `RecordsAreTrue`: `RecordMatchesKernel` is not inductive. `KernelInv` adds that an
  address without a session, or with one that is still logging in, has no limit in
  the kernel; that between answer and `tc` the script holds the recorded limit; that
  the updater lets go of every session that ends; and that between applying and
  recording, the kernel has what will be recorded.
* `BytesAreChargedOnce`: `ChargedOnce` is about sums over the sessions of a user. `RecordBytes`
  is a fold over a finite set; that its recursion has a solution, and what it gains and loses
  with one record (`SumRemove`, `SumCompare`), follows by induction over the size of the
  set, hence the assumption that `Slots` is finite. `AccountInv` says that what is in the
  cycle and what the open sessions will still add (`OpenBytes`) is at most what is `owed`;
  each step moves bytes from one side to the other (`TotalMoves`) or loses them.
  `AddressInv` is the part of each address: a record, or the status file for a session
  that was up when it was read, never counts more bytes than the session has moved.
* The liveness is model-checked only.

## 6. Permissions, users and groups

### 6.1 Modules

`Permissions` has the computations over the tables as operators: the check at login
(`CheckServerPermission`), the four lists of servers on a user's page
(`ListServerByUserPermission`), the active groups that set the rate
(`ListActiveGroupsForUser`) and the ACLs (`GetACLByUser`). The loops of the code over
query results become quantifiers over sets of rows; which of them join with the
`groups` table, and so forget rows of deleted groups, and which do not, is kept.

`Directory` has the tables and the handlers that change them.

| Variable | In the code |
|---|---|
| `users`, `groups` | the tables of the same names: the key of each name |
| `members`, `perms`, `acls` | `user_groups`, `server_permissions`, `group_acls` |
| `next` | the auto-increment columns |
| `request` | handlers between their reads and their insert (`AddUserToGroup`, `AddGroupACL`) |
| `raced` | history only: groups deleted while an add for them was in flight |

A handler that is one transaction, or one statement, is one action. A request is
admitted while somebody is an administrator (`Administered`). The handlers that read
before they insert stay in flight in between, for the tables have neither locks nor
unique indices; the batch inserts do not look at all.

### 6.2 Runs

| Run | Instance | Answer |
|---|---|---|
| `directory` | the installed user and group and one more of each, two more memberships, one ACL, two permissions, two requests in flight (symmetric) | `TypeOK`, `GroupCascade`, `PermissionsAgree`, `RemovedIsOut` hold (1.4 million states) |
| `directory_delete` | the same with one request and one permission | `DeleteOwnMemberships` violated: users are deleted with the memberships whose own key is theirs |

The second user and the second group can be given permissions, which gives every
combination of own and group rows, permit and deny. Two memberships more than the
installation's are enough for two requests to insert the same one twice, and for
the key of a membership to be the id of another user. `MaxId` and `MaxPerms`
bound keys and rows.

### 6.3 Proofs (`DirectoryProofs`)

For all names, servers, requests and bounds. `PermissionsAlwaysAgree` and
`AclsFollowActiveGroups` (a property no run checks) need no invariant beyond the type
of a permission: they follow from lemmas on the operators for all tables
(`CheckIsDocumented`, `CheckIsShown`, `AclsOfActiveGroups`, `AdmittedIsActive`), the
last two for users without a membership in a deleted group, which the code's joins treat
in different ways. `GroupsCascade` is not inductive, because an add in flight inserts
later: `DirectoryInv` says that every group id in the hands of a handler, too, is that of
a group, or of one deleted under it. `RemovalsAreFinal` is an action property that
follows from what a removal does to all rows of a user.

`DirectoryTypes` is `TypeOK`, which says more than types: keys are below the next one and
no two names share one. `TypedInv` adds what handlers have in hand, and that permissions are
finitely many. Two arguments are not local: a batch gives its rows the keys from `next` on
in the order of the users, and of finitely many ids fewer than all are smaller than one
(`RankBelow`); and a permission inserted again finds a number no equal row has, by counting
(`FreeCopy`).

## 7. Certificates (`CertStore`)

| Variable | In the code |
|---|---|
| `certs`, `next` | the `certificates` table: certificate, whether its key is stored, `parent_id` |
| `servers` | `ca_id` and `cert_id` of each server; 0 stands for text entered by hand |
| `request` | handlers between two statements |
| `raced` | history only: ids that were referred to while a deletion of them ran |

A certificate is a record of its key, the key that signed it, subject, issuer and
use. Key pairs are named by the row they are made for, so two certificates have one
key only if one was imported twice. That is what decides: names repeat, and
`FindParentCertificate` and the chain look for a parent by name and then verify the
signature. Signing is read, compute, insert; a deletion collects the subtree
(`DeleteCertificateHandler`), counts the references of servers for each row
(`CountServerReferencingCertificate`), and deletes row by row, children first
(`DeleteCertificate`), and may fail between any two (`RequestFails`). A save of a
server validates its references first (`ValidateCertReferences`, `SaveServer`).

`certificates` (1.8 million states) has one name that all CAs of the panel share, a
root and a client's certificate made elsewhere of which the root has that name too,
three rows, one server, one writer and one deleter; the depth of a chain is bounded
by 3 in place of 16, so that the longest chain of three rows reaches it. It shows:
a stored parent has signed the row (`ParentSigned`); nothing refers to a deleted
row unless it was written during the deletion (`NoDangling`, which holds at every
moment and after a failure half way because of the order of deletion); the chain
that is shown is that of the parents (`ChainFound`); an exported profile fits the CA in it
(`ExportMatches`).

Bounds: `MaxId` rows are ever inserted, a server refers to at most `MaxRefs` of its two
rows.

Proofs (`CertStoreProofs`), for every set of names, of certificates made elsewhere and of
servers, and any number of rows and handlers:

* `CertTypes`: parents are earlier rows, so they form no cycle. The subtree a deletion
  collects (`Subtree`) and the chain (`Ancestors`, `Chain`) are recursive functions; that
  they exist is shown by induction over row numbers (`LeastNumber`, `Induction`), because the
  rows below a row were inserted after it.
* `ParentsAreSigners`: `ParentSigned` is not inductive, a row is signed by what was read
  before. `SignedInv` adds that what a handler has read of a CA (`KnowsSigner`) is still true
  of the row of that id if there is one: rows never change, and ids are not given again.
  `ExportsMatch` follows from it.
* `NothingDangles`: `DeletionInv` says that what a deletion has still to take is in an order
  in which children come first (`InOrder`), and used by nobody (`Unused`), but for rows
  in `raced`.
* `ChainsAreFound`: the way up is a strictly descending list of rows (`Climbs`), and the walk of
  the handler (`Walk`), which looks for parents by name, follows it row by row: a stored
  parent that verifies comes before any other row of that name.

Assumptions: names are strings, and certificates made elsewhere have keys of their own
(`ForeignKeys`), which no row's key equals.

## 8. Accounts and login sessions (`Accounts`)

| Variable | In the code |
|---|---|
| `users`, `next` | the `users` table: name, password and whether its hash is of the older kind, `disabled`, `expire_at`, TOTP key |
| `sessions` | `memorySessionStore`, per browser |
| `request` | updates and logins between two statements |
| `meant` | history only: each row as administrators left it; unclear once two changes of the same row overlapped |

`UpdateUserInfoHandler` reads the row for the fields a form leaves out,
`UpdateUserInfo` reads it again, `SaveUser` writes all of it, `SetUserMFA` the key
afterwards. A login reads the row (`AuthUser`), replaces an old hash
(`UpgradePassword`) and sets the session (`UserLoginHandler`). Deleting a user leaves
the sessions, and `ActiveSessionUser` looks the row up again at every request.

`accounts` (2.3 million states; names, passwords and secrets symmetric) has two ids, one
user at a time, so that the second is created in place of the first, one browser,
one update and one login in flight, one field per form. `AsMeant`: no login, no
failure and no update of another field changes a row behind an administrator's
back. `SessionOwner`: a session speaks for the account whose password was entered,
also after a user of that name was deleted and created again. `MemoryRuntime` is
FALSE, since with it a login writes nothing.

Overlapping changes are set apart as unclear: the code saves whole rows, so the later
save takes back the earlier change; and a login that upgrades the hash writes
back the password it read, over one an administrator has just set.

Proofs (`AccountsProofs`), for all names, passwords, secrets, and any number of browsers, ids,
updates and logins in flight: `RowsAreMeant` is `AsMeant`. Its invariant `MeantInv` adds the
types of what a handler holds at each stage and `Carried`, that a save has the time the form
asks for. `SessionsAreOwned` is `SessionOwner`. It does not follow from what is stored: `Owned`
says that one function gives every id its owner's name, and that rows, sessions and handlers
agree with it; creating a user extends that function at `next`, an id nobody has in hand.

## 9. Instances: locks, settings, status, logs (`Instances`)

| Variable | In the code |
|---|---|
| `exists`, `listed`, `up` | rows, `ovpnProcessList`, running processes |
| `locks` | `ovpnProcessLock`: the lock each server has now; a deleted and re-created entry is a new lock |
| `request` | each goroutine: the request it serves, how far it is, the lock it waits for or holds |
| `rows`, `ccd`, `lagging` | settings of clients in the table and in the directory; history of servers known to lag behind |
| `clients`, `file` | openvpn's clients, and what its status file says |
| `active`, `archives` | log files and their rotated copies, line by line |
| `written`, `lost` | history only: lines of each log, and those cut by a clear or between copy and truncation |

There is no variable for a lock that is held: who holds `App.lock` or the lock of a
server follows from where each goroutine is (`HoldsApp`, `HoldsServer`). A request takes
`App.lock`, then the server's lock (`Acquire`); updater and rotation take the second
only, on a server they saw in a copy of the list. Status is asked for over the
management socket (`GetStatus`, `StatusAnswered`) or read from the file when that fails;
a client is cut by listing again, finding it and killing it (`GetStatus2`,
`CloseClient`, `ClientKill`). Logs rotate by copy, truncation and pruning; a reader
counts the lines and reads them again.

`instances` (1.5 million states) has one server, two editors (symmetric), one viewer, the
starter, the updater and the rotation, one address two users can get in turn, of whom
one was disabled, and a limit of two lines; three inputs in all. Rotation then happens
with two logs, two archives and a pruned one; an address changes hands between the
status file and the kill. It checks for deadlock of the locks as well.

* `CcdMatches`: when no request is on its way, the directory has what the table has.
  Servers set apart as `lagging`: those whose panel was restarted between row and
  file, and those after the first in one deletion for several servers, which the
  code does not write.
* `LogsKept`: of each log an unbroken newest part is kept.
* `ReadersUndisturbed`: a log is not cut between the two passes of a reader.
* `KicksTheRightUser`: an administrator cuts the session that was shown; the updater
  cuts the certificate it has decided on. That certificate is found by address
  in a status file up to 20 s old, so if the address has changed hands it is that of the
  previous holder, and the disabled user stays until the next round: the property
  names these cases instead of denying them.

The bound `MaxInputs` caps settings, connections, lines and restarts together. An openvpn that accepts a connection and does not answer would
keep `App.lock` for ever (the code sets no deadline); this is a hazard the model leaves out.

Proofs (`InstancesProofs`), for every set of servers, users, addresses, editors and viewers, and
every limit of lines and archives:

* `HeldInvariant`: `LockInv` says what the two levels of locks give. A request waits for, or
  holds, a lock its server has or had (`LocksFetched`); a handler that is inside keeps
  `App.lock`, so its server is not deleted and nor is its lock (`AppKeeps`, `ServersKnown`); a
  start is inside alone (`OneStarter`); two goroutines with the same lock both only read
  (`Excluded`). Rotation and updater are not inside and may hold the lock of a server that
  was deleted.
* `SettingsReachServers` (`CcdMatches`): the list that is about to be written was read before
  and may be old. `CcdInv` says that then another editor is on its way behind it, who
  will read and write again, or the server is set apart as `lagging`.
* `NewerLinesAreKept` (`LogsKept`): `LogInv` relates files and archives, `Kept`: the file goes
  up to the last line written; an archive, from any of its lines on, has all the lines older
  archives have; and what is missing after a line that is there was lost.
* `ReadersAreUndisturbed` (`ReadersUndisturbed`): from `LockInv`, with a case for each way to
  cut a log.
* `KicksAreMeant` (`KicksTheRightUser`): `ClientInv` says that an id is one client's for ever,
  and that who is about to kill an id found it under the certificate, or at the
  connection, that is wanted.

## 10. Entrance and events (`Entrance`, `EventStore`)

`EventStore` has the two implementations of a list of events as operators on
sequences: `CreateEvent` with the limit (`Trimmed`), `ClearServerEvents`, and a page of a
filtered list, from memory (`ListServerEvents`) and from the database
(`QueryEvents`). `Entrance` has the cooldown and who uses it.

| Variable | In the code |
|---|---|
| `now`, `last` | the clock and `cooldownLimiter.last` |
| `request` | `UserAuthInternalHandler` while a password is compared and logged; `ClearCertificateEventHandler` between clearing and its trace |
| `events`, `certEvents` | `eventMemoryStore`, or the tables |
| `table` | history only: the events of servers a table would hold |
| `codes`, `failures`, `cleared`, `counted` | history and bound |

The panel's login and the page of connected clients record an attempt when it is
allowed (`Allow`); openvpn's authentication looks first (`RetryAfter`) and records a
failure after the comparison (`RecordFailure`), so that several may be in flight. A
restart forgets all of it.

`entrance` (0.7 million states) has one user with a second factor, two servers
(symmetric), one authentication and two clearings in flight, an interval of 2, a map
of one entry and lists of two events, time up to 5 and three events. With three
events the limit of two is passed; with one entry the map is pruned at the second key.

* `AttemptsSpaced`: codes of a user are checked an interval apart whichever page asks
  and whatever is pruned; openvpn's attempts not within an interval of a recorded
  failure.
* `EventsAreNewest`: the limit never drops a newer event of a server and keeps an
  older one.
* `PagesAgreeAtRest`: `PagesAgree`, that memory and database show the same pages,
  evaluated in the states where no request runs and the cooldown is empty; the lists do
  not depend on either, and these states have every list. A range with one end is
  exempt: the memory ignores it and the database has no query for it.
* `ClearLeavesTrace`: after a clear of certificate events one of them tells who did it.
  A panel that dies between the two statements leaves none, and the property says
  nothing after a restart.

Proofs (`EntranceProofs`), for all users and servers, any number of authentications in flight,
every interval and every limit of the map and the lists:

* `AttemptsAreSpaced` (`AttemptsSpaced`): `CooldownInv` says that the map has the last check of
  each user's code, and the last failure openvpn was told of, or that their interval is
  over (`Recent`). That is what pruning keeps: it drops an entry only after its interval.
* `ClearingLeavesTrace` (`ClearLeavesTrace`): with the types of the list it is inductive.
* `MemoryIsNewest` (`EventsAreNewest`): it follows from `TailInv`, that the whole list in memory is
  a tail of the table. `EventsAt`, which picks events from a list, is a recursive function; it
  exists by induction over the length, and picks from two lists in a row what it picks
  from each (`EventsAtJoined`), so clearing a server keeps one list a tail of the other.
* `PagesShowTheSame` (`PagesAgree`, `PagesAgreeAtRest`): the two conditions select the same
  events when a range has both ends or none (`FiltersAgree`), and cutting from the reversed
  list or counting from the end gives the same page, of any number and size (`CutsAgree`).

## 11. Not modelled

* Templates of configuration and scripts and which of them is active
  (`api/resource_api.go`, `dao/resource.go`, `default_resource.go`): data that other
  components read as a whole.
* `assets.go`, `resource_sets_assets.go`, the React front end: generated or without state
  of their own on the server.
* Hashes, TOTP, Diffie-Hellman groups, X.509 encoding: results are values or choices
  here; what they compute is out of reach of a model checker.
* `dashboard_api.go`, `status_sort.go`, the text of an exported profile, filters of the
  list of certificates: reads that change nothing.
* The scripts for nftables, and those for hosts without `ipset`: the same steps on other
  kernel objects.
* Command line tools other than those that make the first user.
* A database that fails in the middle of a statement, except where a module says so.

The status of every component, with what is left out of it, is in `PROJECT.json`.

## 12. What is proved and what is not

Proved: all safety properties of the passing runs. No theorem is about `ServerLifecycle`
under all faults except where section 3.4 says so; `SafeFaults` excludes what section 3.1 lists.

Model-checked only:

* Liveness: `WatchdogRestarts`, `TermExits`, `DisconnectReclaims`, `LoginCompletes`,
  `RefusedIsCut`, `ExpiredIsEnded`, `LimitArrives`. The installed provers have neither ENABLED nor
  rules for fairness.
* Freedom from deadlock of the locks in `Instances`, which TLC checks in the run.
* The two properties that are violated, `OfflineReclaims` and `DeleteOwnMemberships`: TLC
  finds the counterexamples.

The provers cannot instantiate an induction theorem with a predicate. Where a proof
needs induction, over row numbers, lengths or sizes, it is done once for sets of numbers
(`LeastNumber`, then `Induction`, `Upwards` or `SizeInduction`) and used with the set of
numbers for which the claim holds.
