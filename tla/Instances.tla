----------------------------- MODULE Instances -----------------------------
(***************************************************************************)
(* What handlers and background tasks do with the running instance of a    *)
(* server: its locks, its management socket, its directory of client       *)
(* settings (ccd) and its log files.                                       *)
(*                                                                         *)
(* App.lock guards the list of instances; every server has a lock of its   *)
(* own besides.  A handler takes App.lock first and then the lock of the   *)
(* server; a background task works on a copy of the list and takes the     *)
(* lock of the server only.  Which lock a goroutine holds follows from how *)
(* far it is (HoldsApp, HoldsServer).                                      *)
(***************************************************************************)
EXTENDS Naturals, Sequences, FiniteSets, SequencesExt

CONSTANTS Servers,     \* servers of the database
          Users,       \* users with a session ...
          Disabled,    \* ... and those who were disabled meanwhile
          Cert,        \* common name of the certificate each user connects with
          Addresses,   \* addresses openvpn gives to clients
          Viewers,     \* slots for requests in flight that look at a server ...
          Editors,     \* ... and that change settings of clients
          MaxLog,      \* max_log_size_kb, in lines; 0 turns rotation off
          MaxInputs    \* bound: how many settings are entered, connections made,
                       \* lines logged and panels restarted, all together

Logs == <<"server", "script">>   \* the activeLogs of RotateLogsFromMisc
LogNames == {"server", "script"}

ASSUME InstancesAssumption ==
    /\ Disabled \subseteq Users /\ DOMAIN Cert = Users
    /\ {MaxLog, MaxInputs} \subseteq Nat
    /\ (Viewers \cup Editors) \cap {"starter", "updater", "rotator"} = {}
    /\ Viewers \cap Editors = {}

\* App.lock lets one goroutine at a time start a server.
Goroutines == Viewers \cup Editors \cup {"starter", "updater", "rotator"}

VARIABLES
    exists,    \* servers with a row in the database
    listed,    \* servers with an instance in ovpnProcessList
    up,        \* servers whose openvpn runs
    locks,     \* number of the lock a server has now in ovpnProcessLock
    request,   \* what each goroutine is doing
    rows,      \* settings of clients in the database
    ccd,       \* settings of clients in the directory of each server
    lagging,   \* history: servers whose ccd was left behind by a restart of the
               \* panel or by a deletion over several servers
    clients,   \* clients of each openvpn, each with its online record
    file,      \* clients as the status file lists them
    seq,       \* how many settings, connections, lines and restarts
    active,    \* lines of each log of each server
    archives,  \* rotated logs of each server, from the oldest
    written,   \* history: how many lines each log was given
    lost       \* history: lines cut between a copy and a truncation, or cleared

serverVars == <<exists, listed, up, locks>>
ccdVars == <<rows, ccd, lagging>>
clientVars == <<clients, file>>
logVars == <<active, archives, written, lost>>
vars == <<serverVars, request, ccdVars, clientVars, seq, logVars>>
\* The bound.
More == seq.config + seq.client + seq.line + seq.restart < MaxInputs
-----------------------------------------------------------------------------
(* Locks *)

Idle == [op |-> "idle"]

ModeRotationReads(op) == IF op \in {"log", "file", "rotate"} THEN "R" ELSE "W"

\* Reading a file shares the lock of the server; the rest excludes.
Mode(op) == IF op \in {"log", "file"} THEN "R" ELSE "W"

\* Handlers keep App.lock until they answer; a start keeps it to itself.
HoldsApp(g) == /\ request[g].op \in {"status", "file", "kick", "log", "config", "start"}
               /\ request[g].pc \notin {"asked", "committed"}
AppFree == ~\E g \in Goroutines : HoldsApp(g)
AppReadable == ~\E g \in Goroutines : HoldsApp(g) /\ request[g].op = "start"

HoldsServer(g) == /\ request[g].op # "idle"
                  /\ request[g].pc \notin {"asked", "committed", "seen", "wait"}

\* The lock of a server with a number may be taken.
LockFree(s, number, mode) ==
    \A g \in Goroutines :
        HoldsServer(g) /\ request[g].server = s /\ request[g].lock = number
            => mode = "R" /\ Mode(request[g].op) = "R"

At(g, op, pc) == request[g].op = op /\ request[g].pc = pc
Goes(g, pc) == request' = [request EXCEPT ![g].pc = pc]
Ends(g) == request' = [request EXCEPT ![g] = Idle]

\* A handler with App.lock is about to take the lock of its server.
Request(op, s) == [op |-> op, server |-> s, pc |-> "wait", lock |-> locks[s]]
Enters(h, q) == request[h] = Idle /\ request' = [request EXCEPT ![h] = q]

\* A background task does so without App.lock.
GetProcessLock(g) ==
    LET q == request[g] IN
    /\ q.op # "idle" /\ q.pc = "seen"
    /\ request' = [request EXCEPT ![g].pc = "wait", ![g].lock = locks[q.server]]
    /\ UNCHANGED <<serverVars, ccdVars, clientVars, seq, logVars>>

Acquire(g) ==
    LET q == request[g] IN
    /\ q.op # "idle" /\ q.pc = "wait"
    /\ LockFree(q.server, q.lock, Mode(q.op))
    /\ Goes(g, "in")
    /\ UNCHANGED <<serverVars, ccdVars, clientVars, seq, logVars>>
-----------------------------------------------------------------------------
(* Servers *)

Init ==
    /\ exists = Servers /\ listed = {} /\ up = {}
    /\ locks = [s \in Servers |-> 1]
    /\ request = [g \in Goroutines |-> Idle]
    /\ rows = {} /\ ccd = [s \in Servers |-> {}] /\ lagging = {}
    /\ clients = [s \in Servers |-> {}] /\ file = [s \in Servers |-> {}]
    /\ seq = [config |-> 0, client |-> 0, line |-> 0, restart |-> 0]
    /\ archives = [s \in Servers |-> <<>>]
    /\ active = [s \in Servers |-> [l \in LogNames |-> <<>>]]
    /\ written = [s \in Servers |-> [l \in LogNames |-> 0]]
    /\ lost = [s \in Servers |-> [l \in LogNames |-> {}]]

ListClientConfig(s) == {r \in rows : r.server = s}

\* Servers behind once a goroutine has written the list it read.
StillLagging(q) ==
    IF q.list = ListClientConfig(q.server) THEN lagging \ {q.server} ELSE lagging

\* A start, by a request or by the watchdog, lists the settings and writes the
\* directory before openvpn runs, which may fail.
StartHandler(s) ==
    /\ AppFree /\ s \in exists
    /\ Enters("starter", Request("start", s))
    /\ UNCHANGED <<serverVars, ccdVars, clientVars, seq, logVars>>

StartRefused ==
    /\ At("starter", "start", "in") /\ request["starter"].server \in up
    /\ Ends("starter")
    /\ UNCHANGED <<serverVars, ccdVars, clientVars, seq, logVars>>

StartLists ==
    LET q == request["starter"] IN
    /\ At("starter", "start", "in") /\ q.server \notin up
    /\ listed' = listed \cup {q.server}
    /\ request' = [request EXCEPT !["starter"] = [op |-> "start", server |-> q.server, pc |-> "listed",
                                          lock |-> q.lock, list |-> ListClientConfig(q.server)]]
    /\ UNCHANGED <<exists, up, locks, ccdVars, clientVars, seq, logVars>>

StartWrites ==
    LET q == request["starter"] IN
    /\ At("starter", "start", "listed")
    /\ ccd' = [ccd EXCEPT ![q.server] = q.list]
    /\ lagging' = StillLagging(q)
    /\ up' \in {up, up \cup {q.server}}
    /\ clients' = [clients EXCEPT ![q.server] = {}]
    /\ Ends("starter")
    /\ UNCHANGED <<exists, listed, locks, rows, file, seq, logVars>>

StopHandler(s) ==
    /\ AppFree /\ s \in listed \cap up
    /\ LockFree(s, locks[s], "W")
    /\ up' = up \ {s} /\ clients' = [clients EXCEPT ![s] = {}]
    /\ UNCHANGED <<exists, listed, locks, request, ccdVars, file, seq, logVars>>

\* Variant for comparison: any server may be deleted.
MayDeleteAny(s) == s \in exists

MayDelete(s) == s \in exists /\ s \notin listed \cap up

\* Its lock is left to the goroutines that have fetched it; the next to ask
\* gets another one, also for a server that is gone.
DeleteHandler(s) ==
    /\ AppFree /\ LockFree(s, locks[s], "R")
    /\ MayDelete(s)
    /\ exists' = exists \ {s} /\ listed' = listed \ {s}
    /\ locks' = [locks EXCEPT ![s] = @ + 1]
    /\ rows' = rows \ ListClientConfig(s)
    /\ ccd' = [ccd EXCEPT ![s] = {}]
    /\ file' = [file EXCEPT ![s] = {}]
    /\ active' = [active EXCEPT ![s] = [l \in LogNames |-> <<>>]]
    /\ archives' = [archives EXCEPT ![s] = <<>>]
    /\ written' = [written EXCEPT ![s] = [l \in LogNames |-> 0]]
    /\ lost' = [lost EXCEPT ![s] = [l \in LogNames |-> {}]]
    /\ UNCHANGED <<up, request, lagging, clients, seq>>

OpenvpnDies(s) ==
    /\ s \in up
    /\ up' = up \ {s} /\ clients' = [clients EXCEPT ![s] = {}]
    /\ UNCHANGED <<exists, listed, locks, request, ccdVars, file, seq, logVars>>

\* With stop_instances_on_exit = false a panel that died takes over the servers
\* that run and leaves their directories alone, but for the scripts.
PanelRestarts ==
    /\ More /\ seq' = [seq EXCEPT !.restart = @ + 1]
    /\ request' = [g \in Goroutines |-> Idle]
    /\ listed' = up
    /\ lagging' = lagging \cup {s \in up : ccd[s] # ListClientConfig(s)}
    /\ UNCHANGED <<exists, up, locks, rows, ccd, clientVars, logVars>>
-----------------------------------------------------------------------------
(* Settings of clients: the row first, and then the directory of a server   *)
(* that runs.                                                               *)

AddClientConfig(h, s, name) ==
    /\ More
    /\ Enters(h, [op |-> "config", server |-> s, pc |-> "committed"])
    /\ rows' = {r \in rows : r.server # s \/ r.name # name}
               \cup {[server |-> s, name |-> name, config |-> seq.config]}
    /\ seq' = [seq EXCEPT !.config = @ + 1]
    /\ UNCHANGED <<serverVars, ccd, lagging, clientVars, logVars>>

\* Of a list of rows only the server of the first is written again.
DeleteClientConfig(h, ids, first) ==
    /\ first \in ids /\ ids \subseteq rows
    /\ Enters(h, [op |-> "config", server |-> first.server, pc |-> "committed"])
    /\ rows' = rows \ ids
    /\ lagging' = lagging \cup ({r.server : r \in ids} \ {first.server})
    /\ UNCHANGED <<serverVars, ccd, clientVars, seq, logVars>>

\* Variant for comparison: the list of instances is read without App.lock.
ConfigEntersUnlocked(h) ==
    LET s == request[h].server IN
    /\ At(h, "config", "committed")
    /\ IF s \in up THEN request' = [request EXCEPT ![h] = Request("config", s)] ELSE Ends(h)
    /\ UNCHANGED <<serverVars, ccdVars, clientVars, seq, logVars>>

ConfigEnters(h) ==
    LET s == request[h].server IN
    /\ At(h, "config", "committed")
    /\ AppReadable
    /\ IF s \in listed THEN request' = [request EXCEPT ![h] = Request("config", s)] ELSE Ends(h)
    /\ UNCHANGED <<serverVars, ccdVars, clientVars, seq, logVars>>

\* Only a server that runs is written; its rows are listed under its lock.
ConfigLists(h) ==
    LET q == request[h] IN
    /\ At(h, "config", "in")
    /\ IF q.server \in up
       THEN request' = [request EXCEPT ![h] = [op |-> "config", server |-> q.server, pc |-> "listed",
                                               lock |-> q.lock, list |-> ListClientConfig(q.server)]]
       ELSE Ends(h)
    /\ UNCHANGED <<serverVars, ccdVars, clientVars, seq, logVars>>

UpdateClientConfig(h) ==
    LET q == request[h] IN
    /\ At(h, "config", "listed")
    /\ ccd' = [ccd EXCEPT ![q.server] = q.list]
    /\ lagging' = StillLagging(q)
    /\ Ends(h)
    /\ UNCHANGED <<serverVars, rows, clientVars, seq, logVars>>
-----------------------------------------------------------------------------
(* The management socket, which answers one connection at a time.           *)

Connected(g) == request[g].op # "idle" /\ request[g].pc \in {"asking", "killing"}

\* What the two tables of a status list make together: the name and the
\* addresses of every client, found by its real address.
ParseStatus(list, routes) ==
    {[id   |-> c.id, cn |-> c.cn,
      vips |-> {r.vip : r \in {q \in routes : q.id = c.id}}] : c \in list}

StatusOf(connected) ==
    ParseStatus({[id |-> c.id, cn |-> Cert[c.user]] : c \in connected},
                {[id |-> c.id, vip |-> c.vip] : c \in connected})

\* The name listed for an address, or else the one in the online record.
CommonNameByVirtualIP(status, c) ==
    LET at == {x \in status : c.vip \in x.vips}
    IN  IF at = {} THEN Cert[c.user] ELSE (CHOOSE x \in at : TRUE).cn

\* Without duplicate-cn a certificate has its newest connection only.
ConnectClient(s, user, vip) ==
    LET others == {c \in clients[s] : Cert[c.user] # Cert[user]} IN
    /\ s \in up /\ More
    /\ \A c \in others : c.vip # vip
    /\ clients' = [clients EXCEPT ![s] = others \cup {[id |-> seq.client, user |-> user, vip |-> vip]}]
    /\ seq' = [seq EXCEPT !.client = @ + 1]
    /\ UNCHANGED <<serverVars, request, ccdVars, file, logVars>>

DisconnectClient(s, c) ==
    /\ c \in clients[s]
    /\ clients' = [clients EXCEPT ![s] = @ \ {c}]
    /\ UNCHANGED <<serverVars, request, ccdVars, file, seq, logVars>>

\* openvpn writes its status file every 20 seconds.
WriteStatusFile(s) ==
    /\ s \in up /\ file[s] # clients[s]
    /\ file' = [file EXCEPT ![s] = clients[s]]
    /\ UNCHANGED <<serverVars, request, ccdVars, clients, seq, logVars>>

StatusHandler(h, s) ==
    /\ AppReadable /\ s \in listed
    /\ Enters(h, Request("status", s))
    /\ UNCHANGED <<serverVars, ccdVars, clientVars, seq, logVars>>

\* A server that is not in the list is refused; App.lock must be readable even so.
StatusRefused(h, s) ==
    /\ AppReadable /\ s \notin listed /\ request[h] = Idle
    /\ UNCHANGED vars

GetStatus(h) ==
    /\ At(h, "status", "in") /\ request[h].server \in up
    /\ Goes(h, "asking")
    /\ UNCHANGED <<serverVars, ccdVars, clientVars, seq, logVars>>

\* The page lists the clients; an administrator may cut one of them later.
StatusAnswered(h) ==
    LET s == request[h].server IN
    /\ At(h, "status", "asking") /\ s \in up
    /\ \/ Ends(h)
       \/ \E c \in clients[s] :
              request' = [request EXCEPT ![h] =
                             [op |-> "kick", server |-> s, pc |-> "asked", want |-> c]]
    /\ UNCHANGED <<serverVars, ccdVars, clientVars, seq, logVars>>

\* Without the socket the status file is read, under the lock for readers.
StatusFromFile(h) ==
    LET q == request[h] IN
    /\ q.op = "status" /\ q.pc \in {"in", "asking"} /\ q.server \notin up
    /\ request' = [request EXCEPT ![h] = [q EXCEPT !.op = "file", !.pc = "wait"]]
    /\ UNCHANGED <<serverVars, ccdVars, clientVars, seq, logVars>>

GetStatusFromFile(h) ==
    /\ At(h, "file", "in")
    /\ Ends(h)
    /\ UNCHANGED <<serverVars, ccdVars, clientVars, seq, logVars>>

CloseClientHandler(h) ==
    LET q == request[h] IN
    /\ At(h, "kick", "asked")
    /\ AppReadable
    /\ IF q.server \in listed
       THEN request' = [request EXCEPT ![h] =
                           [op |-> "kick", server |-> q.server, pc |-> "wait", lock |-> locks[q.server],
                            want |-> q.want, cn |-> ""]]
       ELSE Ends(h)
    /\ UNCHANGED <<serverVars, ccdVars, clientVars, seq, logVars>>

\* The updater reads the status file of a server of its copy of the list and
\* finds an online record of a user who is disabled.
EnforceUserValidity(s, c) ==
    /\ AppReadable /\ s \in listed
    /\ LockFree(s, locks[s], "R")
    /\ c \in clients[s] /\ c.user \in Disabled
    /\ Enters("updater", [op |-> "enforce", server |-> s, pc |-> "seen", lock |-> 0, want |-> c,
                          cn |-> CommonNameByVirtualIP(StatusOf(file[s]), c)])
    /\ UNCHANGED <<serverVars, ccdVars, clientVars, seq, logVars>>

\* Variant for comparison: any client of the list will do.
FindAnyClient(status, q) == status

\* By the name of the certificate, or without one by the real address.
FindClientForKill(status, q) ==
    IF q.op = "enforce" THEN {x \in status : x.cn = q.cn} ELSE {x \in status : x.id = q.want.id}

GetStatus2(g) ==
    LET q == request[g] IN
    /\ q.op \in {"kick", "enforce"} /\ q.pc = "in" /\ q.server \in up
    /\ Goes(g, "asking")
    /\ UNCHANGED <<serverVars, ccdVars, clientVars, seq, logVars>>

\* One connection lists the clients, a second one kills by the id found.
CloseClient(g) ==
    LET q == request[g]
        found == FindClientForKill(StatusOf(clients[q.server]), q)
    IN  /\ q.op \in {"kick", "enforce"} /\ q.pc = "asking" /\ q.server \in up
        /\ IF found = {} THEN Ends(g)
           ELSE \E x \in found :
                    request' = [request EXCEPT ![g] = [op |-> q.op, server |-> q.server, pc |-> "killing",
                                                       lock |-> q.lock, want |-> q.want, cn |-> q.cn,
                                                       id |-> x.id]]
        /\ UNCHANGED <<serverVars, ccdVars, clientVars, seq, logVars>>

ClientKill(g) ==
    LET q == request[g] IN
    /\ q.op \in {"kick", "enforce"} /\ q.pc = "killing" /\ q.server \in up
    /\ clients' = [clients EXCEPT ![q.server] = {c \in @ : c.id # q.id}]
    /\ Ends(g)
    /\ UNCHANGED <<serverVars, ccdVars, file, seq, logVars>>

\* openvpn is gone: connecting, or reading the answer, fails.
KillFails(g) ==
    LET q == request[g] IN
    /\ q.op \in {"kick", "enforce"} /\ q.pc \in {"in", "asking", "killing"} /\ q.server \notin up
    /\ Ends(g)
    /\ UNCHANGED <<serverVars, ccdVars, clientVars, seq, logVars>>
-----------------------------------------------------------------------------
(* Log files.  A line is its number; the lines of a log are in its archives *)
(* and in the file that is written.                                         *)

\* openvpn, or a script it runs, appends a line and asks nobody.
WriteLine(s, l) ==
    /\ s \in up /\ More
    /\ written' = [written EXCEPT ![s][l] = @ + 1]
    /\ active' = [active EXCEPT ![s][l] = Append(@, written[s][l] + 1)]
    /\ seq' = [seq EXCEPT !.line = @ + 1]
    /\ UNCHANGED <<serverVars, request, ccdVars, clientVars, archives, lost>>

Lines(list) == FoldLeft(LAMBDA n, a : n + Len(a.lines), 0, list)

Size(s) == Len(active[s]["server"]) + Len(active[s]["script"]) + Lines(archives[s])

Archived(s, l) == UNION {ToSet(a.lines) : a \in {b \in ToSet(archives[s]) : b.log = l}}

\* rotateAllServerLogs on a server of its copy of the list.
RotationDue(s) ==
    /\ MaxLog > 0
    /\ AppReadable /\ s \in listed
    /\ Enters("rotator", [op |-> "rotate", server |-> s, pc |-> "seen", lock |-> 0, log |-> 1])
    /\ UNCHANGED <<serverVars, ccdVars, clientVars, seq, logVars>>

RotationNotDue ==
    /\ At("rotator", "rotate", "in") /\ Size(request["rotator"].server) < MaxLog
    /\ Ends("rotator")
    /\ UNCHANGED <<serverVars, ccdVars, clientVars, seq, logVars>>

\* The next log to archive, if it has lines; after the last one, pruning.
RotateSkips ==
    LET q == request["rotator"] IN
    /\ \/ At("rotator", "rotate", "in") /\ Size(q.server) >= MaxLog
       \/ At("rotator", "rotate", "next")
    /\ q.log <= Len(Logs) => active[q.server][Logs[q.log]] = <<>>
    /\ request' = [request EXCEPT !["rotator"] =
                      IF q.log > Len(Logs) THEN [q EXCEPT !.pc = "prune"]
                      ELSE [q EXCEPT !.pc = "next", !.log = @ + 1]]
    /\ UNCHANGED <<serverVars, ccdVars, clientVars, seq, logVars>>

\* copyTruncate copies first ...
RotateCopies ==
    LET q == request["rotator"]
        l == Logs[q.log]
    IN  /\ \/ At("rotator", "rotate", "in") /\ Size(q.server) >= MaxLog
           \/ At("rotator", "rotate", "next")
        /\ q.log <= Len(Logs)
        /\ active[q.server][l] # <<>>
        /\ archives' = [archives EXCEPT ![q.server] = Append(@, [log |-> l, lines |-> active[q.server][l]])]
        /\ Goes("rotator", "copied")
        /\ UNCHANGED <<serverVars, ccdVars, clientVars, seq, active, written, lost>>

\* ... and then truncates: a line written in between is in neither.
RotateTruncates ==
    LET q == request["rotator"]
        l == Logs[q.log]
    IN  /\ At("rotator", "rotate", "copied")
        /\ active' = [active EXCEPT ![q.server][l] = <<>>]
        /\ lost' = [lost EXCEPT ![q.server][l] =
                       @ \cup (ToSet(active[q.server][l]) \ Archived(q.server, l))]
        /\ request' = [request EXCEPT !["rotator"].pc = "next", !["rotator"].log = @ + 1]
        /\ UNCHANGED <<serverVars, ccdVars, clientVars, seq, archives, written>>

\* The limit after a rotation, 80 percent of the limit that starts one.
Fits(s, list) ==
    Lines(list) + Len(active[s]["server"]) + Len(active[s]["script"]) <= (MaxLog * 80) \div 100

\* Variant for comparison: the newest archives go first.
PrunedNewest(s) ==
    LET n == Len(archives[s])
        enough == {k \in 1 .. n : k = 1 \/ Fits(s, SubSeq(archives[s], 1, k))}
    IN  IF n = 0 THEN <<>> ELSE SubSeq(archives[s], 1, CHOOSE k \in enough : \A j \in enough : j <= k)

\* The archives that remain: the oldest go until the rest fits, or is one.
Pruned(s) ==
    LET n == Len(archives[s])
        enough == {k \in 1 .. n : k = n \/ Fits(s, SubSeq(archives[s], k, n))}
    IN  IF n = 0 THEN <<>> ELSE SubSeq(archives[s], CHOOSE k \in enough : \A j \in enough : k <= j, n)

RotatePrunes ==
    LET s == request["rotator"].server IN
    /\ At("rotator", "rotate", "prune")
    /\ archives' = [archives EXCEPT ![s] = Pruned(s)]
    /\ Ends("rotator")
    /\ UNCHANGED <<serverVars, ccdVars, clientVars, seq, active, written, lost>>

\* A page of a log: the lines are counted first and read again afterwards.
GetLogHandler(h, s, l) ==
    /\ AppReadable /\ s \in listed \cup exists
    /\ Enters(h, [op |-> "log", server |-> s, pc |-> "wait", lock |-> locks[s], log |-> l])
    /\ UNCHANGED <<serverVars, ccdVars, clientVars, seq, logVars>>

GetLineOffsets(h) ==
    /\ At(h, "log", "in")
    /\ Goes(h, "counted")
    /\ UNCHANGED <<serverVars, ccdVars, clientVars, seq, logVars>>

GetFileContent(h) ==
    /\ At(h, "log", "counted")
    /\ Ends(h)
    /\ UNCHANGED <<serverVars, ccdVars, clientVars, seq, logVars>>

\* A server that is not in the list gets an instance for it.
ClearLogHandler(s, l) ==
    /\ AppFree /\ s \in listed \cup exists
    /\ LockFree(s, locks[s], "W")
    /\ listed' = listed \cup {s}
    /\ lost' = [lost EXCEPT ![s][l] = @ \cup (ToSet(active[s][l]) \ Archived(s, l))]
    /\ active' = [active EXCEPT ![s][l] = <<>>]
    /\ UNCHANGED <<exists, up, locks, request, ccdVars, clientVars, seq, archives, written>>
-----------------------------------------------------------------------------
OfServer(s) ==
    \/ StopHandler(s) \/ DeleteHandler(s) \/ OpenvpnDies(s) \/ WriteStatusFile(s)
    \/ RotationDue(s)
    \/ \E c \in clients[s] : DisconnectClient(s, c) \/ EnforceUserValidity(s, c)
    \/ \E user \in Users, vip \in Addresses : ConnectClient(s, user, vip)
    \/ \E l \in LogNames : WriteLine(s, l) \/ ClearLogHandler(s, l)

OfEditor(h) ==
    \/ \E s \in Servers, user \in Users : AddClientConfig(h, s, Cert[user])
    \/ \E ids \in SUBSET rows : \E first \in ids : DeleteClientConfig(h, ids, first)
    \/ ConfigEnters(h) \/ ConfigLists(h) \/ UpdateClientConfig(h)

OfViewer(h) ==
    \/ \E s \in Servers : \/ StatusHandler(h, s) \/ StatusRefused(h, s)
                          \/ \E l \in LogNames : GetLogHandler(h, s, l)
    \/ GetStatus(h) \/ StatusAnswered(h) \/ StatusFromFile(h) \/ GetStatusFromFile(h)
    \/ CloseClientHandler(h) \/ GetLineOffsets(h) \/ GetFileContent(h)

OfStarter ==
    \/ \E s \in Servers : StartHandler(s)
    \/ StartRefused \/ StartLists \/ StartWrites

OfRotator ==
    RotationNotDue \/ RotateSkips \/ RotateCopies \/ RotateTruncates \/ RotatePrunes

Next ==
    \/ \E s \in Servers : OfServer(s)
    \/ \E h \in Editors : OfEditor(h)
    \/ \E h \in Viewers : OfViewer(h)
    \/ \E g \in Goroutines : \/ GetProcessLock(g) \/ Acquire(g)
                             \/ GetStatus2(g) \/ CloseClient(g) \/ ClientKill(g) \/ KillFails(g)
    \/ OfStarter \/ OfRotator \/ PanelRestarts

Spec == Init /\ [][Next]_vars
-----------------------------------------------------------------------------
(* Properties *)

Clients == [id : 0 .. MaxInputs, user : Users, vip : Addresses]
Configs == [server : Servers, name : {Cert[u] : u \in Users}, config : 0 .. MaxInputs]

\* Every variable has its type; a goroutine waits for a lock with a number its
\* server has or had.
TypeOK ==
    /\ exists \subseteq Servers /\ listed \subseteq Servers /\ up \subseteq listed
    /\ locks \in [Servers -> 1 .. 2]
    /\ \A g \in Goroutines :
          /\ request[g].op \in {"idle", "start", "config", "status", "file", "kick", "enforce",
                                "log", "rotate"}
          /\ HoldsServer(g) => request[g].lock \in 1 .. locks[request[g].server]
    /\ rows \subseteq Configs
    /\ ccd \in [Servers -> SUBSET Configs] /\ lagging \subseteq Servers
    /\ clients \in [Servers -> SUBSET Clients] /\ file \in [Servers -> SUBSET Clients]
    /\ seq \in [{"config", "client", "line", "restart"} -> 0 .. MaxInputs]
    /\ \A s \in Servers, l \in LogNames :
          ToSet(active[s][l]) \cup Archived(s, l) \cup lost[s][l] \subseteq 1 .. written[s][l]

\* Unless a request is still on its way, a server that runs has exactly the
\* settings of the database in its directory, whatever starts and other requests
\* came between the row and the file.
CcdMatches ==
    \A s \in up \ lagging :
        ccd[s] = ListClientConfig(s)
        \/ \E h \in Editors : request[h].op = "config" /\ request[h].server = s

\* Rotation drops the oldest lines of a log: what was written after a line that is
\* kept is kept, but for lines that were cleared or written between the copy
\* and the truncation.
LogsKept ==
    \A s \in Servers, l \in LogNames :
        LET kept == ToSet(active[s][l]) \cup Archived(s, l)
        IN  \A i \in kept : i .. written[s][l] \subseteq kept \cup lost[s][l]

\* Between the two passes over a log it only grows, so the lines that are sent
\* are the lines that were counted.
ReadersUndisturbed ==
    [][\A h \in Viewers :
           At(h, "log", "counted") =>
               LET q == request[h]
               IN  IsPrefix(active[q.server][q.log], active'[q.server][q.log])]_vars

\* The clients a goroutine cuts with this step.
Cut(g) ==
    LET q == request[g] IN
    IF q.op \in {"kick", "enforce"} /\ q.pc = "killing" /\ request'[g] = Idle
    THEN clients[q.server] \ clients'[q.server] ELSE {}

\* An administrator cuts the very session the page showed.  The updater cuts a
\* session of the certificate of the disabled user, if the status file showed
\* that certificate at the user's address.
KicksTheRightUser ==
    [][\A g \in Goroutines : \A c \in Cut(g) :
           LET q == request[g]
           IN  IF q.op = "kick" THEN c = q.want
               ELSE q.cn = Cert[q.want.user] => Cert[c.user] = q.cn]_vars
=============================================================================
