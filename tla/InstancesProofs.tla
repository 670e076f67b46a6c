--------------------------- MODULE InstancesProofs --------------------------
(***************************************************************************)
(* Proofs about Instances for every set of servers, users, addresses and   *)
(* handlers in flight.                                                     *)
(*                                                                         *)
(* LockInv says who holds which lock; CcdInv, ClientInv and LogInv rest on *)
(* it and say what the holder finds in the directory of client settings,   *)
(* among the clients of openvpn and in the log files.                      *)
(***************************************************************************)
EXTENDS Instances, WellFoundedInduction, TLAPS

-----------------------------------------------------------------------------
(* What goroutines hold.                                                   *)

CertNames == {Cert[u] : u \in Users} \cup {""}

Plain(op, pcs) == [op : {op}, server : Servers, pc : pcs, lock : Nat]
Listing(op) == [op : {op}, server : Servers, pc : {"listed"}, lock : Nat, list : SUBSET Configs]
Finding(op, pcs) ==
  [op : {op}, server : Servers, pc : pcs, lock : Nat, want : Clients, cn : CertNames]
Killing(op) ==
  [op : {op}, server : Servers, pc : {"killing"}, lock : Nat, want : Clients, cn : CertNames, id : 0 .. MaxInputs]

Starting == Plain("start", {"wait", "in"}) \cup Listing("start")

Configuring ==
  [op : {"config"}, server : Servers, pc : {"committed"}] \cup Plain("config", {"wait", "in"}) \cup Listing("config")

Viewing ==
  Plain("status", {"wait", "in", "asking"}) \cup Plain("file", {"wait", "in"})
    \cup [op : {"kick"}, server : Servers, pc : {"asked"}, want : Clients]
    \cup Finding("kick", {"wait", "in", "asking"}) \cup Killing("kick")
    \cup [op : {"log"}, server : Servers, pc : {"wait", "in", "counted"}, lock : Nat, log : LogNames]

Enforcing == Finding("enforce", {"seen", "wait", "in", "asking"}) \cup Killing("enforce")

Rotating ==
  [op : {"rotate"}, server : Servers, pc : {"seen", "wait", "in", "next", "prune"}, lock : Nat, log : 1 .. 3]
    \cup [op : {"rotate"}, server : Servers, pc : {"copied"}, lock : Nat, log : 1 .. 2]

Tasks(g) ==
  {Idle} \cup (IF g \in Editors THEN Configuring ELSE IF g \in Viewers THEN Viewing
               ELSE IF g = "starter" THEN Starting ELSE IF g = "updater" THEN Enforcing ELSE Rotating)

Shaped == request = [g \in Goroutines |-> request[g]] /\ \A g \in Goroutines : request[g] \in Tasks(g)

\* HoldsApp and HoldsServer of what a goroutine is doing; and whether it has
\* fetched the lock of its server.
InApp(q) == /\ q.op \in {"status", "file", "kick", "log", "config", "start"}
            /\ q.pc \notin {"asked", "committed"}
Holding(q) == q.op # "idle" /\ q.pc \notin {"asked", "committed", "seen", "wait"}
Fetched(q) == q.op # "idle" /\ q.pc \notin {"asked", "committed", "seen"}

\* Servers that run are listed, those listed exist, and a server gets another
\* lock only when it is deleted.
ServersKnown ==
  /\ exists \subseteq Servers /\ listed \subseteq exists /\ up \subseteq listed
  /\ locks = [s \in Servers |-> IF s \in exists THEN 1 ELSE 2]

LocksFetched == \A g \in Goroutines : Fetched(request[g]) => request[g].lock \in 1 .. locks[request[g].server]

\* Under App.lock no server is deleted, and none leaves the list.
AppKeeps ==
  /\ \A g \in Goroutines : InApp(request[g]) => request[g].server \in exists
  /\ \A h \in Editors : InApp(request[h]) => request[h].server \in listed
  /\ At("starter", "start", "listed") => request["starter"].server \in listed

\* A start has App.lock to itself.
OneStarter ==
  InApp(request["starter"]) => \A g \in Goroutines : InApp(request[g]) => g = "starter"

\* Who holds the same lock of the same server shares it for reading.
Excluded ==
  \A g, k \in Goroutines :
     /\ g # k /\ Holding(request[g]) /\ Holding(request[k])
     /\ request[g].server = request[k].server /\ request[g].lock = request[k].lock
     => Mode(request[g].op) = "R" /\ Mode(request[k].op) = "R"

LockInv == Shaped /\ ServersKnown /\ LocksFetched /\ AppKeeps /\ OneStarter /\ Excluded

\* Settings and clients are of their kinds.
Data ==
  /\ rows \subseteq Configs /\ ccd \in [Servers -> SUBSET Configs] /\ lagging \subseteq Servers
  /\ clients \in [Servers -> SUBSET Clients] /\ file \in [Servers -> SUBSET Clients]
  /\ seq \in [{"config", "client", "line", "restart"} -> 0 .. MaxInputs]

-----------------------------------------------------------------------------
(* What they find.                                                         *)

\* Who writes a list of settings has listed all of them, or another request is
\* on its way that will.
CatchingUp(q, pcs) ==
  \/ q.list = ListClientConfig(q.server) \/ q.server \in lagging
  \/ \E h \in Editors : request[h].op = "config" /\ request[h].pc \in pcs /\ request[h].server = q.server

CcdInv ==
  /\ At("starter", "start", "listed") => CatchingUp(request["starter"], {"committed"})
  /\ \A h \in Editors : At(h, "config", "listed") => CatchingUp(request[h], {"committed", "wait", "in"})
  /\ CcdMatches

\* An id is that of one client ever, and what a goroutine wants to kill by it
\* has the name it was found by.
IdsUnique ==
  \A s, t \in Servers : \A c \in clients[s] :
     c.id < seq.client /\ \A d \in clients[t] : c.id = d.id => c = d

Sure(q) ==
  /\ q.op = "kick" =>
        /\ q.want.id < seq.client
        /\ \A s \in Servers : \A c \in clients[s] : c.id = q.want.id => c = q.want
        /\ q.pc = "killing" => q.id = q.want.id
  /\ q.op = "enforce" /\ q.pc = "killing" =>
        /\ q.id < seq.client
        /\ \A s \in Servers : \A c \in clients[s] : c.id = q.id => Cert[c.user] = q.cn

ClientInv == IdsUnique /\ \A g \in Goroutines : Sure(request[g])

\* The lines of an archive, if it is one of a log; those of a list of archives.
LinesOf(a, l) == IF a.log = l THEN ToSet(a.lines) ELSE {}
Within(list, l) == {x \in Nat : \E k \in 1 .. Len(list) : x \in LinesOf(list[k], l)}

Archives == Seq([log : LogNames, lines : Seq(Nat)])

Logged ==
  /\ active \in [Servers -> [LogNames -> Seq(Nat)]] /\ archives \in [Servers -> Archives]
  /\ written \in [Servers -> [LogNames -> Nat]] /\ lost \in [Servers -> [LogNames -> SUBSET Nat]]

\* Of a log with the lines a in its file and those of a list of archives, w having
\* been written: the file goes up to the last line, an archive from any of its
\* lines on has what the older archives have, and what is missing after a line
\* that is there was lost.
Kept(a, list, w, gone, l) ==
  /\ a \cup Within(list, l) \cup gone \subseteq 1 .. w
  /\ \A i \in a : i .. w \subseteq a
  /\ \A k \in 1 .. Len(list) : \A j \in 1 .. k - 1 :
        \A x \in LinesOf(list[j], l), y \in LinesOf(list[k], l) : y <= x => x \in LinesOf(list[k], l)
  /\ \A i \in a \cup Within(list, l) : i .. w \subseteq a \cup Within(list, l) \cup gone

LogInv ==
  /\ Logged
  /\ \A s \in Servers, l \in LogNames : Kept(ToSet(active[s][l]), archives[s], written[s][l], lost[s][l], l)

-----------------------------------------------------------------------------
(* Which goroutine does what.                                              *)

LEMMA Kinds ==
  ASSUME Shaped
  PROVE  /\ \A h \in Editors : h \in Goroutines /\ h # "starter" /\ request[h] \in {Idle} \cup Configuring
         /\ \A h \in Viewers : h \in Goroutines /\ h # "starter" /\ h \notin Editors /\ request[h] \in {Idle} \cup Viewing
         /\ "starter" \in Goroutines /\ "starter" \notin Editors /\ request["starter"] \in {Idle} \cup Starting
         /\ "updater" \in Goroutines /\ "updater" \notin Editors /\ request["updater"] \in {Idle} \cup Enforcing
         /\ "rotator" \in Goroutines /\ "rotator" \notin Editors /\ request["rotator"] \in {Idle} \cup Rotating
         /\ \A g \in Goroutines : \/ g \in Editors \/ g \in Viewers
                                  \/ g \in {"starter", "updater", "rotator"}
<1>1. \A g \in {"starter", "updater", "rotator"} : g \in Goroutines /\ g \notin Editors /\ g \notin Viewers
  BY InstancesAssumption DEF Goroutines
<1>2. \A h \in Viewers : h \in Goroutines /\ h \notin Editors /\ h # "starter"
  BY <1>1, InstancesAssumption DEF Goroutines
<1>3. \A h \in Editors : h \in Goroutines /\ h # "starter"
  BY <1>1 DEF Goroutines
<1>4. \A g \in Goroutines : request[g] \in Tasks(g)
  BY DEF Shaped
<1> HIDE DEF Goroutines
<1>5. \A h \in Editors : request[h] \in {Idle} \cup Configuring
  BY <1>3, <1>4 DEF Tasks
<1>6. \A h \in Viewers : request[h] \in {Idle} \cup Viewing
  BY <1>2, <1>4 DEF Tasks
<1>7. request["starter"] \in {Idle} \cup Starting
  BY <1>1, <1>4 DEF Tasks
<1>8. request["updater"] \in {Idle} \cup Enforcing
  BY <1>1, <1>4 DEF Tasks
<1>9. request["rotator"] \in {Idle} \cup Rotating
  BY <1>1, <1>4 DEF Tasks
<1>10. \A g \in Goroutines : g \in Editors \/ g \in Viewers \/ g \in {"starter", "updater", "rotator"}
  BY DEF Goroutines
<1> QED
  BY <1>1, <1>2, <1>3, <1>5, <1>6, <1>7, <1>8, <1>9, <1>10

\* The fields of what is held, by operation.
LEMMA Fields ==
  /\ \A q \in Configuring : /\ q.op = "config" /\ q.server \in Servers
                            /\ q.pc \in {"committed", "wait", "in", "listed"}
                            /\ q.pc # "committed" => q.lock \in Nat
                            /\ q.pc = "listed" => q.list \in SUBSET Configs
  /\ \A q \in Starting : /\ q.op = "start" /\ q.server \in Servers /\ q.lock \in Nat
                         /\ q.pc \in {"wait", "in", "listed"}
                         /\ q.pc = "listed" => q.list \in SUBSET Configs
  /\ \A q \in Enforcing : /\ q.op = "enforce" /\ q.server \in Servers /\ q.lock \in Nat
                          /\ q.pc \in {"seen", "wait", "in", "asking", "killing"}
                          /\ q.want \in Clients /\ q.cn \in CertNames
                          /\ q.pc = "killing" => q \in Killing("enforce")
                          /\ q.pc # "killing" => q \in Finding("enforce", {"seen", "wait", "in", "asking"})
  /\ \A q \in Rotating : /\ q.op = "rotate" /\ q.server \in Servers /\ q.lock \in Nat
                         /\ q.pc \in {"seen", "wait", "in", "next", "prune", "copied"}
                         /\ q.log \in 1 .. 3 /\ (q.pc = "copied" => q.log \in 1 .. 2)
  BY DEF Configuring, Starting, Enforcing, Rotating, Plain, Listing, Finding, Killing

LEMMA ViewingFields ==
  ASSUME NEW q \in Viewing
  PROVE  /\ q.server \in Servers /\ q.op \in {"status", "file", "kick", "log"}
         /\ q.op = "status" => q \in Plain("status", {"wait", "in", "asking"})
         /\ q.op = "file" => q \in Plain("file", {"wait", "in"})
         /\ q.op = "kick" => \/ q \in [op : {"kick"}, server : Servers, pc : {"asked"}, want : Clients]
                             \/ q \in Finding("kick", {"wait", "in", "asking"})
                             \/ q \in Killing("kick")
         /\ q.op = "log" => q \in [op : {"log"}, server : Servers, pc : {"wait", "in", "counted"}, lock : Nat, log : LogNames]
         /\ q.pc # "asked" => q.lock \in Nat
  BY DEF Viewing, Plain, Finding, Killing

LEMMA Operations ==
  ASSUME Shaped, NEW g \in Goroutines
  PROVE  /\ request[g].op \in {"idle", "start", "config", "status", "file", "kick", "enforce", "log", "rotate"}
         /\ request[g].op # "idle" => request[g].server \in Servers
         /\ Fetched(request[g]) => request[g].lock \in Nat
         /\ request[g].op = "start" => g = "starter"
         /\ request[g].op = "config" => g \in Editors
         /\ request[g].op \in {"status", "file", "kick", "log"} => g \in Viewers
         /\ request[g].op = "enforce" => g = "updater"
         /\ request[g].op = "rotate" => g = "rotator"
         /\ request[g].op = "idle" => request[g] = Idle
<1> DEFINE q == request[g]
<1> HIDE DEF q
<1>1. CASE g \in Editors
  <2>1. q \in {Idle} \cup Configuring
    BY <1>1, Kinds DEF q
  <2> QED
    BY <1>1, <2>1, Fields DEF q, Idle, Fetched
<1>2. CASE g \in Viewers
  <2>1. q \in {Idle} \cup Viewing
    BY <1>2, Kinds DEF q
  <2> QED
    BY <1>2, <2>1, ViewingFields DEF q, Idle, Fetched
<1>3. CASE g = "starter"
  <2>1. q \in {Idle} \cup Starting
    BY <1>3, Kinds DEF q
  <2> QED
    BY <1>3, <2>1, Fields DEF q, Idle, Fetched
<1>4. CASE g = "updater"
  <2>1. q \in {Idle} \cup Enforcing
    BY <1>4, Kinds DEF q
  <2> QED
    BY <1>4, <2>1, Fields DEF q, Idle, Fetched
<1>5. CASE g = "rotator"
  <2>1. q \in {Idle} \cup Rotating
    BY <1>5, Kinds DEF q
  <2> QED
    BY <1>5, <2>1, Fields DEF q, Idle, Fetched
<1> QED
  BY <1>1, <1>2, <1>3, <1>4, <1>5, Kinds

-----------------------------------------------------------------------------
(* Steps keep who holds what.                                              *)

LEMMA InitLock == Init => LockInv
<1> SUFFICES ASSUME Init PROVE LockInv
  OBVIOUS
<1>1. \A g \in Goroutines : request[g] = Idle
  BY DEF Init
<1>2. Shaped
  BY <1>1 DEF Init, Shaped, Tasks
<1>3. ServersKnown
  BY DEF Init, ServersKnown
<1>4. "starter" \in Goroutines /\ \A h \in Editors : h \in Goroutines
  BY DEF Goroutines
<1> QED
  BY <1>1, <1>2, <1>3, <1>4 DEF LockInv, LocksFetched, AppKeeps, OneStarter, Excluded, Idle, Fetched, InApp, Holding, At

\* Servers come to the list; goroutines go on with what they do.
LEMMA StillLocked ==
  ASSUME LockInv, UNCHANGED <<exists, locks, request>>,
         listed \subseteq listed', listed' \subseteq exists, up' \subseteq listed'
  PROVE  LockInv'
<1>1. Shaped' /\ LocksFetched' /\ OneStarter' /\ Excluded'
  BY DEF LockInv, Shaped, LocksFetched, OneStarter, Excluded
<1>2. ServersKnown'
  BY DEF LockInv, ServersKnown
<1>3. AppKeeps'
  BY DEF LockInv, AppKeeps, At
<1> QED
  BY <1>1, <1>2, <1>3 DEF LockInv

\* One goroutine goes on: with the lock it has, a lock that was free, or none.
LEMMA Moved ==
  ASSUME LockInv, UNCHANGED <<exists, locks>>,
         listed \subseteq listed', listed' \subseteq exists, up' \subseteq listed',
         NEW g \in Goroutines, NEW q \in Tasks(g), request' = [request EXCEPT ![g] = q],
         Fetched(q) => q.lock \in 1 .. locks[q.server],
         InApp(q) => q.server \in exists /\ (g \in Editors \/ q.pc = "listed" => q.server \in listed'),
         InApp(q) => InApp(request[g]) \/ (IF g = "starter" THEN AppFree ELSE AppReadable),
         g # "starter" => q.op # "start",
         Holding(q) =>
            \/ /\ Holding(request[g]) /\ request[g].server = q.server /\ request[g].lock = q.lock
               /\ Mode(request[g].op) = Mode(q.op)
            \/ LockFree(q.server, q.lock, Mode(q.op))
  PROVE  LockInv'
<1> USE DEF LockInv
<1>1. \A k \in Goroutines : request'[k] = IF k = g THEN q ELSE request[k]
  BY DEF Shaped
<1>2. Shaped'
  BY <1>1 DEF Shaped, Tasks
<1>3. ServersKnown'
  BY DEF ServersKnown
<1>4. LocksFetched'
  BY <1>1 DEF LocksFetched
<1>5. AppKeeps'
  <2>1. \A k \in Goroutines : InApp(request'[k]) => request'[k].server \in exists
    BY <1>1 DEF AppKeeps
  <2>2. \A h \in Editors : h \in Goroutines
    BY Kinds
  <2>3. \A h \in Editors : InApp(request'[h]) => request'[h].server \in listed'
    BY <1>1, <2>2 DEF AppKeeps
  <2>4. At("starter", "start", "listed")' => request'["starter"].server \in listed'
    BY <1>1, Kinds DEF AppKeeps, At, InApp
  <2> QED
    BY <2>1, <2>3, <2>4 DEF AppKeeps
<1>6. OneStarter'
  <2>1. "starter" \in Goroutines
    BY Kinds
  <2>2. InApp(request["starter"]) => request["starter"].op = "start"
    BY <2>1, Fields, Kinds DEF InApp, Idle
  <2>3. CASE InApp(q)
    <3>1. CASE InApp(request[g])
      BY <1>1, <2>1, <2>3, <3>1 DEF OneStarter
    <3>2. CASE g = "starter" /\ AppFree
      BY <1>1, <2>1, <3>2 DEF OneStarter, AppFree, HoldsApp, InApp
    <3>3. CASE g # "starter" /\ AppReadable
      <4>1. ~InApp(request["starter"])
        BY <2>1, <2>2, <3>3 DEF AppReadable, HoldsApp, InApp
      <4> QED
        BY <1>1, <2>1, <3>3, <4>1 DEF OneStarter
    <3> QED
      BY <2>3, <3>1, <3>2, <3>3
  <2>4. CASE ~InApp(q)
    BY <1>1, <2>1, <2>4 DEF OneStarter
  <2> QED
    BY <2>3, <2>4
<1>7. Excluded'
  <2>1. ASSUME NEW k \in Goroutines, k # g, Holding(q), Holding(request[k]),
               request[k].server = q.server, request[k].lock = q.lock
        PROVE  Mode(q.op) = "R" /\ Mode(request[k].op) = "R"
    <3>1. CASE LockFree(q.server, q.lock, Mode(q.op))
      BY <2>1, <3>1 DEF LockFree, HoldsServer, Holding
    <3>2. CASE /\ Holding(request[g]) /\ request[g].server = q.server /\ request[g].lock = q.lock
               /\ Mode(request[g].op) = Mode(q.op)
      BY <2>1, <3>2 DEF Excluded
    <3> QED
      BY <2>1, <3>1, <3>2
  <2>2. \A k, m \in Goroutines : k # g /\ m # g => request'[k] = request[k] /\ request'[m] = request[m]
    BY <1>1
  <2> QED
    BY <1>1, <2>1, <2>2 DEF Excluded
<1> QED
  BY <1>2, <1>3, <1>4, <1>5, <1>6, <1>7

LEMMA Stops ==
  ASSUME LockInv, UNCHANGED <<exists, locks>>,
         listed \subseteq listed', listed' \subseteq exists, up' \subseteq listed',
         NEW g \in Goroutines, request' = [request EXCEPT ![g] = Idle]
  PROVE  LockInv'
<1>1. Idle \in Tasks(g) /\ ~Fetched(Idle) /\ ~InApp(Idle) /\ ~Holding(Idle) /\ Idle.op # "start"
  BY DEF Tasks, Idle, Fetched, InApp, Holding
<1> QED
  BY <1>1, Moved

LEMMA Continues ==
  ASSUME LockInv, UNCHANGED <<exists, locks>>,
         listed \subseteq listed', listed' \subseteq exists, up' \subseteq listed',
         NEW g \in Goroutines, NEW q \in Tasks(g), request' = [request EXCEPT ![g] = q],
         Holding(request[g]), q.op = request[g].op, q.server = request[g].server, q.lock = request[g].lock,
         q.pc = "listed" => q.server \in listed'
  PROVE  LockInv'
<1>1. request[g].lock \in 1 .. locks[request[g].server]
  BY DEF LockInv, LocksFetched, Fetched, Holding
<1>2. InApp(q) => InApp(request[g])
  BY DEF InApp, Holding
<1>3. InApp(q) => q.server \in exists /\ (g \in Editors => q.server \in listed')
  BY <1>2 DEF LockInv, AppKeeps
<1>4. g # "starter" => q.op # "start"
  BY Operations DEF LockInv
<1> QED
  BY <1>1, <1>2, <1>3, <1>4, Moved

\* A handler takes App.lock and is about to take the lock of its server.
LEMMA EntersApp ==
  ASSUME LockInv, UNCHANGED <<exists, locks, listed, up>>,
         NEW g \in Goroutines, NEW q \in Tasks(g), request' = [request EXCEPT ![g] = q],
         q.pc = "wait", q.lock = locks[q.server], q.server \in exists,
         g \in Editors => q.server \in listed,
         IF g = "starter" THEN AppFree ELSE AppReadable, g # "starter" => q.op # "start"
  PROVE  LockInv'
<1>1. q.lock \in 1 .. locks[q.server]
  BY DEF LockInv, ServersKnown
<1>2. ~Holding(q)
  BY DEF Holding
<1>3. listed \subseteq listed' /\ listed' \subseteq exists /\ up' \subseteq listed'
  BY DEF LockInv, ServersKnown
<1> QED
  BY <1>1, <1>2, <1>3, Moved

\* A goroutine that holds no lock.
LEMMA Unlocked ==
  ASSUME LockInv, UNCHANGED <<exists, locks, listed, up>>,
         NEW g \in Goroutines, NEW q \in Tasks(g), request' = [request EXCEPT ![g] = q],
         q.pc \in {"asked", "committed"} \/ (q.pc = "seen" /\ q.op \in {"enforce", "rotate"}),
         q.op # "start"
  PROVE  LockInv'
<1>1. ~Fetched(q) /\ ~InApp(q) /\ ~Holding(q)
  BY DEF Fetched, InApp, Holding
<1>2. listed \subseteq listed' /\ listed' \subseteq exists /\ up' \subseteq listed'
  BY DEF LockInv, ServersKnown
<1> QED
  BY <1>1, <1>2, Moved

LEMMA ListTyped == ASSUME Data, NEW s PROVE ListClientConfig(s) \in SUBSET Configs
  BY DEF Data, ListClientConfig

LEMMA FetchStep ==
  ASSUME LockInv, NEW g \in Goroutines, GetProcessLock(g)
  PROVE  LockInv'
<1> DEFINE q == request[g]
           n == [q EXCEPT !.pc = "wait", !.lock = locks[q.server]]
<1>1. q.op # "idle" /\ q.pc = "seen" /\ UNCHANGED <<exists, locks, listed, up>>
  BY DEF GetProcessLock, serverVars
<1>2. request' = [request EXCEPT ![g] = n]
  BY DEF GetProcessLock, LockInv, Shaped
<1>3. q.op \in {"enforce", "rotate"} /\ g \notin Editors /\ g \notin Viewers /\ g # "starter"
      /\ (q.op = "enforce" => g = "updater") /\ (q.op = "rotate" => g # "updater")
  <2>1. Shaped
    BY DEF LockInv
  <2> HIDE DEF q
  <2>2. g \in Editors => q \in {Idle} \cup Configuring
    BY <2>1, Kinds DEF q
  <2>3. g \in Viewers => q \in {Idle} \cup Viewing
    BY <2>1, Kinds DEF q
  <2>4. g = "starter" => q \in {Idle} \cup Starting
    BY <2>1, Kinds DEF q
  <2>5. Idle.op = "idle" /\ \A x \in Viewing : x.pc # "seen"
    BY DEF Idle, Viewing, Plain, Finding, Killing
  <2>6. g \in {"updater", "rotator"}
    BY <1>1, <2>1, <2>2, <2>3, <2>4, <2>5, Fields, Kinds
  <2>7. q \in {Idle} \cup Enforcing \cup Rotating /\ (g = "updater" => q \in {Idle} \cup Enforcing)
        /\ (g = "rotator" => q \in {Idle} \cup Rotating)
    BY <2>1, <2>6, Kinds DEF q
  <2>8. g \notin Editors /\ g \notin Viewers
    BY <1>1, <2>2, <2>3, <2>5, <2>7, Fields
  <2> QED
    BY <1>1, <2>5, <2>6, <2>7, <2>8, Fields
<1>4. locks[q.server] \in Nat /\ q.server \in Servers /\ locks[q.server] \in 1 .. locks[q.server]
  <2>1. q.server \in Servers
    BY <1>1, Operations DEF LockInv
  <2> QED
    BY <2>1 DEF LockInv, ServersKnown
<1>5. n \in Tasks(g) /\ n.op = q.op /\ n.server = q.server /\ n.pc = "wait" /\ n.lock = locks[q.server]
  <2>1. q \in Tasks(g)
    BY DEF LockInv, Shaped
  <2>2. CASE q.op = "enforce"
    <3>1. q \in Finding("enforce", {"seen", "wait", "in", "asking"})
      BY <1>1, <1>3, <2>1, <2>2, Fields DEF Tasks, Idle
    <3>2. n \in Finding("enforce", {"seen", "wait", "in", "asking"})
      BY <1>4, <3>1 DEF Finding
    <3> HIDE DEF n, q
    <3>3. n \in Tasks(g)
      BY <1>3, <2>2, <3>2 DEF Tasks, Enforcing
    <3> QED
      BY <1>4, <3>1, <3>3 DEF Finding, n
  <2>3. CASE q.op = "rotate"
    <3>1. q \in [op : {"rotate"}, server : Servers, pc : {"seen", "wait", "in", "next", "prune"}, lock : Nat, log : 1 .. 3]
      BY <1>1, <1>3, <2>1, <2>3 DEF Tasks, Idle, Rotating
    <3>2. n \in [op : {"rotate"}, server : Servers, pc : {"seen", "wait", "in", "next", "prune"}, lock : Nat, log : 1 .. 3]
      BY <1>4, <3>1
    <3> HIDE DEF n, q
    <3>3. n \in Tasks(g)
      BY <1>3, <2>3, <3>2 DEF Tasks, Rotating
    <3> QED
      BY <1>4, <3>1, <3>3 DEF n
  <2> QED
    BY <1>3, <2>2, <2>3
<1> HIDE DEF n
<1>6. ~InApp(n) /\ ~Holding(n) /\ n.op # "start"
  BY <1>3, <1>5 DEF InApp, Holding
<1>7. listed \subseteq listed' /\ listed' \subseteq exists /\ up' \subseteq listed'
  BY <1>1 DEF LockInv, ServersKnown
<1> QED
  BY <1>1, <1>2, <1>4, <1>5, <1>6, <1>7, Moved

\* With the same lock a goroutine waits and goes in.
LEMMA GoesIn ==
  ASSUME LockInv, NEW g \in Goroutines, request[g].op # "idle", request[g].pc = "wait"
  PROVE  LET n == [request[g] EXCEPT !.pc = "in"]
         IN  /\ n \in Tasks(g) /\ n.op = request[g].op /\ n.server = request[g].server
             /\ n.lock = request[g].lock /\ n.pc = "in"
<1> DEFINE q == request[g]
           n == [q EXCEPT !.pc = "in"]
<1>1. Shaped
  BY DEF LockInv
<1> HIDE DEF q
<1>2. CASE g \in Editors
  <2>1. q \in Plain("config", {"wait", "in"})
    <3>1. q \in Configuring
      BY <1>1, <1>2, Kinds DEF q, Idle
    <3> QED
      BY <3>1 DEF Configuring, Plain, Listing, q
  <2>2. n \in Plain("config", {"wait", "in"})
    BY <2>1 DEF Plain
  <2> QED
    BY <1>2, <2>1, <2>2 DEF Tasks, Configuring, Plain, q
<1>3. CASE g \in Viewers
  <2>1. q \in Viewing /\ g \notin Editors
    BY <1>1, <1>3, Kinds DEF q, Idle
  <2>2. CASE q \in Plain("status", {"wait", "in", "asking"})
    <3>1. n \in Plain("status", {"wait", "in", "asking"})
      BY <2>2 DEF Plain
    <3> QED
      BY <1>3, <2>1, <2>2, <3>1 DEF Tasks, Viewing, Plain, q
  <2>3. CASE q \in Plain("file", {"wait", "in"})
    <3>1. n \in Plain("file", {"wait", "in"})
      BY <2>3 DEF Plain
    <3> QED
      BY <1>3, <2>1, <2>3, <3>1 DEF Tasks, Viewing, Plain, q
  <2>4. CASE q \in Finding("kick", {"wait", "in", "asking"})
    <3>1. n \in Finding("kick", {"wait", "in", "asking"})
      BY <2>4 DEF Finding
    <3> QED
      BY <1>3, <2>1, <2>4, <3>1 DEF Tasks, Viewing, Finding, q
  <2>5. CASE q \in [op : {"log"}, server : Servers, pc : {"wait", "in", "counted"}, lock : Nat, log : LogNames]
    <3>1. n \in [op : {"log"}, server : Servers, pc : {"wait", "in", "counted"}, lock : Nat, log : LogNames]
      BY <2>5
    <3> QED
      BY <1>3, <2>1, <2>5, <3>1 DEF Tasks, Viewing, q
  <2>6. q \notin [op : {"kick"}, server : Servers, pc : {"asked"}, want : Clients] /\ q \notin Killing("kick")
    BY DEF Killing, q
  <2> QED
    BY <2>1, <2>2, <2>3, <2>4, <2>5, <2>6 DEF Viewing
<1>4. CASE g = "starter"
  <2>1. q \in Plain("start", {"wait", "in"}) /\ g \notin Editors /\ g \notin Viewers
    <3>1. q \in Starting /\ g \notin Editors /\ g \notin Viewers
      BY <1>1, <1>4, Kinds DEF q, Idle
    <3> QED
      BY <3>1 DEF Starting, Plain, Listing, q
  <2>2. n \in Plain("start", {"wait", "in"})
    BY <2>1 DEF Plain
  <2> QED
    BY <1>4, <2>1, <2>2 DEF Tasks, Starting, Plain, q
<1>5. CASE g = "updater"
  <2>1. q \in Finding("enforce", {"seen", "wait", "in", "asking"}) /\ g \notin Editors /\ g \notin Viewers
    <3>1. q \in Enforcing /\ g \notin Editors /\ g \notin Viewers
      BY <1>1, <1>5, Kinds, InstancesAssumption DEF q, Idle
    <3> QED
      BY <3>1, Fields DEF q
  <2>2. n \in Finding("enforce", {"seen", "wait", "in", "asking"})
    BY <2>1 DEF Finding
  <2> QED
    BY <1>5, <2>1, <2>2 DEF Tasks, Enforcing, Finding, q
<1>6. CASE g = "rotator"
  <2> DEFINE R == [op : {"rotate"}, server : Servers, pc : {"seen", "wait", "in", "next", "prune"}, lock : Nat, log : 1 .. 3]
  <2>1. q \in R /\ g \notin Editors /\ g \notin Viewers
    <3>1. q \in Rotating /\ g \notin Editors /\ g \notin Viewers
      BY <1>1, <1>6, Kinds, InstancesAssumption DEF q, Idle
    <3> QED
      BY <3>1 DEF Rotating, q
  <2>2. n \in R
    BY <2>1
  <2> QED
    BY <1>6, <2>1, <2>2 DEF Tasks, Rotating, q
<1> QED
  BY <1>1, <1>2, <1>3, <1>4, <1>5, <1>6, Kinds DEF q

LEMMA AcquireStep ==
  ASSUME LockInv, NEW g \in Goroutines, Acquire(g)
  PROVE  LockInv'
<1> DEFINE q == request[g]
           n == [q EXCEPT !.pc = "in"]
<1>1. /\ q.op # "idle" /\ q.pc = "wait" /\ UNCHANGED <<exists, locks, listed, up>>
      /\ LockFree(q.server, q.lock, Mode(q.op))
  BY DEF Acquire, serverVars
<1>2. request' = [request EXCEPT ![g] = n]
  BY DEF Acquire, Goes, LockInv, Shaped
<1>3. n \in Tasks(g) /\ n.op = q.op /\ n.server = q.server /\ n.lock = q.lock /\ n.pc = "in"
  BY <1>1, GoesIn
<1> HIDE DEF n
<1>4. Fetched(q) /\ q.lock \in 1 .. locks[q.server]
  BY <1>1 DEF Fetched, LockInv, LocksFetched
<1>5. InApp(n) => InApp(q)
  BY <1>1, <1>3 DEF InApp
<1>6. InApp(n) => n.server \in exists /\ (g \in Editors \/ n.pc = "listed" => n.server \in listed)
  BY <1>3, <1>5 DEF LockInv, AppKeeps
<1>7. g # "starter" => n.op # "start"
  BY <1>3, Operations DEF LockInv
<1>8. listed \subseteq listed' /\ listed' \subseteq exists /\ up' \subseteq listed'
  BY <1>1 DEF LockInv, ServersKnown
<1> HIDE DEF q
<1> QED
  BY <1>1, <1>2, <1>3, <1>4, <1>5, <1>6, <1>7, <1>8, Moved DEF q

LEMMA StarterStep ==
  ASSUME LockInv, Data, OfStarter
  PROVE  LockInv'
<1> DEFINE q == request["starter"]
<1>1. /\ "starter" \in Goroutines /\ "starter" \notin Editors /\ "starter" \notin Viewers
      /\ q \in {Idle} \cup Starting
  BY Kinds, InstancesAssumption DEF LockInv
<1>2. Tasks("starter") = {Idle} \cup Starting
  BY <1>1 DEF Tasks
<1>3. ServersKnown
  BY DEF LockInv
<1>4. ASSUME NEW s \in Servers, StartHandler(s) PROVE LockInv'
  <2> DEFINE n == Request("start", s)
  <2>1. s \in exists /\ AppFree /\ request' = [request EXCEPT !["starter"] = n] /\ UNCHANGED <<exists, locks, listed, up>>
    BY <1>4 DEF StartHandler, Enters, serverVars
  <2>2. n \in Starting /\ n.pc = "wait" /\ n.lock = locks[n.server] /\ n.server = s
    BY <1>3 DEF Request, Starting, Plain, ServersKnown
  <2> HIDE DEF n
  <2> QED
    BY <1>1, <1>2, <2>1, <2>2, EntersApp
<1>5. ASSUME StartRefused PROVE LockInv'
  <2>1. request' = [request EXCEPT !["starter"] = Idle] /\ UNCHANGED <<exists, locks, listed, up>>
    BY <1>5 DEF StartRefused, Ends, serverVars
  <2> QED
    BY <1>1, <1>3, <2>1, Stops DEF ServersKnown
<1>6. ASSUME StartLists PROVE LockInv'
  <2> DEFINE n == [op |-> "start", server |-> q.server, pc |-> "listed", lock |-> q.lock, list |-> ListClientConfig(q.server)]
  <2>1. /\ q.op = "start" /\ q.pc = "in" /\ request' = [request EXCEPT !["starter"] = n]
        /\ listed' = listed \cup {q.server} /\ UNCHANGED <<exists, locks, up>>
    BY <1>6 DEF StartLists, At
  <2>2. q \in Starting /\ q.server \in Servers /\ q.lock \in Nat /\ ListClientConfig(q.server) \in SUBSET Configs
    BY <1>1, <2>1, Fields, ListTyped DEF Idle
  <2>3. n \in Starting /\ n.op = q.op /\ n.server = q.server /\ n.lock = q.lock
    BY <2>1, <2>2 DEF Starting, Listing
  <2>4. Holding(q) /\ q.server \in exists
    BY <1>1, <2>1 DEF Holding, InApp, LockInv, AppKeeps
  <2> HIDE DEF n
  <2>5. listed \subseteq listed' /\ listed' \subseteq exists /\ up' \subseteq listed' /\ n.server \in listed'
    BY <1>3, <2>1, <2>3, <2>4 DEF ServersKnown
  <2> QED
    BY <1>1, <1>2, <2>1, <2>3, <2>4, <2>5, Continues
<1>7. ASSUME StartWrites PROVE LockInv'
  <2>1. /\ request' = [request EXCEPT !["starter"] = Idle] /\ UNCHANGED <<exists, locks, listed>>
        /\ up' \in {up, up \cup {q.server}}
    BY <1>7 DEF StartWrites, Ends
  <2>2. q.server \in listed
    BY <1>7 DEF StartWrites, LockInv, AppKeeps
  <2>3. up' \subseteq listed'
    BY <1>3, <2>1, <2>2 DEF ServersKnown
  <2> QED
    BY <1>1, <1>3, <2>1, <2>3, Stops DEF ServersKnown
<1> QED
  BY <1>4, <1>5, <1>6, <1>7 DEF OfStarter

LEMMA EditorStep ==
  ASSUME LockInv, Data, NEW h \in Editors, OfEditor(h)
  PROVE  LockInv'
<1> DEFINE q == request[h]
<1>1. h \in Goroutines /\ h # "starter" /\ q \in {Idle} \cup Configuring /\ Tasks(h) = {Idle} \cup Configuring
  BY Kinds DEF LockInv, Tasks
<1>2. ServersKnown
  BY DEF LockInv
<1>3. ASSUME NEW s \in Servers, request' = [request EXCEPT ![h] = [op |-> "config", server |-> s, pc |-> "committed"]],
             UNCHANGED serverVars
      PROVE  LockInv'
  <2> DEFINE n == [op |-> "config", server |-> s, pc |-> "committed"]
  <2>1. n \in Configuring /\ n.pc = "committed" /\ n.op # "start"
    BY DEF Configuring
  <2>2. request' = [request EXCEPT ![h] = n] /\ UNCHANGED <<exists, locks, listed, up>>
    BY <1>3 DEF serverVars
  <2> HIDE DEF n
  <2> QED
    BY <1>1, <2>1, <2>2, Unlocked
<1>4. ASSUME NEW s \in Servers, NEW user \in Users, AddClientConfig(h, s, Cert[user]) PROVE LockInv'
  BY <1>3, <1>4 DEF AddClientConfig, Enters
<1>5. ASSUME NEW ids \in SUBSET rows, NEW first \in ids, DeleteClientConfig(h, ids, first) PROVE LockInv'
  <2>1. first.server \in Servers
    BY DEF Data, Configs
  <2> QED
    BY <1>3, <1>5, <2>1 DEF DeleteClientConfig, Enters
<1>6. ASSUME ConfigEnters(h) PROVE LockInv'
  <2>1. q.op = "config" /\ AppReadable /\ UNCHANGED <<exists, locks, listed, up>>
    BY <1>6 DEF ConfigEnters, At, serverVars
  <2>2. q.server \in Servers
    BY <1>1, <2>1, Fields DEF Idle
  <2> DEFINE n == Request("config", q.server)
  <2>3. CASE q.server \in listed
    <3>1. request' = [request EXCEPT ![h] = n]
      BY <1>6, <2>3 DEF ConfigEnters
    <3>2. n \in Configuring /\ n.pc = "wait" /\ n.lock = locks[n.server] /\ n.server = q.server /\ n.op # "start"
      BY <1>2, <2>2 DEF Request, Configuring, Plain, ServersKnown
    <3> HIDE DEF n
    <3>3. n.server \in exists /\ n.server \in listed
      BY <1>2, <2>3, <3>2 DEF ServersKnown
    <3> QED
      BY <1>1, <2>1, <3>1, <3>2, <3>3, EntersApp
  <2>4. CASE q.server \notin listed
    <3>1. request' = [request EXCEPT ![h] = Idle]
      BY <1>6, <2>4 DEF ConfigEnters, Ends
    <3> QED
      BY <1>1, <1>2, <2>1, <3>1, Stops DEF ServersKnown
  <2> QED
    BY <2>3, <2>4
<1>7. ASSUME ConfigLists(h) PROVE LockInv'
  <2>1. q.op = "config" /\ q.pc = "in" /\ UNCHANGED <<exists, locks, listed, up>>
    BY <1>7 DEF ConfigLists, At, serverVars
  <2>2. q \in Configuring /\ q.server \in Servers /\ q.lock \in Nat /\ ListClientConfig(q.server) \in SUBSET Configs
    BY <1>1, <2>1, Fields, ListTyped DEF Idle
  <2> DEFINE n == [op |-> "config", server |-> q.server, pc |-> "listed", lock |-> q.lock, list |-> ListClientConfig(q.server)]
  <2>3. n \in Configuring /\ n.op = q.op /\ n.server = q.server /\ n.lock = q.lock
    BY <2>1, <2>2 DEF Configuring, Listing
  <2>4. Holding(q) /\ q.server \in listed
    BY <2>1 DEF Holding, InApp, LockInv, AppKeeps
  <2>5. request' = [request EXCEPT ![h] = n] \/ request' = [request EXCEPT ![h] = Idle]
    BY <1>7 DEF ConfigLists, Ends
  <2> HIDE DEF n
  <2>6. listed \subseteq listed' /\ listed' \subseteq exists /\ up' \subseteq listed' /\ n.server \in listed'
    BY <1>2, <2>1, <2>3, <2>4 DEF ServersKnown
  <2> QED
    BY <1>1, <2>1, <2>3, <2>4, <2>5, <2>6, Continues, Stops
<1>8. ASSUME UpdateClientConfig(h) PROVE LockInv'
  <2>1. request' = [request EXCEPT ![h] = Idle] /\ UNCHANGED <<exists, locks, listed, up>>
    BY <1>8 DEF UpdateClientConfig, Ends, serverVars
  <2> QED
    BY <1>1, <1>2, <2>1, Stops DEF ServersKnown
<1> QED
  BY <1>4, <1>5, <1>6, <1>7, <1>8 DEF OfEditor

\* What a status says of a client is true of one of those connected.
LEMMA StatusTrue ==
  ASSUME NEW C, NEW x \in StatusOf(C)
  PROVE  \E c \in C : x.id = c.id /\ x.cn = Cert[c.user]
<1> DEFINE list == {[id |-> c.id, cn |-> Cert[c.user]] : c \in C}
           routes == {[id |-> c.id, vip |-> c.vip] : c \in C}
<1>1. x \in {[id |-> c.id, cn |-> c.cn, vips |-> {r.vip : r \in {z \in routes : z.id = c.id}}] : c \in list}
  BY DEF StatusOf, ParseStatus
<1>2. \E c \in list : x.id = c.id /\ x.cn = c.cn
  <2>1. PICK c \in list : x = [id |-> c.id, cn |-> c.cn, vips |-> {r.vip : r \in {z \in routes : z.id = c.id}}]
    <3> HIDE DEF list, routes
    <3> QED
      BY <1>1
  <2>2. x.id = c.id /\ x.cn = c.cn
    <3> HIDE DEF list, routes
    <3> QED
      BY <2>1
  <2> QED
    BY <2>1, <2>2
<1>3. \A y \in list : \E c \in C : y.id = c.id /\ y.cn = Cert[c.user]
  OBVIOUS
<1> QED
  BY <1>2, <1>3

LEMMA NamesListed == \A u \in Users : Cert[u] \in CertNames
  BY DEF CertNames

LEMMA EnforceName ==
  ASSUME NEW C \in SUBSET Clients, NEW c \in Clients
  PROVE  CommonNameByVirtualIP(StatusOf(C), c) \in CertNames
<1> DEFINE at == {x \in StatusOf(C) : c.vip \in x.vips}
<1>1. CASE at = {}
  <2>1. c.user \in Users
    BY DEF Clients
  <2> QED
    BY <1>1, <2>1, NamesListed DEF CommonNameByVirtualIP
<1>2. CASE at # {}
  <2> DEFINE x == CHOOSE y \in at : TRUE
  <2>1. x \in at
    BY <1>2
  <2>2. x \in StatusOf(C)
    BY <2>1
  <2>3. CommonNameByVirtualIP(StatusOf(C), c) = x.cn
    BY <1>2 DEF CommonNameByVirtualIP
  <2> HIDE DEF x, at
  <2>4. PICK d \in C : x.cn = Cert[d.user]
    BY <2>2, StatusTrue
  <2>5. d.user \in Users
    BY DEF Clients
  <2> QED
    BY <2>3, <2>4, <2>5, NamesListed
<1> QED
  BY <1>1, <1>2

LEMMA KillTask ==
  ASSUME LockInv, NEW g \in Goroutines, request[g].op \in {"kick", "enforce"}
  PROVE  /\ Finding(request[g].op, {"in", "asking"}) \subseteq Tasks(g)
         /\ Killing(request[g].op) \subseteq Tasks(g)
         /\ request[g].pc \in {"in", "asking"} => request[g] \in Finding(request[g].op, {"in", "asking"})
         /\ request[g].pc = "killing" => request[g] \in Killing(request[g].op)
<1> DEFINE q == request[g]
<1>1. Shaped
  BY DEF LockInv
<1>2. CASE q.op = "kick"
  <2>1. g \in Viewers /\ g \notin Editors /\ q \in Viewing
    BY <1>1, <1>2, Operations, Kinds DEF Idle
  <2>2. Tasks(g) = {Idle} \cup Viewing
    BY <2>1 DEF Tasks
  <2>3. Finding("kick", {"in", "asking"}) \subseteq Finding("kick", {"wait", "in", "asking"})
    BY DEF Finding
  <2>4. Finding("kick", {"in", "asking"}) \subseteq Tasks(g) /\ Killing("kick") \subseteq Tasks(g)
    BY <2>2, <2>3 DEF Viewing
  <2>5. \/ q \in [op : {"kick"}, server : Servers, pc : {"asked"}, want : Clients]
        \/ q \in Finding("kick", {"wait", "in", "asking"})
        \/ q \in Killing("kick")
    BY <1>2, <2>1, ViewingFields
  <2> HIDE DEF q
  <2>6. /\ q.pc \in {"in", "asking"} => q \in Finding("kick", {"in", "asking"})
        /\ q.pc = "killing" => q \in Killing("kick")
    BY <2>5 DEF Finding, Killing
  <2> QED
    BY <1>2, <2>4, <2>6 DEF q
<1>3. CASE q.op = "enforce"
  <2>1. g = "updater" /\ g \notin Editors /\ g \notin Viewers /\ q \in Enforcing
    BY <1>1, <1>3, Operations, Kinds, InstancesAssumption DEF Idle
  <2>2. Tasks(g) = {Idle} \cup Enforcing
    BY <2>1 DEF Tasks
  <2>3. Finding("enforce", {"in", "asking"}) \subseteq Finding("enforce", {"seen", "wait", "in", "asking"})
    BY DEF Finding
  <2>4. Finding("enforce", {"in", "asking"}) \subseteq Tasks(g) /\ Killing("enforce") \subseteq Tasks(g)
    BY <2>2, <2>3 DEF Enforcing
  <2> HIDE DEF q
  <2>5. /\ q.pc \in {"in", "asking"} => q \in Finding("enforce", {"in", "asking"})
        /\ q.pc = "killing" => q \in Killing("enforce")
    BY <2>1 DEF Enforcing, Finding, Killing
  <2> QED
    BY <1>3, <2>4, <2>5 DEF q
<1> QED
  BY <1>2, <1>3

\* Where only requests change, the list of servers is as it was.
LEMMA Listless == ASSUME LockInv, UNCHANGED serverVars
                  PROVE  /\ UNCHANGED <<exists, locks, listed, up>>
                         /\ listed \subseteq listed' /\ listed' \subseteq exists /\ up' \subseteq listed'
  BY DEF LockInv, ServersKnown, serverVars

LEMMA KillStep ==
  ASSUME LockInv, Data, NEW g \in Goroutines,
         GetStatus2(g) \/ CloseClient(g) \/ ClientKill(g) \/ KillFails(g)
  PROVE  LockInv'
<1> DEFINE q == request[g]
<1>1. UNCHANGED serverVars /\ q.op \in {"kick", "enforce"} /\ q.pc \in {"in", "asking", "killing"}
  BY DEF GetStatus2, CloseClient, ClientKill, KillFails
<1>2. Holding(q)
  BY <1>1 DEF Holding
<1>3. request' = [request EXCEPT ![g] = Idle] => LockInv'
  BY <1>1, Listless, Stops
<1>4. ASSUME GetStatus2(g) PROVE LockInv'
  <2> DEFINE n == [q EXCEPT !.pc = "asking"]
  <2>1. request' = [request EXCEPT ![g] = n] /\ q.pc = "in"
    BY <1>4 DEF GetStatus2, Goes, LockInv, Shaped
  <2>2. q \in Finding(q.op, {"in", "asking"})
    BY <1>1, <2>1, KillTask
  <2>3. n \in Finding(q.op, {"in", "asking"}) /\ n.op = q.op /\ n.server = q.server /\ n.lock = q.lock /\ n.pc # "listed"
    BY <2>2 DEF Finding
  <2> HIDE DEF n
  <2> QED
    BY <1>1, <1>2, <2>1, <2>3, KillTask, Listless, Continues
<1>5. ASSUME CloseClient(g) PROVE LockInv'
  <2>1. q.pc = "asking" /\ q \in Finding(q.op, {"in", "asking"})
    BY <1>1, <1>5, KillTask DEF CloseClient
  <2>2. q.server \in Servers /\ clients[q.server] \in SUBSET Clients
    BY <2>1 DEF Finding, Data
  <2>3. CASE request' = [request EXCEPT ![g] = Idle]
    BY <1>3, <2>3
  <2>4. CASE request' # [request EXCEPT ![g] = Idle]
    <3>1. PICK x \in FindClientForKill(StatusOf(clients[q.server]), q) :
            request' = [request EXCEPT ![g] = [op |-> q.op, server |-> q.server, pc |-> "killing",
                          lock |-> q.lock, want |-> q.want, cn |-> q.cn, id |-> x.id]]
      BY <1>5, <2>4 DEF CloseClient, Ends
    <3>2. x \in StatusOf(clients[q.server])
      BY DEF FindClientForKill
    <3>3. x.id \in 0 .. MaxInputs
      BY <2>2, <3>2, StatusTrue DEF Clients
    <3> DEFINE n == [op |-> q.op, server |-> q.server, pc |-> "killing",
                     lock |-> q.lock, want |-> q.want, cn |-> q.cn, id |-> x.id]
    <3>4. n \in Killing(q.op) /\ n.op = q.op /\ n.server = q.server /\ n.lock = q.lock /\ n.pc # "listed"
      BY <2>1, <3>3 DEF Finding, Killing
    <3>5. request' = [request EXCEPT ![g] = n]
      BY <3>1
    <3> HIDE DEF n
    <3> QED
      BY <1>1, <1>2, <3>4, <3>5, KillTask, Listless, Continues
  <2> QED
    BY <2>3, <2>4
<1>6. ASSUME ClientKill(g) \/ KillFails(g) PROVE LockInv'
  BY <1>3, <1>6 DEF ClientKill, KillFails, Ends
<1> QED
  BY <1>4, <1>5, <1>6

LEMMA ViewerStep ==
  ASSUME LockInv, Data, NEW h \in Viewers, OfViewer(h)
  PROVE  LockInv'
<1> DEFINE q == request[h]
<1>1. h \in Goroutines /\ h # "starter" /\ h \notin Editors /\ q \in {Idle} \cup Viewing /\ Tasks(h) = {Idle} \cup Viewing
  BY Kinds DEF LockInv, Tasks
<1>2. ServersKnown
  BY DEF LockInv
<1>3. ASSUME request' = [request EXCEPT ![h] = Idle], UNCHANGED serverVars PROVE LockInv'
  BY <1>1, <1>3, Listless, Stops
<1>4. ASSUME NEW n \in Viewing, request' = [request EXCEPT ![h] = n], UNCHANGED serverVars, AppReadable,
             n.pc = "wait", n.lock = locks[n.server], n.server \in listed \cup exists
      PROVE  LockInv'
  <2>1. n.server \in exists /\ n.op # "start"
    BY <1>2, <1>4, ViewingFields DEF ServersKnown
  <2> QED
    BY <1>1, <1>4, <2>1, Listless, EntersApp
<1>5. ASSUME NEW n \in Viewing, request' = [request EXCEPT ![h] = n], UNCHANGED serverVars,
             Holding(q), n.op = q.op, n.server = q.server, n.lock = q.lock, n.pc # "listed"
      PROVE  LockInv'
  BY <1>1, <1>5, Listless, Continues
<1>6. \A s \in Servers : locks[s] \in Nat
  BY <1>2 DEF ServersKnown
<1>7. ASSUME NEW s \in Servers, StatusHandler(h, s) PROVE LockInv'
  <2> DEFINE n == Request("status", s)
  <2>1. n \in Viewing /\ n.pc = "wait" /\ n.lock = locks[n.server] /\ n.server = s
    BY <1>6 DEF Request, Viewing, Plain
  <2>2. request' = [request EXCEPT ![h] = n] /\ UNCHANGED serverVars /\ AppReadable /\ s \in listed
    BY <1>7 DEF StatusHandler, Enters
  <2> HIDE DEF n
  <2> QED
    BY <1>4, <2>1, <2>2
<1>8. ASSUME NEW s \in Servers, NEW l \in LogNames, GetLogHandler(h, s, l) PROVE LockInv'
  <2> DEFINE n == [op |-> "log", server |-> s, pc |-> "wait", lock |-> locks[s], log |-> l]
  <2>1. n \in Viewing /\ n.pc = "wait" /\ n.lock = locks[n.server] /\ n.server = s
    BY <1>6 DEF Viewing
  <2>2. request' = [request EXCEPT ![h] = n] /\ UNCHANGED serverVars /\ AppReadable /\ s \in listed \cup exists
    BY <1>8 DEF GetLogHandler, Enters
  <2> HIDE DEF n
  <2> QED
    BY <1>4, <2>1, <2>2
<1>9. ASSUME NEW s \in Servers, StatusRefused(h, s) PROVE LockInv'
  <2>1. UNCHANGED <<exists, locks, request, listed, up>>
    BY <1>9 DEF StatusRefused, vars, serverVars
  <2> QED
    BY <1>2, <2>1, StillLocked DEF ServersKnown
<1>10. ASSUME GetStatus(h) PROVE LockInv'
  <2> DEFINE n == [q EXCEPT !.pc = "asking"]
  <2>1. q.op = "status" /\ q.pc = "in" /\ UNCHANGED serverVars /\ request' = [request EXCEPT ![h] = n]
    BY <1>10 DEF GetStatus, At, Goes, LockInv, Shaped
  <2>2. q \in Plain("status", {"wait", "in", "asking"})
    BY <1>1, <2>1, ViewingFields DEF Idle
  <2>3. /\ n \in Plain("status", {"wait", "in", "asking"}) /\ n.op = q.op /\ n.server = q.server
        /\ n.lock = q.lock /\ n.pc # "listed"
    BY <2>2 DEF Plain
  <2> HIDE DEF n
  <2>4. n \in Viewing /\ Holding(q)
    BY <2>1, <2>3 DEF Viewing, Holding
  <2> QED
    BY <1>5, <2>1, <2>3, <2>4
<1>11. ASSUME StatusAnswered(h) PROVE LockInv'
  <2>1. q.op = "status" /\ q.pc = "asking" /\ UNCHANGED serverVars
    BY <1>11 DEF StatusAnswered, At
  <2>2. q.server \in Servers
    BY <1>1, <2>1, ViewingFields DEF Idle
  <2>3. CASE Ends(h)
    BY <1>3, <2>1, <2>3 DEF Ends
  <2>4. CASE ~Ends(h)
    <3>1. PICK c \in clients[q.server] :
            request' = [request EXCEPT ![h] = [op |-> "kick", server |-> q.server, pc |-> "asked", want |-> c]]
      BY <1>11, <2>4 DEF StatusAnswered
    <3>2. c \in Clients
      BY <2>2 DEF Data
    <3> DEFINE n == [op |-> "kick", server |-> q.server, pc |-> "asked", want |-> c]
    <3>3. n \in Viewing /\ n.pc = "asked" /\ n.op # "start"
      BY <2>2, <3>2 DEF Viewing
    <3> HIDE DEF n
    <3> QED
      BY <1>1, <2>1, <3>1, <3>3, Listless, Unlocked DEF n
  <2> QED
    BY <2>3, <2>4
<1>12. ASSUME StatusFromFile(h) PROVE LockInv'
  <2> DEFINE n == [q EXCEPT !.op = "file", !.pc = "wait"]
  <2>1. q.op = "status" /\ q.pc \in {"in", "asking"} /\ UNCHANGED serverVars /\ request' = [request EXCEPT ![h] = n]
    BY <1>12 DEF StatusFromFile
  <2>2. q \in Plain("status", {"wait", "in", "asking"})
    BY <1>1, <2>1, ViewingFields DEF Idle
  <2>3. n \in Plain("file", {"wait", "in"}) /\ n.server = q.server /\ n.lock = q.lock /\ n.pc = "wait" /\ n.op = "file"
    BY <2>2 DEF Plain
  <2> HIDE DEF n
  <2>4. n \in Viewing /\ ~Holding(n)
    BY <2>3 DEF Viewing, Holding
  <2>5. InApp(q) /\ Fetched(q)
    BY <2>1 DEF InApp, Fetched
  <2>6. n.server \in exists /\ n.lock \in 1 .. locks[n.server]
    BY <1>1, <2>3, <2>5 DEF LockInv, AppKeeps, LocksFetched
  <2> QED
    BY <1>1, <2>1, <2>3, <2>4, <2>5, <2>6, Listless, Moved
<1>13. ASSUME CloseClientHandler(h) PROVE LockInv'
  <2>1. q.op = "kick" /\ q.pc = "asked" /\ UNCHANGED serverVars /\ AppReadable
    BY <1>13 DEF CloseClientHandler, At
  <2>2. q.server \in Servers /\ q.want \in Clients
    <3>1. q \in Viewing
      BY <1>1, <2>1 DEF Idle
    <3>2. \/ q \in [op : {"kick"}, server : Servers, pc : {"asked"}, want : Clients]
          \/ q \in Finding("kick", {"wait", "in", "asking"})
          \/ q \in Killing("kick")
      BY <2>1, <3>1, ViewingFields
    <3> HIDE DEF q
    <3> QED
      BY <3>2 DEF Finding, Killing
  <2> DEFINE n == [op |-> "kick", server |-> q.server, pc |-> "wait", lock |-> locks[q.server], want |-> q.want, cn |-> ""]
  <2>3. CASE q.server \in listed
    <3>1. request' = [request EXCEPT ![h] = n]
      BY <1>13, <2>3 DEF CloseClientHandler
    <3>2. n \in Finding("kick", {"wait", "in", "asking"}) /\ n.pc = "wait" /\ n.lock = locks[n.server] /\ n.server = q.server
      BY <1>6, <2>2 DEF Finding, CertNames
    <3> HIDE DEF n
    <3>3. n \in Viewing
      BY <3>2 DEF Viewing
    <3> QED
      BY <1>4, <2>1, <2>3, <3>1, <3>2, <3>3
  <2>4. CASE q.server \notin listed
    BY <1>3, <1>13, <2>1, <2>4 DEF CloseClientHandler, Ends
  <2> QED
    BY <2>3, <2>4
<1>14. ASSUME GetLineOffsets(h) PROVE LockInv'
  <2> DEFINE n == [q EXCEPT !.pc = "counted"]
             L == [op : {"log"}, server : Servers, pc : {"wait", "in", "counted"}, lock : Nat, log : LogNames]
  <2>1. q.op = "log" /\ q.pc = "in" /\ UNCHANGED serverVars /\ request' = [request EXCEPT ![h] = n]
    BY <1>14 DEF GetLineOffsets, At, Goes, LockInv, Shaped
  <2>2. q \in L
    BY <1>1, <2>1, ViewingFields DEF Idle
  <2>3. n \in L /\ n.op = q.op /\ n.server = q.server /\ n.lock = q.lock /\ n.pc # "listed"
    BY <2>2
  <2>4. Holding(q)
    BY <2>1 DEF Holding
  <2> HIDE DEF n
  <2>5. n \in Viewing
    BY <2>3 DEF Viewing
  <2> HIDE DEF L
  <2> QED
    BY <1>5, <2>1, <2>3, <2>4, <2>5
<1>15. ASSUME GetStatusFromFile(h) \/ GetFileContent(h) PROVE LockInv'
  BY <1>3, <1>15 DEF GetStatusFromFile, GetFileContent, Ends
<1> QED
  BY <1>7, <1>8, <1>9, <1>10, <1>11, <1>12, <1>13, <1>14, <1>15 DEF OfViewer

LEMMA RotatorStep ==
  ASSUME LockInv, OfRotator
  PROVE  LockInv'
<1> DEFINE q == request["rotator"]
           A == [op : {"rotate"}, server : Servers, pc : {"seen", "wait", "in", "next", "prune"}, lock : Nat, log : 1 .. 3]
           B == [op : {"rotate"}, server : Servers, pc : {"copied"}, lock : Nat, log : 1 .. 2]
<1>1. "rotator" \in Goroutines /\ q \in {Idle} \cup Rotating /\ Tasks("rotator") = {Idle} \cup Rotating
  BY Kinds, InstancesAssumption DEF LockInv, Tasks
<1>2. q.op = "rotate" /\ UNCHANGED serverVars /\ q.pc \in {"in", "next", "copied", "prune"}
  BY DEF OfRotator, RotationNotDue, RotateSkips, RotateCopies, RotateTruncates, RotatePrunes, At
<1>3. q \in A \cup B /\ Rotating = A \cup B
  BY <1>1, <1>2 DEF Idle, Rotating
<1>4. Holding(q)
  BY <1>2 DEF Holding
<1>5. request' = [request EXCEPT !["rotator"] = Idle] => LockInv'
  BY <1>1, <1>2, Listless, Stops
<1>6. ASSUME NEW n \in A \cup B, request' = [request EXCEPT !["rotator"] = n],
             n.op = q.op, n.server = q.server, n.lock = q.lock, n.pc # "listed"
      PROVE  LockInv'
  <2> HIDE DEF A, B
  <2> QED
    BY <1>1, <1>2, <1>3, <1>4, <1>6, Listless, Continues
<1>7. ASSUME RotateSkips PROVE LockInv'
  <2>1. q.pc \in {"in", "next"} /\ q \in A
    BY <1>3, <1>7 DEF RotateSkips, At
  <2>2. CASE q.log > Len(Logs)
    <3> DEFINE n == [q EXCEPT !.pc = "prune"]
    <3>1. request' = [request EXCEPT !["rotator"] = n]
      BY <1>7, <2>2 DEF RotateSkips
    <3>2. n \in A /\ n.op = q.op /\ n.server = q.server /\ n.lock = q.lock /\ n.pc # "listed"
      BY <2>1
    <3> HIDE DEF n, A, B
    <3> QED
      BY <1>6, <3>1, <3>2
  <2>3. CASE ~(q.log > Len(Logs))
    <3> DEFINE n == [q EXCEPT !.pc = "next", !.log = q.log + 1]
    <3>1. request' = [request EXCEPT !["rotator"] = n]
      BY <1>7, <2>3 DEF RotateSkips
    <3>2. Len(Logs) = 2
      BY DEF Logs
    <3>3. q.log \in 1 .. 3 /\ q.log + 1 \in 1 .. 3
      BY <2>1, <2>3, <3>2
    <3>4. n \in A /\ n.op = q.op /\ n.server = q.server /\ n.lock = q.lock /\ n.pc # "listed"
      BY <2>1, <3>3
    <3> HIDE DEF n, A, B
    <3> QED
      BY <1>6, <3>1, <3>4
  <2> QED
    BY <2>2, <2>3
<1>8. ASSUME RotateCopies PROVE LockInv'
  <2>1. q.pc \in {"in", "next"} /\ q \in A /\ q.log <= Len(Logs) /\ Len(Logs) = 2
    BY <1>3, <1>8 DEF RotateCopies, At, Logs
  <2> DEFINE n == [q EXCEPT !.pc = "copied"]
  <2>2. request' = [request EXCEPT !["rotator"] = n]
    BY <1>8 DEF RotateCopies, Goes, LockInv, Shaped
  <2>3. q.log \in 1 .. 2
    BY <2>1
  <2>4. n \in B /\ n.op = q.op /\ n.server = q.server /\ n.lock = q.lock /\ n.pc # "listed"
    BY <2>1, <2>3
  <2> HIDE DEF n, A, B
  <2> QED
    BY <1>6, <2>2, <2>4
<1>9. ASSUME RotateTruncates PROVE LockInv'
  <2>1. q.pc = "copied" /\ q \in B
    BY <1>3, <1>9 DEF RotateTruncates, At
  <2> DEFINE n == [q EXCEPT !.pc = "next", !.log = q.log + 1]
  <2>2. q.log \in 1 .. 2 /\ q.log + 1 \in 1 .. 3
    BY <2>1
  <2>3. request' = [request EXCEPT !["rotator"] = n]
    BY <1>1, <1>9, <2>1 DEF RotateTruncates, LockInv, Shaped
  <2>4. n \in A /\ n.op = q.op /\ n.server = q.server /\ n.lock = q.lock /\ n.pc # "listed"
    BY <2>1, <2>2
  <2> HIDE DEF n, A, B
  <2> QED
    BY <1>6, <2>3, <2>4
<1>10. ASSUME RotationNotDue \/ RotatePrunes PROVE LockInv'
  BY <1>5, <1>10 DEF RotationNotDue, RotatePrunes, Ends
<1> QED
  BY <1>7, <1>8, <1>9, <1>10 DEF OfRotator

\* The actions of a server itself, and the background tasks that see it.
LEMMA ServerStep ==
  ASSUME LockInv, Data, NEW s \in Servers, OfServer(s)
  PROVE  LockInv'
<1>1. ServersKnown
  BY DEF LockInv
<1>2. ASSUME RotationDue(s) PROVE LockInv'
  <2> DEFINE n == [op |-> "rotate", server |-> s, pc |-> "seen", lock |-> 0, log |-> 1]
  <2>1. n \in Rotating /\ n.pc = "seen" /\ n.op = "rotate"
    BY DEF Rotating
  <2>2. request' = [request EXCEPT !["rotator"] = n] /\ UNCHANGED serverVars
    BY <1>2 DEF RotationDue, Enters
  <2>3. "rotator" \in Goroutines /\ Tasks("rotator") = {Idle} \cup Rotating
    BY Kinds, InstancesAssumption DEF LockInv, Tasks
  <2> HIDE DEF n
  <2> QED
    BY <2>1, <2>2, <2>3, Listless, Unlocked
<1>3. ASSUME NEW c \in clients[s], EnforceUserValidity(s, c) PROVE LockInv'
  <2> DEFINE n == [op |-> "enforce", server |-> s, pc |-> "seen", lock |-> 0, want |-> c,
                   cn |-> CommonNameByVirtualIP(StatusOf(file[s]), c)]
  <2>1. c \in Clients /\ CommonNameByVirtualIP(StatusOf(file[s]), c) \in CertNames
    <3>1. c \in Clients /\ file[s] \in SUBSET Clients
      BY DEF Data
    <3> QED
      BY <3>1, EnforceName
  <2>2. n \in Finding("enforce", {"seen", "wait", "in", "asking"}) /\ n.pc = "seen" /\ n.op = "enforce"
    BY <2>1 DEF Finding
  <2>3. request' = [request EXCEPT !["updater"] = n] /\ UNCHANGED serverVars
    BY <1>3 DEF EnforceUserValidity, Enters
  <2>4. "updater" \in Goroutines /\ Tasks("updater") = {Idle} \cup Enforcing
    BY Kinds, InstancesAssumption DEF LockInv, Tasks
  <2> HIDE DEF n
  <2> QED
    BY <2>2, <2>3, <2>4, Listless, Unlocked DEF Enforcing
<1>4. ASSUME DeleteHandler(s) PROVE LockInv'
  <2>1. /\ AppFree /\ s \in exists /\ s \notin listed \cap up
        /\ exists' = exists \ {s} /\ listed' = listed \ {s} /\ locks' = [locks EXCEPT ![s] = @ + 1]
        /\ up' = up /\ request' = request
    BY <1>4 DEF DeleteHandler, MayDelete
  <2>2. ServersKnown'
    BY <1>1, <2>1 DEF ServersKnown
  <2>3. \A t \in Servers : locks[t] \in Nat /\ locks'[t] \in Nat /\ locks[t] <= locks'[t]
    BY <1>1, <2>1 DEF ServersKnown
  <2>4. LocksFetched'
    <3> SUFFICES ASSUME NEW g \in Goroutines, Fetched(request[g])
                 PROVE  request[g].lock \in 1 .. locks'[request[g].server]
      BY <2>1 DEF LocksFetched
    <3>1. request[g].server \in Servers /\ request[g].lock \in 1 .. locks[request[g].server]
      BY Operations DEF LockInv, LocksFetched, Fetched
    <3> QED
      BY <2>3, <3>1
  <2>5. \A g \in Goroutines : ~InApp(request[g])
    BY <2>1 DEF AppFree, HoldsApp, InApp
  <2>6. AppKeeps'
    <3>1. "starter" \in Goroutines /\ \A h \in Editors : h \in Goroutines
      BY Kinds DEF LockInv
    <3> QED
      BY <2>1, <2>5, <3>1 DEF AppKeeps, At, InApp
  <2>7. Shaped' /\ OneStarter' /\ Excluded'
    BY <2>1 DEF LockInv, Shaped, OneStarter, Excluded
  <2> QED
    BY <2>2, <2>4, <2>6, <2>7 DEF LockInv
<1>5. ASSUME NEW l \in LogNames, ClearLogHandler(s, l) PROVE LockInv'
  <2>1. UNCHANGED <<exists, locks, request, up>> /\ listed' = listed \cup {s} /\ s \in listed \cup exists
    BY <1>5 DEF ClearLogHandler
  <2> QED
    BY <1>1, <2>1, StillLocked DEF ServersKnown
<1>6. ASSUME UNCHANGED <<exists, locks, request, listed>>, up' \subseteq up PROVE LockInv'
  BY <1>1, <1>6, StillLocked DEF ServersKnown
<1>7. ASSUME \/ StopHandler(s) \/ OpenvpnDies(s) \/ WriteStatusFile(s)
             \/ \E c \in clients[s] : DisconnectClient(s, c)
             \/ \E user \in Users, vip \in Addresses : ConnectClient(s, user, vip)
             \/ \E l \in LogNames : WriteLine(s, l)
      PROVE  LockInv'
  BY <1>6, <1>7 DEF StopHandler, OpenvpnDies, WriteStatusFile, DisconnectClient, ConnectClient, WriteLine, serverVars
<1> QED
  BY <1>2, <1>3, <1>4, <1>5, <1>7 DEF OfServer

LEMMA RestartStep == ASSUME LockInv, PanelRestarts PROVE LockInv'
<1>1. /\ request' = [g \in Goroutines |-> Idle] /\ listed' = up /\ UNCHANGED <<exists, up, locks>>
  BY DEF PanelRestarts
<1>2. \A g \in Goroutines : request'[g] = Idle
  BY <1>1
<1>3. "starter" \in Goroutines /\ \A h \in Editors : h \in Goroutines
  BY Kinds DEF LockInv
<1>4. Shaped'
  BY <1>1, <1>2 DEF Shaped, Tasks
<1>5. ServersKnown'
  BY <1>1 DEF LockInv, ServersKnown
<1> QED
  BY <1>2, <1>3, <1>4, <1>5 DEF LockInv, LocksFetched, AppKeeps, OneStarter, Excluded, Idle, Fetched, InApp, Holding, At

LEMMA NextLock == LockInv /\ Data /\ [Next]_vars => LockInv'
<1> SUFFICES ASSUME LockInv, Data, [Next]_vars PROVE LockInv'
  OBVIOUS
<1>1. CASE UNCHANGED vars
  BY <1>1, StillLocked DEF vars, serverVars, LockInv, ServersKnown
<1>2. CASE Next
  BY <1>2, ServerStep, EditorStep, ViewerStep, FetchStep, AcquireStep, KillStep, StarterStep,
     RotatorStep, RestartStep DEF Next
<1> QED
  BY <1>1, <1>2

\* Room for one more of what is counted.
LEMMA RoomLeft ==
  ASSUME Data, More
  PROVE  \A f \in {"config", "client", "line", "restart"} :
            /\ seq[f] \in 0 .. MaxInputs /\ seq[f] + 1 \in 0 .. MaxInputs
            /\ [seq EXCEPT ![f] = @ + 1] \in [{"config", "client", "line", "restart"} -> 0 .. MaxInputs]
<1>1. seq \in [{"config", "client", "line", "restart"} -> 0 .. MaxInputs] /\ MaxInputs \in Nat
  BY InstancesAssumption DEF Data
<1>2. \A f \in {"config", "client", "line", "restart"} : seq[f] \in Nat
  BY <1>1
<1>3. seq["config"] + seq["client"] + seq["line"] + seq["restart"] < MaxInputs
  BY DEF More
<1>4. \A f \in {"config", "client", "line", "restart"} : seq[f] < MaxInputs
  BY <1>1, <1>2, <1>3
<1>5. \A f \in {"config", "client", "line", "restart"} : seq[f] \in 0 .. MaxInputs /\ seq[f] + 1 \in 0 .. MaxInputs
  BY <1>1, <1>2, <1>4
<1> QED
  BY <1>1, <1>5

LEMMA InitData == Init => Data
  BY InstancesAssumption DEF Init, Data

LEMMA NextData == LockInv /\ Data /\ [Next]_vars => Data'
<1> SUFFICES ASSUME LockInv, Data, [Next]_vars PROVE Data'
  OBVIOUS
<1> DEFINE Same == UNCHANGED <<ccdVars, clientVars, seq>>
<1>1. Same => Data'
  BY DEF Data, ccdVars, clientVars
<1>2. ASSUME NEW s \in Servers, ccd' = [ccd EXCEPT ![s] = {}], file' = [file EXCEPT ![s] = {}],
             rows' \subseteq rows, UNCHANGED <<lagging, clients, seq>>
      PROVE  Data'
  BY <1>2 DEF Data
<1>3. ASSUME NEW q, q.server \in Servers, q.list \in SUBSET Configs, ccd' = [ccd EXCEPT ![q.server] = q.list],
             lagging' = StillLagging(q), UNCHANGED <<rows, file, seq>>,
             clients' = clients \/ clients' = [clients EXCEPT ![q.server] = {}]
      PROVE  Data'
  <2>1. lagging' \subseteq lagging
    BY <1>3 DEF StillLagging
  <2> QED
    BY <1>3, <2>1 DEF Data
<1>4. ASSUME NEW s \in Servers, NEW S \in SUBSET Clients, clients' = [clients EXCEPT ![s] = S], UNCHANGED <<ccdVars, file>>,
             seq' = seq \/ (More /\ seq' = [seq EXCEPT !.client = @ + 1])
      PROVE  Data'
  <2>1. seq' \in [{"config", "client", "line", "restart"} -> 0 .. MaxInputs]
    BY <1>4, RoomLeft DEF Data
  <2> QED
    BY <1>4, <2>1 DEF Data, ccdVars
<1>5. \A s \in Servers : clients[s] \in SUBSET Clients
  BY DEF Data
<1>6. CASE UNCHANGED vars
  BY <1>1, <1>6 DEF vars
<1>7. ASSUME NEW s \in Servers, OfServer(s) PROVE Data'
  <2>1. CASE StopHandler(s) \/ OpenvpnDies(s)
    <3>1. clients' = [clients EXCEPT ![s] = {}] /\ UNCHANGED <<ccdVars, file, seq>>
      BY <2>1 DEF StopHandler, OpenvpnDies
    <3> QED
      BY <1>4, <3>1
  <2>2. CASE DeleteHandler(s)
    BY <1>2, <2>2 DEF DeleteHandler
  <2>3. CASE WriteStatusFile(s)
    BY <1>5, <2>3 DEF WriteStatusFile, Data, ccdVars
  <2>4. ASSUME NEW c \in clients[s], DisconnectClient(s, c) PROVE Data'
    <3>1. clients' = [clients EXCEPT ![s] = clients[s] \ {c}] /\ UNCHANGED <<ccdVars, file, seq>>
      BY <2>4 DEF DisconnectClient, Data
    <3> QED
      BY <1>4, <1>5, <3>1
  <2>5. ASSUME NEW user \in Users, NEW vip \in Addresses, ConnectClient(s, user, vip) PROVE Data'
    <3> DEFINE n == [id |-> seq.client, user |-> user, vip |-> vip]
               others == {c \in clients[s] : Cert[c.user] # Cert[user]}
    <3>1. /\ More /\ clients' = [clients EXCEPT ![s] = others \cup {n}] /\ seq' = [seq EXCEPT !.client = @ + 1]
          /\ UNCHANGED <<ccdVars, file>>
      BY <2>5 DEF ConnectClient
    <3>2. n \in Clients
      BY <3>1, RoomLeft DEF Clients
    <3> HIDE DEF n
    <3>3. others \cup {n} \in SUBSET Clients
      BY <1>5, <3>2
    <3> HIDE DEF others
    <3> QED
      BY <1>4, <3>1, <3>3
  <2>6. ASSUME NEW l \in LogNames, WriteLine(s, l) PROVE Data'
    BY <2>6, RoomLeft DEF WriteLine, Data, ccdVars, clientVars
  <2>7. CASE \/ RotationDue(s) \/ \E c \in clients[s] : EnforceUserValidity(s, c)
             \/ \E l \in LogNames : ClearLogHandler(s, l)
    BY <1>1, <2>7 DEF RotationDue, EnforceUserValidity, ClearLogHandler
  <2> QED
    BY <1>7, <2>1, <2>2, <2>3, <2>4, <2>5, <2>6, <2>7 DEF OfServer
<1>8. ASSUME NEW h \in Editors, OfEditor(h) PROVE Data'
  <2>1. ASSUME NEW s \in Servers, NEW user \in Users, AddClientConfig(h, s, Cert[user]) PROVE Data'
    <3> DEFINE n == [server |-> s, name |-> Cert[user], config |-> seq.config]
    <3>1. /\ More /\ rows' = {r \in rows : r.server # s \/ r.name # Cert[user]} \cup {n}
          /\ seq' = [seq EXCEPT !.config = @ + 1] /\ UNCHANGED <<ccd, lagging, clientVars>>
      BY <2>1 DEF AddClientConfig
    <3>2. n \in Configs
      BY <3>1, RoomLeft DEF Configs
    <3> HIDE DEF n
    <3>3. seq' \in [{"config", "client", "line", "restart"} -> 0 .. MaxInputs]
      BY <3>1, RoomLeft
    <3> QED
      BY <3>1, <3>2, <3>3 DEF Data, clientVars
  <2>2. ASSUME NEW ids \in SUBSET rows, NEW first \in ids, DeleteClientConfig(h, ids, first) PROVE Data'
    <3>1. \A r \in ids : r.server \in Servers
      BY DEF Data, Configs
    <3> QED
      BY <2>2, <3>1 DEF DeleteClientConfig, Data, clientVars
  <2>3. CASE ConfigEnters(h) \/ ConfigLists(h)
    BY <1>1, <2>3 DEF ConfigEnters, ConfigLists
  <2>4. CASE UpdateClientConfig(h)
    <3>1. request[h] \in Configuring /\ request[h].pc = "listed"
      BY <2>4, Kinds DEF UpdateClientConfig, At, LockInv, Idle
    <3>2. request[h].server \in Servers /\ request[h].list \in SUBSET Configs
      BY <3>1, Fields
    <3> QED
      BY <1>3, <2>4, <3>2 DEF UpdateClientConfig, clientVars
  <2> QED
    BY <1>8, <2>1, <2>2, <2>3, <2>4 DEF OfEditor
<1>9. ASSUME NEW h \in Viewers, OfViewer(h) PROVE Data'
  BY <1>1, <1>9 DEF OfViewer, StatusHandler, StatusRefused, GetLogHandler, GetStatus, StatusAnswered, StatusFromFile,
     GetStatusFromFile, CloseClientHandler, GetLineOffsets, GetFileContent, vars
<1>10. ASSUME NEW g \in Goroutines,
              GetProcessLock(g) \/ Acquire(g) \/ GetStatus2(g) \/ CloseClient(g) \/ ClientKill(g) \/ KillFails(g)
       PROVE  Data'
  <2>1. CASE ClientKill(g)
    <3> DEFINE q == request[g]
    <3>1. q.server \in Servers
      BY <2>1, Operations DEF ClientKill, LockInv
    <3>2. /\ clients' = [clients EXCEPT ![q.server] = {c \in clients[q.server] : c.id # q.id}]
          /\ UNCHANGED <<ccdVars, file, seq>>
      BY <2>1, <3>1 DEF ClientKill, Data
    <3>3. {c \in clients[q.server] : c.id # q.id} \in SUBSET Clients
      BY <1>5, <3>1
    <3> HIDE DEF q
    <3> QED
      BY <1>4, <3>1, <3>2, <3>3
  <2>2. CASE GetProcessLock(g) \/ Acquire(g) \/ GetStatus2(g) \/ CloseClient(g) \/ KillFails(g)
    BY <1>1, <2>2 DEF GetProcessLock, Acquire, GetStatus2, CloseClient, KillFails
  <2> QED
    BY <1>10, <2>1, <2>2
<1>11. ASSUME OfStarter PROVE Data'
  <2>1. CASE StartWrites
    <3>1. request["starter"] \in Starting /\ request["starter"].pc = "listed"
      BY <2>1, Kinds DEF StartWrites, At, LockInv, Idle
    <3>2. request["starter"].server \in Servers /\ request["starter"].list \in SUBSET Configs
      BY <3>1, Fields
    <3> QED
      BY <1>3, <2>1, <3>2 DEF StartWrites
  <2>2. CASE (\E s \in Servers : StartHandler(s)) \/ StartRefused \/ StartLists
    BY <1>1, <2>2 DEF StartHandler, StartRefused, StartLists
  <2> QED
    BY <1>11, <2>1, <2>2 DEF OfStarter
<1>12. ASSUME OfRotator PROVE Data'
  BY <1>1, <1>12 DEF OfRotator, RotationNotDue, RotateSkips, RotateCopies, RotateTruncates, RotatePrunes
<1>13. ASSUME PanelRestarts PROVE Data'
  <2>1. {s \in up : ccd[s] # ListClientConfig(s)} \subseteq Servers
    BY DEF LockInv, ServersKnown
  <2> QED
    BY <1>13, <2>1, RoomLeft DEF PanelRestarts, Data, clientVars
<1> QED
  BY <1>6, <1>7, <1>8, <1>9, <1>10, <1>11, <1>12, <1>13 DEF Next

\* Who holds which lock: a goroutine that reads or writes the files of a server has
\* its lock, alone unless it only reads; a handler still inside keeps App.lock,
\* so that its server is neither deleted nor taken off the list.
THEOREM HeldInvariant == Spec => [](LockInv /\ Data)
<1>1. Init => LockInv /\ Data
  BY InitLock, InitData
<1>2. LockInv /\ Data /\ [Next]_vars => (LockInv /\ Data)'
  BY NextLock, NextData
<1> QED
  BY <1>1, <1>2, PTL DEF Spec

-----------------------------------------------------------------------------
(* Settings of clients                                                     *)

LEMMA InitCcd == Init => CcdInv
<1> SUFFICES ASSUME Init PROVE CcdInv
  OBVIOUS
<1>1. "starter" \in Goroutines /\ \A h \in Editors : h \in Goroutines
  BY DEF Goroutines
<1>2. \A g \in Goroutines : request[g].op = "idle"
  BY DEF Init, Idle
<1> QED
  BY <1>1, <1>2 DEF Init, CcdInv, CcdMatches, At

\* Editors and the starter are as they were, or stay on their way; the rows
\* and the directories stay too.
LEMMA CcdKept ==
  ASSUME CcdInv, UNCHANGED ccdVars, up' \subseteq up,
         \A h \in Editors :
            \/ request'[h] = request[h]
            \/ /\ request'[h].op = "config" /\ request[h].op = "config" /\ request'[h].server = request[h].server
               /\ request'[h].pc \in {"wait", "in"} /\ request[h].pc \in {"wait", "in"},
         request'["starter"] = request["starter"] \/ ~At("starter", "start", "listed")'
  PROVE  CcdInv'
<1>1. \A s : ListClientConfig(s)' = ListClientConfig(s)
  BY DEF ListClientConfig, ccdVars
<1>2. ccd' = ccd /\ lagging' = lagging
  BY DEF ccdVars
<1>3. At("starter", "start", "listed")' => CatchingUp(request["starter"], {"committed"})'
  <2> SUFFICES ASSUME At("starter", "start", "listed")' PROVE CatchingUp(request["starter"], {"committed"})'
    OBVIOUS
  <2>1. request'["starter"] = request["starter"] /\ CatchingUp(request["starter"], {"committed"})
    BY DEF CcdInv, At
  <2> QED
    BY <1>1, <1>2, <2>1 DEF CatchingUp
<1>4. ASSUME NEW h \in Editors, At(h, "config", "listed")' PROVE CatchingUp(request[h], {"committed", "wait", "in"})'
  <2>1. request'[h] = request[h]
    BY <1>4 DEF At
  <2>2. CatchingUp(request[h], {"committed", "wait", "in"})
    BY <1>4, <2>1 DEF At, CcdInv
  <2> QED
    BY <1>1, <1>2, <2>1, <2>2 DEF CatchingUp
<1>5. CcdMatches'
  BY <1>1, <1>2 DEF CcdMatches, CcdInv
<1> QED
  BY <1>3, <1>4, <1>5 DEF CcdInv

\* A request has changed the rows of a server, and is on its way.
LEMMA CcdCommitted ==
  ASSUME LockInv, CcdInv, NEW h \in Editors, NEW s, UNCHANGED <<ccd, up>>,
         Enters(h, [op |-> "config", server |-> s, pc |-> "committed"]), lagging \subseteq lagging',
         \A t \in Servers : t = s \/ t \in lagging' \/ ListClientConfig(t)' = ListClientConfig(t)
  PROVE  CcdInv'
<1>1. /\ h \in Goroutines /\ request[h] = Idle /\ request'[h] = [op |-> "config", server |-> s, pc |-> "committed"]
      /\ \A k \in Goroutines : k # h => request'[k] = request[k]
  BY Kinds DEF Enters, LockInv, Shaped
<1>2. "starter" \in Goroutines /\ "starter" # h /\ \A k \in Editors : k \in Goroutines
  BY Kinds DEF LockInv
<1>3. ASSUME NEW q, q.server \in Servers, NEW P, "committed" \in P, CatchingUp(q, P)
      PROVE  \/ q.list = ListClientConfig(q.server)' \/ q.server \in lagging'
             \/ \E k \in Editors : request'[k].op = "config" /\ request'[k].pc \in P /\ request'[k].server = q.server
  BY <1>1, <1>2, <1>3 DEF CatchingUp, Idle
<1>4. At("starter", "start", "listed")' => CatchingUp(request["starter"], {"committed"})'
  <2> SUFFICES ASSUME At("starter", "start", "listed")' PROVE CatchingUp(request["starter"], {"committed"})'
    OBVIOUS
  <2>1. request'["starter"] = request["starter"]
    BY <1>1, <1>2
  <2>2. CatchingUp(request["starter"], {"committed"}) /\ request["starter"].server \in Servers
    BY <1>2, <2>1, Operations DEF CcdInv, At, LockInv
  <2>3. PICK q : q = request["starter"]
    OBVIOUS
  <2>4. \/ q.list = ListClientConfig(q.server)' \/ q.server \in lagging'
        \/ \E m \in Editors : request'[m].op = "config" /\ request'[m].pc \in {"committed"} /\ request'[m].server = q.server
    BY <1>3, <2>2, <2>3
  <2> QED
    BY <2>1, <2>3, <2>4 DEF CatchingUp, ListClientConfig
<1>5. ASSUME NEW k \in Editors, At(k, "config", "listed")' PROVE CatchingUp(request[k], {"committed", "wait", "in"})'
  <2>1. request'[k] = request[k]
    BY <1>1, <1>2, <1>5 DEF At
  <2>2. CatchingUp(request[k], {"committed", "wait", "in"}) /\ request[k].server \in Servers
    BY <1>2, <1>5, <2>1, Operations DEF CcdInv, At, LockInv
  <2>3. PICK q : q = request[k]
    OBVIOUS
  <2>4. \/ q.list = ListClientConfig(q.server)' \/ q.server \in lagging'
        \/ \E m \in Editors : request'[m].op = "config" /\ request'[m].pc \in {"committed", "wait", "in"} /\ request'[m].server = q.server
    BY <1>3, <2>2, <2>3
  <2> QED
    BY <2>1, <2>3, <2>4 DEF CatchingUp, ListClientConfig
<1>6. CcdMatches'
  <2> SUFFICES ASSUME NEW t \in up \ lagging'
               PROVE  \/ ccd[t] = ListClientConfig(t)'
                      \/ \E k \in Editors : request'[k].op = "config" /\ request'[k].server = t
    BY DEF CcdMatches
  <2>1. t \in Servers /\ t \in up \ lagging
    BY DEF LockInv, ServersKnown
  <2>2. ccd[t] = ListClientConfig(t) \/ \E k \in Editors : request[k].op = "config" /\ request[k].server = t
    BY <2>1 DEF CcdInv, CcdMatches
  <2> QED
    BY <1>1, <1>2, <2>1, <2>2 DEF Idle
<1> QED
  BY <1>4, <1>5, <1>6 DEF CcdInv

\* Two requests inside a server of which one at least writes are not of the same server.
LEMMA Apart ==
  ASSUME LockInv, NEW g \in Goroutines, NEW k \in Goroutines, g # k, Holding(request[g]), Holding(request[k]),
         request[g].server = request[k].server, request[g].server \in exists, Mode(request[g].op) = "W"
  PROVE  FALSE
<1>1. locks[request[g].server] = 1
  BY DEF LockInv, ServersKnown
<1>2. request[g].lock \in 1 .. 1 /\ request[k].lock \in 1 .. 1
  BY <1>1 DEF LockInv, LocksFetched, Holding, Fetched
<1>3. request[g].lock = request[k].lock
  BY <1>2
<1> QED
  BY <1>3 DEF LockInv, Excluded

LEMMA CcdEditor ==
  ASSUME LockInv, Data, CcdInv, NEW h \in Editors, OfEditor(h)
  PROVE  CcdInv'
<1> DEFINE q == request[h]
           s == q.server
<1>1. h \in Goroutines /\ h # "starter" /\ "starter" \in Goroutines /\ \A k \in Editors : k \in Goroutines
  BY Kinds DEF LockInv
<1>2. ASSUME NEW t \in Servers, NEW user \in Users, AddClientConfig(h, t, Cert[user]) PROVE CcdInv'
  <2>1. \A x \in Servers : x = t \/ ListClientConfig(x)' = ListClientConfig(x)
    BY <1>2 DEF AddClientConfig, ListClientConfig
  <2> QED
    BY <1>2, <2>1, CcdCommitted DEF AddClientConfig, serverVars
<1>3. ASSUME NEW ids \in SUBSET rows, NEW first \in ids, DeleteClientConfig(h, ids, first) PROVE CcdInv'
  <2>1. \A x \in Servers : x = first.server \/ x \in lagging' \/ ListClientConfig(x)' = ListClientConfig(x)
    BY <1>3 DEF DeleteClientConfig, ListClientConfig
  <2> QED
    BY <1>3, <2>1, CcdCommitted DEF DeleteClientConfig, serverVars
<1>4. CASE UNCHANGED vars
  BY <1>4, CcdKept DEF vars, serverVars
<1>5. ASSUME q.op = "config", NEW n, request' = [request EXCEPT ![h] = n], UNCHANGED <<up, ccdVars>>
      PROVE  /\ request'[h] = n /\ \A k \in Goroutines : k # h => request'[k] = request[k]
             /\ \A x : ListClientConfig(x)' = ListClientConfig(x)
             /\ ccd' = ccd /\ lagging' = lagging
  BY <1>1, <1>5 DEF LockInv, Shaped, ListClientConfig, ccdVars
<1>6. ASSUME ConfigEnters(h) PROVE CcdInv'
  <2>1. q.op = "config" /\ q.pc = "committed" /\ AppReadable /\ UNCHANGED <<up, ccdVars>>
    BY <1>6 DEF ConfigEnters, At, serverVars
  <2> DEFINE n == IF s \in listed THEN Request("config", s) ELSE Idle
  <2>2. request' = [request EXCEPT ![h] = n]
    BY <1>6 DEF ConfigEnters, Ends
  <2>3. n.op = "config" => s \in listed
    BY DEF Idle
  <2>4. s \in listed => n.op = "config" /\ n.server = s /\ n.pc = "wait"
    BY DEF Request
  <2> HIDE DEF n
  <2>5. /\ request'[h] = n /\ \A k \in Goroutines : k # h => request'[k] = request[k]
        /\ \A x : ListClientConfig(x)' = ListClientConfig(x)
        /\ ccd' = ccd /\ lagging' = lagging
    BY <1>5, <2>1, <2>2
  <2>6. ~At("starter", "start", "listed")'
    BY <1>1, <2>1, <2>5 DEF AppReadable, HoldsApp, At
  <2>7. ASSUME NEW k \in Editors, At(k, "config", "listed")' PROVE CatchingUp(request[k], {"committed", "wait", "in"})'
    <3>1. k # h /\ request'[k] = request[k]
      BY <1>1, <2>3, <2>4, <2>5, <2>7 DEF At
    <3>2. request[k].server \in listed /\ CatchingUp(request[k], {"committed", "wait", "in"})
      BY <2>7, <3>1 DEF At, CcdInv, LockInv, AppKeeps, InApp
    <3> QED
      BY <1>1, <2>4, <2>5, <3>1, <3>2 DEF CatchingUp
  <2>8. CcdMatches'
    <3> SUFFICES ASSUME NEW t \in up \ lagging
                 PROVE  \/ ccd[t] = ListClientConfig(t)
                        \/ \E k \in Editors : request'[k].op = "config" /\ request'[k].server = t
      BY <2>1, <2>5 DEF CcdMatches
    <3>1. t \in listed
      BY DEF LockInv, ServersKnown
    <3> QED
      BY <1>1, <2>4, <2>5, <3>1 DEF CcdInv, CcdMatches
  <2> QED
    BY <2>6, <2>7, <2>8 DEF CcdInv
<1>7. ASSUME NEW k \in Editors, k # h, At(k, "config", "listed"), q.op = "config", q.pc \in {"in", "listed"}
      PROVE  request[k].server # s
  <2>1. Holding(request[k]) /\ Holding(q) /\ Mode(q.op) = "W"
    BY <1>7 DEF Holding, At, Mode
  <2>2. s \in exists
    BY <1>1, <1>7 DEF LockInv, AppKeeps, InApp
  <2> QED
    BY <1>1, <1>7, <2>1, <2>2, Apart
<1>8. q.op = "config" /\ q.pc \in {"in", "listed"} => ~At("starter", "start", "listed")
  BY <1>1 DEF LockInv, OneStarter, InApp, At
<1>9. ASSUME ConfigLists(h) PROVE CcdInv'
  <2>1. q.op = "config" /\ q.pc = "in" /\ UNCHANGED <<up, ccdVars>>
    BY <1>9 DEF ConfigLists, At, serverVars
  <2> DEFINE n == IF s \in up THEN [op |-> "config", server |-> s, pc |-> "listed", lock |-> q.lock, list |-> ListClientConfig(s)]
                  ELSE Idle
  <2>2. request' = [request EXCEPT ![h] = n]
    BY <1>9 DEF ConfigLists, Ends
  <2>3. n.op = "config" => s \in up
    BY DEF Idle
  <2>4. s \in up => n.op = "config" /\ n.server = s /\ n.list = ListClientConfig(s)
    OBVIOUS
  <2> HIDE DEF n
  <2>5. /\ request'[h] = n /\ \A k \in Goroutines : k # h => request'[k] = request[k]
        /\ \A x : ListClientConfig(x)' = ListClientConfig(x)
        /\ ccd' = ccd /\ lagging' = lagging
    BY <1>5, <2>1, <2>2
  <2>6. ~At("starter", "start", "listed")'
    BY <1>1, <1>8, <2>1, <2>5 DEF At
  <2>7. ASSUME NEW k \in Editors, At(k, "config", "listed")' PROVE CatchingUp(request[k], {"committed", "wait", "in"})'
    <3>1. CASE k = h
      BY <2>3, <2>4, <2>5, <2>7, <3>1 DEF At, CatchingUp
    <3>2. CASE k # h
      <4>1. request'[k] = request[k]
        BY <1>1, <2>5, <3>2
      <4>2. request[k].server # s /\ CatchingUp(request[k], {"committed", "wait", "in"})
        BY <1>7, <2>1, <2>7, <3>2, <4>1 DEF At, CcdInv
      <4> QED
        BY <1>1, <2>5, <4>1, <4>2 DEF CatchingUp
    <3> QED
      BY <3>1, <3>2
  <2>8. CcdMatches'
    <3> SUFFICES ASSUME NEW t \in up \ lagging
                 PROVE  \/ ccd[t] = ListClientConfig(t)
                        \/ \E k \in Editors : request'[k].op = "config" /\ request'[k].server = t
      BY <2>1, <2>5 DEF CcdMatches
    <3> QED
      BY <1>1, <2>4, <2>5 DEF CcdInv, CcdMatches
  <2> QED
    BY <2>6, <2>7, <2>8 DEF CcdInv
<1>10. ASSUME UpdateClientConfig(h) PROVE CcdInv'
  <2>1. /\ q.op = "config" /\ q.pc = "listed" /\ UNCHANGED <<up, rows>> /\ ccd' = [ccd EXCEPT ![s] = q.list]
        /\ lagging' = StillLagging(q) /\ request' = [request EXCEPT ![h] = Idle]
    BY <1>10 DEF UpdateClientConfig, At, serverVars, Ends
  <2>2. /\ request'[h] = Idle /\ \A k \in Goroutines : k # h => request'[k] = request[k]
        /\ \A x : ListClientConfig(x)' = ListClientConfig(x)
    BY <1>1, <2>1 DEF LockInv, Shaped, ListClientConfig
  <2>3. ~At("starter", "start", "listed")'
    BY <1>1, <1>8, <2>1, <2>2 DEF At
  <2>4. ASSUME NEW k \in Editors, At(k, "config", "listed")' PROVE CatchingUp(request[k], {"committed", "wait", "in"})'
    <3>1. k # h /\ request'[k] = request[k]
      BY <1>1, <2>2, <2>4 DEF At, Idle
    <3>2. request[k].server # s /\ CatchingUp(request[k], {"committed", "wait", "in"})
      BY <1>7, <2>1, <2>4, <3>1 DEF At, CcdInv
    <3>3. request[k].server \in lagging => request[k].server \in lagging'
      BY <2>1, <3>2 DEF StillLagging
    <3> QED
      BY <1>1, <2>1, <2>2, <3>1, <3>2, <3>3 DEF CatchingUp
  <2>5. CcdMatches'
    <3> SUFFICES ASSUME NEW t \in up \ lagging'
                 PROVE  \/ ccd'[t] = ListClientConfig(t)
                        \/ \E k \in Editors : request'[k].op = "config" /\ request'[k].server = t
      BY <2>1, <2>2 DEF CcdMatches
    <3>1. ccd \in [Servers -> SUBSET Configs] /\ t \in Servers
      BY DEF Data, LockInv, ServersKnown
    <3>2. CASE t # s
      <4>1. ccd'[t] = ccd[t] /\ t \notin lagging
        BY <2>1, <3>1, <3>2 DEF StillLagging
      <4> QED
        BY <1>1, <2>2, <3>2, <4>1 DEF CcdInv, CcdMatches
    <3>3. CASE t = s
      <4>1. ccd'[t] = q.list
        BY <2>1, <3>1, <3>3
      <4>2. CASE q.list = ListClientConfig(s)
        BY <3>3, <4>1, <4>2
      <4>3. CASE q.list # ListClientConfig(s)
        <5>1. lagging' = lagging
          BY <2>1, <4>3 DEF StillLagging
        <5>2. CatchingUp(q, {"committed", "wait", "in"})
          BY <2>1 DEF At, CcdInv
        <5>3. PICK k \in Editors : request[k].op = "config" /\ request[k].pc \in {"committed", "wait", "in"} /\ request[k].server = s
          BY <3>3, <4>3, <5>1, <5>2 DEF CatchingUp
        <5>4. k # h
          BY <2>1, <5>3
        <5> QED
          BY <1>1, <2>2, <3>3, <5>3, <5>4
      <4> QED
        BY <4>2, <4>3
    <3> QED
      BY <3>2, <3>3
  <2> QED
    BY <2>3, <2>4, <2>5 DEF CcdInv
<1> QED
  BY <1>2, <1>3, <1>6, <1>9, <1>10 DEF OfEditor

\* Who is an editor or the starter does nothing else.
LEMMA Others ==
  ASSUME LockInv, NEW g \in Goroutines, request[g].op \notin {"idle", "start", "config"}
  PROVE  g \notin Editors /\ g # "starter"
<1>1. Shaped
  BY DEF LockInv
<1>2. g \in Editors => request[g] \in {Idle} \cup Configuring
  BY <1>1, Kinds
<1>3. g = "starter" => request[g] \in {Idle} \cup Starting
  BY <1>1, Kinds
<1> QED
  BY <1>2, <1>3, Fields DEF Idle

\* One goroutine goes on, and an editor stays on its way.
LEMMA CcdMoves ==
  ASSUME LockInv, CcdInv, UNCHANGED <<up, ccdVars>>, NEW g \in Goroutines, NEW n, request' = [request EXCEPT ![g] = n],
         g \in Editors => /\ request[g].op = "config" /\ n.op = "config" /\ n.server = request[g].server
                          /\ request[g].pc \in {"wait", "in"} /\ n.pc \in {"wait", "in"},
         g = "starter" => ~(n.op = "start" /\ n.pc = "listed")
  PROVE  CcdInv'
<1>1. \A k \in Goroutines : request'[k] = IF k = g THEN n ELSE request[k]
  BY DEF LockInv, Shaped
<1>2. "starter" \in Goroutines /\ \A k \in Editors : k \in Goroutines
  BY Kinds DEF LockInv
<1>3. \A h \in Editors :
            \/ request'[h] = request[h]
            \/ /\ request'[h].op = "config" /\ request[h].op = "config" /\ request'[h].server = request[h].server
               /\ request'[h].pc \in {"wait", "in"} /\ request[h].pc \in {"wait", "in"}
  BY <1>1, <1>2
<1>4. request'["starter"] = request["starter"] \/ ~At("starter", "start", "listed")'
  BY <1>1, <1>2 DEF At
<1> QED
  BY <1>3, <1>4, CcdKept

LEMMA CcdTasks ==
  ASSUME LockInv, CcdInv, NEW g \in Goroutines,
         GetProcessLock(g) \/ Acquire(g) \/ GetStatus2(g) \/ CloseClient(g) \/ ClientKill(g) \/ KillFails(g)
  PROVE  CcdInv'
<1> DEFINE q == request[g]
<1>1. UNCHANGED <<up, ccdVars>>
  BY DEF GetProcessLock, Acquire, GetStatus2, CloseClient, ClientKill, KillFails, serverVars
<1>2. CASE Acquire(g)
  <2> DEFINE n == [q EXCEPT !.pc = "in"]
  <2>1. q.op # "idle" /\ q.pc = "wait" /\ request' = [request EXCEPT ![g] = n]
    BY <1>2 DEF Acquire, Goes, LockInv, Shaped
  <2>2. n.op = q.op /\ n.server = q.server /\ n.pc = "in"
    BY <2>1, GoesIn
  <2>3. g \in Editors => q.op = "config"
    BY <2>1, Kinds, Fields DEF LockInv, Idle
  <2> HIDE DEF n
  <2> QED
    BY <1>1, <2>1, <2>2, <2>3, CcdMoves
<1>3. CASE GetStatus2(g) \/ CloseClient(g) \/ ClientKill(g) \/ KillFails(g)
  <2>1. g \notin Editors /\ g # "starter"
    BY <1>3, Others DEF GetStatus2, CloseClient, ClientKill, KillFails
  <2>2. \A k : k # g /\ k \in Goroutines => request'[k] = request[k]
    BY <1>3 DEF GetStatus2, CloseClient, ClientKill, KillFails, Goes, Ends, LockInv, Shaped
  <2>3. \A h \in Editors : request'[h] = request[h]
    BY <2>1, <2>2, Kinds DEF LockInv
  <2>4. request'["starter"] = request["starter"]
    BY <2>1, <2>2, Kinds DEF LockInv
  <2> QED
    BY <1>1, <2>3, <2>4, CcdKept
<1>4. CASE GetProcessLock(g)
  <2>1. q.op # "idle" /\ q.pc = "seen"
    BY <1>4 DEF GetProcessLock
  <2>2. g \notin Editors /\ g # "starter"
    <3>1. Shaped
      BY DEF LockInv
    <3>2. g \in Editors => q \in {Idle} \cup Configuring
      BY <3>1, Kinds
    <3>3. g = "starter" => q \in {Idle} \cup Starting
      BY <3>1, Kinds
    <3> HIDE DEF q
    <3> QED
      BY <2>1, <3>2, <3>3, Fields DEF Idle
  <2>3. \A k : k # g /\ k \in Goroutines => request'[k] = request[k]
    BY <1>4 DEF GetProcessLock, LockInv, Shaped
  <2>4. \A h \in Editors : request'[h] = request[h]
    BY <2>2, <2>3, Kinds DEF LockInv
  <2>5. request'["starter"] = request["starter"]
    BY <2>2, <2>3, Kinds DEF LockInv
  <2> QED
    BY <1>1, <2>4, <2>5, CcdKept
<1> QED
  BY <1>2, <1>3, <1>4

LEMMA CcdStarter ==
  ASSUME LockInv, Data, CcdInv, OfStarter
  PROVE  CcdInv'
<1> DEFINE q == request["starter"]
           s == q.server
<1>1. "starter" \in Goroutines /\ "starter" \notin Editors /\ \A k \in Editors : k \in Goroutines /\ k # "starter"
  BY Kinds DEF LockInv
<1>2. ASSUME NEW t \in Servers, StartHandler(t) PROVE CcdInv'
  <2> DEFINE n == Request("start", t)
  <2>1. n.pc # "listed" /\ request' = [request EXCEPT !["starter"] = n] /\ UNCHANGED <<up, ccdVars>>
    BY <1>2 DEF StartHandler, Request, Enters, serverVars
  <2> HIDE DEF n
  <2> QED
    BY <1>1, <2>1, CcdMoves
<1>3. ASSUME StartRefused PROVE CcdInv'
  <2>1. request' = [request EXCEPT !["starter"] = Idle] /\ Idle.op # "start" /\ UNCHANGED <<up, ccdVars>>
    BY <1>3 DEF StartRefused, Ends, Idle, serverVars
  <2> QED
    BY <1>1, <2>1, CcdMoves
<1>4. ASSUME StartLists \/ StartWrites
      PROVE  /\ \A k \in Editors : request'[k] = request[k]
             /\ \A x : ListClientConfig(x)' = ListClientConfig(x)
  BY <1>1, <1>4 DEF StartLists, StartWrites, Ends, LockInv, Shaped, ListClientConfig, ccdVars
<1>5. ASSUME StartLists PROVE CcdInv'
  <2>1. ccd' = ccd /\ lagging' = lagging /\ up' = up
    BY <1>5 DEF StartLists, ccdVars
  <2>2. request'["starter"].list = ListClientConfig(s) /\ request'["starter"].server = s
    BY <1>1, <1>5 DEF StartLists, LockInv, Shaped
  <2>3. CatchingUp(request["starter"], {"committed"})'
    BY <1>4, <1>5, <2>2 DEF CatchingUp
  <2>4. ASSUME NEW k \in Editors, At(k, "config", "listed")' PROVE CatchingUp(request[k], {"committed", "wait", "in"})'
    BY <1>4, <1>5, <2>1, <2>4 DEF CatchingUp, CcdInv, At
  <2>5. CcdMatches'
    BY <1>4, <1>5, <2>1 DEF CcdMatches, CcdInv
  <2> QED
    BY <2>3, <2>4, <2>5 DEF CcdInv
<1>6. ASSUME StartWrites PROVE CcdInv'
  <2>1. /\ q.op = "start" /\ q.pc = "listed" /\ ccd' = [ccd EXCEPT ![s] = q.list] /\ lagging' = StillLagging(q)
        /\ up' \in {up, up \cup {s}} /\ request'["starter"] = Idle
    BY <1>1, <1>6 DEF StartWrites, At, Ends, LockInv, Shaped
  <2>2. ~At("starter", "start", "listed")'
    BY <2>1 DEF At, Idle
  <2>3. ASSUME NEW k \in Editors, At(k, "config", "listed")' PROVE FALSE
    BY <1>1, <1>4, <1>6, <2>1, <2>3 DEF At, LockInv, OneStarter, InApp
  <2>4. CcdMatches'
    <3> SUFFICES ASSUME NEW t \in up' \ lagging'
                 PROVE  \/ ccd'[t] = ListClientConfig(t)
                        \/ \E k \in Editors : request[k].op = "config" /\ request[k].server = t
      BY <1>4, <1>6 DEF CcdMatches
    <3>1. ccd \in [Servers -> SUBSET Configs] /\ s \in Servers
      BY <1>1, <2>1, Operations DEF Data, LockInv
    <3>2. CASE t # s
      <4>1. t \in up /\ t \in Servers /\ t \notin lagging
        BY <2>1, <3>2 DEF StillLagging, LockInv, ServersKnown
      <4>2. ccd'[t] = ccd[t]
        BY <2>1, <3>1, <3>2, <4>1
      <4> QED
        BY <4>1, <4>2 DEF CcdInv, CcdMatches
    <3>3. CASE t = s /\ q.list = ListClientConfig(s)
      BY <2>1, <3>1, <3>3
    <3>4. CASE t = s /\ q.list # ListClientConfig(s)
      <4>1. lagging' = lagging
        BY <2>1, <3>4 DEF StillLagging
      <4>2. CatchingUp(q, {"committed"})
        BY <2>1 DEF At, CcdInv
      <4> QED
        BY <3>4, <4>1, <4>2 DEF CatchingUp
    <3> QED
      BY <3>2, <3>3, <3>4
  <2> QED
    BY <2>2, <2>3, <2>4 DEF CcdInv
<1> QED
  BY <1>2, <1>3, <1>5, <1>6 DEF OfStarter

LEMMA NextCcd == LockInv /\ Data /\ CcdInv /\ [Next]_vars => CcdInv'
<1> SUFFICES ASSUME LockInv, Data, CcdInv, [Next]_vars PROVE CcdInv'
  OBVIOUS
<1>1. "starter" \in Goroutines /\ \A k \in Editors : k \in Goroutines /\ k # "starter" /\ k \notin Viewers
      /\ \A h \in Editors : h # "updater" /\ h # "rotator"
  BY Kinds, InstancesAssumption DEF LockInv
<1>2. ASSUME UNCHANGED ccdVars, up' \subseteq up, \A k \in Editors \cup {"starter"} : request'[k] = request[k] PROVE CcdInv'
  BY <1>2, CcdKept
<1>3. CASE UNCHANGED vars
  BY <1>2, <1>3 DEF vars, serverVars
<1>4. ASSUME NEW s \in Servers, OfServer(s) PROVE CcdInv'
  <2>1. CASE DeleteHandler(s)
    <3>1. /\ AppFree /\ s \notin listed \cap up /\ rows' = rows \ ListClientConfig(s) /\ ccd' = [ccd EXCEPT ![s] = {}]
          /\ UNCHANGED <<up, request, lagging>>
      BY <2>1 DEF DeleteHandler, MayDelete
    <3>2. \A g \in Goroutines : ~InApp(request[g])
      BY <3>1 DEF AppFree, HoldsApp, InApp
    <3>3. \A g \in Goroutines : ~At(g, "start", "listed") /\ ~At(g, "config", "listed")
      BY <3>2 DEF At, InApp
    <3>4. CcdMatches'
      <4> SUFFICES ASSUME NEW t \in up \ lagging
                   PROVE  \/ ccd'[t] = ListClientConfig(t)'
                          \/ \E k \in Editors : request[k].op = "config" /\ request[k].server = t
        BY <3>1 DEF CcdMatches
      <4>1. t \in Servers /\ t # s
        BY <3>1 DEF LockInv, ServersKnown
      <4>2. ccd'[t] = ccd[t] /\ ListClientConfig(t)' = ListClientConfig(t)
        BY <3>1, <4>1 DEF Data, ListClientConfig
      <4> QED
        BY <4>2 DEF CcdInv, CcdMatches
    <3> QED
      BY <1>1, <3>1, <3>3, <3>4 DEF CcdInv, At
  <2>2. CASE RotationDue(s) \/ \E c \in clients[s] : EnforceUserValidity(s, c)
    <3>1. \A k \in Editors \cup {"starter"} : request'[k] = request[k]
      BY <1>1, <2>2 DEF RotationDue, EnforceUserValidity, Enters, LockInv, Shaped
    <3> QED
      BY <1>2, <2>2, <3>1 DEF RotationDue, EnforceUserValidity, serverVars
  <2>3. CASE \/ StopHandler(s) \/ OpenvpnDies(s) \/ WriteStatusFile(s)
             \/ \E c \in clients[s] : DisconnectClient(s, c)
             \/ \E user \in Users, vip \in Addresses : ConnectClient(s, user, vip)
             \/ \E l \in LogNames : WriteLine(s, l) \/ ClearLogHandler(s, l)
    BY <1>2, <2>3 DEF StopHandler, OpenvpnDies, WriteStatusFile, DisconnectClient, ConnectClient, WriteLine,
       ClearLogHandler, serverVars
  <2> QED
    BY <1>4, <2>1, <2>2, <2>3 DEF OfServer
<1>5. ASSUME NEW h \in Viewers, OfViewer(h) PROVE CcdInv'
  <2>1. UNCHANGED <<up, ccdVars>>
    BY <1>5 DEF OfViewer, StatusHandler, StatusRefused, GetLogHandler, GetStatus, StatusAnswered, StatusFromFile,
       GetStatusFromFile, CloseClientHandler, GetLineOffsets, GetFileContent, vars, serverVars
  <2>2. h \notin Editors /\ h # "starter"
    BY Kinds DEF LockInv
  <2>3. \A k \in Goroutines : k # h => request'[k] = request[k]
    BY <1>5 DEF OfViewer, StatusHandler, StatusRefused, GetLogHandler, GetStatus, StatusAnswered, StatusFromFile,
       GetStatusFromFile, CloseClientHandler, GetLineOffsets, GetFileContent, vars, Enters, Goes, Ends, LockInv, Shaped
  <2> QED
    BY <1>1, <1>2, <2>1, <2>2, <2>3
<1>6. ASSUME OfRotator PROVE CcdInv'
  <2>1. UNCHANGED <<up, ccdVars>>
    BY <1>6 DEF OfRotator, RotationNotDue, RotateSkips, RotateCopies, RotateTruncates, RotatePrunes, serverVars
  <2>2. \A k \in Goroutines : k # "rotator" => request'[k] = request[k]
    BY <1>6 DEF OfRotator, RotationNotDue, RotateSkips, RotateCopies, RotateTruncates, RotatePrunes, Goes, Ends, LockInv, Shaped
  <2> QED
    BY <1>1, <1>2, <2>1, <2>2
<1>7. ASSUME PanelRestarts PROVE CcdInv'
  <2>1. \A g \in Goroutines : request'[g] = Idle
    BY <1>7 DEF PanelRestarts
  <2>2. lagging' = lagging \cup {s \in up : ccd[s] # ListClientConfig(s)} /\ UNCHANGED <<rows, ccd, up>>
    BY <1>7 DEF PanelRestarts
  <2>3. CcdMatches'
    BY <2>2 DEF CcdMatches, ListClientConfig
  <2> QED
    BY <1>1, <2>1, <2>3 DEF CcdInv, At, Idle
<1> QED
  BY <1>3, <1>4, <1>5, <1>6, <1>7, CcdEditor, CcdTasks, CcdStarter DEF Next

\* Whoever is about to write the list of settings it has read either has the list
\* of the database, or another request is on its way that will write it again.
THEOREM CcdInvariant == Spec => []CcdInv
<1>1. Init => CcdInv
  BY InitCcd
<1>2. LockInv /\ Data /\ CcdInv /\ [Next]_vars => CcdInv'
  BY NextCcd
<1> QED
  BY <1>1, <1>2, HeldInvariant, PTL DEF Spec

\* A server that runs has the settings of the database in its directory unless a
\* request is still on its way: the list is read under the lock it is written
\* under, and a start keeps every other request out (StartWrites, UpdateClientConfig).
THEOREM SettingsReachServers == Spec => []CcdMatches
<1>1. CcdInv => CcdMatches
  BY DEF CcdInv
<1> QED
  BY <1>1, CcdInvariant, PTL

-----------------------------------------------------------------------------
(* Logs                                                                    *)

LEMMA LeastNumber ==
  ASSUME NEW T, T \subseteq Nat, T # {}
  PROVE  \E n \in T : \A m \in T : n <= m
<1>1. IsWellFoundedOn(OpToRel(<, Nat), Nat)
  BY NatLessThanWellFounded
<1>2. PICK n \in T : \A m \in T : ~(<<m, n>> \in OpToRel(<, Nat))
  BY <1>1, WFMin
<1>3. \A m \in T : ~(m < n)
  BY <1>2 DEF OpToRel
<1> QED
  BY <1>3

LEMMA Elements ==
  ASSUME NEW S, NEW list \in Seq(S)
  PROVE  \A k \in 1 .. Len(list) : list[k] \in S
  OBVIOUS

LEMMA Appended ==
  ASSUME NEW S, NEW list \in Seq(S), NEW x \in S
  PROVE  /\ Append(list, x) \in Seq(S) /\ Len(Append(list, x)) = Len(list) + 1
         /\ \A k \in 1 .. Len(list) : Append(list, x)[k] = list[k]
         /\ Append(list, x)[Len(list) + 1] = x
  OBVIOUS

LEMMA LinesNumbered ==
  ASSUME NEW a \in [log : LogNames, lines : Seq(Nat)], NEW l
  PROVE  LinesOf(a, l) \subseteq Nat
  BY DEF LinesOf, ToSet

\* What is archived of a log.
LEMMA ArchivedWithin ==
  ASSUME Logged, NEW s \in Servers, NEW l
  PROVE  Archived(s, l) = Within(archives[s], l)
<1> DEFINE list == archives[s]
<1>1. list \in Archives
  BY DEF Logged
<1>2. \A k \in 1 .. Len(list) : list[k] \in [log : LogNames, lines : Seq(Nat)]
  BY <1>1, Elements DEF Archives
<1>3. \A b : b \in ToSet(list) <=> \E k \in 1 .. Len(list) : b = list[k]
  BY <1>1 DEF ToSet, Archives
<1>4. Archived(s, l) = UNION {ToSet(a.lines) : a \in {b \in ToSet(list) : b.log = l}}
  BY DEF Archived
<1> HIDE DEF list
<1>5. ASSUME NEW x \in Archived(s, l) PROVE x \in Within(list, l)
  <2>1. PICK a \in {b \in ToSet(list) : b.log = l} : x \in ToSet(a.lines)
    BY <1>4
  <2>2. PICK k \in 1 .. Len(list) : a = list[k]
    BY <1>3
  <2>3. x \in LinesOf(list[k], l)
    BY <2>1, <2>2 DEF LinesOf
  <2>4. x \in Nat
    BY <1>2, <2>3, LinesNumbered
  <2> QED
    BY <2>3, <2>4 DEF Within
<1>6. ASSUME NEW x \in Within(list, l) PROVE x \in Archived(s, l)
  <2>1. PICK k \in 1 .. Len(list) : x \in LinesOf(list[k], l)
    BY DEF Within
  <2>2. list[k].log = l /\ x \in ToSet(list[k].lines)
    BY <2>1 DEF LinesOf
  <2>3. list[k] \in {b \in ToSet(list) : b.log = l}
    BY <1>3, <2>2
  <2> QED
    BY <1>4, <2>2, <2>3
<1> QED
  BY <1>5, <1>6 DEF list

\* A log of which nothing was written.
LEMMA KeptNothing == ASSUME NEW l PROVE Kept({}, <<>>, 0, {}, l)
  BY DEF Kept, Within

\* A line more.
LEMMA KeptWritten ==
  ASSUME NEW a, NEW list, NEW w \in Nat, NEW gone, NEW l, Kept(a, list, w, gone, l)
  PROVE  Kept(a \cup {w + 1}, list, w + 1, gone, l)
<1>1. a \cup Within(list, l) \cup gone \cup {w + 1} \subseteq 1 .. w + 1
  BY DEF Kept
<1>2. \A i \in 1 .. w + 1 : i .. w + 1 \subseteq (i .. w) \cup {w + 1}
  OBVIOUS
<1>5. \A i \in {w + 1} : i .. w + 1 \subseteq {w + 1}
  OBVIOUS
<1>3. \A i \in a : i .. w + 1 \subseteq a \cup {w + 1}
  BY <1>1, <1>2 DEF Kept
<1>4. ASSUME NEW i \in a \cup {w + 1} \cup Within(list, l)
      PROVE  i .. w + 1 \subseteq a \cup {w + 1} \cup Within(list, l) \cup gone
  <2>1. CASE i = w + 1
    BY <2>1
  <2>2. CASE i # w + 1
    <3>1. i .. w \subseteq a \cup Within(list, l) \cup gone /\ i \in 1 .. w + 1
      BY <1>1, <1>4, <2>2 DEF Kept
    <3> HIDE DEF Within
    <3> QED
      BY <1>2, <3>1
  <2> QED
    BY <2>1, <2>2
<1> QED
  BY <1>1, <1>3, <1>4, <1>5 DEF Kept

\* The file is emptied: what no archive has is lost.
LEMMA KeptCleared ==
  ASSUME NEW a, NEW list, NEW w \in Nat, NEW gone, NEW l, Kept(a, list, w, gone, l)
  PROVE  Kept({}, list, w, gone \cup (a \ Within(list, l)), l)
<1> DEFINE W == Within(list, l)
           g == gone \cup (a \ W)
<1>1. /\ a \cup W \cup gone \subseteq 1 .. w
      /\ \A i \in a \cup W : i .. w \subseteq a \cup W \cup gone
      /\ \A k \in 1 .. Len(list) : \A j \in 1 .. k - 1 :
            \A x \in LinesOf(list[j], l), y \in LinesOf(list[k], l) : y <= x => x \in LinesOf(list[k], l)
  BY DEF Kept
<1>2. W \cup g = a \cup W \cup gone
  OBVIOUS
<1>3. {} \cup W \cup g \subseteq 1 .. w /\ \A i \in {} \cup W : i .. w \subseteq {} \cup W \cup g
  BY <1>1, <1>2
<1> QED
  BY <1>1, <1>3 DEF Kept

\* The file is copied to a new archive, of this log or of the other one.
LEMMA KeptCopied ==
  ASSUME NEW a, NEW list \in Archives, NEW w \in Nat, NEW gone, NEW l, Kept(a, list, w, gone, l),
         NEW b \in [log : LogNames, lines : Seq(Nat)], LinesOf(b, l) \in {{}, a}
  PROVE  Kept(a, Append(list, b), w, gone, l)
<1> DEFINE n == Len(list)
           more == Append(list, b)
<1>1. n \in Nat /\ Len(more) = n + 1 /\ more[n + 1] = b /\ \A k \in 1 .. n : more[k] = list[k]
  BY Appended DEF Archives
<1>2. /\ a \cup Within(list, l) \cup gone \subseteq 1 .. w
      /\ \A i \in a : i .. w \subseteq a
      /\ \A k \in 1 .. n : \A j \in 1 .. k - 1 :
            \A x \in LinesOf(list[j], l), y \in LinesOf(list[k], l) : y <= x => x \in LinesOf(list[k], l)
      /\ \A i \in a \cup Within(list, l) : i .. w \subseteq a \cup Within(list, l) \cup gone
  BY DEF Kept
<1>3. \A k \in 1 .. n : LinesOf(list[k], l) \subseteq Within(list, l)
  <2>1. \A k \in 1 .. n : list[k] \in [log : LogNames, lines : Seq(Nat)]
    BY Elements DEF Archives
  <2>2. \A k \in 1 .. n : LinesOf(list[k], l) \subseteq Nat
    BY <2>1, LinesNumbered
  <2> QED
    BY <2>2 DEF Within
<1> HIDE DEF more
<1>4. Within(more, l) = Within(list, l) \cup LinesOf(b, l)
  <2>1. LinesOf(b, l) \subseteq Nat
    BY LinesNumbered
  <2>2. 1 .. n + 1 = (1 .. n) \cup {n + 1}
    BY <1>1
  <2> HIDE DEF n
  <2>3. Within(list, l) = {x \in Nat : \E k \in 1 .. n : x \in LinesOf(list[k], l)}
    BY DEF Within, n
  <2> QED
    BY <1>1, <2>1, <2>2, <2>3 DEF Within
<1>5. ASSUME NEW k \in 1 .. Len(more), NEW j \in 1 .. k - 1,
             NEW x \in LinesOf(more[j], l), NEW y \in LinesOf(more[k], l), y <= x
      PROVE  x \in LinesOf(more[k], l)
  <2>1. j \in 1 .. n /\ more[j] = list[j]
    BY <1>1
  <2>2. CASE k \in 1 .. n
    BY <1>1, <1>2, <1>5, <2>1, <2>2
  <2>3. CASE k = n + 1
    <3>1. y \in a /\ LinesOf(more[k], l) = a
      BY <1>1, <2>3
    <3>2. x \in 1 .. w /\ y \in 1 .. w /\ y .. w \subseteq a
      BY <1>2, <1>3, <2>1, <3>1
    <3>3. x \in y .. w
      BY <1>5, <3>2
    <3> QED
      BY <3>1, <3>2, <3>3
  <2>4. k \in 1 .. n + 1
    BY <1>1
  <2> HIDE DEF n
  <2> QED
    BY <1>1, <2>2, <2>3, <2>4
<1>6. a \cup Within(more, l) = a \cup Within(list, l)
  BY <1>4
<1> HIDE DEF n
<1>7. /\ a \cup Within(more, l) \cup gone \subseteq 1 .. w
      /\ \A i \in a \cup Within(more, l) : i .. w \subseteq a \cup Within(more, l) \cup gone
  BY <1>2, <1>6
<1>8. Kept(a, more, w, gone, l)
  BY <1>2, <1>5, <1>7 DEF Kept
<1> QED
  BY <1>8 DEF more

\* The oldest archives go: their lines after one that is kept are in the archive
\* of that one, or in the file.
LEMMA KeptPruned ==
  ASSUME NEW a, NEW list \in Archives, NEW w \in Nat, NEW gone, NEW l, Kept(a, list, w, gone, l),
         NEW m \in 1 .. Len(list)
  PROVE  Kept(a, SubSeq(list, m, Len(list)), w, gone, l)
<1> DEFINE n == Len(list)
           rest == SubSeq(list, m, n)
<1>1. n \in Nat /\ Len(rest) = n - m + 1 /\ \A k \in 1 .. n - m + 1 : rest[k] = list[m + k - 1]
  BY DEF Archives
<1>2. /\ a \cup Within(list, l) \cup gone \subseteq 1 .. w
      /\ \A i \in a : i .. w \subseteq a
      /\ \A k \in 1 .. n : \A j \in 1 .. k - 1 :
            \A x \in LinesOf(list[j], l), y \in LinesOf(list[k], l) : y <= x => x \in LinesOf(list[k], l)
      /\ \A i \in a \cup Within(list, l) : i .. w \subseteq a \cup Within(list, l) \cup gone
  BY DEF Kept
<1> HIDE DEF rest
<1>3. \A x : x \in Within(rest, l) <=> x \in Nat /\ \E k \in m .. n : x \in LinesOf(list[k], l)
  <2>1. \A k \in 1 .. n - m + 1 : m + k - 1 \in m .. n
    BY <1>1
  <2>2. \A k \in m .. n : k - m + 1 \in 1 .. n - m + 1 /\ m + (k - m + 1) - 1 = k
    BY <1>1
  <2>3. \A k \in m .. n : rest[k - m + 1] = list[k]
    BY <1>1, <2>2
  <2>4. \A x : x \in Within(rest, l) <=> x \in Nat /\ \E k \in 1 .. n - m + 1 : x \in LinesOf(rest[k], l)
    BY <1>1 DEF Within
  <2> QED
    BY <1>1, <2>1, <2>2, <2>3, <2>4
<1>4. Within(rest, l) \subseteq Within(list, l)
  <2>1. m .. n \subseteq 1 .. n
    BY <1>1
  <2> QED
    BY <1>3, <2>1 DEF Within
<1>5. ASSUME NEW k \in 1 .. Len(rest), NEW j \in 1 .. k - 1,
             NEW x \in LinesOf(rest[j], l), NEW y \in LinesOf(rest[k], l), y <= x
      PROVE  x \in LinesOf(rest[k], l)
  <2>1. /\ rest[k] = list[m + k - 1] /\ rest[j] = list[m + j - 1]
        /\ m + k - 1 \in 1 .. n /\ m + j - 1 \in 1 .. (m + k - 1) - 1
    BY <1>1
  <2> QED
    BY <1>2, <1>5, <2>1
<1>6. ASSUME NEW i \in a \cup Within(rest, l), NEW z \in i .. w
      PROVE  z \in a \cup Within(rest, l) \cup gone
  <2>1. z \in a \cup Within(list, l) \cup gone /\ i \in 1 .. w
    BY <1>2, <1>4
  <2>2. CASE i \in a
    BY <1>2, <2>2
  <2>3. CASE i \in Within(rest, l) /\ z \in Within(list, l)
    <3>1. PICK k \in m .. n : i \in LinesOf(list[k], l)
      BY <1>3, <2>3
    <3>2. PICK j \in 1 .. n : z \in LinesOf(list[j], l)
      BY <2>3 DEF Within
    <3>3. z \in Nat /\ i <= z
      BY <2>1
    <3>4. CASE j \in m .. n
      BY <1>3, <3>2, <3>3, <3>4
    <3>5. CASE j \notin m .. n
      <4>1. k \in 1 .. n /\ j \in 1 .. k - 1
        BY <1>1, <3>5
      <4>2. z \in LinesOf(list[k], l)
        BY <1>2, <3>1, <3>2, <3>3, <4>1
      <4> QED
        BY <1>3, <3>3, <4>2
    <3> QED
      BY <3>4, <3>5
  <2> QED
    BY <2>1, <2>2, <2>3
<1>7. a \cup Within(rest, l) \cup gone \subseteq 1 .. w
  BY <1>2, <1>4
<1>8. Kept(a, rest, w, gone, l)
  <2> HIDE DEF n
  <2> QED
    BY <1>2, <1>5, <1>6, <1>7 DEF Kept
<1> QED
  BY <1>8 DEF rest

LEMMA AppendedSet ==
  ASSUME NEW a \in Seq(Nat), NEW x \in Nat
  PROVE  Append(a, x) \in Seq(Nat) /\ ToSet(Append(a, x)) = ToSet(a) \cup {x}
<1> DEFINE b == Append(a, x)
<1>1. /\ b \in Seq(Nat) /\ Len(b) = Len(a) + 1 /\ b[Len(a) + 1] = x
      /\ \A k \in 1 .. Len(a) : b[k] = a[k]
  BY Appended
<1>2. Len(a) \in Nat /\ DOMAIN a = 1 .. Len(a)
  OBVIOUS
<1> HIDE DEF b
<1>3. DOMAIN b = 1 .. Len(a) + 1
  BY <1>1
<1>4. 1 .. Len(a) + 1 = (1 .. Len(a)) \cup {Len(a) + 1}
  BY <1>2
<1>5. ToSet(b) = ToSet(a) \cup {x}
  BY <1>1, <1>2, <1>3, <1>4 DEF ToSet
<1> QED
  BY <1>1, <1>5 DEF b

\* Pruning keeps the archives from one of them on.
LEMMA PrunedSuffix ==
  ASSUME Logged, NEW s \in Servers
  PROVE  \/ archives[s] = <<>> /\ Pruned(s) = <<>>
         \/ \E m \in 1 .. Len(archives[s]) : Pruned(s) = SubSeq(archives[s], m, Len(archives[s]))
<1> DEFINE n == Len(archives[s])
           enough == {k \in 1 .. n : k = n \/ Fits(s, SubSeq(archives[s], k, n))}
           m == CHOOSE k \in enough : \A j \in enough : k <= j
<1>1. archives[s] \in Archives /\ n \in Nat
  <2>1. archives[s] \in Archives
    BY DEF Logged
  <2> QED
    BY <2>1 DEF Archives
<1>2. Pruned(s) = IF n = 0 THEN <<>> ELSE SubSeq(archives[s], m, n)
  BY DEF Pruned
<1>3. CASE n = 0
  BY <1>1, <1>2, <1>3 DEF Archives
<1>4. CASE n # 0
  <2>1. n \in enough /\ enough \subseteq Nat
    BY <1>1, <1>4
  <2> HIDE DEF enough
  <2>2. \E k \in enough : \A j \in enough : k <= j
    BY <2>1, LeastNumber
  <2>3. m \in enough
    BY <2>2
  <2>4. m \in 1 .. n
    BY <2>3 DEF enough
  <2> HIDE DEF m
  <2> QED
    BY <1>2, <1>4, <2>4
<1> QED
  BY <1>3, <1>4

LEMMA InitLog == Init => LogInv
<1> SUFFICES ASSUME Init PROVE LogInv
  OBVIOUS
<1>1. /\ active = [s \in Servers |-> [l \in LogNames |-> <<>>]] /\ archives = [s \in Servers |-> <<>>]
      /\ written = [s \in Servers |-> [l \in LogNames |-> 0]] /\ lost = [s \in Servers |-> [l \in LogNames |-> {}]]
  BY DEF Init
<1>2. <<>> \in Archives /\ <<>> \in Seq(Nat)
  BY DEF Archives
<1>3. Logged
  BY <1>1, <1>2 DEF Logged
<1>4. ToSet(<<>>) = {}
  BY DEF ToSet
<1> QED
  BY <1>1, <1>3, <1>4, KeptNothing DEF LogInv

LEMMA LogUnchanged == ASSUME LogInv, UNCHANGED logVars PROVE LogInv'
  BY DEF LogInv, Logged, logVars

\* The file of a log is emptied, by a rotation or by an administrator.
LEMMA LogEmptied ==
  ASSUME LogInv, NEW s \in Servers, NEW l \in LogNames, active' = [active EXCEPT ![s][l] = <<>>],
         lost' = [lost EXCEPT ![s][l] = @ \cup (ToSet(active[s][l]) \ Archived(s, l))],
         UNCHANGED <<archives, written>>
  PROVE  LogInv'
<1>1. Logged /\ Kept(ToSet(active[s][l]), archives[s], written[s][l], lost[s][l], l)
  BY DEF LogInv
<1>2. Archived(s, l) = Within(archives[s], l)
  BY <1>1, ArchivedWithin
<1>3. <<>> \in Seq(Nat) /\ ToSet(<<>>) = {}
  BY DEF ToSet
<1>4. active \in [Servers -> [LogNames -> Seq(Nat)]] /\ lost \in [Servers -> [LogNames -> SUBSET Nat]]
  BY <1>1 DEF Logged
<1>5. written[s][l] \in Nat /\ ToSet(active[s][l]) \subseteq Nat
  BY <1>1 DEF Logged, ToSet
<1>6. Kept({}, archives[s], written[s][l], lost[s][l] \cup (ToSet(active[s][l]) \ Archived(s, l)), l)
  BY <1>1, <1>2, <1>5, KeptCleared
<1>7. Logged'
  BY <1>1, <1>3, <1>5 DEF Logged
<1>8. active'[s][l] = <<>> /\ lost'[s][l] = lost[s][l] \cup (ToSet(active[s][l]) \ Archived(s, l))
  BY <1>4
<1>9. \A t \in Servers, m \in LogNames : t # s \/ m # l => active'[t][m] = active[t][m] /\ lost'[t][m] = lost[t][m]
  BY <1>4
<1>10. ASSUME NEW t \in Servers, NEW m \in LogNames
       PROVE  Kept(ToSet(active'[t][m]), archives[t], written[t][m], lost'[t][m], m)
  <2>1. CASE t = s /\ m = l
    BY <1>3, <1>6, <1>8, <2>1
  <2>2. CASE t # s \/ m # l
    BY <1>9, <2>2 DEF LogInv
  <2> QED
    BY <2>1, <2>2
<1> QED
  BY <1>7, <1>10 DEF LogInv

LEMMA LogWritten ==
  ASSUME LogInv, NEW s \in Servers, NEW l \in LogNames, WriteLine(s, l)
  PROVE  LogInv'
<1> DEFINE w == written[s][l]
<1>1. Logged /\ Kept(ToSet(active[s][l]), archives[s], w, lost[s][l], l)
  BY DEF LogInv
<1>2. /\ written' = [written EXCEPT ![s][l] = @ + 1] /\ active' = [active EXCEPT ![s][l] = Append(@, w + 1)]
      /\ archives' = archives /\ lost' = lost
  BY DEF WriteLine
<1>3. w \in Nat /\ active[s][l] \in Seq(Nat)
  BY <1>1 DEF Logged
<1>4. Append(active[s][l], w + 1) \in Seq(Nat) /\ ToSet(Append(active[s][l], w + 1)) = ToSet(active[s][l]) \cup {w + 1}
  BY <1>3, AppendedSet
<1>5. Kept(ToSet(active[s][l]) \cup {w + 1}, archives[s], w + 1, lost[s][l], l)
  BY <1>1, <1>3, KeptWritten
<1>6. active \in [Servers -> [LogNames -> Seq(Nat)]] /\ written \in [Servers -> [LogNames -> Nat]]
  BY <1>1 DEF Logged
<1>7. active'[s][l] = Append(active[s][l], w + 1) /\ written'[s][l] = w + 1
  BY <1>2, <1>6
<1>8. \A t \in Servers, m \in LogNames : t # s \/ m # l => active'[t][m] = active[t][m] /\ written'[t][m] = written[t][m]
  BY <1>2, <1>6
<1>9. Logged'
  BY <1>1, <1>2, <1>3, <1>4 DEF Logged
<1>10. ASSUME NEW t \in Servers, NEW m \in LogNames
       PROVE  Kept(ToSet(active'[t][m]), archives[t], written'[t][m], lost[t][m], m)
  <2>1. CASE t = s /\ m = l
    BY <1>4, <1>5, <1>7, <2>1
  <2>2. CASE t # s \/ m # l
    BY <1>8, <2>2 DEF LogInv
  <2> QED
    BY <2>1, <2>2
<1> QED
  BY <1>2, <1>9, <1>10 DEF LogInv

LEMMA LogRotated ==
  ASSUME LockInv, LogInv, OfRotator
  PROVE  LogInv'
<1> DEFINE q == request["rotator"]
           s == q.server
<1>1. "rotator" \in Goroutines /\ q \in {Idle} \cup Rotating
  BY Kinds DEF LockInv
<1>2. q.op = "rotate" => s \in Servers /\ q.log \in 1 .. 3 /\ (q.pc = "copied" => q.log \in 1 .. 2)
  BY <1>1, Fields DEF Idle
<1>3. Logs[1] \in LogNames /\ Logs[2] \in LogNames /\ Len(Logs) = 2
  BY DEF Logs, LogNames
<1>4. Logged
  BY DEF LogInv
<1>5. ASSUME RotateCopies PROVE LogInv'
  <2> DEFINE l == Logs[q.log]
             b == [log |-> l, lines |-> active[s][l]]
  <2>1. /\ q.op = "rotate" /\ q.log <= 2 /\ archives' = [archives EXCEPT ![s] = Append(@, b)]
        /\ UNCHANGED <<active, written, lost>>
    BY <1>3, <1>5 DEF RotateCopies, At
  <2>2. s \in Servers /\ l \in LogNames
    <3>1. q.log \in {1, 2}
      BY <1>2, <2>1
    <3> QED
      BY <1>2, <1>3, <2>1, <3>1
  <2>3. b \in [log : LogNames, lines : Seq(Nat)] /\ b.log = l /\ b.lines = active[s][l]
    BY <1>4, <2>2 DEF Logged
  <2>4. archives \in [Servers -> Archives]
    BY <1>4 DEF Logged
  <2> HIDE DEF b, l
  <2>5. archives'[s] = Append(archives[s], b) /\ \A t \in Servers : t # s => archives'[t] = archives[t]
    BY <2>1, <2>2, <2>4
  <2>6. Append(archives[s], b) \in Archives
    BY <2>2, <2>3, <2>4, Appended DEF Archives
  <2>7. Logged'
    BY <1>4, <2>1, <2>2, <2>4, <2>6 DEF Logged
  <2>8. ASSUME NEW m \in LogNames PROVE Kept(ToSet(active[s][m]), Append(archives[s], b), written[s][m], lost[s][m], m)
    <3>1. LinesOf(b, m) \in {{}, ToSet(active[s][m])}
      BY <2>3 DEF LinesOf
    <3>2. archives[s] \in Archives /\ written[s][m] \in Nat /\ Kept(ToSet(active[s][m]), archives[s], written[s][m], lost[s][m], m)
      BY <1>4, <2>2 DEF Logged, LogInv
    <3> QED
      BY <2>3, <3>1, <3>2, KeptCopied
  <2>9. \A t \in Servers, m \in LogNames : Kept(ToSet(active[t][m]), archives'[t], written[t][m], lost[t][m], m)
    BY <2>5, <2>8 DEF LogInv
  <2> QED
    BY <2>1, <2>7, <2>9 DEF LogInv
<1>6. ASSUME RotateTruncates PROVE LogInv'
  <2> DEFINE l == Logs[q.log]
  <2>1. /\ q.op = "rotate" /\ q.pc = "copied" /\ active' = [active EXCEPT ![s][l] = <<>>]
        /\ lost' = [lost EXCEPT ![s][l] = @ \cup (ToSet(active[s][l]) \ Archived(s, l))]
        /\ UNCHANGED <<archives, written>>
    BY <1>6 DEF RotateTruncates, At
  <2>2. q.log \in {1, 2} /\ s \in Servers
    BY <1>2, <2>1
  <2>3. l \in LogNames
    BY <1>3, <2>2
  <2> HIDE DEF l, q
  <2> QED
    BY <2>1, <2>2, <2>3, LogEmptied
<1>7. ASSUME RotatePrunes PROVE LogInv'
  <2>1. q.op = "rotate" /\ archives' = [archives EXCEPT ![s] = Pruned(s)] /\ UNCHANGED <<active, written, lost>>
    BY <1>7 DEF RotatePrunes, At
  <2>2. s \in Servers /\ archives \in [Servers -> Archives]
    BY <1>2, <1>4, <2>1 DEF Logged
  <2>3. archives'[s] = Pruned(s) /\ \A t \in Servers : t # s => archives'[t] = archives[t]
    BY <2>1, <2>2
  <2>4. CASE Pruned(s) = archives[s]
    <3>1. \A t \in Servers : archives'[t] = archives[t]
      BY <2>3, <2>4
    <3>2. archives' \in [Servers -> Archives]
      BY <2>1, <2>2, <2>4
    <3> QED
      BY <2>1, <3>1, <3>2 DEF LogInv, Logged
  <2>5. CASE Pruned(s) # archives[s]
    <3>1. PICK k \in 1 .. Len(archives[s]) : Pruned(s) = SubSeq(archives[s], k, Len(archives[s]))
      BY <1>4, <2>2, <2>5, PrunedSuffix
    <3>2. Pruned(s) \in Archives
      <4>1. archives[s] \in Archives
        BY <2>2
      <4>2. \A A : \A list \in Seq(A) : \A i \in 1 .. Len(list) : SubSeq(list, i, Len(list)) \in Seq(A)
        OBVIOUS
      <4> QED
        BY <3>1, <4>1, <4>2 DEF Archives
    <3>3. \A m \in LogNames : Kept(ToSet(active[s][m]), Pruned(s), written[s][m], lost[s][m], m)
      <4> SUFFICES ASSUME NEW m \in LogNames PROVE Kept(ToSet(active[s][m]), Pruned(s), written[s][m], lost[s][m], m)
        OBVIOUS
      <4>1. archives[s] \in Archives /\ written[s][m] \in Nat /\ Kept(ToSet(active[s][m]), archives[s], written[s][m], lost[s][m], m)
        BY <1>4, <2>2 DEF Logged, LogInv
      <4> QED
        BY <3>1, <4>1, KeptPruned
    <3>4. Logged'
      BY <1>4, <2>1, <2>2, <3>2 DEF Logged
    <3>5. \A t \in Servers, m \in LogNames : Kept(ToSet(active[t][m]), archives'[t], written[t][m], lost[t][m], m)
      BY <2>3, <3>3 DEF LogInv
    <3> QED
      BY <2>1, <3>4, <3>5 DEF LogInv
  <2> QED
    BY <2>4, <2>5
<1>8. ASSUME RotationNotDue \/ RotateSkips PROVE LogInv'
  BY <1>8, LogUnchanged DEF RotationNotDue, RotateSkips
<1> QED
  BY <1>5, <1>6, <1>7, <1>8 DEF OfRotator

LEMMA NextLog == LockInv /\ LogInv /\ [Next]_vars => LogInv'
<1> SUFFICES ASSUME LockInv, LogInv, [Next]_vars PROVE LogInv'
  OBVIOUS
<1>1. CASE UNCHANGED vars
  BY <1>1, LogUnchanged DEF vars
<1>2. ASSUME NEW s \in Servers, OfServer(s) PROVE LogInv'
  <2>1. CASE DeleteHandler(s)
    <3>1. /\ active' = [active EXCEPT ![s] = [l \in LogNames |-> <<>>]] /\ archives' = [archives EXCEPT ![s] = <<>>]
          /\ written' = [written EXCEPT ![s] = [l \in LogNames |-> 0]] /\ lost' = [lost EXCEPT ![s] = [l \in LogNames |-> {}]]
      BY <2>1 DEF DeleteHandler
    <3>2. Logged
      BY DEF LogInv
    <3>3. <<>> \in Archives /\ <<>> \in Seq(Nat) /\ ToSet(<<>>) = {}
      BY DEF Archives, ToSet
    <3>4. Logged'
      BY <3>1, <3>2, <3>3 DEF Logged
    <3>5. \A l \in LogNames : active'[s][l] = <<>> /\ archives'[s] = <<>> /\ written'[s][l] = 0 /\ lost'[s][l] = {}
      BY <3>1, <3>2 DEF Logged
    <3>6. \A t \in Servers : t # s => /\ active'[t] = active[t] /\ archives'[t] = archives[t]
                                      /\ written'[t] = written[t] /\ lost'[t] = lost[t]
      BY <3>1, <3>2 DEF Logged
    <3> QED
      BY <3>3, <3>4, <3>5, <3>6, KeptNothing DEF LogInv
  <2>2. ASSUME NEW l \in LogNames, WriteLine(s, l) \/ ClearLogHandler(s, l) PROVE LogInv'
    BY <2>2, LogWritten, LogEmptied DEF ClearLogHandler
  <2>3. CASE \/ StopHandler(s) \/ OpenvpnDies(s) \/ WriteStatusFile(s) \/ RotationDue(s)
             \/ \E c \in clients[s] : DisconnectClient(s, c) \/ EnforceUserValidity(s, c)
             \/ \E user \in Users, vip \in Addresses : ConnectClient(s, user, vip)
    BY <2>3, LogUnchanged DEF StopHandler, OpenvpnDies, WriteStatusFile, RotationDue, DisconnectClient,
       EnforceUserValidity, ConnectClient
  <2> QED
    BY <1>2, <2>1, <2>2, <2>3 DEF OfServer
<1>3. ASSUME NEW h \in Editors, OfEditor(h) PROVE LogInv'
  BY <1>3, LogUnchanged DEF OfEditor, AddClientConfig, DeleteClientConfig, ConfigEnters, ConfigLists, UpdateClientConfig
<1>4. ASSUME NEW h \in Viewers, OfViewer(h) PROVE LogInv'
  BY <1>4, LogUnchanged DEF OfViewer, StatusHandler, StatusRefused, GetLogHandler, GetStatus, StatusAnswered,
     StatusFromFile, GetStatusFromFile, CloseClientHandler, GetLineOffsets, GetFileContent, vars
<1>5. ASSUME NEW g \in Goroutines,
             GetProcessLock(g) \/ Acquire(g) \/ GetStatus2(g) \/ CloseClient(g) \/ ClientKill(g) \/ KillFails(g)
      PROVE  LogInv'
  BY <1>5, LogUnchanged DEF GetProcessLock, Acquire, GetStatus2, CloseClient, ClientKill, KillFails
<1>6. ASSUME OfStarter \/ PanelRestarts PROVE LogInv'
  BY <1>6, LogUnchanged DEF OfStarter, StartHandler, StartRefused, StartLists, StartWrites, PanelRestarts
<1> QED
  BY <1>1, <1>2, <1>3, <1>4, <1>5, <1>6, LogRotated DEF Next

\* Of every log the file goes up to the last line, and an archive from any of its
\* lines on has what the older archives have: a rotation copies the whole file
\* before it empties it, and prunes from the oldest archive on.
THEOREM LogInvariant == Spec => []LogInv
<1>1. Init => LogInv
  BY InitLog
<1>2. LockInv /\ LogInv /\ [Next]_vars => LogInv'
  BY NextLog
<1> QED
  BY <1>1, <1>2, HeldInvariant, PTL DEF Spec

\* After a line that is kept, no line is missing but those lost between the copy
\* and the truncation, or cleared: pruning never drops the newer of two lines
\* (RotateCopies, RotateTruncates, RotatePrunes).
THEOREM NewerLinesAreKept == Spec => []LogsKept
<1>1. LogInv => LogsKept
  <2> SUFFICES ASSUME LogInv PROVE LogsKept
    OBVIOUS
  <2>1. \A s \in Servers, l \in LogNames : Archived(s, l) = Within(archives[s], l)
    BY ArchivedWithin DEF LogInv
  <2> QED
    BY <2>1 DEF LogInv, LogsKept, Kept
<1> QED
  BY <1>1, LogInvariant, PTL

\* Every variable of the instances has its type, and a goroutine waits for a lock
\* with a number its server has or had.
THEOREM InstanceTypes == Spec => []TypeOK
<1>1. LockInv /\ Data /\ LogInv => TypeOK
  <2> SUFFICES ASSUME LockInv, Data, LogInv PROVE TypeOK
    OBVIOUS
  <2>1. exists \subseteq Servers /\ listed \subseteq Servers /\ up \subseteq listed /\ locks \in [Servers -> 1 .. 2]
    BY DEF LockInv, ServersKnown
  <2>2. ASSUME NEW g \in Goroutines
        PROVE  /\ request[g].op \in {"idle", "start", "config", "status", "file", "kick", "enforce", "log", "rotate"}
               /\ HoldsServer(g) => request[g].lock \in 1 .. locks[request[g].server]
    BY Operations DEF LockInv, LocksFetched, HoldsServer, Fetched
  <2>3. \A s \in Servers, l \in LogNames :
           ToSet(active[s][l]) \cup Archived(s, l) \cup lost[s][l] \subseteq 1 .. written[s][l]
    BY ArchivedWithin DEF LogInv, Kept
  <2> QED
    BY <2>1, <2>2, <2>3 DEF TypeOK, Data
<1> QED
  BY <1>1, HeldInvariant, LogInvariant, PTL

LEMMA SamePrefix == ASSUME NEW a \in Seq(Nat) PROVE IsPrefix(a, a)
  BY DEF IsPrefix

LEMMA LongerPrefix == ASSUME NEW a \in Seq(Nat), NEW x \in Nat PROVE IsPrefix(a, Append(a, x))
<1> DEFINE b == Append(a, x)
<1>1. /\ b \in Seq(Nat) /\ Len(b) = Len(a) + 1 /\ \A k \in 1 .. Len(a) : b[k] = a[k]
  BY Appended
<1>2. Len(a) \in Nat
  OBVIOUS
<1> HIDE DEF b
<1>3. SubSeq(a, 1, Len(a)) = SubSeq(b, 1, Len(a))
  BY <1>1, <1>2
<1> QED
  BY <1>1, <1>2, <1>3 DEF IsPrefix, b

LEMMA ReaderStep ==
  ASSUME LockInv, LogInv, [Next]_vars, NEW h \in Viewers, At(h, "log", "counted")
  PROVE  IsPrefix(active[request[h].server][request[h].log], active'[request[h].server][request[h].log])
<1> DEFINE q == request[h]
           s == q.server
           l == q.log
<1>1. h \in Goroutines /\ s \in Servers /\ l \in LogNames
  <2>1. h \in Goroutines /\ q \in Viewing
    BY Kinds DEF LockInv, At, Idle
  <2>2. q \in [op : {"log"}, server : Servers, pc : {"wait", "in", "counted"}, lock : Nat, log : LogNames]
    BY <2>1, ViewingFields DEF At
  <2> QED
    BY <2>1, <2>2
<1>2. Logged /\ active[s][l] \in Seq(Nat) /\ written[s][l] \in Nat
  BY <1>1 DEF LogInv, Logged
<1>3. InApp(q) /\ Holding(q) /\ s \in exists /\ ~AppFree
  BY <1>1 DEF At, InApp, Holding, LockInv, AppKeeps, AppFree, HoldsApp
<1> HIDE DEF q
<1>4. active' = active => IsPrefix(active[s][l], active'[s][l])
  BY <1>2, SamePrefix
<1>5. CASE UNCHANGED vars
  BY <1>4, <1>5 DEF vars, logVars, q
<1>6. ASSUME NEW t \in Servers, OfServer(t) PROVE IsPrefix(active[s][l], active'[s][l])
  <2>1. ASSUME NEW m \in LogNames, WriteLine(t, m) PROVE IsPrefix(active[s][l], active'[s][l])
    <3>1. active' = [active EXCEPT ![t][m] = Append(@, written[t][m] + 1)] /\ active \in [Servers -> [LogNames -> Seq(Nat)]]
      BY <1>2, <2>1 DEF WriteLine, Logged
    <3>2. CASE t = s /\ m = l
      <4>1. active'[s][l] = Append(active[s][l], written[s][l] + 1)
        BY <1>1, <3>1, <3>2
      <4> QED
        BY <1>2, <4>1, LongerPrefix
    <3>3. CASE t # s \/ m # l
      <4>1. active'[s][l] = active[s][l]
        BY <1>1, <3>1, <3>3
      <4> QED
        BY <1>2, <4>1, SamePrefix
    <3> QED
      BY <3>2, <3>3
  <2>2. ASSUME \/ StopHandler(t) \/ OpenvpnDies(t) \/ WriteStatusFile(t) \/ RotationDue(t)
               \/ \E c \in clients[t] : DisconnectClient(t, c) \/ EnforceUserValidity(t, c)
               \/ \E user \in Users, vip \in Addresses : ConnectClient(t, user, vip)
        PROVE  active' = active
    BY <2>2 DEF StopHandler, OpenvpnDies, WriteStatusFile, RotationDue, DisconnectClient, EnforceUserValidity,
       ConnectClient, logVars
  <2>3. ~DeleteHandler(t) /\ \A m \in LogNames : ~ClearLogHandler(t, m)
    BY <1>3 DEF DeleteHandler, ClearLogHandler
  <2> QED
    BY <1>4, <1>6, <2>1, <2>2, <2>3 DEF OfServer
<1>7. ASSUME NEW k \in Editors, OfEditor(k) PROVE active' = active
  BY <1>7 DEF OfEditor, AddClientConfig, DeleteClientConfig, ConfigEnters, ConfigLists, UpdateClientConfig, logVars
<1>8. ASSUME NEW k \in Viewers, OfViewer(k) PROVE active' = active
  BY <1>8 DEF OfViewer, StatusHandler, StatusRefused, GetLogHandler, GetStatus, StatusAnswered,
     StatusFromFile, GetStatusFromFile, CloseClientHandler, GetLineOffsets, GetFileContent, vars, logVars
<1>9. ASSUME NEW g \in Goroutines,
             GetProcessLock(g) \/ Acquire(g) \/ GetStatus2(g) \/ CloseClient(g) \/ ClientKill(g) \/ KillFails(g)
      PROVE  active' = active
  BY <1>9 DEF GetProcessLock, Acquire, GetStatus2, CloseClient, ClientKill, KillFails, logVars
<1>10. ASSUME OfStarter \/ PanelRestarts PROVE active' = active
  BY <1>10 DEF OfStarter, StartHandler, StartRefused, StartLists, StartWrites, PanelRestarts, logVars
<1>11. ASSUME OfRotator PROVE IsPrefix(active[s][l], active'[s][l])
  <2>1. CASE RotateTruncates
    <3> DEFINE r == request["rotator"]
    <3>1. r.op = "rotate" /\ r.pc = "copied" /\ active' = [active EXCEPT ![r.server][Logs[r.log]] = <<>>]
      BY <2>1 DEF RotateTruncates, At
    <3>2. r.server # s
      <4>1. "rotator" \in Goroutines /\ "rotator" # h
        BY InstancesAssumption DEF Goroutines
      <4>2. Holding(r) /\ Mode(r.op) = "W"
        BY <3>1 DEF Holding, Mode
      <4> QED
        BY <1>1, <1>3, <4>1, <4>2, Apart DEF q
    <3>3. active'[s] = active[s]
      BY <1>1, <1>2, <3>1, <3>2 DEF Logged
    <3> QED
      BY <1>2, <3>3, SamePrefix
  <2>2. ASSUME RotationNotDue \/ RotateSkips \/ RotateCopies \/ RotatePrunes PROVE active' = active
    BY <2>2 DEF RotationNotDue, RotateSkips, RotateCopies, RotatePrunes, logVars
  <2> QED
    BY <1>4, <1>11, <2>1, <2>2 DEF OfRotator
<1>12. CASE Next
  <2> DEFINE Grows == IsPrefix(active[s][l], active'[s][l])
  <2>1. \/ \E t \in Servers : OfServer(t)
        \/ \E k \in Editors : OfEditor(k)
        \/ \E k \in Viewers : OfViewer(k)
        \/ \E g \in Goroutines : GetProcessLock(g) \/ Acquire(g) \/ GetStatus2(g) \/ CloseClient(g) \/ ClientKill(g) \/ KillFails(g)
        \/ OfStarter \/ PanelRestarts
        \/ OfRotator
    BY <1>12 DEF Next
  <2>2. active' = active => Grows
    BY <1>4
  <2>3. (OfRotator => Grows) /\ \A t \in Servers : OfServer(t) => Grows
    BY <1>6, <1>11
  <2> HIDE DEF Grows
  <2>4. (\E k \in Editors : OfEditor(k)) \/ (\E k \in Viewers : OfViewer(k)) => active' = active
    BY <1>7, <1>8
  <2>5. (\E g \in Goroutines : GetProcessLock(g) \/ Acquire(g) \/ GetStatus2(g) \/ CloseClient(g) \/ ClientKill(g) \/ KillFails(g))
        => active' = active
    BY <1>9
  <2>6. OfStarter \/ PanelRestarts => active' = active
    BY <1>10
  <2>7. Grows
    BY <2>1, <2>2, <2>3, <2>4, <2>5, <2>6
  <2> QED
    BY <2>7 DEF Grows, q
<1> QED
  BY <1>5, <1>12 DEF q

\* Between the two passes of a reader over a log no line of it goes: a rotation
\* waits for the lock of the server, and who clears a log or deletes its server
\* for App.lock (GetLineOffsets, GetFileContent).
THEOREM ReadersAreUndisturbed == Spec => ReadersUndisturbed
<1>1. LockInv /\ LogInv /\ [Next]_vars
      => [\A h \in Viewers :
             At(h, "log", "counted") =>
                 LET q == request[h]
                 IN  IsPrefix(active[q.server][q.log], active'[q.server][q.log])]_vars
  BY ReaderStep
<1> QED
  BY <1>1, HeldInvariant, LogInvariant, PTL DEF Spec, ReadersUndisturbed

-----------------------------------------------------------------------------
(* Clients that are cut                                                    *)

LEMMA InitClient == Init => ClientInv
<1> SUFFICES ASSUME Init PROVE ClientInv
  OBVIOUS
<1>1. \A s \in Servers : clients[s] = {}
  BY DEF Init
<1>2. \A g \in Goroutines : request[g].op = "idle"
  BY DEF Init, Idle
<1> QED
  BY <1>1, <1>2 DEF ClientInv, IdsUnique, Sure

\* Clients leave, and the goroutines are as sure as they were.
LEMMA ClientsLeave ==
  ASSUME ClientInv, \A s \in Servers : clients'[s] \subseteq clients[s], seq'.client = seq.client,
         \A g \in Goroutines : request'[g] = request[g] \/ Sure(request'[g])
  PROVE  ClientInv'
<1>1. IdsUnique'
  BY DEF ClientInv, IdsUnique
<1>2. ASSUME NEW q, Sure(q)
      PROVE  /\ q.op = "kick" =>
                   /\ q.want.id < seq'.client
                   /\ \A s \in Servers : \A c \in clients'[s] : c.id = q.want.id => c = q.want
                   /\ q.pc = "killing" => q.id = q.want.id
             /\ q.op = "enforce" /\ q.pc = "killing" =>
                   /\ q.id < seq'.client
                   /\ \A s \in Servers : \A c \in clients'[s] : c.id = q.id => Cert[c.user] = q.cn
  BY <1>2 DEF Sure
<1>3. ASSUME NEW g \in Goroutines PROVE Sure(request[g])'
  <2>1. PICK q : q = request'[g]
    OBVIOUS
  <2>2. Sure(q)
    BY <2>1 DEF ClientInv
  <2> QED
    BY <1>2, <2>1, <2>2 DEF Sure
<1> QED
  BY <1>1, <1>3 DEF ClientInv

\* One goroutine goes on.
LEMMA OneGoesOn ==
  ASSUME LockInv, ClientInv, UNCHANGED <<clients, seq>>, NEW g \in Goroutines, NEW n,
         request' = [request EXCEPT ![g] = n], Sure(n)
  PROVE  ClientInv'
<1>1. \A k \in Goroutines : request'[k] = IF k = g THEN n ELSE request[k]
  BY DEF LockInv, Shaped
<1>2. \A k \in Goroutines : request'[k] = request[k] \/ Sure(request'[k])
  BY <1>1
<1> QED
  BY <1>2, ClientsLeave

\* What neither kicks nor enforces, or has not found whom to kill.
LEMMA Harmless ==
  ASSUME NEW q, q.op # "kick", q.op = "enforce" => q.pc # "killing"
  PROVE  Sure(q)
  BY DEF Sure

LEMMA ClientTasks ==
  ASSUME LockInv, Data, ClientInv, NEW g \in Goroutines,
         GetProcessLock(g) \/ Acquire(g) \/ GetStatus2(g) \/ CloseClient(g) \/ ClientKill(g) \/ KillFails(g)
  PROVE  ClientInv'
<1> DEFINE q == request[g]
<1>1. Sure(q) /\ q \in Tasks(g)
  BY DEF ClientInv, LockInv, Shaped
<1>2. Sure(Idle)
  BY Harmless DEF Idle
<1>3. ASSUME NEW n, n.op = q.op, n.pc # "killing", q.op = "kick" => n.want = q.want
      PROVE  Sure(n)
  BY <1>1, <1>3 DEF Sure
<1>4. CASE GetProcessLock(g)
  <2>1. q.op # "idle" /\ q.pc = "seen" /\ UNCHANGED <<clients, seq>>
    BY <1>4 DEF GetProcessLock, clientVars
  <2> DEFINE n == [q EXCEPT !.pc = "wait", !.lock = locks[q.server]]
  <2>2. request' = [request EXCEPT ![g] = n]
    BY <1>4 DEF GetProcessLock, LockInv, Shaped
  <2>3. q.op = "kick" => q.pc # "seen"
    <3>1. q.op = "kick" => q \in Viewing
      BY Operations, Kinds DEF LockInv, Idle
    <3> HIDE DEF q
    <3> QED
      BY <3>1, ViewingFields DEF Finding, Killing
  <2>4. q.op \in {"enforce", "rotate"} /\ n.op = q.op /\ n.pc = "wait"
    <3>1. Shaped
      BY DEF LockInv
    <3>2. q \in {Idle} \cup Configuring \cup Viewing \cup Starting \cup Enforcing \cup Rotating
      BY <3>1, Kinds
    <3> HIDE DEF q
    <3>3. q \in Enforcing \cup Rotating
      BY <2>1, <3>2, Fields DEF Idle, Viewing, Plain, Finding, Killing
    <3>4. \/ q \in Finding("enforce", {"seen", "wait", "in", "asking"})
          \/ q \in [op : {"rotate"}, server : Servers, pc : {"seen", "wait", "in", "next", "prune"}, lock : Nat, log : 1 .. 3]
      BY <2>1, <3>3, Fields DEF Rotating
    <3> QED
      BY <3>4 DEF Finding
  <2> HIDE DEF n, q
  <2>5. Sure(n)
    BY <2>4, Harmless
  <2> QED
    BY <2>1, <2>2, <2>5, OneGoesOn
<1>5. CASE Acquire(g)
  <2>1. q.op # "idle" /\ q.pc = "wait" /\ UNCHANGED <<clients, seq>>
    BY <1>5 DEF Acquire, clientVars
  <2> DEFINE n == [q EXCEPT !.pc = "in"]
  <2>2. request' = [request EXCEPT ![g] = n]
    BY <1>5 DEF Acquire, Goes, LockInv, Shaped
  <2>3. n.op = q.op /\ n.pc = "in"
    BY <2>1, GoesIn
  <2>4. q.op = "kick" => n.want = q.want
    <3>1. q.op = "kick" => q \in Viewing
      BY Operations, Kinds DEF LockInv, Idle
    <3> HIDE DEF q
    <3>2. q.op = "kick" => q \in Finding("kick", {"wait", "in", "asking"})
      BY <2>1, <3>1, ViewingFields DEF Killing
    <3> QED
      BY <3>2 DEF Finding
  <2> HIDE DEF n
  <2>5. Sure(n)
    BY <1>3, <2>3, <2>4
  <2> QED
    BY <2>1, <2>2, <2>5, OneGoesOn
<1>6. CASE GetStatus2(g)
  <2>1. q.op \in {"kick", "enforce"} /\ q.pc = "in" /\ UNCHANGED <<clients, seq>>
    BY <1>6 DEF GetStatus2, clientVars
  <2> DEFINE n == [q EXCEPT !.pc = "asking"]
  <2>2. request' = [request EXCEPT ![g] = n]
    BY <1>6 DEF GetStatus2, Goes, LockInv, Shaped
  <2>3. q \in Finding(q.op, {"in", "asking"})
    BY <2>1, KillTask
  <2>4. n.op = q.op /\ n.pc = "asking" /\ n.want = q.want
    BY <2>3 DEF Finding
  <2> HIDE DEF n
  <2>5. Sure(n)
    BY <1>3, <2>4
  <2> QED
    BY <2>1, <2>2, <2>5, OneGoesOn
<1>7. CASE CloseClient(g)
  <2>1. q.op \in {"kick", "enforce"} /\ q.pc = "asking" /\ UNCHANGED <<clients, seq>>
    BY <1>7 DEF CloseClient, clientVars
  <2>2. CASE request' = [request EXCEPT ![g] = Idle]
    BY <1>2, <2>1, <2>2, OneGoesOn
  <2>3. CASE request' # [request EXCEPT ![g] = Idle]
    <3>1. PICK x \in FindClientForKill(StatusOf(clients[q.server]), q) :
            request' = [request EXCEPT ![g] = [op |-> q.op, server |-> q.server, pc |-> "killing",
                          lock |-> q.lock, want |-> q.want, cn |-> q.cn, id |-> x.id]]
      BY <1>7, <2>3 DEF CloseClient, Ends
    <3>2. x \in StatusOf(clients[q.server]) /\ IF q.op = "enforce" THEN x.cn = q.cn ELSE x.id = q.want.id
      BY DEF FindClientForKill
    <3>3. q.server \in Servers
      BY <2>1, Operations DEF LockInv
    <3>4. PICK c0 \in clients[q.server] : x.id = c0.id /\ x.cn = Cert[c0.user]
      BY <3>2, StatusTrue
    <3>5. x.id < seq.client /\ \A s \in Servers : \A c \in clients[s] : c.id = x.id => c = c0
      BY <3>3, <3>4 DEF ClientInv, IdsUnique
    <3>6. q.op = "kick" => /\ q.want.id < seq.client
                           /\ \A s \in Servers : \A c \in clients[s] : c.id = q.want.id => c = q.want
      BY <1>1 DEF Sure
    <3> DEFINE n == [op |-> q.op, server |-> q.server, pc |-> "killing",
                     lock |-> q.lock, want |-> q.want, cn |-> q.cn, id |-> x.id]
    <3>7. n.op = q.op /\ n.want = q.want /\ n.cn = q.cn /\ n.id = x.id
      OBVIOUS
    <3>8. request' = [request EXCEPT ![g] = n]
      BY <3>1
    <3> HIDE DEF n, q
    <3>9. Sure(n)
      BY <3>2, <3>4, <3>5, <3>6, <3>7 DEF Sure
    <3> QED
      BY <2>1, <3>8, <3>9, OneGoesOn
  <2> QED
    BY <2>2, <2>3
<1>8. CASE ClientKill(g)
  <2>1. /\ clients' = [clients EXCEPT ![q.server] = {c \in @ : c.id # q.id}] /\ seq' = seq
        /\ request' = [request EXCEPT ![g] = Idle]
    BY <1>8 DEF ClientKill, Ends
  <2>2. \A k \in Goroutines : request'[k] = request[k] \/ Sure(request'[k])
    BY <1>2, <2>1 DEF LockInv, Shaped
  <2>3. \A s \in Servers : clients'[s] \subseteq clients[s]
    BY <2>1 DEF Data
  <2> QED
    BY <2>1, <2>2, <2>3, ClientsLeave
<1>9. CASE KillFails(g)
  <2>1. request' = [request EXCEPT ![g] = Idle] /\ UNCHANGED <<clients, seq>>
    BY <1>9 DEF KillFails, Ends, clientVars
  <2> QED
    BY <1>2, <2>1, OneGoesOn
<1> QED
  BY <1>4, <1>5, <1>6, <1>7, <1>8, <1>9

\* openvpn never gives out an id again.
LEMMA ClientArrives ==
  ASSUME LockInv, Data, ClientInv, NEW s \in Servers, NEW user \in Users, NEW vip \in Addresses, ConnectClient(s, user, vip)
  PROVE  ClientInv'
<1> DEFINE others == {c \in clients[s] : Cert[c.user] # Cert[user]}
           n == [id |-> seq.client, user |-> user, vip |-> vip]
<1>1. /\ clients' = [clients EXCEPT ![s] = others \cup {n}] /\ seq' = [seq EXCEPT !.client = @ + 1] /\ request' = request
  BY DEF ConnectClient
<1>2. n.id = seq.client
  OBVIOUS
<1>3. seq.client \in Nat /\ seq'.client = seq.client + 1
  BY <1>1 DEF Data
<1>4. \A t \in Servers : \A c \in clients'[t] : c \in clients[t] \/ c = n
  BY <1>1 DEF Data
<1>5. \A t \in Servers : \A c \in clients[t] : c.id \in Nat
  BY DEF Data, Clients
<1> HIDE DEF n, others
<1>6. IdsUnique'
  <2> SUFFICES ASSUME NEW t \in Servers, NEW u \in Servers, NEW c \in clients'[t], NEW d \in clients'[u]
               PROVE  c.id < seq'.client /\ (c.id = d.id => c = d)
    <3>1. ASSUME NEW t \in Servers, NEW c \in clients'[t] PROVE c.id < seq'.client
      BY <3>1
    <3> QED
      BY <3>1 DEF IdsUnique
  <2>1. c \in clients[t] => c.id < seq.client /\ c.id \in Nat
    BY <1>5 DEF ClientInv, IdsUnique
  <2>2. d \in clients[u] => d.id < seq.client /\ d.id \in Nat
    BY <1>5 DEF ClientInv, IdsUnique
  <2>3. c \in clients[t] /\ d \in clients[u] => (c.id = d.id => c = d)
    BY DEF ClientInv, IdsUnique
  <2> QED
    BY <1>2, <1>3, <1>4, <2>1, <2>2, <2>3
<1>7. ASSUME NEW g \in Goroutines PROVE Sure(request[g])'
  <2> DEFINE q == request[g]
  <2>1. Sure(q) /\ q \in Tasks(g) /\ request'[g] = q
    BY <1>1 DEF ClientInv, LockInv, Shaped
  <2>2. ASSUME NEW i, i \in Int, i < seq.client
        PROVE  i < seq'.client /\ i # n.id
    BY <1>2, <1>3, <2>2
  <2>3. (q.op = "kick" => q.want.id \in Int) /\ (q.op = "enforce" /\ q.pc = "killing" => q.id \in Int)
    <3>1. q.op = "kick" => q \in Viewing
      BY Operations, Kinds DEF LockInv, Idle
    <3>2. q.op = "enforce" => q \in Enforcing
      BY Operations, Kinds DEF LockInv, Idle
    <3> HIDE DEF q
    <3>3. q.op = "kick" => q.want \in Clients
      BY <3>1, ViewingFields DEF Finding, Killing
    <3>4. q.op = "enforce" /\ q.pc = "killing" => q.id \in 0 .. MaxInputs
      BY <3>2, Fields DEF Killing
    <3> QED
      BY <3>3, <3>4 DEF Clients
  <2> HIDE DEF q
  <2>4. /\ q.op = "kick" =>
              /\ q.want.id < seq'.client
              /\ \A t \in Servers : \A c \in clients'[t] : c.id = q.want.id => c = q.want
              /\ q.pc = "killing" => q.id = q.want.id
        /\ q.op = "enforce" /\ q.pc = "killing" =>
              /\ q.id < seq'.client
              /\ \A t \in Servers : \A c \in clients'[t] : c.id = q.id => Cert[c.user] = q.cn
    BY <1>4, <2>1, <2>2, <2>3 DEF Sure
  <2> QED
    BY <2>1, <2>4 DEF Sure
<1> QED
  BY <1>6, <1>7 DEF ClientInv

LEMMA ClientViewer ==
  ASSUME LockInv, ClientInv, NEW h \in Viewers, OfViewer(h)
  PROVE  ClientInv'
<1> DEFINE q == request[h]
<1>1. UNCHANGED <<clients, seq>>
  BY DEF OfViewer, StatusHandler, StatusRefused, GetLogHandler, GetStatus, StatusAnswered, StatusFromFile,
     GetStatusFromFile, CloseClientHandler, GetLineOffsets, GetFileContent, vars, clientVars
<1>2. h \in Goroutines /\ Sure(q) /\ q \in {Idle} \cup Viewing
  BY Kinds DEF ClientInv, LockInv
<1>3. ASSUME NEW n, request' = [request EXCEPT ![h] = n], n.op \notin {"kick", "enforce"} PROVE ClientInv'
  <2>1. Sure(n)
    BY <1>3, Harmless
  <2> QED
    BY <1>1, <1>2, <1>3, <2>1, OneGoesOn
<1>4. ASSUME request' = [request EXCEPT ![h] = Idle] PROVE ClientInv'
  BY <1>3, <1>4 DEF Idle
<1>5. ASSUME NEW s \in Servers, StatusHandler(h, s) PROVE ClientInv'
  BY <1>3, <1>5 DEF StatusHandler, Enters, Request
<1>6. ASSUME NEW s \in Servers, NEW l \in LogNames, GetLogHandler(h, s, l) PROVE ClientInv'
  BY <1>3, <1>6 DEF GetLogHandler, Enters
<1>7. ASSUME NEW s \in Servers, StatusRefused(h, s) PROVE ClientInv'
  BY <1>7, ClientsLeave DEF StatusRefused, vars, clientVars
<1>8. ASSUME GetStatus(h) \/ GetLineOffsets(h) \/ StatusFromFile(h) PROVE ClientInv'
  <2>1. CASE GetStatus(h)
    <3> DEFINE n == [q EXCEPT !.pc = "asking"]
    <3>1. request' = [request EXCEPT ![h] = n] /\ q.op = "status"
      BY <2>1 DEF GetStatus, At, Goes, LockInv, Shaped
    <3>2. q \in Plain("status", {"wait", "in", "asking"})
      BY <1>2, <3>1, ViewingFields DEF Idle
    <3>3. n.op = "status"
      BY <3>1, <3>2 DEF Plain
    <3> HIDE DEF n
    <3> QED
      BY <1>3, <3>1, <3>3
  <2>2. CASE GetLineOffsets(h)
    <3> DEFINE n == [q EXCEPT !.pc = "counted"]
    <3>1. request' = [request EXCEPT ![h] = n] /\ q.op = "log"
      BY <2>2 DEF GetLineOffsets, At, Goes, LockInv, Shaped
    <3>2. q \in [op : {"log"}, server : Servers, pc : {"wait", "in", "counted"}, lock : Nat, log : LogNames]
      BY <1>2, <3>1, ViewingFields DEF Idle
    <3>3. n.op = "log"
      BY <3>1, <3>2
    <3> HIDE DEF n
    <3> QED
      BY <1>3, <3>1, <3>3
  <2>3. CASE StatusFromFile(h)
    <3> DEFINE n == [q EXCEPT !.op = "file", !.pc = "wait"]
    <3>1. request' = [request EXCEPT ![h] = n] /\ q.op = "status"
      BY <2>3 DEF StatusFromFile
    <3>2. q \in Plain("status", {"wait", "in", "asking"})
      BY <1>2, <3>1, ViewingFields DEF Idle
    <3>3. n.op = "file"
      BY <3>2 DEF Plain
    <3> HIDE DEF n
    <3> QED
      BY <1>3, <3>1, <3>3
  <2> QED
    BY <1>8, <2>1, <2>2, <2>3
<1>9. ASSUME StatusAnswered(h) PROVE ClientInv'
  <2>1. CASE Ends(h)
    BY <1>4, <2>1 DEF Ends
  <2>2. CASE ~Ends(h)
    <3>1. PICK c \in clients[q.server] :
            request' = [request EXCEPT ![h] = [op |-> "kick", server |-> q.server, pc |-> "asked", want |-> c]]
      BY <1>9, <2>2 DEF StatusAnswered
    <3>2. q.server \in Servers
      BY <1>2, <1>9, ViewingFields DEF StatusAnswered, At, Idle
    <3>3. c.id < seq.client /\ \A s \in Servers : \A d \in clients[s] : d.id = c.id => d = c
      BY <3>1, <3>2 DEF ClientInv, IdsUnique
    <3> DEFINE n == [op |-> "kick", server |-> q.server, pc |-> "asked", want |-> c]
    <3>4. n.op = "kick" /\ n.pc = "asked" /\ n.want = c /\ request' = [request EXCEPT ![h] = n]
      BY <3>1
    <3> HIDE DEF n
    <3>5. Sure(n)
      BY <3>3, <3>4 DEF Sure
    <3> QED
      BY <1>1, <1>2, <3>4, <3>5, OneGoesOn
  <2> QED
    BY <2>1, <2>2
<1>10. ASSUME CloseClientHandler(h) PROVE ClientInv'
  <2> DEFINE n == [op |-> "kick", server |-> q.server, pc |-> "wait", lock |-> locks[q.server], want |-> q.want, cn |-> ""]
  <2>1. CASE request' = [request EXCEPT ![h] = Idle]
    BY <1>4, <2>1
  <2>2. CASE request' # [request EXCEPT ![h] = Idle]
    <3>1. request' = [request EXCEPT ![h] = n] /\ q.op = "kick"
      BY <1>10, <2>2 DEF CloseClientHandler, Ends, At
    <3>2. n.op = "kick" /\ n.pc = "wait" /\ n.want = q.want
      OBVIOUS
    <3> HIDE DEF n
    <3>3. Sure(n)
      BY <1>2, <3>1, <3>2 DEF Sure
    <3> QED
      BY <1>1, <1>2, <3>1, <3>3, OneGoesOn
  <2> QED
    BY <2>1, <2>2
<1>11. ASSUME GetStatusFromFile(h) \/ GetFileContent(h) PROVE ClientInv'
  BY <1>4, <1>11 DEF GetStatusFromFile, GetFileContent, Ends
<1> QED
  BY <1>5, <1>6, <1>7, <1>8, <1>9, <1>10, <1>11 DEF OfViewer

LEMMA NextClient == LockInv /\ Data /\ ClientInv /\ [Next]_vars => ClientInv'
<1> SUFFICES ASSUME LockInv, Data, ClientInv, [Next]_vars PROVE ClientInv'
  OBVIOUS
<1>1. clients \in [Servers -> SUBSET Clients] /\ Sure(Idle)
  BY Harmless DEF Data, Idle
<1>2. ASSUME UNCHANGED <<request, seq>>, \A s \in Servers : clients'[s] \subseteq clients[s] PROVE ClientInv'
  BY <1>2, ClientsLeave
<1>3. CASE UNCHANGED vars
  BY <1>2, <1>3 DEF vars, clientVars
<1>4. ASSUME NEW g \in Goroutines, NEW n, request' = [request EXCEPT ![g] = n], UNCHANGED <<clients, seq>>,
             n.op # "kick", n.op = "enforce" => n.pc # "killing"
      PROVE  ClientInv'
  <2>1. Sure(n)
    BY <1>4, Harmless
  <2> QED
    BY <1>4, <2>1, OneGoesOn
<1>5. /\ "starter" \in Goroutines /\ "updater" \in Goroutines /\ "rotator" \in Goroutines
      /\ \A h \in Editors : h \in Goroutines
  BY Kinds DEF LockInv
<1>6. ASSUME NEW s \in Servers, OfServer(s) PROVE ClientInv'
  <2>1. CASE StopHandler(s) \/ OpenvpnDies(s) \/ \E c \in clients[s] : DisconnectClient(s, c)
    BY <1>1, <1>2, <2>1 DEF StopHandler, OpenvpnDies, DisconnectClient
  <2>2. CASE DeleteHandler(s) \/ WriteStatusFile(s) \/ \E l \in LogNames : ClearLogHandler(s, l)
    BY <1>2, <2>2 DEF DeleteHandler, WriteStatusFile, ClearLogHandler, clientVars
  <2>3. ASSUME NEW l \in LogNames, WriteLine(s, l) PROVE ClientInv'
    <3>1. seq'.client = seq.client /\ UNCHANGED <<request, clients>>
      BY <2>3 DEF WriteLine, Data, clientVars
    <3> QED
      BY <3>1, ClientsLeave
  <2>4. CASE RotationDue(s)
    <3> DEFINE n == [op |-> "rotate", server |-> s, pc |-> "seen", lock |-> 0, log |-> 1]
    <3>1. request' = [request EXCEPT !["rotator"] = n] /\ UNCHANGED <<clients, seq>> /\ n.op = "rotate"
      BY <2>4 DEF RotationDue, Enters, clientVars
    <3> HIDE DEF n
    <3> QED
      BY <1>4, <1>5, <3>1
  <2>5. ASSUME NEW c \in clients[s], EnforceUserValidity(s, c) PROVE ClientInv'
    <3> DEFINE n == [op |-> "enforce", server |-> s, pc |-> "seen", lock |-> 0, want |-> c,
                     cn |-> CommonNameByVirtualIP(StatusOf(file[s]), c)]
    <3>1. request' = [request EXCEPT !["updater"] = n] /\ UNCHANGED <<clients, seq>> /\ n.op = "enforce" /\ n.pc = "seen"
      BY <2>5 DEF EnforceUserValidity, Enters, clientVars
    <3> HIDE DEF n
    <3> QED
      BY <1>4, <1>5, <3>1
  <2> QED
    BY <1>6, <2>1, <2>2, <2>3, <2>4, <2>5, ClientArrives DEF OfServer
<1>7. ASSUME NEW h \in Editors, OfEditor(h) PROVE ClientInv'
  <2>1. ASSUME NEW s \in Servers, NEW user \in Users, AddClientConfig(h, s, Cert[user]) PROVE ClientInv'
    <3> DEFINE n == [op |-> "config", server |-> s, pc |-> "committed"]
    <3>1. request' = [request EXCEPT ![h] = n] /\ clients' = clients /\ seq'.client = seq.client /\ n.op = "config"
      BY <2>1 DEF AddClientConfig, Enters, Data, clientVars
    <3> HIDE DEF n
    <3>2. Sure(n)
      BY <3>1, Harmless
    <3>3. \A g \in Goroutines : request'[g] = request[g] \/ Sure(request'[g])
      BY <3>1, <3>2 DEF LockInv, Shaped
    <3> QED
      BY <3>1, <3>3, ClientsLeave
  <2>2. ASSUME NEW ids \in SUBSET rows, NEW first \in ids, DeleteClientConfig(h, ids, first) PROVE ClientInv'
    <3> DEFINE n == [op |-> "config", server |-> first.server, pc |-> "committed"]
    <3>1. request' = [request EXCEPT ![h] = n] /\ UNCHANGED <<clients, seq>> /\ n.op = "config"
      BY <2>2 DEF DeleteClientConfig, Enters, clientVars
    <3> HIDE DEF n
    <3> QED
      BY <1>4, <1>5, <3>1
  <2>3. CASE ConfigEnters(h)
    <3> DEFINE n == IF request[h].server \in listed THEN Request("config", request[h].server) ELSE Idle
    <3>1. request' = [request EXCEPT ![h] = n] /\ UNCHANGED <<clients, seq>> /\ n.op \in {"config", "idle"}
      BY <2>3 DEF ConfigEnters, Ends, clientVars, Request, Idle
    <3> HIDE DEF n
    <3> QED
      BY <1>4, <1>5, <3>1
  <2>4. CASE ConfigLists(h)
    <3> DEFINE q == request[h]
               n == IF q.server \in up THEN [op |-> "config", server |-> q.server, pc |-> "listed",
                                             lock |-> q.lock, list |-> ListClientConfig(q.server)] ELSE Idle
    <3>1. request' = [request EXCEPT ![h] = n] /\ UNCHANGED <<clients, seq>> /\ n.op \in {"config", "idle"}
      BY <2>4 DEF ConfigLists, Ends, clientVars, Idle
    <3> HIDE DEF n
    <3> QED
      BY <1>4, <1>5, <3>1
  <2>5. CASE UpdateClientConfig(h)
    <3>1. request' = [request EXCEPT ![h] = Idle] /\ UNCHANGED <<clients, seq>> /\ Idle.op = "idle"
      BY <2>5 DEF UpdateClientConfig, Ends, clientVars, Idle
    <3> QED
      BY <1>4, <1>5, <3>1
  <2> QED
    BY <1>7, <2>1, <2>2, <2>3, <2>4, <2>5 DEF OfEditor
<1>8. ASSUME OfStarter PROVE ClientInv'
  <2>1. \E n : request' = [request EXCEPT !["starter"] = n] /\ n.op \in {"start", "idle"}
    BY <1>8 DEF OfStarter, StartHandler, StartRefused, StartLists, StartWrites, Enters, Ends, Request, Idle
  <2>2. seq' = seq /\ \A s \in Servers : clients'[s] \subseteq clients[s]
    BY <1>1, <1>8 DEF OfStarter, StartHandler, StartRefused, StartLists, StartWrites, clientVars
  <2>3. PICK n : request' = [request EXCEPT !["starter"] = n] /\ n.op \in {"start", "idle"}
    BY <2>1
  <2>4. Sure(n)
    BY <2>3, Harmless
  <2>5. \A g \in Goroutines : request'[g] = request[g] \/ Sure(request'[g])
    BY <2>3, <2>4 DEF LockInv, Shaped
  <2> QED
    BY <2>2, <2>5, ClientsLeave
<1>9. ASSUME OfRotator PROVE ClientInv'
  <2>1. request["rotator"].op = "rotate" /\ UNCHANGED <<clients, seq>> /\ request["rotator"] \in {Idle} \cup Rotating
    BY <1>9, Kinds DEF OfRotator, RotationNotDue, RotateSkips, RotateCopies, RotateTruncates, RotatePrunes, At, clientVars, LockInv
  <2>2. /\ request'["rotator"] \in {Idle} \cup Rotating
        /\ \A g \in Goroutines : g # "rotator" => request'[g] = request[g]
    <3>1. LockInv'
      BY <1>9, RotatorStep
    <3>2. Shaped' /\ Tasks("rotator") = {Idle} \cup Rotating
      BY <3>1, Kinds, InstancesAssumption DEF LockInv, Tasks
    <3>3. \A g \in Goroutines : g # "rotator" => request'[g] = request[g]
      BY <1>9 DEF OfRotator, RotationNotDue, RotateSkips, RotateCopies, RotateTruncates, RotatePrunes, Goes, Ends, LockInv, Shaped
    <3> QED
      BY <1>5, <3>2, <3>3 DEF Shaped
  <2>3. Sure(request'["rotator"])
    BY <2>2, Fields, Harmless DEF Idle
  <2>4. \A g \in Goroutines : request'[g] = request[g] \/ Sure(request'[g])
    BY <2>2, <2>3
  <2> QED
    BY <2>1, <2>4, ClientsLeave
<1>10. ASSUME PanelRestarts PROVE ClientInv'
  <2>1. clients' = clients /\ seq'.client = seq.client /\ \A g \in Goroutines : request'[g] = Idle
    BY <1>10 DEF PanelRestarts, Data, clientVars
  <2> QED
    BY <1>1, <2>1, ClientsLeave
<1> QED
  BY <1>3, <1>6, <1>7, <1>8, <1>9, <1>10, ClientViewer, ClientTasks DEF Next

\* An id is that of one client ever, and whoever is about to kill by an id has
\* found it under the name, or at the connection, that it wants.
THEOREM ClientInvariant == Spec => []ClientInv
<1>1. Init => ClientInv
  BY InitClient
<1>2. LockInv /\ Data /\ ClientInv /\ [Next]_vars => ClientInv'
  BY NextClient
<1> QED
  BY <1>1, <1>2, HeldInvariant, PTL DEF Spec

\* Only a kill cuts a client and ends the goroutine that found it.
LEMMA CutStep ==
  ASSUME LockInv, Data, [Next]_vars, NEW g \in Goroutines, NEW c \in Cut(g)
  PROVE  ClientKill(g)
<1> DEFINE q == request[g]
<1>1. q.op \in {"kick", "enforce"} /\ q.pc = "killing" /\ request'[g] = Idle /\ c \in clients[q.server] \ clients'[q.server]
  BY DEF Cut
<1>2. q.server \in Servers /\ q # Idle
  BY <1>1, Operations DEF LockInv, Idle
<1>3. clients' # clients /\ request'[g] # request[g]
  BY <1>1, <1>2
<1> HIDE DEF q
<1>4. ~UNCHANGED vars
  BY <1>3 DEF vars, clientVars
<1>5. ASSUME NEW s \in Servers PROVE ~OfServer(s)
  BY <1>3 DEF OfServer, StopHandler, DeleteHandler, OpenvpnDies, WriteStatusFile, RotationDue, DisconnectClient,
     EnforceUserValidity, ConnectClient, WriteLine, ClearLogHandler, clientVars
<1>6. ASSUME NEW h \in Editors PROVE ~OfEditor(h)
  BY <1>3 DEF OfEditor, AddClientConfig, DeleteClientConfig, ConfigEnters, ConfigLists, UpdateClientConfig, clientVars
<1>7. ASSUME NEW h \in Viewers PROVE ~OfViewer(h)
  BY <1>3 DEF OfViewer, StatusHandler, StatusRefused, GetLogHandler, GetStatus, StatusAnswered,
     StatusFromFile, GetStatusFromFile, CloseClientHandler, GetLineOffsets, GetFileContent, vars, clientVars
<1>8. ~OfRotator /\ ~PanelRestarts
  BY <1>3 DEF OfRotator, RotationNotDue, RotateSkips, RotateCopies, RotateTruncates, RotatePrunes, PanelRestarts, clientVars
<1>9. ~OfStarter
  <2>1. OfStarter => clients' = clients \/ request' = [request EXCEPT !["starter"] = Idle]
    BY DEF OfStarter, StartHandler, StartRefused, StartLists, StartWrites, Ends, clientVars
  <2>2. g # "starter"
    BY <1>1, Others DEF q
  <2> QED
    BY <1>3, <2>1, <2>2 DEF LockInv, Shaped
<1>10. ASSUME NEW k \in Goroutines,
              GetProcessLock(k) \/ Acquire(k) \/ GetStatus2(k) \/ CloseClient(k) \/ KillFails(k)
       PROVE  FALSE
  BY <1>3, <1>10 DEF GetProcessLock, Acquire, GetStatus2, CloseClient, KillFails, clientVars
<1>11. ASSUME NEW k \in Goroutines, ClientKill(k) PROVE k = g
  BY <1>3, <1>11 DEF ClientKill, Ends, LockInv, Shaped
<1> QED
  BY <1>4, <1>5, <1>6, <1>7, <1>8, <1>9, <1>10, <1>11 DEF Next

\* A kill, which openvpn is given by the id of a connection, cuts the session the
\* administrator saw, and for the updater one of the certificate it looked for:
\* ids are not given out again, so a client that came in between is safe
\* (CloseClientHandler, EnforceUserValidity, ClientKill).
THEOREM KicksAreMeant == Spec => KicksTheRightUser
<1>1. ASSUME LockInv, Data, ClientInv, [Next]_vars, NEW g \in Goroutines, NEW c \in Cut(g)
      PROVE  LET q == request[g]
             IN  IF q.op = "kick" THEN c = q.want ELSE q.cn = Cert[q.want.user] => Cert[c.user] = q.cn
  <2> DEFINE q == request[g]
  <2>1. q.op \in {"kick", "enforce"} /\ q.pc = "killing" /\ c \in clients[q.server] \ clients'[q.server]
    BY <1>1 DEF Cut
  <2>2. q.server \in Servers
    BY <1>1, <2>1, Operations DEF LockInv
  <2>3. clients' = [clients EXCEPT ![q.server] = {d \in clients[q.server] : d.id # q.id}]
    BY <1>1, <2>2, CutStep DEF ClientKill, Data
  <2>4. clients'[q.server] = {d \in clients[q.server] : d.id # q.id}
    BY <1>1, <2>2, <2>3 DEF Data
  <2>5. c.id = q.id
    BY <2>1, <2>4
  <2>6. Sure(q)
    BY <1>1 DEF ClientInv
  <2> QED
    BY <2>1, <2>2, <2>5, <2>6 DEF Sure
<1>2. LockInv /\ Data /\ ClientInv /\ [Next]_vars
      => [\A g \in Goroutines : \A c \in Cut(g) :
             LET q == request[g]
             IN  IF q.op = "kick" THEN c = q.want
                 ELSE q.cn = Cert[q.want.user] => Cert[c.user] = q.cn]_vars
  BY <1>1
<1> QED
  BY <1>2, HeldInvariant, ClientInvariant, PTL DEF Spec, KicksTheRightUser
=============================================================================
