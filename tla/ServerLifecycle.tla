--------------------------- MODULE ServerLifecycle ---------------------------
(***************************************************************************)
(* Life cycle of the OpenVPN server instances the panel supervises: the    *)
(* servers table, the process list guarded by App.lock, the operating      *)
(* system's process table, the PID records that survive the panel, the     *)
(* watchdog, and the panel's own start, exit and crash.                    *)
(*                                                                         *)
(* Every handler and background task below runs under App.lock, so one of  *)
(* them is active at a time (variable holder); what interleaves with it is *)
(* openvpn dying, the panel dying, a termination signal, other programs    *)
(* taking PIDs, and the update handler, which takes no lock.               *)
(***************************************************************************)
EXTENDS Naturals, FiniteSets

CONSTANTS
  Server,    \* ids of rows of the servers table
  Pid,       \* process ids of the host
  NoPid,     \* the pid 0 of an instance or a record that names no process
  Free,      \* an unused entry of the process table
  Foreign,   \* an entry used by a program the panel did not start
  Faults     \* which of the faults below may happen

(***************************************************************************)
(* start_fails       WriteConfig or cmd.Start fails after the instance was *)
(*                   put in the process list                               *)
(* stop_fails        Stop cannot parse the misc configuration              *)
(* lookup_fails      GetOpenVPNServerByID fails though the row is there    *)
(* recover_fails     the records cannot be listed, or the misc             *)
(*                   configuration cannot be parsed, while recovering      *)
(* pid_reuse         the host gives out a PID that the panel still has     *)
(*                   in a record or in an adopted instance                 *)
(* die_in_start      the panel dies while a start script runs              *)
(* crash_managed     the panel is killed while stop_instances_on_exit=true *)
(* mode_switch       stop_instances_on_exit is edited between two runs     *)
(* late_start        a handler gets App.lock between the return of         *)
(*                   StopAllOpenVPNServer and os.Exit                      *)
(***************************************************************************)
FaultNames == {"start_fails", "stop_fails", "lookup_fails", "recover_fails",
               "pid_reuse", "die_in_start", "crash_managed", "mode_switch",
               "late_start"}

\* Those that can make the panel lose sight of a live openvpn process.
OrphanFaults == FaultNames \ {"start_fails", "pid_reuse"}

ASSUME PidAssumption == NoPid \notin Pid
ASSUME OwnerAssumption == Free \notin Server /\ Foreign \notin Server /\ Free # Foreign
ASSUME FaultsAssumption == Faults \subseteq FaultNames

VARIABLES
  row,         \* servers table: unborn, exists or deleted
  auto,        \* the auto_start column: the set of rows that have it
  record,      \* server_process_records: the PID of a server, or NoPid
  proc,        \* process table: which server's openvpn a PID is
  inst,        \* App.ovpnProcessList
  panel,       \* the main goroutine: down, recover, boot or up
  exiting,     \* the signal goroutine: no, waiting (for App.lock) or done
  stopOnExit,  \* Config.ShouldStopInstancesOnExit() of the running panel
  holder,      \* which activity holds App.lock
  todo,        \* servers the current loop has still to visit
  stage,       \* how far the start, stop or delete of a server has come
  command      \* history: the last thing asked for a server, see below

vars == <<row, auto, record, proc, inst, panel, exiting, stopOnExit, holder,
          todo, stage, command>>

\* What only the operating system changes, and what only the panel's loops change.
dbVars == <<row, auto, record>>
panelVars == <<panel, exiting, stopOnExit>>
loopVars == <<holder, todo>>

-----------------------------------------------------------------------------
(* Instances.  life says where the process of an instance comes from:       *)
(* absent (not in the list), fresh (in the list, never started), child      *)
(* (started by this panel and not reaped), reaped (Wait has returned) or    *)
(* adopted (AttachPID).                                                     *)

Absent == [life |-> "absent", pid |-> NoPid, keepAlive |-> FALSE]
NewInstance == [life |-> "fresh", pid |-> NoPid, keepAlive |-> FALSE]
\* Mutants: the PID is not stored, the flag is not set.
StartedWithoutPid(p) == [life |-> "child", pid |-> NoPid, keepAlive |-> TRUE]
StartedWithoutFlag(p) == [life |-> "child", pid |-> p, keepAlive |-> FALSE]
StartedInstance(p) == [life |-> "child", pid |-> p, keepAlive |-> TRUE]
AttachPID(p) == [life |-> "adopted", pid |-> p, keepAlive |-> TRUE]

Instance ==
  {Absent, NewInstance}
    \cup [life : {"child", "reaped", "adopted"}, pid : Pid, keepAlive : BOOLEAN]

Listed(s) == inst[s].life # "absent"
ProcessAlive(p) == p # NoPid /\ proc[p] # Free

\* A child is alive until Wait has reaped it; an adopted process is whatever
\* runs under its PID.
Running(s) ==
  \/ inst[s].life = "child"
  \/ inst[s].life = "adopted" /\ ProcessAlive(inst[s].pid)

\* The PIDs the panel remembers somewhere and cannot tell from a reused one.
Remembered(p) ==
  \E s \in Server : record[s] = p \/ (inst[s].life = "adopted" /\ inst[s].pid = p)

Available(p) == proc[p] = Free /\ ("pid_reuse" \in Faults \/ ~Remembered(p))

Idle == \A s \in Server : stage[s] = "none"
InStartScript == \E s \in Server : stage[s] = "script"

\* command[s] is "started" once a request, auto start or recovery has made the
\* panel responsible for s, "failed" once a start was answered with an error,
\* "stopped" once a stop has succeeded and "refused" once a stop was answered
\* with "not running, no need to stop".  Only a launch overrides "stopped".
Commanded(s, c) == command' = [command EXCEPT ![s] = c]
Noted(s, c) == command' = [command EXCEPT ![s] = IF @ = "stopped" THEN @ ELSE c]

\* App.lock can be taken by a request or a timer of the running panel.
LockFree ==
  /\ panel = "up"
  /\ holder = "none"
  /\ exiting = "done" => "late_start" \in Faults

-----------------------------------------------------------------------------
(* Process table *)

\* The process p ends, and if it is a child of this panel Wait reaps it.
Ends(p) ==
  /\ proc' = [proc EXCEPT ![p] = Free]
  /\ inst' = [s \in Server |->
                IF inst[s].life = "child" /\ inst[s].pid = p
                  THEN [inst[s] EXCEPT !.life = "reaped"]
                  ELSE inst[s]]

ProcessExits(p) ==
  /\ proc[p] # Free
  /\ Ends(p)
  /\ UNCHANGED <<dbVars, panelVars, loopVars, stage, command>>

ForeignStarts(p) ==
  /\ "pid_reuse" \in Faults
  /\ proc[p] = Free
  /\ proc' = [proc EXCEPT ![p] = Foreign]
  /\ UNCHANGED <<dbVars, inst, panelVars, loopVars, stage, command>>

-----------------------------------------------------------------------------
(* Starting: both StartOpenVPNServerInstanceHandler and startServerLocked   *)
(* replace the instance, write its files, launch openvpn and run the start  *)
(* script; only then is the PID recorded.                                   *)

Launch(s) ==
  \E p \in Pid :
    /\ Available(p)
    /\ proc' = [proc EXCEPT ![p] = s]
    /\ inst' = [inst EXCEPT ![s] = StartedInstance(p)]
    /\ stage' = [stage EXCEPT ![s] = "script"]

\* The new instance is already in the list when WriteConfig or Start fails.
LaunchFails(s) ==
  /\ "start_fails" \in Faults
  /\ inst' = [inst EXCEPT ![s] = NewInstance]
  /\ UNCHANGED <<proc, stage>>

StartHandler(s) ==
  /\ LockFree
  /\ row[s] = "exists"
  /\ ~Running(s)
  /\ \/ Launch(s) /\ holder' = "handler" /\ Commanded(s, "started")
     \/ LaunchFails(s) /\ UNCHANGED holder /\ Noted(s, "failed")
  /\ UNCHANGED <<dbVars, panelVars, todo>>

\* Mutant: never records.
NeverRecords(s) == UNCHANGED record
\* recordServerProcess: nothing is recorded when exiting stops the instances.
RecordServerProcess(s) ==
  record' = IF stopOnExit THEN record ELSE [record EXCEPT ![s] = inst[s].pid]

\* A handler gives the lock back when it is done; a loop keeps it.
Release == holder' = IF holder = "handler" THEN "none" ELSE holder

StartFinish(s) ==
  /\ stage[s] = "script"
  /\ RecordServerProcess(s)
  /\ stage' = [stage EXCEPT ![s] = "none"]
  /\ Release
  /\ UNCHANGED <<row, auto, proc, inst, panelVars, todo, command>>

-----------------------------------------------------------------------------
(* Stopping: OpenVPNServerInstance.Stop clears keepAlive, interrupts the    *)
(* process, kills it after 8 s, runs the exit script; the caller then       *)
(* deletes the record and answers.                                          *)

\* Mutant: keepAlive stays set.
InterruptKeepingFlag(s) ==
  UNCHANGED inst /\ stage' = [stage EXCEPT ![s] = "signalled"]

Interrupt(s) ==
  /\ inst' = [inst EXCEPT ![s].keepAlive = FALSE]
  /\ stage' = [stage EXCEPT ![s] = "signalled"]

StopHandler(s) ==
  /\ LockFree
  /\ Listed(s) /\ Running(s)
  /\ Interrupt(s)
  /\ holder' = "handler"
  /\ UNCHANGED <<dbVars, proc, panelVars, todo, command>>

\* A server that is not running needs no stopping: 400, and nothing is changed.
StopRefused(s) ==
  /\ LockFree
  /\ row[s] # "unborn"
  /\ ~(Listed(s) /\ Running(s))
  /\ Noted(s, "refused")
  /\ UNCHANGED <<dbVars, proc, inst, panelVars, loopVars, stage>>

\* Mutant: does not wait for the process to end.
StopSignalsOnly(s) ==
  /\ stage[s] = "signalled"
  /\ stage' = [stage EXCEPT ![s] = "stopped"]
  /\ UNCHANGED <<dbVars, proc, inst, panelVars, loopVars, command>>

\* SIGINT, or SIGKILL in the end, reaches whatever runs under the PID.
StopKill(s) ==
  /\ stage[s] = "signalled"
  /\ IF Running(s) THEN Ends(inst[s].pid) ELSE UNCHANGED <<proc, inst>>
  /\ stage' = [stage EXCEPT ![s] = "stopped"]
  /\ UNCHANGED <<dbVars, panelVars, loopVars, command>>

StopFinish(s) ==
  /\ stage[s] = "stopped"
  /\ record' = [record EXCEPT ![s] = NoPid]
  /\ stage' = [stage EXCEPT ![s] = "none"]
  /\ IF holder = "handler" THEN Commanded(s, "stopped") ELSE UNCHANGED command
  /\ Release
  /\ UNCHANGED <<row, auto, proc, inst, panelVars, todo>>

-----------------------------------------------------------------------------
(* Rows *)

CreateServer(s) ==
  /\ panel = "up"
  /\ row[s] = "unborn"
  /\ row' = [row EXCEPT ![s] = "exists"]
  /\ \E b \in BOOLEAN : auto' = IF b THEN auto \cup {s} ELSE auto
  /\ UNCHANGED <<record, proc, inst, panelVars, loopVars, stage, command>>

\* The update handler takes no lock, and saving a row that was deleted since
\* the form was opened inserts it again.
UpdateServer(s) ==
  /\ panel = "up"
  /\ row[s] # "unborn"
  /\ row' = [row EXCEPT ![s] = "exists"]
  /\ \E b \in BOOLEAN : auto' = IF b THEN auto \cup {s} ELSE auto \ {s}
  /\ UNCHANGED <<record, proc, inst, panelVars, loopVars, stage, command>>

MayDelete(s) == row[s] # "unborn" /\ ~(Listed(s) /\ Running(s))

\* The transaction of DeleteOpenVPNServer ...
DeleteHandler(s) ==
  /\ LockFree
  /\ MayDelete(s)
  /\ row' = [row EXCEPT ![s] = "deleted"]
  /\ auto' = auto \ {s}
  /\ stage' = [stage EXCEPT ![s] = "rowgone"]
  /\ holder' = "handler"
  /\ UNCHANGED <<record, proc, inst, panelVars, todo, command>>

\* ... then the process list, and the record in a statement of its own.
DeleteFinish(s) ==
  /\ stage[s] = "rowgone"
  /\ inst' = [inst EXCEPT ![s] = Absent]
  /\ record' = [record EXCEPT ![s] = NoPid]
  /\ stage' = [stage EXCEPT ![s] = "none"]
  /\ Noted(s, "none")
  /\ Release
  /\ UNCHANGED <<row, auto, proc, panelVars, todo>>

\* Clearing the log of a server that is not listed lists a fresh instance.
ClearLogHandler(s) ==
  /\ LockFree
  /\ row[s] = "exists"
  /\ ~Listed(s)
  /\ inst' = [inst EXCEPT ![s] = NewInstance]
  /\ UNCHANGED <<dbVars, proc, panelVars, loopVars, stage, command>>

-----------------------------------------------------------------------------
(* The watchdog: checkAndRestartServers walks the process list under        *)
(* App.lock.  Instances without keepAlive are passed over; keepAlive only   *)
(* changes under the lock, so todo holds just the others.                   *)

WatchBegin ==
  /\ LockFree
  /\ holder' = "watch"
  /\ todo' = {s \in Server : inst[s].keepAlive}
  /\ UNCHANGED <<dbVars, proc, inst, panelVars, stage, command>>

WatchAlive(s) ==
  /\ Running(s)
  /\ UNCHANGED <<proc, inst, stage>>

WatchRowGone(s) ==
  /\ ~Running(s)
  /\ row[s] # "exists" \/ "lookup_fails" \in Faults
  /\ inst' = [inst EXCEPT ![s] = Absent]
  /\ UNCHANGED <<proc, stage>>

WatchRestart(s) ==
  /\ ~Running(s)
  /\ row[s] = "exists"
  /\ Launch(s) \/ LaunchFails(s)

WatchServer(s) ==
  /\ holder = "watch" /\ Idle
  /\ s \in todo
  /\ todo' = todo \ {s}
  /\ WatchAlive(s) \/ WatchRowGone(s) \/ WatchRestart(s)
  /\ UNCHANGED <<dbVars, panelVars, holder, command>>

WatchEnd ==
  /\ holder = "watch" /\ Idle
  /\ todo = {}
  /\ holder' = "none"
  /\ UNCHANGED <<dbVars, proc, inst, panelVars, todo, stage, command>>

-----------------------------------------------------------------------------
(* Booting: RecoverRunningServers, then AutoStartOpenVPNServer, both on the *)
(* main goroutine before any handler or timer exists.                       *)

PanelStart ==
  /\ panel = "down"
  /\ \E mode \in BOOLEAN :
       /\ mode # stopOnExit => "mode_switch" \in Faults
       /\ stopOnExit' = mode
       /\ IF mode
            THEN /\ record' = [s \in Server |-> NoPid]
                 /\ panel' = "boot"
                 /\ UNCHANGED todo
            ELSE /\ panel' = "recover"
                 /\ todo' = {s \in Server : record[s] # NoPid}
                 /\ UNCHANGED record
  /\ UNCHANGED <<row, auto, proc, inst, exiting, holder, stage, command>>

\* Listing the records or parsing the misc configuration failed.
RecoverAborts ==
  /\ panel = "recover"
  /\ "recover_fails" \in Faults
  /\ panel' = "boot"
  /\ todo' = {}
  /\ UNCHANGED <<dbVars, proc, inst, exiting, stopOnExit, holder, stage, command>>

RecoverDrops(s) ==
  /\ \/ ~ProcessAlive(record[s])
     \/ row[s] # "exists"
     \/ "lookup_fails" \in Faults
  /\ record' = [record EXCEPT ![s] = NoPid]
  /\ UNCHANGED <<inst, command>>

\* Mutant: the row is not looked up.
RecoverAdoptsAny(s) ==
  /\ ProcessAlive(record[s])
  /\ inst' = [inst EXCEPT ![s] = AttachPID(record[s])]
  /\ Noted(s, "started")
  /\ UNCHANGED record

RecoverAdopts(s) ==
  /\ ProcessAlive(record[s])
  /\ row[s] = "exists"
  /\ inst' = [inst EXCEPT ![s] = AttachPID(record[s])]
  /\ Noted(s, "started")
  /\ UNCHANGED record

RecoverServer(s) ==
  /\ panel = "recover"
  /\ s \in todo
  /\ todo' = todo \ {s}
  /\ RecoverDrops(s) \/ RecoverAdopts(s)
  /\ UNCHANGED <<row, auto, proc, panelVars, holder, stage>>

RecoverEnd ==
  /\ panel = "recover"
  /\ todo = {}
  /\ panel' = "boot"
  /\ UNCHANGED <<dbVars, proc, inst, exiting, stopOnExit, loopVars, stage, command>>

AutoStartBegin ==
  /\ panel = "boot" /\ holder = "none"
  /\ exiting = "done" => "late_start" \in Faults
  /\ holder' = "autostart"
  /\ todo' = {s \in auto : row[s] = "exists"}
  /\ UNCHANGED <<dbVars, proc, inst, panelVars, stage, command>>

AutoStartServer(s) ==
  /\ holder = "autostart" /\ Idle
  /\ s \in todo
  /\ todo' = todo \ {s}
  /\ \/ Running(s) /\ UNCHANGED <<proc, inst, stage, command>>
     \/ ~Running(s) /\ Launch(s) /\ Commanded(s, "started")
     \/ ~Running(s) /\ LaunchFails(s) /\ UNCHANGED command
  /\ UNCHANGED <<dbVars, panelVars, holder>>

AutoStartEnd ==
  /\ holder = "autostart" /\ Idle
  /\ todo = {}
  /\ holder' = "none"
  /\ panel' = "up"
  /\ UNCHANGED <<dbVars, proc, inst, exiting, stopOnExit, todo, stage, command>>

-----------------------------------------------------------------------------
(* Dying.  Whatever the panel holds in memory goes; its children live on,   *)
(* and only a stop that succeeded is still held against the next panel.     *)

Dies ==
  /\ panel' = "down"
  /\ exiting' = "no"
  /\ inst' = [s \in Server |-> Absent]
  /\ stage' = [s \in Server |-> "none"]
  /\ holder' = "none"
  /\ todo' = {}
  /\ command' = [s \in Server |-> IF command[s] = "stopped" THEN "stopped" ELSE "none"]
  /\ UNCHANGED <<dbVars, proc, stopOnExit>>

PanelCrash ==
  /\ panel # "down"
  /\ InStartScript => "die_in_start" \in Faults
  /\ stopOnExit => "crash_managed" \in Faults
  /\ Dies

\* SIGTERM or SIGINT with stop_instances_on_exit=false: os.Exit at once,
\* without waiting for App.lock.
TermPreserve ==
  /\ panel # "down"
  /\ ~stopOnExit
  /\ InStartScript => "die_in_start" \in Faults
  /\ Dies

\* ... with stop_instances_on_exit=true: StopAllOpenVPNServer queues for the lock.
TermStop ==
  /\ panel # "down"
  /\ stopOnExit
  /\ exiting = "no"
  /\ exiting' = "waiting"
  /\ UNCHANGED <<dbVars, proc, inst, panel, stopOnExit, loopVars, stage, command>>

StopAllBegin ==
  /\ exiting = "waiting"
  /\ holder = "none"
  /\ holder' = "stopall"
  /\ todo' = {s \in Server : Listed(s)}
  /\ UNCHANGED <<dbVars, proc, inst, panelVars, stage, command>>

\* Mutant: an instance that is not running is waited for.
StopAllWaits(s) == "stop_fails" \in Faults /\ UNCHANGED <<inst, stage>>

StopAllSkips(s) ==
  /\ ~Running(s) \/ "stop_fails" \in Faults
  /\ UNCHANGED <<inst, stage>>

StopAllServer(s) ==
  /\ holder = "stopall" /\ Idle
  /\ s \in todo
  /\ todo' = todo \ {s}
  /\ \/ Running(s) /\ Interrupt(s)
     \/ StopAllSkips(s)
  /\ UNCHANGED <<dbVars, proc, panelVars, holder, command>>

StopAllEnd ==
  /\ holder = "stopall" /\ Idle
  /\ todo = {}
  /\ holder' = "none"
  /\ exiting' = "done"
  /\ UNCHANGED <<dbVars, proc, inst, panel, stopOnExit, todo, stage, command>>

\* os.Exit(0) after StopAllOpenVPNServer has returned.
PanelExit ==
  /\ exiting = "done"
  /\ Dies

-----------------------------------------------------------------------------
Init ==
  /\ row = [s \in Server |-> "unborn"]
  /\ auto = {}
  /\ record = [s \in Server |-> NoPid]
  /\ proc = [p \in Pid |-> Free]
  /\ inst = [s \in Server |-> Absent]
  /\ panel = "down"
  /\ exiting = "no"
  /\ stopOnExit \in BOOLEAN
  /\ holder = "none"
  /\ todo = {}
  /\ stage = [s \in Server |-> "none"]
  /\ command = [s \in Server |-> "none"]

OSNext == \E p \in Pid : ProcessExits(p) \/ ForeignStarts(p)

HandlerNext ==
  \E s \in Server :
    \/ CreateServer(s) \/ UpdateServer(s) \/ ClearLogHandler(s)
    \/ StartHandler(s) \/ StartFinish(s)
    \/ StopHandler(s) \/ StopRefused(s) \/ StopKill(s) \/ StopFinish(s)
    \/ DeleteHandler(s) \/ DeleteFinish(s)

WatchNext == WatchBegin \/ WatchEnd \/ \E s \in Server : WatchServer(s)

BootNext ==
  \/ PanelStart \/ RecoverAborts \/ RecoverEnd \/ AutoStartBegin \/ AutoStartEnd
  \/ \E s \in Server : RecoverServer(s) \/ AutoStartServer(s)

DieNext ==
  \/ PanelCrash \/ TermPreserve \/ TermStop \/ PanelExit
  \/ StopAllBegin \/ StopAllEnd \/ \E s \in Server : StopAllServer(s)

Next == OSNext \/ HandlerNext \/ WatchNext \/ BootNext \/ DieNext

Spec == Init /\ [][Next]_vars

\* The panel is restarted when it is down, the goroutine that holds App.lock
\* gets on with it, openvpn ends when it is killed; a timer or the signal
\* goroutine that queues for App.lock gets it (Go's locks hand over to a waiter
\* that has waited long enough), which is strong fairness.
Fairness ==
  /\ WF_vars(PanelStart) /\ WF_vars(RecoverEnd)
  /\ WF_vars(AutoStartBegin) /\ WF_vars(AutoStartEnd)
  /\ SF_vars(WatchBegin) /\ WF_vars(WatchEnd)
  /\ SF_vars(StopAllBegin) /\ WF_vars(StopAllEnd) /\ WF_vars(PanelExit)
  /\ \A s \in Server :
       /\ WF_vars(RecoverServer(s)) /\ WF_vars(AutoStartServer(s))
       /\ WF_vars(StartFinish(s)) /\ WF_vars(StopKill(s)) /\ WF_vars(StopFinish(s))
       /\ WF_vars(DeleteFinish(s))
       /\ WF_vars(WatchServer(s)) /\ WF_vars(StopAllServer(s))

FairSpec == Spec /\ Fairness

-----------------------------------------------------------------------------
(* Properties *)

\* Type invariant.
TypeOK ==
  /\ row \in [Server -> {"unborn", "exists", "deleted"}]
  /\ auto \subseteq Server
  /\ record \in [Server -> Pid \cup {NoPid}]
  /\ proc \in [Pid -> Server \cup {Free, Foreign}]
  /\ inst \in [Server -> Instance]
  /\ panel \in {"down", "recover", "boot", "up"}
  /\ exiting \in {"no", "waiting", "done"}
  /\ stopOnExit \in BOOLEAN
  /\ holder \in {"none", "handler", "watch", "autostart", "stopall"}
  /\ todo \subseteq Server
  /\ stage \in [Server -> {"none", "script", "signalled", "stopped", "rowgone"}]
  /\ command \in [Server -> {"none", "started", "failed", "stopped", "refused"}]

\* A server never has two openvpn processes: every path that launches one
\* (a request, the watchdog, auto start after a restart of the panel) knows of
\* the process that may still be there.
AtMostOneProcess ==
  \A p, q \in Pid : proc[p] \in Server /\ proc[p] = proc[q] => p = q

\* No openvpn process escapes the panel.  While it runs, its list names the
\* process; while it is down or recovering, the PID record does, and with
\* stop_instances_on_exit=true there is none.
NoOrphan ==
  \A p \in Pid : \A s \in Server :
    proc[p] = s =>
      IF panel \in {"boot", "up"}
        THEN inst[s].life \in {"child", "adopted"} /\ inst[s].pid = p
        ELSE ~stopOnExit /\ record[s] = p

\* The server of a live openvpn process is in the servers table, so the process
\* can be seen and stopped: deleting refuses a running server, and recovery
\* would drop the record of a server it does not find.
RowOfProcess ==
  \A p \in Pid : proc[p] \in Server => row[proc[p]] = "exists"

\* With stop_instances_on_exit=false, every live process of a server that is not
\* being started is in the PID records, so that a crash now would lose nothing.
RunningIsRecorded ==
  \A p \in Pid : \A s \in Server :
    proc[p] = s /\ panel \in {"boot", "up"} /\ ~stopOnExit /\ stage[s] # "script"
      => record[s] = p

\* A server a process of which appears in this step.
Launched(s) == \E p \in Pid : proc[p] # s /\ proc'[p] = s

\* A stop that succeeded is final: the server is launched again only because it
\* is started by a request or by auto start, never by the watchdog, also when the
\* panel died and recovered in between.
StopIsFinal ==
  [][\A s \in Server :
       Launched(s) /\ command[s] = "stopped" => command'[s] = "started"]_vars

\* A deleted server is forgotten in the list and in the records once the panel
\* is up again, wherever it died between the statements of the delete.
DeletedIsForgotten ==
  \A s \in Server :
    panel = "up" /\ row[s] = "deleted" /\ stage[s] = "none"
      => ~Listed(s) /\ record[s] = NoPid

\* A child the panel has not reaped is its own openvpn, whatever the host does
\* with PIDs: stopping a child never signals another program.
ChildIsOwn ==
  \A s \in Server : inst[s].life = "child" => proc[inst[s].pid] = s

(* The inductive invariant behind NoOrphan, in the absence of OrphanFaults. *)

\* Who may hold App.lock, and that one server at a time is being worked on.
LockInv ==
  /\ \A s, t \in Server : stage[s] # "none" /\ stage[t] # "none" => s = t
  /\ \A s \in Server : stage[s] # "none" => holder # "none"
  /\ holder \in {"handler", "watch"} => panel = "up"
  /\ holder = "autostart" => panel = "boot" /\ \A s \in todo : row[s] = "exists"
  /\ holder = "stopall" => exiting = "waiting"
  /\ panel \in {"down", "recover"} => holder = "none"

\* How far an exit that stops the instances has come.
ExitInv ==
  /\ exiting # "no" => stopOnExit /\ panel \in {"boot", "up"}
  /\ panel = "recover" => ~stopOnExit
  /\ exiting = "done" => holder = "none" /\ \A p \in Pid : proc[p] \notin Server
  /\ holder = "stopall" =>
       \A p \in Pid : \A s \in Server :
         proc[p] = s => s \in todo \/ stage[s] = "signalled"

\* The process of a server is gone where the code relies on it.
StageInv ==
  \A p \in Pid : \A s \in Server :
    stage[s] \in {"stopped", "rowgone"} => proc[p] # s

\* Recovery has adopted every process whose record it has passed.
RecoverInv ==
  panel = "recover" =>
    \A p \in Pid : \A s \in Server :
      proc[p] = s => s \in todo \/ (inst[s].life = "adopted" /\ inst[s].pid = p)

\* Every live process is known to the panel, recorded, of an existing server.
SafetyInv ==
  /\ LockInv /\ ExitInv /\ StageInv /\ RecoverInv
  /\ NoOrphan /\ RowOfProcess /\ RunningIsRecorded

\* A server the panel is responsible for runs again after its openvpn died,
\* unless it is stopped or deleted, the panel goes down, or the host has no free
\* process id, of which processes a failed recovery left behind hold some.
WatchdogRestarts ==
  \A s \in Server :
    panel = "up" /\ command[s] = "started"
      ~> \/ Running(s) \/ command[s] # "started" \/ panel = "down"
         \/ \A p \in Pid : ~Available(p)

\* A termination signal ends the panel, however many requests and watchdog
\* rounds compete for App.lock.
TermExits == exiting = "waiting" ~> panel = "down"

-----------------------------------------------------------------------------
(* What the life cycle promises, in the words of Supervisor: the processes  *)
(* of each server, the servers that exist, and those that were stopped.     *)

ProcsOf == [s \in Server |-> {p \in Pid : proc[p] = s}]
Existing == {s \in Server : row[s] = "exists"}
Stopped == {s \in Server : command[s] = "stopped"}

Supervised == INSTANCE Supervisor
                WITH procs <- ProcsOf, known <- Existing, stopped <- Stopped

\* The life cycle implements the supervisor: a panel that dies, restarts,
\* recovers and retries is invisible in the processes of a server, a stop is
\* acknowledged only when no process is left, and a row goes only after them.
ImplementsSupervisor == Supervised!Spec

=============================================================================
