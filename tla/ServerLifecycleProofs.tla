------------------------ MODULE ServerLifecycleProofs ------------------------
(***************************************************************************)
(* Proofs about ServerLifecycle for every set of servers and PIDs.         *)
(***************************************************************************)
EXTENDS ServerLifecycle, TLAPS

-----------------------------------------------------------------------------
(* Type correctness, whatever faults happen. *)

LEMMA StartedInstanceType ==
  ASSUME NEW p \in Pid
  PROVE  StartedInstance(p) \in Instance /\ AttachPID(p) \in Instance
BY DEF StartedInstance, AttachPID, Instance

LEMMA FreshInstanceType == Absent \in Instance /\ NewInstance \in Instance
BY DEF Instance

\* Clearing keepAlive or reaping a child keeps an instance of a process typed.
LEMMA ChangedInstanceType ==
  ASSUME NEW i \in Instance, i.life \in {"child", "adopted"}
  PROVE  /\ [i EXCEPT !.keepAlive = FALSE] \in Instance
         /\ [i EXCEPT !.life = "reaped"] \in Instance
<1>1. i # Absent /\ i # NewInstance
  BY DEF Absent, NewInstance
<1>2. i \in [life : {"child", "reaped", "adopted"}, pid : Pid, keepAlive : BOOLEAN]
  BY <1>1 DEF Instance
<1>3. QED
  BY <1>2 DEF Instance

LEMMA EndsType ==
  ASSUME TypeOK, NEW p \in Pid, Ends(p)
  PROVE  /\ proc' \in [Pid -> Server \cup {Free, Foreign}]
         /\ inst' \in [Server -> Instance]
<1>1. proc' \in [Pid -> Server \cup {Free, Foreign}]
  BY DEF TypeOK, Ends
<1>2. ASSUME NEW s \in Server
      PROVE  (IF inst[s].life = "child" /\ inst[s].pid = p
                THEN [inst[s] EXCEPT !.life = "reaped"]
                ELSE inst[s]) \in Instance
  BY ChangedInstanceType DEF TypeOK
<1>3. QED
  BY <1>1, <1>2 DEF Ends

LEMMA LaunchType ==
  ASSUME TypeOK, NEW s \in Server, Launch(s)
  PROVE  /\ proc' \in [Pid -> Server \cup {Free, Foreign}]
         /\ inst' \in [Server -> Instance]
         /\ stage' \in [Server -> {"none", "script", "signalled", "stopped", "rowgone"}]
<1>1. PICK p \in Pid :
        /\ proc' = [proc EXCEPT ![p] = s]
        /\ inst' = [inst EXCEPT ![s] = StartedInstance(p)]
        /\ stage' = [stage EXCEPT ![s] = "script"]
  BY DEF Launch
<1>2. QED
  BY <1>1, StartedInstanceType DEF TypeOK

\* Every command a step notes is one of the commands.
LEMMA CommandType ==
  ASSUME TypeOK, NEW s \in Server,
         NEW c \in {"none", "started", "failed", "stopped", "refused"}
  PROVE  /\ Commanded(s, c) => command' \in [Server -> {"none", "started", "failed", "stopped", "refused"}]
         /\ Noted(s, c) => command' \in [Server -> {"none", "started", "failed", "stopped", "refused"}]
BY DEF TypeOK, Commanded, Noted

LEMMA DiesType == TypeOK /\ Dies => TypeOK'
<1> SUFFICES ASSUME TypeOK, Dies PROVE TypeOK'
  OBVIOUS
<1>1. inst' \in [Server -> Instance] /\ stage' \in [Server -> {"none"}]
  BY FreshInstanceType DEF Dies
<1>2. QED
  BY <1>1 DEF TypeOK, Dies, dbVars

LEMMA OSType == TypeOK /\ OSNext => TypeOK'
<1> SUFFICES ASSUME TypeOK, NEW p \in Pid, ProcessExits(p) \/ ForeignStarts(p)
             PROVE  TypeOK'
  BY DEF OSNext
<1>1. CASE ProcessExits(p)
  BY <1>1, EndsType DEF ProcessExits, TypeOK, dbVars, panelVars, loopVars
<1>2. CASE ForeignStarts(p)
  BY <1>2 DEF ForeignStarts, TypeOK, dbVars, panelVars, loopVars
<1>3. QED
  BY <1>1, <1>2

LEMMA HandlerType == TypeOK /\ HandlerNext => TypeOK'
<1> SUFFICES ASSUME TypeOK, NEW s \in Server,
                    \/ CreateServer(s) \/ UpdateServer(s) \/ ClearLogHandler(s)
                    \/ StartHandler(s) \/ StartFinish(s)
                    \/ StopHandler(s) \/ StopRefused(s) \/ StopKill(s) \/ StopFinish(s)
                    \/ DeleteHandler(s) \/ DeleteFinish(s)
             PROVE  TypeOK'
  BY DEF HandlerNext
<1> USE CommandType, FreshInstanceType DEF dbVars, panelVars, loopVars
<1>1. CASE CreateServer(s)
  BY <1>1 DEF CreateServer, TypeOK
<1>2. CASE UpdateServer(s)
  BY <1>2 DEF UpdateServer, TypeOK
<1>3. CASE ClearLogHandler(s)
  BY <1>3 DEF ClearLogHandler, TypeOK
<1>4. CASE StartHandler(s)
  <2>1. CASE Launch(s) /\ holder' = "handler" /\ Commanded(s, "started")
    BY <1>4, <2>1, LaunchType DEF StartHandler, TypeOK
  <2>2. CASE LaunchFails(s) /\ UNCHANGED holder /\ Noted(s, "failed")
    BY <1>4, <2>2 DEF StartHandler, LaunchFails, TypeOK
  <2>3. QED
    BY <1>4, <2>1, <2>2 DEF StartHandler
<1>5. CASE StartFinish(s)
  <2>1. holder' \in {"none", "handler", "watch", "autostart", "stopall"}
    BY <1>5 DEF StartFinish, Release, TypeOK
  <2>2. record' \in [Server -> Pid \cup {NoPid}]
    <3>1. inst[s].pid \in Pid \cup {NoPid}
      BY DEF TypeOK, Instance, Absent, NewInstance
    <3>2. QED
      BY <1>5, <3>1 DEF StartFinish, RecordServerProcess, TypeOK
  <2>3. QED
    BY <1>5, <2>1, <2>2 DEF StartFinish, TypeOK
<1>6. CASE StopHandler(s)
  <2>1. [inst[s] EXCEPT !.keepAlive = FALSE] \in Instance
    BY <1>6, ChangedInstanceType DEF StopHandler, Running, TypeOK
  <2>2. inst' \in [Server -> Instance]
    BY <1>6, <2>1 DEF StopHandler, Interrupt, TypeOK
  <2>3. QED
    BY <1>6, <2>2 DEF StopHandler, Interrupt, TypeOK
<1>7. CASE StopRefused(s)
  BY <1>7 DEF StopRefused, TypeOK
<1>8. CASE StopKill(s)
  <2>1. CASE Running(s) /\ Ends(inst[s].pid)
    <3>1. inst[s].pid \in Pid
      BY <2>1 DEF Running, TypeOK, Instance, Absent, NewInstance
    <3>2. QED
      BY <1>8, <2>1, <3>1, EndsType DEF StopKill, TypeOK
  <2>2. CASE ~Running(s) /\ UNCHANGED <<proc, inst>>
    BY <1>8, <2>2 DEF StopKill, TypeOK
  <2>3. QED
    BY <1>8, <2>1, <2>2 DEF StopKill
<1>9. CASE StopFinish(s)
  BY <1>9 DEF StopFinish, Release, TypeOK
<1>10. CASE DeleteHandler(s)
  BY <1>10 DEF DeleteHandler, TypeOK
<1>11. CASE DeleteFinish(s)
  BY <1>11 DEF DeleteFinish, Release, TypeOK
<1>12. QED
  BY <1>1, <1>2, <1>3, <1>4, <1>5, <1>6, <1>7, <1>8, <1>9, <1>10, <1>11

LEMMA WatchType == TypeOK /\ WatchNext => TypeOK'
<1> SUFFICES ASSUME TypeOK, WatchNext PROVE TypeOK'
  OBVIOUS
<1> USE DEF dbVars, panelVars, loopVars
<1>1. CASE WatchBegin
  BY <1>1 DEF WatchBegin, TypeOK
<1>2. CASE WatchEnd
  BY <1>2 DEF WatchEnd, TypeOK
<1>3. ASSUME NEW s \in Server, WatchServer(s) PROVE TypeOK'
  <2>1. CASE WatchAlive(s)
    BY <1>3, <2>1 DEF WatchServer, WatchAlive, TypeOK
  <2>2. CASE WatchRowGone(s)
    BY <1>3, <2>2, FreshInstanceType DEF WatchServer, WatchRowGone, TypeOK
  <2>3. CASE WatchRestart(s) /\ Launch(s)
    BY <1>3, <2>3, LaunchType DEF WatchServer, TypeOK
  <2>4. CASE WatchRestart(s) /\ LaunchFails(s)
    BY <1>3, <2>4, FreshInstanceType DEF WatchServer, LaunchFails, TypeOK
  <2>5. QED
    BY <1>3, <2>1, <2>2, <2>3, <2>4 DEF WatchServer, WatchRestart
<1>4. QED
  BY <1>1, <1>2, <1>3 DEF WatchNext

LEMMA BootType == TypeOK /\ BootNext => TypeOK'
<1> SUFFICES ASSUME TypeOK, BootNext PROVE TypeOK'
  OBVIOUS
<1> USE CommandType, FreshInstanceType DEF dbVars, panelVars, loopVars
<1>1. CASE PanelStart
  <2>1. PICK mode \in BOOLEAN :
          /\ stopOnExit' = mode
          /\ IF mode
               THEN /\ record' = [s \in Server |-> NoPid]
                    /\ panel' = "boot"
                    /\ UNCHANGED todo
               ELSE /\ panel' = "recover"
                    /\ todo' = {s \in Server : record[s] # NoPid}
                    /\ UNCHANGED record
    BY <1>1 DEF PanelStart
  <2>2. /\ record' \in [Server -> Pid \cup {NoPid}]
        /\ panel' \in {"boot", "recover"}
        /\ todo' \subseteq Server
    BY <2>1 DEF TypeOK
  <2>3. QED
    BY <1>1, <2>1, <2>2 DEF PanelStart, TypeOK
<1>2. CASE RecoverAborts
  BY <1>2 DEF RecoverAborts, TypeOK
<1>3. CASE RecoverEnd
  BY <1>3 DEF RecoverEnd, TypeOK
<1>4. CASE AutoStartBegin
  BY <1>4 DEF AutoStartBegin, TypeOK
<1>5. CASE AutoStartEnd
  BY <1>5 DEF AutoStartEnd, TypeOK
<1>6. ASSUME NEW s \in Server, RecoverServer(s) PROVE TypeOK'
  <2>1. CASE RecoverDrops(s)
    BY <1>6, <2>1 DEF RecoverServer, RecoverDrops, TypeOK
  <2>2. CASE RecoverAdopts(s)
    <3>1. record[s] \in Pid
      BY <2>2 DEF RecoverAdopts, ProcessAlive, TypeOK
    <3>2. AttachPID(record[s]) \in Instance
      BY <3>1, StartedInstanceType
    <3>3. QED
      BY <1>6, <2>2, <3>2 DEF RecoverServer, RecoverAdopts, TypeOK
  <2>3. QED
    BY <1>6, <2>1, <2>2 DEF RecoverServer
<1>7. ASSUME NEW s \in Server, AutoStartServer(s) PROVE TypeOK'
  <2>1. CASE Running(s) /\ UNCHANGED <<proc, inst, stage, command>>
    BY <1>7, <2>1 DEF AutoStartServer, TypeOK
  <2>2. CASE Launch(s) /\ Commanded(s, "started")
    BY <1>7, <2>2, LaunchType DEF AutoStartServer, TypeOK
  <2>3. CASE LaunchFails(s) /\ UNCHANGED command
    BY <1>7, <2>3 DEF AutoStartServer, LaunchFails, TypeOK
  <2>4. QED
    BY <1>7, <2>1, <2>2, <2>3 DEF AutoStartServer
<1>8. QED
  BY <1>1, <1>2, <1>3, <1>4, <1>5, <1>6, <1>7 DEF BootNext

LEMMA DieType == TypeOK /\ DieNext => TypeOK'
<1> SUFFICES ASSUME TypeOK, DieNext PROVE TypeOK'
  OBVIOUS
<1> USE DEF dbVars, panelVars, loopVars
<1>1. CASE PanelCrash \/ TermPreserve \/ PanelExit
  BY <1>1, DiesType DEF PanelCrash, TermPreserve, PanelExit
<1>2. CASE TermStop
  BY <1>2 DEF TermStop, TypeOK
<1>3. CASE StopAllBegin
  BY <1>3 DEF StopAllBegin, TypeOK
<1>4. CASE StopAllEnd
  BY <1>4 DEF StopAllEnd, TypeOK
<1>5. ASSUME NEW s \in Server, StopAllServer(s) PROVE TypeOK'
  <2>1. CASE Running(s) /\ Interrupt(s)
    <3>1. [inst[s] EXCEPT !.keepAlive = FALSE] \in Instance
      BY <2>1, ChangedInstanceType DEF Running, TypeOK
    <3>2. inst' \in [Server -> Instance]
      BY <2>1, <3>1 DEF Interrupt, TypeOK
    <3>3. QED
      BY <1>5, <2>1, <3>2 DEF StopAllServer, Interrupt, TypeOK
  <2>2. CASE StopAllSkips(s)
    BY <1>5, <2>2 DEF StopAllServer, StopAllSkips, TypeOK
  <2>3. QED
    BY <1>5, <2>1, <2>2 DEF StopAllServer
<1>6. QED
  BY <1>1, <1>2, <1>3, <1>4, <1>5 DEF DieNext

\* Every reachable state is well typed, whatever faults happen.
THEOREM TypeCorrect == Spec => []TypeOK
<1>1. Init => TypeOK
  BY FreshInstanceType DEF Init, TypeOK
<1>2. TypeOK /\ UNCHANGED vars => TypeOK'
  BY DEF TypeOK, vars
<1>3. TypeOK /\ [Next]_vars => TypeOK'
  BY <1>2, OSType, HandlerType, WatchType, BootType, DieType DEF Next
<1>4. QED
  BY <1>1, <1>3, PTL DEF Spec

-----------------------------------------------------------------------------
(* No openvpn process is lost, as long as none of the OrphanFaults happens. *)

SafeFaults == Faults \cap OrphanFaults = {}

LEMMA SafeFaultNames ==
  ASSUME SafeFaults
  PROVE  /\ "stop_fails" \notin Faults /\ "lookup_fails" \notin Faults
         /\ "recover_fails" \notin Faults /\ "die_in_start" \notin Faults
         /\ "crash_managed" \notin Faults /\ "mode_switch" \notin Faults
         /\ "late_start" \notin Faults
BY DEF SafeFaults, OrphanFaults, FaultNames

\* A server that is not running according to its instance has no process.
LEMMA NotRunning ==
  ASSUME TypeOK, NoOrphan, panel \in {"boot", "up"},
         NEW s \in Server, ~Running(s), NEW p \in Pid
  PROVE  proc[p] # s
BY PidAssumption, OwnerAssumption DEF NoOrphan, Running, ProcessAlive, TypeOK

\* Launching a server that has no process keeps what is known of the others.
LEMMA LaunchSafe ==
  ASSUME TypeOK, SafetyInv, NEW s \in Server, Launch(s), Idle,
         ~Running(s), row[s] = "exists", panel \in {"boot", "up"},
         exiting # "done", holder # "stopall",
         UNCHANGED <<row, record, panel, exiting, stopOnExit>>,
         todo' \subseteq todo,
         \/ holder' = "handler" /\ panel = "up"
         \/ holder' = "watch" /\ panel = "up"
         \/ holder' = "autostart" /\ holder = "autostart"
  PROVE  SafetyInv'
<1>1. PICK q \in Pid :
        /\ proc[q] = Free
        /\ proc' = [proc EXCEPT ![q] = s]
        /\ inst' = [inst EXCEPT ![s] = StartedInstance(q)]
        /\ stage' = [stage EXCEPT ![s] = "script"]
  BY DEF Launch, Available
<1>2. \A p \in Pid : proc[p] # s
  BY NotRunning DEF SafetyInv
<1>3. StartedInstance(q).life = "child" /\ StartedInstance(q).pid = q
  BY DEF StartedInstance
<1>4. /\ \A p \in Pid : proc'[p] = s => p = q
      /\ \A p \in Pid : \A t \in Server : t # s /\ proc'[p] = t => p # q /\ proc[p] = t
      /\ \A t \in Server : t # s => inst'[t] = inst[t] /\ stage'[t] = "none"
      /\ stage'[s] = "script" /\ inst'[s] = StartedInstance(q)
  BY <1>1, <1>2 DEF TypeOK, Idle
<1> HIDE <1>1
<1>5. LockInv'
  BY <1>4 DEF SafetyInv, LockInv
<1>6. ExitInv' /\ RecoverInv'
  BY DEF SafetyInv, ExitInv, RecoverInv, LockInv
<1>7. StageInv'
  BY <1>2, <1>4 DEF StageInv
<1>8. NoOrphan'
  BY <1>3, <1>4 DEF SafetyInv, NoOrphan
<1>9. RowOfProcess'
  BY <1>4 DEF SafetyInv, RowOfProcess
<1>10. RunningIsRecorded'
  BY <1>4 DEF SafetyInv, RunningIsRecorded, Idle
<1>11. QED
  BY <1>5, <1>6, <1>7, <1>8, <1>9, <1>10 DEF SafetyInv

\* A failed launch replaces the instance of a server that has no process.
LEMMA LaunchFailsSafe ==
  ASSUME TypeOK, SafetyInv, NEW s \in Server, LaunchFails(s),
         ~Running(s), panel \in {"boot", "up"},
         UNCHANGED <<row, record, panel, exiting, stopOnExit, holder>>,
         todo' \subseteq todo, holder # "stopall"
  PROVE  SafetyInv'
<1>1. \A p \in Pid : proc[p] # s
  BY NotRunning DEF SafetyInv
<1>2. /\ proc' = proc /\ stage' = stage
      /\ \A t \in Server : t # s => inst'[t] = inst[t]
  BY DEF LaunchFails, TypeOK
<1>3. LockInv' /\ ExitInv' /\ StageInv' /\ RecoverInv'
  BY <1>2 DEF SafetyInv, LockInv, ExitInv, StageInv, RecoverInv
<1>4. NoOrphan' /\ RowOfProcess' /\ RunningIsRecorded'
  BY <1>1, <1>2 DEF SafetyInv, NoOrphan, RowOfProcess, RunningIsRecorded
<1>5. QED
  BY <1>3, <1>4 DEF SafetyInv

\* A process that ends takes only itself away: a process that is left is still
\* named by the instance that named it.
LEMMA EndsFacts ==
  ASSUME TypeOK, NEW q \in Pid, Ends(q), NEW p \in Pid, NEW s \in Server, proc'[p] = s
  PROVE  /\ p # q /\ proc[p] = s
         /\ inst[s].pid = p => inst'[s] = inst[s]
BY OwnerAssumption DEF TypeOK, Ends

LEMMA OSSafe == TypeOK /\ SafetyInv /\ OSNext => SafetyInv'
<1> SUFFICES ASSUME TypeOK, SafetyInv, NEW q \in Pid,
                    ProcessExits(q) \/ ForeignStarts(q)
             PROVE  SafetyInv'
  BY DEF OSNext
<1>1. UNCHANGED <<row, record, panel, exiting, stopOnExit, holder, todo, stage>>
  BY DEF ProcessExits, ForeignStarts, dbVars, panelVars, loopVars
<1>2. ASSUME NEW p \in Pid, NEW s \in Server, proc'[p] = s
      PROVE  /\ proc[p] = s
             /\ inst[s].pid = p => inst'[s] = inst[s]
  <2>1. CASE ProcessExits(q)
    BY <1>2, <2>1, EndsFacts DEF ProcessExits
  <2>2. CASE ForeignStarts(q)
    BY <1>2, <2>2, OwnerAssumption DEF ForeignStarts, TypeOK
  <2>3. QED
    BY <2>1, <2>2
<1>3. \A p \in Pid : proc'[p] \in Server => proc[p] = proc'[p]
  BY <1>2
<1>4. LockInv' /\ StageInv'
  BY <1>1, <1>2 DEF SafetyInv, LockInv, StageInv
<1>5. ExitInv' /\ RecoverInv'
  BY <1>1, <1>2, <1>3 DEF SafetyInv, ExitInv, RecoverInv
<1>6. NoOrphan'
  BY <1>1, <1>2 DEF SafetyInv, NoOrphan
<1>7. RowOfProcess' /\ RunningIsRecorded'
  BY <1>1, <1>2, <1>3 DEF SafetyInv, RowOfProcess, RunningIsRecorded
<1>8. QED
  BY <1>4, <1>5, <1>6, <1>7 DEF SafetyInv

\* The start script is over: with the record the process is out of danger.
LEMMA StartFinishSafe ==
  ASSUME TypeOK, SafetyInv, NEW s \in Server, StartFinish(s)
  PROVE  SafetyInv'
<1>1. /\ UNCHANGED <<row, proc, inst, panel, exiting, stopOnExit, todo>>
      /\ stage[s] = "script" /\ stage' = [stage EXCEPT ![s] = "none"]
      /\ holder' = IF holder = "handler" THEN "none" ELSE holder
      /\ record' = IF stopOnExit THEN record ELSE [record EXCEPT ![s] = inst[s].pid]
  BY DEF StartFinish, RecordServerProcess, Release, panelVars
<1>2. \A t \in Server : stage'[t] = "none"
  BY <1>1 DEF SafetyInv, LockInv, TypeOK
<1>3. panel \in {"boot", "up"} /\ holder # "none"
  BY <1>1 DEF SafetyInv, LockInv, TypeOK
<1>4. \A t \in Server : t # s => record'[t] = record[t] /\ stage[t] = "none"
  BY <1>1 DEF SafetyInv, LockInv, TypeOK
<1>5. \A t \in Server : stage[t] = "signalled" => t # s
  BY <1>1
<1>6. LockInv' /\ StageInv' /\ RecoverInv' /\ NoOrphan' /\ RowOfProcess'
  BY <1>1, <1>2, <1>3 DEF SafetyInv, LockInv, StageInv, RecoverInv, NoOrphan, RowOfProcess
<1>7. ExitInv'
  BY <1>1, <1>2, <1>3, <1>4, <1>5 DEF SafetyInv, ExitInv
<1>8. RunningIsRecorded'
  <2> SUFFICES ASSUME NEW p \in Pid, NEW t \in Server, proc[p] = t, ~stopOnExit
               PROVE  record'[t] = p
    BY <1>1 DEF RunningIsRecorded
  <2>1. CASE t = s
    BY <1>1, <1>3, <2>1 DEF SafetyInv, NoOrphan, TypeOK
  <2>2. CASE t # s
    BY <1>1, <1>3, <1>4, <2>2 DEF SafetyInv, RunningIsRecorded
  <2>3. QED
    BY <2>1, <2>2
<1>9. QED
  BY <1>6, <1>7, <1>8 DEF SafetyInv

\* Stop has begun: the process of s is still there, still recorded.
LEMMA InterruptSafe ==
  ASSUME TypeOK, SafetyInv, NEW s \in Server, Interrupt(s), Idle, Running(s),
         UNCHANGED <<row, record, proc, panel, exiting, stopOnExit>>,
         \/ holder' = "handler" /\ panel = "up" /\ exiting # "done" /\ holder = "none"
         \/ holder' = "stopall" /\ holder = "stopall" /\ todo' = todo \ {s}
  PROVE  SafetyInv'
<1>1. /\ inst' = [inst EXCEPT ![s].keepAlive = FALSE]
      /\ stage' = [stage EXCEPT ![s] = "signalled"]
  BY DEF Interrupt
<1>2. \A t \in Server : inst'[t].life = inst[t].life /\ inst'[t].pid = inst[t].pid
  <2>1. CASE inst[s] \in [life : {"child", "reaped", "adopted"}, pid : Pid, keepAlive : BOOLEAN]
    BY <1>1, <2>1 DEF TypeOK
  <2>2. CASE inst[s] = Absent \/ inst[s] = NewInstance
    BY <2>2 DEF Running, Absent, NewInstance
  <2>3. QED
    BY <2>1, <2>2 DEF TypeOK, Instance
<1>3. /\ \A t \in Server : t # s => stage'[t] = stage[t] /\ stage[t] = "none"
      /\ stage'[s] = "signalled"
  BY <1>1 DEF TypeOK, Idle
<1>4. LockInv'
  BY <1>3 DEF SafetyInv, LockInv, ExitInv
<1>5. ExitInv'
  BY <1>3 DEF SafetyInv, ExitInv
<1>6. StageInv' /\ RowOfProcess' /\ RunningIsRecorded'
  BY <1>3 DEF SafetyInv, StageInv, RowOfProcess, RunningIsRecorded, Idle
<1>7. panel \in {"boot", "up"}
  BY DEF SafetyInv, LockInv, TypeOK
<1>8. RecoverInv' /\ NoOrphan'
  BY <1>2, <1>7 DEF SafetyInv, RecoverInv, NoOrphan
<1>9. QED
  BY <1>4, <1>5, <1>6, <1>8 DEF SafetyInv

\* After SIGKILL the server has no process.
LEMMA StopKillSafe ==
  ASSUME TypeOK, SafetyInv, NEW s \in Server, StopKill(s)
  PROVE  SafetyInv'
<1>1. /\ UNCHANGED <<row, record, panel, exiting, stopOnExit, holder, todo>>
      /\ stage[s] = "signalled" /\ stage' = [stage EXCEPT ![s] = "stopped"]
  BY DEF StopKill, dbVars, panelVars, loopVars
<1>2. panel \in {"boot", "up"} /\ holder # "none"
  BY <1>1 DEF SafetyInv, LockInv, TypeOK
<1>3. /\ \A t \in Server : t # s => stage'[t] = stage[t] /\ stage[t] = "none"
      /\ stage'[s] = "stopped"
  BY <1>1 DEF SafetyInv, LockInv, TypeOK
<1>4. ASSUME NEW p \in Pid, NEW t \in Server, proc'[p] = t
      PROVE  /\ proc[p] = t /\ t # s
             /\ inst[t].pid = p => inst'[t] = inst[t]
  <2>1. CASE Running(s) /\ Ends(inst[s].pid)
    <3>1. inst[s].pid \in Pid
      BY <2>1 DEF Running, TypeOK, Instance, Absent, NewInstance
    <3>2. p # inst[s].pid /\ proc[p] = t /\ (inst[t].pid = p => inst'[t] = inst[t])
      BY <1>4, <2>1, <3>1, EndsFacts
    <3>3. QED
      BY <1>2, <3>2 DEF SafetyInv, NoOrphan
  <2>2. CASE ~Running(s) /\ UNCHANGED <<proc, inst>>
    BY <1>2, <1>4, <2>2, NotRunning DEF SafetyInv
  <2>3. QED
    BY <2>1, <2>2 DEF StopKill
<1>5. LockInv' /\ StageInv'
  BY <1>1, <1>3, <1>4 DEF SafetyInv, LockInv, StageInv
<1>6. ExitInv' /\ RecoverInv'
  BY <1>1, <1>2, <1>3, <1>4 DEF SafetyInv, ExitInv, RecoverInv
<1>7. NoOrphan'
  BY <1>1, <1>2, <1>4 DEF SafetyInv, NoOrphan
<1>8. RowOfProcess' /\ RunningIsRecorded'
  <2>1. \A p \in Pid : proc'[p] \in Server => proc[p] = proc'[p]
    BY <1>4
  <2>2. QED
    BY <1>1, <1>2, <1>3, <1>4, <2>1 DEF SafetyInv, RowOfProcess, RunningIsRecorded
<1>9. QED
  BY <1>5, <1>6, <1>7, <1>8 DEF SafetyInv

\* Forgetting a server that has no process, at the end of a stop or a delete.
LEMMA ForgetSafe ==
  ASSUME TypeOK, SafetyInv, NEW s \in Server, stage[s] \in {"stopped", "rowgone"},
         record' = [record EXCEPT ![s] = NoPid],
         \/ UNCHANGED inst
         \/ inst' = [inst EXCEPT ![s] = Absent],
         stage' = [stage EXCEPT ![s] = "none"], Release,
         UNCHANGED <<row, proc, panel, exiting, stopOnExit, todo>>
  PROVE  SafetyInv'
<1>1. \A p \in Pid : proc[p] # s
  BY DEF SafetyInv, StageInv
<1>2. \A t \in Server : t # s => record'[t] = record[t] /\ inst'[t] = inst[t] /\ stage[t] = "none"
  BY DEF SafetyInv, LockInv, TypeOK
<1>3. \A t \in Server : stage'[t] = "none"
  BY <1>2 DEF TypeOK
<1>4. LockInv' /\ StageInv'
  BY <1>3 DEF SafetyInv, LockInv, StageInv, Release
<1>5. ExitInv' /\ RecoverInv'
  BY <1>1, <1>2 DEF SafetyInv, ExitInv, RecoverInv, Release
<1>6. NoOrphan' /\ RowOfProcess' /\ RunningIsRecorded'
  BY <1>1, <1>2 DEF SafetyInv, NoOrphan, RowOfProcess, RunningIsRecorded
<1>7. QED
  BY <1>4, <1>5, <1>6 DEF SafetyInv

\* Under SafeFaults App.lock is free only when nothing is being worked on and
\* the panel is not about to exit.
LEMMA LockFreeFacts ==
  ASSUME TypeOK, SafetyInv, SafeFaults, LockFree
  PROVE  Idle /\ panel = "up" /\ exiting # "done" /\ holder = "none"
BY SafeFaultNames DEF LockFree, Idle, SafetyInv, LockInv, TypeOK

\* Rows and auto start flags may change while the processes stay as they are, as
\* long as no row of a process goes.
LEMMA RowsSafe ==
  ASSUME TypeOK, SafetyInv, panel = "up",
         \A t \in Server : row[t] = "exists" => row'[t] = "exists",
         UNCHANGED <<record, proc, inst, panel, exiting, stopOnExit, holder, todo, stage>>
  PROVE  SafetyInv'
<1>1. LockInv' /\ ExitInv' /\ StageInv' /\ RecoverInv'
  BY DEF SafetyInv, LockInv, ExitInv, StageInv, RecoverInv
<1>2. NoOrphan' /\ RowOfProcess' /\ RunningIsRecorded'
  BY DEF SafetyInv, NoOrphan, RowOfProcess, RunningIsRecorded
<1>3. QED
  BY <1>1, <1>2 DEF SafetyInv

\* The row goes while the server has no process and App.lock is held.
LEMMA DeleteSafe ==
  ASSUME TypeOK, SafetyInv, SafeFaults, NEW s \in Server, DeleteHandler(s)
  PROVE  SafetyInv'
<1>1. Idle /\ panel = "up" /\ exiting # "done"
  BY LockFreeFacts DEF DeleteHandler
<1>2. /\ row' = [row EXCEPT ![s] = "deleted"]
      /\ stage' = [stage EXCEPT ![s] = "rowgone"] /\ holder' = "handler"
      /\ UNCHANGED <<record, proc, inst, panel, exiting, stopOnExit, todo>>
  BY DEF DeleteHandler, panelVars
<1>3. \A p \in Pid : proc[p] # s
  <2>1. ASSUME ~Listed(s), NEW p \in Pid PROVE proc[p] # s
    BY <1>1, <2>1 DEF Listed, SafetyInv, NoOrphan
  <2>2. QED
    BY <1>1, <2>1, NotRunning DEF DeleteHandler, MayDelete, SafetyInv
<1>4. /\ \A t \in Server : t # s => row'[t] = row[t] /\ stage'[t] = "none"
      /\ stage'[s] = "rowgone"
  BY <1>1, <1>2 DEF TypeOK, Idle
<1>5. LockInv' /\ ExitInv' /\ StageInv' /\ RecoverInv'
  BY <1>1, <1>2, <1>3, <1>4 DEF SafetyInv, LockInv, ExitInv, StageInv, RecoverInv
<1>6. NoOrphan' /\ RowOfProcess' /\ RunningIsRecorded'
  BY <1>1, <1>2, <1>3, <1>4 DEF SafetyInv, NoOrphan, RowOfProcess, RunningIsRecorded, Idle
<1>7. QED
  BY <1>5, <1>6 DEF SafetyInv

LEMMA ClearLogSafe ==
  ASSUME TypeOK, SafetyInv, NEW s \in Server, ClearLogHandler(s)
  PROVE  SafetyInv'
<1>1. /\ panel = "up" /\ inst[s].life = "absent"
      /\ inst' = [inst EXCEPT ![s] = NewInstance]
      /\ UNCHANGED <<row, record, proc, panel, exiting, stopOnExit, holder, todo, stage>>
  BY DEF ClearLogHandler, LockFree, Listed, dbVars, panelVars, loopVars
<1>2. \A p \in Pid : proc[p] # s
  BY <1>1 DEF SafetyInv, NoOrphan
<1>3. LockInv' /\ ExitInv' /\ StageInv' /\ RecoverInv'
  BY <1>1 DEF SafetyInv, LockInv, ExitInv, StageInv, RecoverInv
<1>4. NoOrphan' /\ RowOfProcess' /\ RunningIsRecorded'
  BY <1>1, <1>2 DEF TypeOK, SafetyInv, NoOrphan, RowOfProcess, RunningIsRecorded
<1>5. QED
  BY <1>3, <1>4 DEF SafetyInv

LEMMA HandlerSafe ==
  ASSUME SafeFaults
  PROVE  TypeOK /\ SafetyInv /\ HandlerNext => SafetyInv'
<1> SUFFICES ASSUME TypeOK, SafetyInv, NEW s \in Server,
                    \/ CreateServer(s) \/ UpdateServer(s) \/ ClearLogHandler(s)
                    \/ StartHandler(s) \/ StartFinish(s)
                    \/ StopHandler(s) \/ StopRefused(s) \/ StopKill(s) \/ StopFinish(s)
                    \/ DeleteHandler(s) \/ DeleteFinish(s)
             PROVE  SafetyInv'
  BY DEF HandlerNext
<1> USE DEF dbVars, panelVars, loopVars
<1>1. CASE CreateServer(s) \/ UpdateServer(s)
  BY <1>1, RowsSafe DEF CreateServer, UpdateServer, TypeOK
<1>2. CASE ClearLogHandler(s)
  BY <1>2, ClearLogSafe
<1>3. CASE StartHandler(s)
  <2>1. Idle /\ panel = "up" /\ exiting # "done" /\ holder = "none"
    BY <1>3, LockFreeFacts DEF StartHandler
  <2>2. CASE Launch(s) /\ holder' = "handler"
    BY <1>3, <2>1, <2>2, LaunchSafe DEF StartHandler
  <2>3. CASE LaunchFails(s) /\ UNCHANGED holder
    BY <1>3, <2>1, <2>3, LaunchFailsSafe DEF StartHandler
  <2>4. QED
    BY <1>3, <2>2, <2>3 DEF StartHandler
<1>4. CASE StartFinish(s)
  BY <1>4, StartFinishSafe
<1>5. CASE StopHandler(s)
  <2>1. Idle /\ panel = "up" /\ exiting # "done" /\ holder = "none"
    BY <1>5, LockFreeFacts DEF StopHandler
  <2>2. QED
    BY <1>5, <2>1, InterruptSafe DEF StopHandler
<1>6. CASE StopRefused(s)
  BY <1>6, RowsSafe DEF StopRefused, LockFree
<1>7. CASE StopKill(s)
  BY <1>7, StopKillSafe
<1>8. CASE StopFinish(s)
  BY <1>8, ForgetSafe DEF StopFinish
<1>9. CASE DeleteHandler(s)
  BY <1>9, DeleteSafe
<1>10. CASE DeleteFinish(s)
  BY <1>10, ForgetSafe DEF DeleteFinish
<1>11. QED
  BY <1>1, <1>2, <1>3, <1>4, <1>5, <1>6, <1>7, <1>8, <1>9, <1>10

\* Taking or releasing App.lock for a loop touches nothing else.
LEMMA LoopEdgeSafe ==
  ASSUME TypeOK, SafetyInv, Idle, panel = "up",
         UNCHANGED <<row, record, proc, inst, panel, exiting, stopOnExit, stage>>,
         holder' \in {"none", "watch"}, exiting # "done"
  PROVE  SafetyInv'
<1>1. LockInv' /\ ExitInv' /\ StageInv' /\ RecoverInv'
  BY DEF SafetyInv, LockInv, ExitInv, StageInv, RecoverInv, Idle
<1>2. NoOrphan' /\ RowOfProcess' /\ RunningIsRecorded'
  BY DEF SafetyInv, NoOrphan, RowOfProcess, RunningIsRecorded
<1>3. QED
  BY <1>1, <1>2 DEF SafetyInv

LEMMA WatchSafe ==
  ASSUME SafeFaults
  PROVE  TypeOK /\ SafetyInv /\ WatchNext => SafetyInv'
<1> SUFFICES ASSUME TypeOK, SafetyInv, WatchNext PROVE SafetyInv'
  OBVIOUS
<1> USE DEF dbVars, panelVars, loopVars
<1>1. CASE WatchBegin
  BY <1>1, LockFreeFacts, LoopEdgeSafe DEF WatchBegin
<1>2. CASE WatchEnd
  <2>1. panel = "up" /\ exiting # "done"
    BY <1>2 DEF WatchEnd, SafetyInv, LockInv, ExitInv
  <2>2. QED
    BY <1>2, <2>1, LoopEdgeSafe DEF WatchEnd
<1>3. ASSUME NEW s \in Server, WatchServer(s) PROVE SafetyInv'
  <2>1. /\ holder = "watch" /\ Idle /\ panel = "up" /\ exiting # "done"
        /\ todo' = todo \ {s}
        /\ UNCHANGED <<row, record, panel, exiting, stopOnExit, holder>>
    BY <1>3 DEF WatchServer, SafetyInv, LockInv, ExitInv
  <2>2. CASE WatchAlive(s)
    BY <2>1, <2>2, LoopEdgeSafe DEF WatchAlive
  <2>3. CASE WatchRowGone(s)
    <3>1. /\ row[s] # "exists" /\ inst' = [inst EXCEPT ![s] = Absent]
          /\ UNCHANGED <<proc, stage>>
      BY <2>3, SafeFaultNames DEF WatchRowGone
    <3>2. \A p \in Pid : proc[p] # s
      BY <3>1 DEF SafetyInv, RowOfProcess
    <3>3. LockInv' /\ ExitInv' /\ StageInv' /\ RecoverInv'
      BY <2>1, <3>1 DEF SafetyInv, LockInv, ExitInv, StageInv, RecoverInv
    <3>4. NoOrphan' /\ RowOfProcess' /\ RunningIsRecorded'
      BY <2>1, <3>1, <3>2 DEF TypeOK, SafetyInv, NoOrphan, RowOfProcess, RunningIsRecorded
    <3>5. QED
      BY <3>3, <3>4 DEF SafetyInv
  <2>4. CASE WatchRestart(s) /\ Launch(s)
    BY <2>1, <2>4, LaunchSafe DEF WatchRestart
  <2>5. CASE WatchRestart(s) /\ LaunchFails(s)
    BY <2>1, <2>5, LaunchFailsSafe DEF WatchRestart
  <2>6. QED
    BY <1>3, <2>2, <2>3, <2>4, <2>5 DEF WatchServer, WatchRestart
<1>4. QED
  BY <1>1, <1>2, <1>3 DEF WatchNext

\* The next panel finds every process in the records.
LEMMA PanelStartSafe ==
  ASSUME TypeOK, SafetyInv, SafeFaults, PanelStart
  PROVE  SafetyInv'
<1>1. PICK mode \in BOOLEAN :
        /\ mode = stopOnExit
        /\ stopOnExit' = mode
        /\ IF mode
             THEN /\ record' = [s \in Server |-> NoPid]
                  /\ panel' = "boot"
                  /\ UNCHANGED todo
             ELSE /\ panel' = "recover"
                  /\ todo' = {s \in Server : record[s] # NoPid}
                  /\ UNCHANGED record
  BY SafeFaultNames DEF PanelStart, TypeOK
<1>2. /\ panel = "down" /\ holder = "none" /\ exiting = "no"
      /\ UNCHANGED <<row, proc, inst, exiting, stopOnExit, holder, stage>>
  BY <1>1 DEF PanelStart, TypeOK, SafetyInv, LockInv, ExitInv
<1>3. \A p \in Pid : \A s \in Server : proc[p] = s => ~stopOnExit /\ record[s] = p
  BY <1>2 DEF SafetyInv, NoOrphan
<1>4. LockInv' /\ StageInv'
  BY <1>1, <1>2 DEF SafetyInv, LockInv, StageInv
<1>5. ExitInv' /\ RecoverInv'
  BY <1>1, <1>2, <1>3, PidAssumption DEF SafetyInv, ExitInv, RecoverInv
<1>6. NoOrphan' /\ RowOfProcess' /\ RunningIsRecorded'
  BY <1>1, <1>2, <1>3 DEF SafetyInv, NoOrphan, RowOfProcess, RunningIsRecorded
<1>7. QED
  BY <1>4, <1>5, <1>6 DEF SafetyInv

\* Recovery either adopts the process that is recorded or finds none.
LEMMA RecoverSafe ==
  ASSUME TypeOK, SafetyInv, SafeFaults, NEW s \in Server, RecoverServer(s)
  PROVE  SafetyInv'
<1>1. /\ panel = "recover" /\ holder = "none" /\ ~stopOnExit /\ exiting = "no"
      /\ todo' = todo \ {s}
      /\ UNCHANGED <<row, proc, panel, exiting, stopOnExit, holder, stage>>
  BY DEF RecoverServer, panelVars, SafetyInv, LockInv, ExitInv, TypeOK
<1>2. \A p \in Pid : \A t \in Server : proc[p] = t => record[t] = p
  BY <1>1 DEF SafetyInv, NoOrphan
<1>3. ASSUME NEW p \in Pid, NEW t \in Server, proc[p] = t
      PROVE  /\ record'[t] = p
             /\ t = s => inst'[t].life = "adopted" /\ inst'[t].pid = p
             /\ t # s => inst'[t] = inst[t]
  <2>1. CASE RecoverDrops(s)
    <3>1. t # s
      BY <1>2, <1>3, <2>1, SafeFaultNames, OwnerAssumption, PidAssumption
         DEF RecoverDrops, ProcessAlive, SafetyInv, RowOfProcess
    <3>2. QED
      BY <1>2, <1>3, <2>1, <3>1 DEF RecoverDrops, TypeOK
  <2>2. CASE RecoverAdopts(s)
    BY <1>2, <1>3, <2>2 DEF RecoverAdopts, AttachPID, TypeOK
  <2>3. QED
    BY <2>1, <2>2 DEF RecoverServer
<1>4. LockInv' /\ ExitInv' /\ StageInv'
  BY <1>1 DEF SafetyInv, LockInv, ExitInv, StageInv
<1>5. RecoverInv'
  BY <1>1, <1>3 DEF SafetyInv, RecoverInv
<1>6. NoOrphan' /\ RowOfProcess' /\ RunningIsRecorded'
  BY <1>1, <1>3 DEF SafetyInv, NoOrphan, RowOfProcess, RunningIsRecorded
<1>7. QED
  BY <1>4, <1>5, <1>6 DEF SafetyInv

LEMMA BootSafe ==
  ASSUME SafeFaults
  PROVE  TypeOK /\ SafetyInv /\ BootNext => SafetyInv'
<1> SUFFICES ASSUME TypeOK, SafetyInv, BootNext PROVE SafetyInv'
  OBVIOUS
<1> USE DEF dbVars, panelVars, loopVars
<1>1. CASE PanelStart
  BY <1>1, PanelStartSafe
<1>2. CASE RecoverAborts
  BY <1>2, SafeFaultNames DEF RecoverAborts
<1>3. CASE RecoverEnd
  <2>1. /\ panel = "recover" /\ todo = {} /\ panel' = "boot" /\ holder = "none"
        /\ UNCHANGED <<row, record, proc, inst, exiting, stopOnExit, holder, todo, stage>>
    BY <1>3 DEF RecoverEnd, SafetyInv, LockInv
  <2>2. LockInv' /\ ExitInv' /\ StageInv' /\ RecoverInv'
    BY <2>1 DEF SafetyInv, LockInv, ExitInv, StageInv, RecoverInv
  <2>3. NoOrphan' /\ RowOfProcess' /\ RunningIsRecorded'
    BY <2>1 DEF SafetyInv, RecoverInv, NoOrphan, RowOfProcess, RunningIsRecorded
  <2>4. QED
    BY <2>2, <2>3 DEF SafetyInv
<1>4. CASE AutoStartBegin
  <2>1. /\ panel = "boot" /\ holder = "none" /\ exiting # "done"
        /\ holder' = "autostart"
        /\ todo' = {s \in auto : row[s] = "exists"}
        /\ UNCHANGED <<row, record, proc, inst, panel, exiting, stopOnExit, stage>>
    BY <1>4, SafeFaultNames DEF AutoStartBegin
  <2>2. LockInv' /\ ExitInv' /\ StageInv' /\ RecoverInv'
    BY <2>1 DEF SafetyInv, LockInv, ExitInv, StageInv, RecoverInv
  <2>3. NoOrphan' /\ RowOfProcess' /\ RunningIsRecorded'
    BY <2>1 DEF SafetyInv, NoOrphan, RowOfProcess, RunningIsRecorded
  <2>4. QED
    BY <2>2, <2>3 DEF SafetyInv
<1>5. CASE AutoStartEnd
  <2>1. /\ holder = "autostart" /\ Idle /\ holder' = "none"
        /\ panel = "boot" /\ panel' = "up" /\ exiting # "done"
        /\ UNCHANGED <<row, record, proc, inst, exiting, stopOnExit, todo, stage>>
    BY <1>5 DEF AutoStartEnd, SafetyInv, LockInv, ExitInv
  <2>2. LockInv' /\ ExitInv' /\ StageInv' /\ RecoverInv'
    BY <2>1 DEF SafetyInv, LockInv, ExitInv, StageInv, RecoverInv, Idle
  <2>3. NoOrphan' /\ RowOfProcess' /\ RunningIsRecorded'
    BY <2>1 DEF SafetyInv, NoOrphan, RowOfProcess, RunningIsRecorded
  <2>4. QED
    BY <2>2, <2>3 DEF SafetyInv
<1>6. ASSUME NEW s \in Server, RecoverServer(s) PROVE SafetyInv'
  BY <1>6, RecoverSafe
<1>7. ASSUME NEW s \in Server, AutoStartServer(s) PROVE SafetyInv'
  <2>1. /\ holder = "autostart" /\ Idle /\ panel = "boot" /\ exiting # "done"
        /\ row[s] = "exists" /\ todo' = todo \ {s}
        /\ UNCHANGED <<row, record, panel, exiting, stopOnExit, holder>>
    BY <1>7 DEF AutoStartServer, SafetyInv, LockInv, ExitInv
  <2>2. CASE Running(s) /\ UNCHANGED <<proc, inst, stage, command>>
    <3>1. LockInv' /\ ExitInv' /\ StageInv' /\ RecoverInv'
      BY <2>1, <2>2 DEF SafetyInv, LockInv, ExitInv, StageInv, RecoverInv
    <3>2. NoOrphan' /\ RowOfProcess' /\ RunningIsRecorded'
      BY <2>1, <2>2 DEF SafetyInv, NoOrphan, RowOfProcess, RunningIsRecorded
    <3>3. QED
      BY <3>1, <3>2 DEF SafetyInv
  <2>3. CASE ~Running(s) /\ Launch(s)
    BY <2>1, <2>3, LaunchSafe
  <2>4. CASE ~Running(s) /\ LaunchFails(s)
    BY <2>1, <2>4, LaunchFailsSafe
  <2>5. QED
    BY <1>7, <2>2, <2>3, <2>4 DEF AutoStartServer
<1>8. QED
  BY <1>1, <1>2, <1>3, <1>4, <1>5, <1>6, <1>7 DEF BootNext

\* A panel that dies leaves every process recorded, or leaves none.
LEMMA DiesSafe ==
  ASSUME TypeOK, SafetyInv, Dies,
         \/ exiting = "done"
         \/ ~stopOnExit /\ ~InStartScript
  PROVE  SafetyInv'
<1>1. /\ panel' = "down" /\ exiting' = "no" /\ holder' = "none" /\ todo' = {}
      /\ \A s \in Server : stage'[s] = "none"
      /\ UNCHANGED <<row, record, proc, stopOnExit>>
  BY DEF Dies, dbVars
<1>2. \A p \in Pid : \A s \in Server : proc[p] = s => ~stopOnExit /\ record[s] = p
  <2>1. CASE exiting = "done"
    BY <2>1 DEF SafetyInv, ExitInv
  <2>2. CASE ~stopOnExit /\ ~InStartScript
    BY <2>2 DEF SafetyInv, NoOrphan, RunningIsRecorded, InStartScript, TypeOK
  <2>3. QED
    BY <2>1, <2>2
<1>3. LockInv' /\ ExitInv' /\ StageInv' /\ RecoverInv'
  BY <1>1 DEF LockInv, ExitInv, StageInv, RecoverInv
<1>4. NoOrphan' /\ RowOfProcess' /\ RunningIsRecorded'
  BY <1>1, <1>2 DEF SafetyInv, NoOrphan, RowOfProcess, RunningIsRecorded
<1>5. QED
  BY <1>3, <1>4 DEF SafetyInv

LEMMA DieSafe ==
  ASSUME SafeFaults
  PROVE  TypeOK /\ SafetyInv /\ DieNext => SafetyInv'
<1> SUFFICES ASSUME TypeOK, SafetyInv, DieNext PROVE SafetyInv'
  OBVIOUS
<1> USE DEF dbVars, panelVars, loopVars
<1>1. CASE PanelCrash \/ TermPreserve \/ PanelExit
  BY <1>1, DiesSafe, SafeFaultNames DEF PanelCrash, TermPreserve, PanelExit
<1>2. CASE TermStop
  <2>1. /\ panel # "down" /\ stopOnExit /\ exiting = "no" /\ exiting' = "waiting"
        /\ UNCHANGED <<row, record, proc, inst, panel, stopOnExit, holder, todo, stage>>
    BY <1>2 DEF TermStop
  <2>2. LockInv' /\ ExitInv' /\ StageInv' /\ RecoverInv'
    BY <2>1 DEF TypeOK, SafetyInv, LockInv, ExitInv, StageInv, RecoverInv
  <2>3. NoOrphan' /\ RowOfProcess' /\ RunningIsRecorded'
    BY <2>1 DEF SafetyInv, NoOrphan, RowOfProcess, RunningIsRecorded
  <2>4. QED
    BY <2>2, <2>3 DEF SafetyInv
<1>3. CASE StopAllBegin
  <2>1. /\ exiting = "waiting" /\ holder = "none" /\ holder' = "stopall"
        /\ todo' = {s \in Server : inst[s].life # "absent"}
        /\ panel \in {"boot", "up"}
        /\ UNCHANGED <<row, record, proc, inst, panel, exiting, stopOnExit, stage>>
    BY <1>3 DEF StopAllBegin, Listed, SafetyInv, ExitInv
  <2>2. LockInv' /\ StageInv' /\ RecoverInv'
    BY <2>1 DEF SafetyInv, LockInv, StageInv, RecoverInv
  <2>3. ExitInv'
    BY <2>1 DEF SafetyInv, ExitInv, NoOrphan
  <2>4. NoOrphan' /\ RowOfProcess' /\ RunningIsRecorded'
    BY <2>1 DEF SafetyInv, NoOrphan, RowOfProcess, RunningIsRecorded
  <2>5. QED
    BY <2>2, <2>3, <2>4 DEF SafetyInv
<1>4. CASE StopAllEnd
  <2>1. /\ holder = "stopall" /\ Idle /\ todo = {} /\ holder' = "none" /\ exiting' = "done"
        /\ exiting = "waiting"
        /\ UNCHANGED <<row, record, proc, inst, panel, stopOnExit, todo, stage>>
    BY <1>4 DEF StopAllEnd, SafetyInv, LockInv
  <2>2. \A p \in Pid : proc[p] \notin Server
    BY <2>1 DEF SafetyInv, ExitInv, Idle
  <2>3. LockInv' /\ ExitInv' /\ StageInv' /\ RecoverInv'
    BY <2>1, <2>2 DEF SafetyInv, LockInv, ExitInv, StageInv, RecoverInv, Idle
  <2>4. NoOrphan' /\ RowOfProcess' /\ RunningIsRecorded'
    BY <2>1 DEF SafetyInv, NoOrphan, RowOfProcess, RunningIsRecorded
  <2>5. QED
    BY <2>3, <2>4 DEF SafetyInv
<1>5. ASSUME NEW s \in Server, StopAllServer(s) PROVE SafetyInv'
  <2>1. /\ holder = "stopall" /\ Idle /\ todo' = todo \ {s}
        /\ panel \in {"boot", "up"}
        /\ UNCHANGED <<row, record, proc, panel, exiting, stopOnExit, holder>>
    BY <1>5 DEF StopAllServer, SafetyInv, LockInv, ExitInv
  <2>2. CASE Running(s) /\ Interrupt(s)
    BY <2>1, <2>2, InterruptSafe
  <2>3. CASE StopAllSkips(s)
    <3>1. ~Running(s) /\ UNCHANGED <<inst, stage>>
      BY <2>3, SafeFaultNames DEF StopAllSkips
    <3>2. \A p \in Pid : proc[p] # s
      BY <2>1, <3>1, NotRunning DEF SafetyInv
    <3>3. LockInv' /\ ExitInv' /\ StageInv' /\ RecoverInv'
      BY <2>1, <3>1, <3>2 DEF SafetyInv, LockInv, ExitInv, StageInv, RecoverInv
    <3>4. NoOrphan' /\ RowOfProcess' /\ RunningIsRecorded'
      BY <2>1, <3>1 DEF SafetyInv, NoOrphan, RowOfProcess, RunningIsRecorded
    <3>5. QED
      BY <3>3, <3>4 DEF SafetyInv
  <2>4. QED
    BY <1>5, <2>2, <2>3 DEF StopAllServer
<1>6. QED
  BY <1>1, <1>2, <1>3, <1>4, <1>5 DEF DieNext

\* SafetyInv is an invariant for every set of servers and PIDs, and whatever
\* openvpn, the host, the requests and the signals do, as long as none of the
\* OrphanFaults happens: no process escapes the panel, its row is there, and
\* its PID is recorded once the start script is over.
THEOREM Safe == ASSUME SafeFaults PROVE Spec => []SafetyInv
<1>1. Init => SafetyInv
  BY OwnerAssumption DEF Init, SafetyInv, LockInv, ExitInv, StageInv, RecoverInv,
     NoOrphan, RowOfProcess, RunningIsRecorded
<1>2. SafetyInv /\ UNCHANGED vars => SafetyInv'
  BY DEF vars, SafetyInv, LockInv, ExitInv, StageInv, RecoverInv,
     NoOrphan, RowOfProcess, RunningIsRecorded
<1>3. TypeOK /\ SafetyInv /\ [Next]_vars => SafetyInv'
  BY <1>2, OSSafe, HandlerSafe, WatchSafe, BootSafe, DieSafe DEF Next
<1>4. QED
  BY <1>1, <1>3, TypeCorrect, PTL DEF Spec

\* No openvpn process escapes the panel.
THEOREM NoneIsLost == ASSUME SafeFaults PROVE Spec => []NoOrphan
<1>1. SafetyInv => NoOrphan
  BY DEF SafetyInv
<1>2. QED
  BY <1>1, Safe, PTL

\* A server never has two openvpn processes.
THEOREM OneProcess == ASSUME SafeFaults PROVE Spec => []AtMostOneProcess
<1>1. TypeOK /\ SafetyInv => AtMostOneProcess
  <2> SUFFICES ASSUME TypeOK, SafetyInv, NEW p \in Pid, NEW q \in Pid,
                      proc[p] \in Server, proc[p] = proc[q]
               PROVE  p = q
    BY DEF AtMostOneProcess
  <2> QED
    BY DEF SafetyInv, NoOrphan
<1>2. QED
  BY <1>1, Safe, TypeCorrect, PTL

-----------------------------------------------------------------------------
(* A stop that succeeded is final.  A stopped server is neither flagged nor  *)
(* recorded, so neither the watchdog nor recovery takes it up again.         *)

StopInv ==
  /\ holder = "watch" => \A s \in todo : inst[s].keepAlive
  /\ \A s \in Server : stage[s] \in {"signalled", "stopped"} => ~inst[s].keepAlive
  /\ \A s \in Server : stage[s] = "script" => command[s] # "stopped"
  /\ \A s \in Server :
       command[s] = "stopped" => ~inst[s].keepAlive /\ record[s] = NoPid
  /\ \A s \in Server : stage[s] = "rowgone" => holder = "handler"

\* Ending a process leaves keepAlive alone.
LEMMA EndsKeepAlive ==
  ASSUME TypeOK, NEW p, Ends(p), NEW s \in Server
  PROVE  inst'[s].keepAlive = inst[s].keepAlive
<1>1. CASE inst[s] \in {Absent, NewInstance}
  BY <1>1 DEF Ends, TypeOK, Absent, NewInstance
<1>2. CASE inst[s] \in [life : {"child", "reaped", "adopted"}, pid : Pid, keepAlive : BOOLEAN]
  BY <1>2 DEF Ends, TypeOK
<1>3. QED
  BY <1>1, <1>2 DEF TypeOK, Instance

\* After Interrupt the flag of s is down and the other instances are the same.
LEMMA InterruptFlag ==
  ASSUME TypeOK, NEW s \in Server, Interrupt(s), Running(s)
  PROVE  /\ ~inst'[s].keepAlive
         /\ \A t \in Server : t # s => inst'[t] = inst[t] /\ stage'[t] = stage[t]
         /\ stage'[s] = "signalled"
<1>1. inst[s] \in [life : {"child", "reaped", "adopted"}, pid : Pid, keepAlive : BOOLEAN]
  BY DEF Running, TypeOK, Instance, Absent, NewInstance
<1>2. QED
  BY <1>1 DEF Interrupt, TypeOK

\* A launch is no surprise for a server that was not stopped.
LEMMA LaunchStop ==
  ASSUME TypeOK, StopInv, NEW s \in Server, Idle, Launch(s) \/ LaunchFails(s),
         UNCHANGED record, todo' \subseteq todo \ {s} \/ holder # "watch",
         \A t \in Server : t # s => command'[t] = command[t],
         Launch(s) => command'[s] # "stopped",
         command'[s] = "stopped" => command[s] = "stopped",
         holder' = holder \/ holder' = "handler"
  PROVE  StopInv'
<1>1. CASE Launch(s)
  <2>1. \A t \in Server : t # s => inst'[t] = inst[t] /\ stage'[t] = stage[t]
    BY <1>1 DEF Launch, TypeOK
  <2>2. stage'[s] = "script"
    BY <1>1 DEF Launch, TypeOK
  <2>3. QED
    BY <1>1, <2>1, <2>2 DEF StopInv, TypeOK
<1>2. CASE LaunchFails(s)
  <2>1. stage' = stage /\ \A t \in Server : t # s => inst'[t] = inst[t]
    BY <1>2 DEF LaunchFails, TypeOK
  <2>2. inst'[s].keepAlive = FALSE
    BY <1>2 DEF LaunchFails, NewInstance, TypeOK
  <2>3. QED
    BY <1>2, <2>1, <2>2 DEF StopInv, Idle, TypeOK
<1>3. QED
  BY <1>1, <1>2

LEMMA OSStop == TypeOK /\ StopInv /\ OSNext => StopInv'
<1> SUFFICES ASSUME TypeOK, StopInv, NEW q \in Pid, ProcessExits(q) \/ ForeignStarts(q)
             PROVE  StopInv'
  BY DEF OSNext
<1> USE DEF dbVars, panelVars, loopVars
<1>1. \A s \in Server : inst'[s].keepAlive = inst[s].keepAlive
  BY EndsKeepAlive DEF ProcessExits, ForeignStarts
<1>2. QED
  BY <1>1 DEF StopInv, ProcessExits, ForeignStarts, TypeOK

\* Noting a command never makes a server stopped, nor a stopped one anything else.
LEMMA NotedStop ==
  ASSUME TypeOK, NEW s \in Server, NEW c, c # "stopped", Noted(s, c), NEW t \in Server
  PROVE  command'[t] = "stopped" <=> command[t] = "stopped"
BY DEF TypeOK, Noted

LEMMA HandlerStop ==
  ASSUME SafeFaults
  PROVE  TypeOK /\ SafetyInv /\ StopInv /\ HandlerNext => StopInv'
<1> SUFFICES ASSUME TypeOK, SafetyInv, StopInv, NEW s \in Server,
                    \/ CreateServer(s) \/ UpdateServer(s) \/ ClearLogHandler(s)
                    \/ StartHandler(s) \/ StartFinish(s)
                    \/ StopHandler(s) \/ StopRefused(s) \/ StopKill(s) \/ StopFinish(s)
                    \/ DeleteHandler(s) \/ DeleteFinish(s)
             PROVE  StopInv'
  BY DEF HandlerNext
<1> USE DEF dbVars, panelVars, loopVars
<1>1. CASE CreateServer(s) \/ UpdateServer(s)
  BY <1>1 DEF CreateServer, UpdateServer, StopInv
<1>2. CASE ClearLogHandler(s)
  <2>1. holder = "none" /\ \A t \in Server : t # s => inst'[t] = inst[t]
    BY <1>2 DEF ClearLogHandler, LockFree, TypeOK
  <2>2. inst'[s].keepAlive = FALSE
    BY <1>2 DEF ClearLogHandler, NewInstance, TypeOK
  <2>3. QED
    BY <1>2, <2>1, <2>2 DEF ClearLogHandler, StopInv
<1>3. CASE StartHandler(s)
  <2>1. Idle /\ holder = "none" /\ UNCHANGED <<record, todo>>
    BY <1>3, LockFreeFacts DEF StartHandler
  <2>2. CASE Launch(s) /\ holder' = "handler" /\ Commanded(s, "started")
    <3>1. command'[s] = "started" /\ \A t \in Server : t # s => command'[t] = command[t]
      BY <2>2 DEF Commanded, TypeOK
    <3>2. QED
      BY <2>1, <2>2, <3>1, LaunchStop
  <2>3. CASE LaunchFails(s) /\ UNCHANGED holder /\ Noted(s, "failed")
    <3>1. \A t \in Server : command'[t] = "stopped" <=> command[t] = "stopped"
      BY <2>3, NotedStop
    <3>2. stage' = stage /\ \A t \in Server : t # s => inst'[t] = inst[t]
      BY <2>3 DEF LaunchFails, TypeOK
    <3>3. inst'[s].keepAlive = FALSE
      BY <2>3 DEF LaunchFails, NewInstance, TypeOK
    <3>4. QED
      BY <2>1, <2>3, <3>1, <3>2, <3>3 DEF StopInv
  <2>4. QED
    BY <1>3, <2>2, <2>3 DEF StartHandler
<1>4. CASE StartFinish(s)
  <2>1. /\ command[s] # "stopped" /\ UNCHANGED <<inst, command, todo>>
        /\ \A t \in Server : stage'[t] \in {stage[t], "none"}
        /\ \A t \in Server : t # s => record'[t] = record[t]
        /\ holder' \in {holder, "none"}
    BY <1>4 DEF StartFinish, RecordServerProcess, Release, StopInv, TypeOK
  <2>2. \A t \in Server : stage'[t] = "none"
    BY <1>4 DEF StartFinish, SafetyInv, LockInv, TypeOK
  <2>3. QED
    BY <2>1, <2>2 DEF StopInv
<1>5. CASE StopHandler(s)
  <2>1. Idle /\ holder = "none" /\ holder' = "handler"
    BY <1>5, LockFreeFacts DEF StopHandler
  <2>2. /\ ~inst'[s].keepAlive /\ stage'[s] = "signalled"
        /\ \A t \in Server : t # s => inst'[t] = inst[t] /\ stage'[t] = stage[t]
    BY <1>5, InterruptFlag DEF StopHandler
  <2>3. QED
    BY <1>5, <2>1, <2>2 DEF StopHandler, StopInv, Idle
<1>6. CASE StopRefused(s)
  <2>1. \A t \in Server : command'[t] = "stopped" <=> command[t] = "stopped"
    BY <1>6, NotedStop DEF StopRefused
  <2>2. QED
    BY <1>6, <2>1 DEF StopRefused, StopInv
<1>7. CASE StopKill(s)
  <2>1. \A t \in Server : inst'[t].keepAlive = inst[t].keepAlive
    BY <1>7, EndsKeepAlive DEF StopKill
  <2>2. /\ UNCHANGED <<record, holder, todo, command>>
        /\ stage[s] = "signalled" /\ stage'[s] = "stopped"
        /\ \A t \in Server : t # s => stage'[t] = stage[t]
    BY <1>7 DEF StopKill, TypeOK
  <2>3. QED
    BY <2>1, <2>2 DEF StopInv, TypeOK
<1>8. CASE StopFinish(s)
  <2>1. /\ ~inst[s].keepAlive /\ record'[s] = NoPid /\ UNCHANGED <<inst, todo>>
        /\ \A t \in Server : stage'[t] \in {stage[t], "none"}
        /\ \A t \in Server : t # s => record'[t] = record[t] /\ command'[t] = command[t]
        /\ holder' \in {holder, "none"}
    BY <1>8 DEF StopFinish, Release, Commanded, StopInv, TypeOK
  <2>2. \A t \in Server : stage'[t] = "none"
    BY <1>8 DEF StopFinish, SafetyInv, LockInv, TypeOK
  <2>3. QED
    BY <2>1, <2>2 DEF StopInv
<1>9. CASE DeleteHandler(s)
  <2>1. /\ holder' = "handler" /\ stage' = [stage EXCEPT ![s] = "rowgone"]
        /\ UNCHANGED <<record, inst, command>>
    BY <1>9 DEF DeleteHandler
  <2>2. QED
    BY <2>1 DEF StopInv, TypeOK
<1>10. CASE DeleteFinish(s)
  <2>1. /\ record'[s] = NoPid /\ UNCHANGED todo /\ holder' \in {holder, "none"}
        /\ \A t \in Server : stage'[t] \in {stage[t], "none"}
        /\ \A t \in Server : t # s => record'[t] = record[t] /\ inst'[t] = inst[t]
    BY <1>10 DEF DeleteFinish, Release, TypeOK
  <2>2. inst'[s].keepAlive = FALSE
    BY <1>10 DEF DeleteFinish, Absent, TypeOK
  <2>3. \A t \in Server : command'[t] = "stopped" <=> command[t] = "stopped"
    BY <1>10, NotedStop DEF DeleteFinish
  <2>4. holder' # "watch"
    BY <1>10 DEF DeleteFinish, Release, StopInv, TypeOK
  <2>5. \A t \in Server : stage'[t] = "none"
    BY <1>10 DEF DeleteFinish, SafetyInv, LockInv, TypeOK
  <2>6. QED
    BY <2>1, <2>2, <2>3, <2>4, <2>5 DEF StopInv
<1>11. QED
  BY <1>1, <1>2, <1>3, <1>4, <1>5, <1>6, <1>7, <1>8, <1>9, <1>10

LEMMA WatchStop == TypeOK /\ StopInv /\ WatchNext => StopInv'
<1> SUFFICES ASSUME TypeOK, StopInv, WatchNext PROVE StopInv'
  OBVIOUS
<1> USE DEF dbVars, panelVars, loopVars
<1>1. CASE WatchBegin
  <2>1. holder = "none" /\ holder' = "watch" /\ todo' = {s \in Server : inst[s].keepAlive}
    BY <1>1 DEF WatchBegin, LockFree
  <2>2. QED
    BY <1>1, <2>1 DEF WatchBegin, StopInv
<1>2. CASE WatchEnd
  BY <1>2 DEF WatchEnd, StopInv
<1>3. ASSUME NEW s \in Server, WatchServer(s) PROVE StopInv'
  <2>1. /\ holder = "watch" /\ Idle /\ todo' = todo \ {s}
        /\ UNCHANGED <<record, holder, command>>
        /\ inst[s].keepAlive
    BY <1>3 DEF WatchServer, StopInv
  <2>2. CASE WatchAlive(s)
    BY <2>1, <2>2 DEF WatchAlive, StopInv
  <2>3. CASE WatchRowGone(s)
    <3>1. inst'[s].keepAlive = FALSE /\ \A t \in Server : t # s => inst'[t] = inst[t]
      BY <2>3 DEF WatchRowGone, Absent, TypeOK
    <3>2. QED
      BY <2>1, <2>3, <3>1 DEF WatchRowGone, StopInv
  <2>4. CASE WatchRestart(s)
    <3>1. command[s] # "stopped"
      BY <2>1 DEF StopInv
    <3>2. QED
      BY <2>1, <2>4, <3>1, LaunchStop DEF WatchRestart
  <2>5. QED
    BY <1>3, <2>2, <2>3, <2>4 DEF WatchServer
<1>4. QED
  BY <1>1, <1>2, <1>3 DEF WatchNext

LEMMA BootStop == TypeOK /\ SafetyInv /\ StopInv /\ BootNext => StopInv'
<1> SUFFICES ASSUME TypeOK, SafetyInv, StopInv, BootNext PROVE StopInv'
  OBVIOUS
<1> USE DEF dbVars, panelVars, loopVars
<1>1. CASE PanelStart
  <2>1. /\ holder = "none" /\ UNCHANGED <<inst, holder, stage, command>>
        /\ \A s \in Server : record'[s] \in {record[s], NoPid}
    BY <1>1 DEF PanelStart, SafetyInv, LockInv
  <2>2. QED
    BY <2>1 DEF StopInv
<1>2. CASE RecoverAborts \/ RecoverEnd
  BY <1>2 DEF RecoverAborts, RecoverEnd, StopInv
<1>3. CASE AutoStartBegin \/ AutoStartEnd
  BY <1>3 DEF AutoStartBegin, AutoStartEnd, StopInv, Idle
<1>4. ASSUME NEW s \in Server, RecoverServer(s) PROVE StopInv'
  <2>1. holder = "none" /\ UNCHANGED <<holder, stage>>
    BY <1>4 DEF RecoverServer, SafetyInv, LockInv
  <2>2. \A t \in Server : stage[t] = "none"
    BY <2>1 DEF SafetyInv, LockInv, TypeOK
  <2>3. CASE RecoverDrops(s)
    BY <2>1, <2>3 DEF RecoverDrops, StopInv, TypeOK
  <2>4. CASE RecoverAdopts(s)
    <3>1. record[s] # NoPid /\ UNCHANGED record
      BY <2>4 DEF RecoverAdopts, ProcessAlive
    <3>2. \A t \in Server : t # s => inst'[t] = inst[t]
      BY <2>4 DEF RecoverAdopts, TypeOK
    <3>3. \A t \in Server : command'[t] = "stopped" <=> command[t] = "stopped"
      BY <2>4, NotedStop DEF RecoverAdopts
    <3>4. QED
      BY <2>1, <2>2, <3>1, <3>2, <3>3 DEF StopInv
  <2>5. QED
    BY <1>4, <2>3, <2>4 DEF RecoverServer
<1>5. ASSUME NEW s \in Server, AutoStartServer(s) PROVE StopInv'
  <2>1. holder = "autostart" /\ Idle /\ todo' = todo \ {s} /\ UNCHANGED <<record, holder>>
    BY <1>5 DEF AutoStartServer
  <2>2. CASE Running(s) /\ UNCHANGED <<proc, inst, stage, command>>
    BY <2>1, <2>2 DEF StopInv
  <2>3. CASE Launch(s) /\ Commanded(s, "started")
    <3>1. command'[s] = "started" /\ \A t \in Server : t # s => command'[t] = command[t]
      BY <2>3 DEF Commanded, TypeOK
    <3>2. QED
      BY <2>1, <2>3, <3>1, LaunchStop
  <2>4. CASE LaunchFails(s) /\ UNCHANGED command
    <3>1. stage' = stage /\ \A t \in Server : t # s => inst'[t] = inst[t]
      BY <2>4 DEF LaunchFails, TypeOK
    <3>2. inst'[s].keepAlive = FALSE
      BY <2>4 DEF LaunchFails, NewInstance, TypeOK
    <3>3. QED
      BY <2>1, <2>4, <3>1, <3>2 DEF StopInv
  <2>5. QED
    BY <1>5, <2>2, <2>3, <2>4 DEF AutoStartServer
<1>6. QED
  BY <1>1, <1>2, <1>3, <1>4, <1>5 DEF BootNext

LEMMA DieStop == TypeOK /\ SafetyInv /\ StopInv /\ DieNext => StopInv'
<1> SUFFICES ASSUME TypeOK, SafetyInv, StopInv, DieNext PROVE StopInv'
  OBVIOUS
<1> USE DEF dbVars, panelVars, loopVars
<1>1. CASE Dies
  <2>1. /\ \A s \in Server : inst'[s].keepAlive = FALSE /\ stage'[s] = "none"
        /\ holder' = "none" /\ UNCHANGED record
        /\ \A s \in Server : command'[s] = "stopped" <=> command[s] = "stopped"
    BY <1>1 DEF Dies, Absent
  <2>2. QED
    BY <2>1 DEF StopInv
<1>2. CASE TermStop \/ StopAllBegin \/ StopAllEnd
  BY <1>2 DEF TermStop, StopAllBegin, StopAllEnd, StopInv, SafetyInv, LockInv, Idle
<1>3. ASSUME NEW s \in Server, StopAllServer(s) PROVE StopInv'
  <2>1. holder = "stopall" /\ Idle /\ UNCHANGED <<record, holder, command>>
    BY <1>3 DEF StopAllServer
  <2>2. CASE Running(s) /\ Interrupt(s)
    BY <2>1, <2>2, InterruptFlag DEF StopInv, Idle
  <2>3. CASE StopAllSkips(s)
    BY <2>1, <2>3 DEF StopAllSkips, StopInv
  <2>4. QED
    BY <1>3, <2>2, <2>3 DEF StopAllServer
<1>4. QED
  BY <1>1, <1>2, <1>3 DEF DieNext, PanelCrash, TermPreserve, PanelExit

LEMMA StopsStay == ASSUME SafeFaults PROVE Spec => []StopInv
<1>1. Init => StopInv
  BY DEF Init, StopInv, Absent
<1>2. StopInv /\ UNCHANGED vars => StopInv'
  BY DEF vars, StopInv
<1>3. TypeOK /\ SafetyInv /\ StopInv /\ [Next]_vars => StopInv'
  BY <1>2, OSStop, HandlerStop, WatchStop, BootStop, DieStop DEF Next
<1>4. QED
  BY <1>1, <1>3, TypeCorrect, Safe, PTL DEF Spec

-----------------------------------------------------------------------------
(* What a step does to the processes, the rows and the stopped servers: one *)
(* of three kinds of steps, from which the refinement follows.              *)

\* A process appears: its server exists, had none, and is not stopped any more.
LaunchStep ==
  \E s \in Server, q \in Pid :
    /\ proc[q] = Free /\ proc' = [proc EXCEPT ![q] = s]
    /\ row[s] = "exists" /\ row' = row
    /\ \A p \in Pid : proc[p] # s
    /\ command[s] = "stopped" => command'[s] = "started"
    /\ command'[s] # "stopped"
    /\ \A t \in Server : t # s => command'[t] = command[t]

\* A process ends.
LoseStep ==
  \E q \in Pid : /\ proc' = [proc EXCEPT ![q] = Free]
                 /\ row' = row /\ command' = command

\* The processes of the servers stay; a row comes or goes, or a stop is answered.
SameProcesses == \A p \in Pid : \A s \in Server : proc'[p] = s <=> proc[p] = s
SameStopped == \A s \in Server : command'[s] = "stopped" <=> command[s] = "stopped"
HasNone(s) == \A p \in Pid : proc[p] # s

QuietStep ==
  /\ SameProcesses
  /\ \/ row' = row /\ SameStopped
     \/ \E s \in Server : row' = [row EXCEPT ![s] = "exists"] /\ SameStopped
     \/ \E s \in Server : /\ HasNone(s) /\ SameStopped
                          /\ row' = [row EXCEPT ![s] = "deleted"]
     \/ \E s \in Server : /\ HasNone(s) /\ row' = row
                          /\ command' = [command EXCEPT ![s] = "stopped"]

StepKind == LaunchStep \/ LoseStep \/ QuietStep

LEMMA UnchangedKind ==
  ASSUME UNCHANGED <<proc, row, command>>
  PROVE  StepKind
BY DEF StepKind, QuietStep, SameProcesses, SameStopped

LEMMA LaunchKind ==
  ASSUME TypeOK, SafetyInv, NEW s \in Server, Launch(s), ~Running(s),
         row[s] = "exists", panel \in {"boot", "up"}, UNCHANGED row,
         \/ Commanded(s, "started")
         \/ command[s] # "stopped" /\ UNCHANGED command
  PROVE  StepKind
<1>1. PICK q \in Pid : proc[q] = Free /\ proc' = [proc EXCEPT ![q] = s]
  BY DEF Launch, Available
<1>2. \A p \in Pid : proc[p] # s
  BY NotRunning DEF SafetyInv
<1>3. /\ command[s] = "stopped" => command'[s] = "started"
      /\ command'[s] # "stopped"
      /\ \A t \in Server : t # s => command'[t] = command[t]
  BY DEF Commanded, TypeOK
<1>4. QED
  BY <1>1, <1>2, <1>3 DEF StepKind, LaunchStep

LEMMA OSKind == TypeOK /\ OSNext => StepKind
<1> SUFFICES ASSUME TypeOK, NEW q \in Pid, ProcessExits(q) \/ ForeignStarts(q)
             PROVE  StepKind
  BY DEF OSNext
<1>1. CASE ProcessExits(q)
  BY <1>1 DEF ProcessExits, Ends, dbVars, StepKind, LoseStep
<1>2. CASE ForeignStarts(q)
  BY <1>2, OwnerAssumption
     DEF ForeignStarts, dbVars, TypeOK, StepKind, QuietStep, SameProcesses, SameStopped
<1>3. QED
  BY <1>1, <1>2

LEMMA HandlerKind ==
  ASSUME SafeFaults
  PROVE  TypeOK /\ SafetyInv /\ HandlerNext => StepKind
<1> SUFFICES ASSUME TypeOK, SafetyInv, NEW s \in Server,
                    \/ CreateServer(s) \/ UpdateServer(s) \/ ClearLogHandler(s)
                    \/ StartHandler(s) \/ StartFinish(s)
                    \/ StopHandler(s) \/ StopRefused(s) \/ StopKill(s) \/ StopFinish(s)
                    \/ DeleteHandler(s) \/ DeleteFinish(s)
             PROVE  StepKind
  BY DEF HandlerNext
<1> USE DEF dbVars, panelVars, loopVars
<1>1. CASE CreateServer(s) \/ UpdateServer(s)
  BY <1>1 DEF CreateServer, UpdateServer, StepKind, QuietStep, SameProcesses, SameStopped
<1>2. CASE ClearLogHandler(s) \/ StartFinish(s) \/ StopHandler(s)
  BY <1>2, UnchangedKind DEF ClearLogHandler, StartFinish, StopHandler, Interrupt
<1>3. CASE StartHandler(s)
  <2>1. CASE Launch(s) /\ Commanded(s, "started")
    BY <1>3, <2>1, LaunchKind DEF StartHandler, LockFree
  <2>2. CASE LaunchFails(s) /\ Noted(s, "failed")
    BY <1>3, <2>2, NotedStop
       DEF StartHandler, LaunchFails, StepKind, QuietStep, SameProcesses, SameStopped
  <2>3. QED
    BY <1>3, <2>1, <2>2 DEF StartHandler
<1>4. CASE StopRefused(s)
  BY <1>4, NotedStop DEF StopRefused, StepKind, QuietStep, SameProcesses, SameStopped
<1>5. CASE StopKill(s)
  <2>1. CASE Running(s)
    <3>1. inst[s].pid \in Pid
      BY <2>1 DEF Running, TypeOK, Instance, Absent, NewInstance
    <3>2. QED
      BY <1>5, <2>1, <3>1 DEF StopKill, Ends, StepKind, LoseStep
  <2>2. CASE ~Running(s)
    BY <1>5, <2>2, UnchangedKind DEF StopKill
  <2>3. QED
    BY <2>1, <2>2
<1>6. CASE StopFinish(s)
  <2>1. HasNone(s)
    BY <1>6 DEF StopFinish, SafetyInv, StageInv, HasNone
  <2>2. QED
    BY <1>6, <2>1, UnchangedKind
       DEF StopFinish, Commanded, StepKind, QuietStep, SameProcesses
<1>7. CASE DeleteHandler(s)
  <2>1. HasNone(s)
    <3>1. CASE ~Listed(s)
      BY <1>7, <3>1 DEF Listed, DeleteHandler, LockFree, SafetyInv, NoOrphan, HasNone
    <3>2. CASE Listed(s)
      BY <1>7, <3>2, NotRunning DEF DeleteHandler, MayDelete, LockFree, SafetyInv, HasNone
    <3>3. QED
      BY <3>1, <3>2
  <2>2. QED
    BY <1>7, <2>1 DEF DeleteHandler, StepKind, QuietStep, SameProcesses, SameStopped
<1>8. CASE DeleteFinish(s)
  BY <1>8, NotedStop DEF DeleteFinish, StepKind, QuietStep, SameProcesses, SameStopped
<1>9. QED
  BY <1>1, <1>2, <1>3, <1>4, <1>5, <1>6, <1>7, <1>8

LEMMA WatchKind == TypeOK /\ SafetyInv /\ StopInv /\ WatchNext => StepKind
<1> SUFFICES ASSUME TypeOK, SafetyInv, StopInv, WatchNext PROVE StepKind
  OBVIOUS
<1> USE DEF dbVars, panelVars, loopVars
<1>1. CASE WatchBegin \/ WatchEnd
  BY <1>1, UnchangedKind DEF WatchBegin, WatchEnd
<1>2. ASSUME NEW s \in Server, WatchServer(s) PROVE StepKind
  <2>1. /\ panel = "up" /\ command[s] # "stopped" /\ UNCHANGED <<row, command>>
    BY <1>2 DEF WatchServer, SafetyInv, LockInv, StopInv
  <2>2. CASE WatchRestart(s) /\ Launch(s)
    BY <2>1, <2>2, LaunchKind DEF WatchRestart
  <2>3. CASE UNCHANGED proc
    BY <2>1, <2>3, UnchangedKind
  <2>4. QED
    BY <1>2, <2>2, <2>3 DEF WatchServer, WatchAlive, WatchRowGone, WatchRestart, LaunchFails
<1>3. QED
  BY <1>1, <1>2 DEF WatchNext

LEMMA BootKind == TypeOK /\ SafetyInv /\ StopInv /\ BootNext => StepKind
<1> SUFFICES ASSUME TypeOK, SafetyInv, StopInv, BootNext PROVE StepKind
  OBVIOUS
<1> USE DEF dbVars, panelVars, loopVars
<1>1. CASE PanelStart \/ RecoverAborts \/ RecoverEnd \/ AutoStartBegin \/ AutoStartEnd
  BY <1>1, UnchangedKind
     DEF PanelStart, RecoverAborts, RecoverEnd, AutoStartBegin, AutoStartEnd
<1>2. ASSUME NEW s \in Server, RecoverServer(s) PROVE StepKind
  <2>1. UNCHANGED <<proc, row>>
    BY <1>2 DEF RecoverServer
  <2>2. SameStopped
    BY <1>2, NotedStop DEF RecoverServer, RecoverDrops, RecoverAdopts, SameStopped
  <2>3. QED
    BY <2>1, <2>2 DEF StepKind, QuietStep, SameProcesses
<1>3. ASSUME NEW s \in Server, AutoStartServer(s) PROVE StepKind
  <2>1. panel = "boot" /\ row[s] = "exists" /\ UNCHANGED row
    BY <1>3 DEF AutoStartServer, SafetyInv, LockInv
  <2>2. CASE ~Running(s) /\ Launch(s) /\ Commanded(s, "started")
    BY <2>1, <2>2, LaunchKind
  <2>3. CASE UNCHANGED <<proc, command>>
    BY <2>1, <2>3, UnchangedKind
  <2>4. QED
    BY <1>3, <2>2, <2>3 DEF AutoStartServer, LaunchFails
<1>4. QED
  BY <1>1, <1>2, <1>3 DEF BootNext

LEMMA DieKind == TypeOK /\ DieNext => StepKind
<1> SUFFICES ASSUME TypeOK, DieNext PROVE StepKind
  OBVIOUS
<1> USE DEF dbVars, panelVars, loopVars
<1>1. CASE Dies
  BY <1>1 DEF Dies, TypeOK, StepKind, QuietStep, SameProcesses, SameStopped
<1>2. CASE TermStop \/ StopAllBegin \/ StopAllEnd \/ \E s \in Server : StopAllServer(s)
  BY <1>2, UnchangedKind DEF TermStop, StopAllBegin, StopAllEnd, StopAllServer
<1>3. QED
  BY <1>1, <1>2 DEF DieNext, PanelCrash, TermPreserve, PanelExit

\* Every step is of one of the three kinds.
LEMMA StepKinds ==
  ASSUME SafeFaults
  PROVE  TypeOK /\ SafetyInv /\ StopInv /\ [Next]_vars => StepKind
<1>1. UNCHANGED vars => StepKind
  BY UnchangedKind DEF vars
<1>2. QED
  BY <1>1, OSKind, HandlerKind, WatchKind, BootKind, DieKind DEF Next

\* After a stop that succeeded, the server is launched again only on a request or
\* by auto start: never by the watchdog, and not by a panel that died between.
THEOREM StopsAreFinal == ASSUME SafeFaults PROVE Spec => StopIsFinal
<1>1. ASSUME TypeOK, SafetyInv, StopInv, [Next]_vars, NEW s \in Server,
             Launched(s), command[s] = "stopped"
      PROVE  command'[s] = "started"
  <2>1. PICK p \in Pid : proc[p] # s /\ proc'[p] = s
    BY <1>1 DEF Launched
  <2>2. CASE LaunchStep
    <3>1. PICK t \in Server, q \in Pid :
            /\ proc' = [proc EXCEPT ![q] = t]
            /\ command[t] = "stopped" => command'[t] = "started"
      BY <2>2 DEF LaunchStep
    <3>2. t = s
      BY <1>1, <2>1, <3>1 DEF TypeOK
    <3>3. QED
      BY <1>1, <3>1, <3>2
  <2>3. CASE LoseStep
    BY <1>1, <2>1, <2>3, OwnerAssumption DEF LoseStep, TypeOK
  <2>4. CASE QuietStep
    BY <2>1, <2>4 DEF QuietStep, SameProcesses
  <2>5. QED
    BY <1>1, <2>2, <2>3, <2>4, StepKinds DEF StepKind
<1>2. TypeOK /\ SafetyInv /\ StopInv /\ [Next]_vars
        => \A s \in Server :
             Launched(s) /\ command[s] = "stopped" => command'[s] = "started"
  BY <1>1
<1>3. QED
  BY <1>2, TypeCorrect, Safe, StopsStay, PTL DEF Spec, StopIsFinal

-----------------------------------------------------------------------------
(* The life cycle implements Supervisor. *)

\* Equal processes, rows and stopped servers are equal states of Supervisor.
LEMMA SameMapped ==
  /\ SameProcesses => ProcsOf' = ProcsOf
  /\ row' = row => Existing' = Existing
  /\ SameStopped => Stopped' = Stopped
BY DEF SameProcesses, SameStopped, ProcsOf, Existing, Stopped

LEMMA LaunchRefines ==
  ASSUME TypeOK, LaunchStep
  PROVE  Supervised!Next
<1>1. PICK s \in Server, q \in Pid :
        /\ proc[q] = Free /\ proc' = [proc EXCEPT ![q] = s]
        /\ row[s] = "exists" /\ row' = row
        /\ \A p \in Pid : proc[p] # s
        /\ command'[s] # "stopped"
        /\ \A t \in Server : t # s => command'[t] = command[t]
  BY DEF LaunchStep
<1>2. s \in Existing /\ ProcsOf[s] = {}
  BY <1>1 DEF Existing, ProcsOf
<1>3. Existing' = Existing
  BY <1>1, SameMapped
<1>4. Stopped' = Stopped \ {s}
  BY <1>1 DEF Stopped
<1>5. ProcsOf' = [ProcsOf EXCEPT ![s] = {q}]
  <2>1. \A t \in Server : {p \in Pid : proc'[p] = t}
                            = IF t = s THEN {q} ELSE {p \in Pid : proc[p] = t}
    BY <1>1, OwnerAssumption DEF TypeOK
  <2>2. QED
    BY <2>1 DEF ProcsOf
<1>6. Supervised!Launch(s, q)
  BY <1>2, <1>3, <1>4, <1>5 DEF Supervised!Launch
<1>7. QED
  BY <1>6 DEF Supervised!Next

LEMMA LoseRefines ==
  ASSUME TypeOK, AtMostOneProcess, LoseStep
  PROVE  Supervised!Next \/ UNCHANGED Supervised!vars
<1>1. PICK q \in Pid : /\ proc' = [proc EXCEPT ![q] = Free]
                       /\ row' = row /\ command' = command
  BY DEF LoseStep
<1>2. Existing' = Existing /\ Stopped' = Stopped
  BY <1>1 DEF Existing, Stopped
<1>3. CASE proc[q] \in Server
  <2> DEFINE s == proc[q]
  <2>1. \A t \in Server : {p \in Pid : proc'[p] = t}
                            = IF t = s THEN {} ELSE {p \in Pid : proc[p] = t}
    BY <1>1, <1>3, OwnerAssumption DEF TypeOK, AtMostOneProcess
  <2>2. ProcsOf' = [ProcsOf EXCEPT ![s] = {}]
    BY <2>1 DEF ProcsOf
  <2>3. Supervised!Lose(s)
    BY <1>2, <2>2 DEF Supervised!Lose
  <2>4. QED
    BY <1>3, <2>3 DEF Supervised!Next
<1>4. CASE proc[q] \notin Server
  <2>1. SameProcesses
    BY <1>1, <1>4, OwnerAssumption DEF SameProcesses, TypeOK
  <2>2. QED
    BY <1>2, <2>1, SameMapped DEF Supervised!vars
<1>5. QED
  BY <1>3, <1>4

LEMMA QuietRefines ==
  ASSUME TypeOK, QuietStep
  PROVE  Supervised!Next \/ UNCHANGED Supervised!vars
<1>1. ProcsOf' = ProcsOf
  BY SameMapped DEF QuietStep
<1>2. CASE row' = row /\ SameStopped
  BY <1>1, <1>2, SameMapped DEF Supervised!vars
<1>3. ASSUME NEW s \in Server, row' = [row EXCEPT ![s] = "exists"], SameStopped
      PROVE  Supervised!Next
  <2>1. Existing' = Existing \cup {s}
    BY <1>3 DEF Existing, TypeOK
  <2>2. QED
    BY <1>1, <1>3, <2>1, SameMapped DEF Supervised!Next, Supervised!Create
<1>4. ASSUME NEW s \in Server, HasNone(s), row' = [row EXCEPT ![s] = "deleted"], SameStopped
      PROVE  Supervised!Next
  <2>1. Existing' = Existing \ {s}
    BY <1>4 DEF Existing, TypeOK
  <2>2. ProcsOf[s] = {}
    BY <1>4 DEF ProcsOf, HasNone
  <2>3. QED
    BY <1>1, <1>4, <2>1, <2>2, SameMapped DEF Supervised!Next, Supervised!Delete
<1>5. ASSUME NEW s \in Server, HasNone(s), row' = row,
             command' = [command EXCEPT ![s] = "stopped"]
      PROVE  Supervised!Next
  <2>1. Stopped' = Stopped \cup {s}
    BY <1>5 DEF Stopped, TypeOK
  <2>2. ProcsOf[s] = {}
    BY <1>5 DEF ProcsOf, HasNone
  <2>3. QED
    BY <1>1, <1>5, <2>1, <2>2, SameMapped DEF Supervised!Next, Supervised!AcknowledgeStop
<1>6. QED
  BY <1>2, <1>3, <1>4, <1>5 DEF QuietStep

\* The life cycle implements the supervisor, for every set of servers and PIDs:
\* whatever the panel, its requests and its signals do, a server has no process
\* or one, processes appear only for servers that exist, and a stop or a delete
\* is answered when no process is left.
THEOREM Refinement == ASSUME SafeFaults PROVE Spec => ImplementsSupervisor
<1>1. Init => Supervised!Init
  BY OwnerAssumption
     DEF Init, Supervised!Init, ProcsOf, Existing, Stopped
<1>2. TypeOK /\ SafetyInv /\ StopInv /\ AtMostOneProcess /\ [Next]_vars
        => [Supervised!Next]_(Supervised!vars)
  BY StepKinds, LaunchRefines, LoseRefines, QuietRefines DEF StepKind
<1>3. QED
  BY <1>1, <1>2, TypeCorrect, Safe, StopsStay, OneProcess, PTL
     DEF Spec, ImplementsSupervisor, Supervised!Spec

-----------------------------------------------------------------------------
(* Children, whatever faults happen.                                        *)

\* A child of the panel keeps its PID until Wait has reaped it: a step either
\* leaves an instance a child as it was, or has just launched it.
ChildStep ==
  \/ \E s \in Server : Launch(s)
  \/ /\ \A s \in Server :
          inst'[s].life = "child" => inst[s].life = "child" /\ inst'[s].pid = inst[s].pid
     /\ \/ proc' = proc
        \/ \E p \in Pid : Ends(p)
        \/ \E p \in Pid : proc[p] = Free /\ proc' = [proc EXCEPT ![p] = Foreign]

LEMMA EndsChildStep ==
  ASSUME TypeOK, NEW p \in Pid, Ends(p)
  PROVE  ChildStep
<1>1. ASSUME NEW s \in Server, inst'[s].life = "child"
      PROVE  inst'[s] = inst[s]
  <2>1. CASE inst[s] \in {Absent, NewInstance}
    BY <1>1, <2>1 DEF Ends, TypeOK, Absent, NewInstance
  <2>2. CASE inst[s] \in [life : {"child", "reaped", "adopted"}, pid : Pid, keepAlive : BOOLEAN]
    BY <1>1, <2>2 DEF Ends, TypeOK
  <2>3. QED
    BY <2>1, <2>2 DEF TypeOK, Instance
<1>2. QED
  BY <1>1 DEF ChildStep

\* Replacing an instance by one that is no child launches nothing.
LEMMA ReplacedChildStep ==
  ASSUME TypeOK, NEW s \in Server, proc' = proc,
         NEW i, inst' = [inst EXCEPT ![s] = i], i.life # "child"
  PROVE  ChildStep
BY DEF TypeOK, ChildStep

LEMMA InterruptChildStep ==
  ASSUME TypeOK, NEW s \in Server, proc' = proc, Interrupt(s), Running(s)
  PROVE  ChildStep
<1>1. inst[s] \in [life : {"child", "reaped", "adopted"}, pid : Pid, keepAlive : BOOLEAN]
  BY DEF Running, TypeOK, Instance, Absent, NewInstance
<1>2. \A t \in Server : inst'[t].life = inst[t].life /\ inst'[t].pid = inst[t].pid
  BY <1>1 DEF Interrupt, TypeOK
<1>3. QED
  BY <1>2 DEF ChildStep

LEMMA EveryChildStep == TypeOK /\ [Next]_vars => ChildStep
<1> SUFFICES ASSUME TypeOK, [Next]_vars PROVE ChildStep
  OBVIOUS
<1> USE DEF vars, dbVars, panelVars, loopVars
<1>1. CASE UNCHANGED <<proc, inst>>
  BY <1>1 DEF ChildStep
<1>2. CASE OSNext
  BY <1>2, EndsChildStep DEF OSNext, ProcessExits, ForeignStarts, ChildStep
<1>3. ASSUME NEW s \in Server, LaunchFails(s) \/ WatchRowGone(s) \/ RecoverAdopts(s)
                               \/ ClearLogHandler(s) \/ DeleteFinish(s),
             proc' = proc
      PROVE  ChildStep
  <2>1. /\ NewInstance.life # "child" /\ Absent.life # "child"
        /\ AttachPID(record[s]).life # "child"
    BY DEF NewInstance, Absent, AttachPID
  <2>2. QED
    BY <1>3, <2>1, ReplacedChildStep
       DEF LaunchFails, WatchRowGone, RecoverAdopts, ClearLogHandler, DeleteFinish
<1>4. CASE HandlerNext
  <2> SUFFICES ASSUME NEW s \in Server,
                      \/ CreateServer(s) \/ UpdateServer(s) \/ ClearLogHandler(s)
                      \/ StartHandler(s) \/ StartFinish(s)
                      \/ StopHandler(s) \/ StopRefused(s) \/ StopKill(s) \/ StopFinish(s)
                      \/ DeleteHandler(s) \/ DeleteFinish(s)
               PROVE  ChildStep
    BY <1>4 DEF HandlerNext
  <2>1. CASE \/ CreateServer(s) \/ UpdateServer(s) \/ StartFinish(s) \/ StopRefused(s)
             \/ StopFinish(s) \/ DeleteHandler(s)
    BY <1>1, <2>1 DEF CreateServer, UpdateServer, StartFinish, StopRefused, StopFinish,
                      DeleteHandler
  <2>2. CASE StartHandler(s)
    BY <1>3, <2>2 DEF StartHandler, LaunchFails, ChildStep
  <2>3. CASE StopHandler(s)
    BY <2>3, InterruptChildStep DEF StopHandler
  <2>4. CASE StopKill(s)
    <3>1. Running(s) => inst[s].pid \in Pid
      BY DEF Running, TypeOK, Instance, Absent, NewInstance
    <3>2. QED
      BY <1>1, <2>4, <3>1, EndsChildStep DEF StopKill
  <2>5. CASE ClearLogHandler(s) \/ DeleteFinish(s)
    BY <1>3, <2>5 DEF ClearLogHandler, DeleteFinish
  <2>6. QED
    BY <2>1, <2>2, <2>3, <2>4, <2>5
<1>5. CASE WatchNext
  BY <1>1, <1>3, <1>5
     DEF WatchNext, WatchBegin, WatchEnd, WatchServer, WatchAlive, WatchRowGone,
         WatchRestart, LaunchFails, ChildStep
<1>6. CASE BootNext
  <2>1. ASSUME NEW s \in Server, RecoverServer(s) PROVE ChildStep
    BY <1>1, <1>3, <2>1 DEF RecoverServer, RecoverDrops
  <2>2. ASSUME NEW s \in Server, AutoStartServer(s) PROVE ChildStep
    BY <1>1, <1>3, <2>2 DEF AutoStartServer, LaunchFails, ChildStep
  <2>3. QED
    BY <1>1, <1>6, <2>1, <2>2
       DEF BootNext, PanelStart, RecoverAborts, RecoverEnd, AutoStartBegin, AutoStartEnd
<1>7. CASE DieNext
  <2>1. CASE Dies
    BY <2>1 DEF Dies, Absent, ChildStep
  <2>2. ASSUME NEW s \in Server, StopAllServer(s) PROVE ChildStep
    BY <1>1, <2>2, InterruptChildStep DEF StopAllServer, StopAllSkips
  <2>3. QED
    BY <1>1, <1>7, <2>1, <2>2
       DEF DieNext, PanelCrash, TermPreserve, PanelExit, TermStop, StopAllBegin, StopAllEnd
<1>8. QED
  BY <1>1, <1>2, <1>4, <1>5, <1>6, <1>7 DEF Next

\* Stopping a child never signals another program, whatever faults happen and
\* whatever the host does with PIDs.
THEOREM ChildrenAreOwn == Spec => []ChildIsOwn
<1>1. Init => ChildIsOwn
  BY DEF Init, Absent, ChildIsOwn
<1>2. TypeOK /\ ChildIsOwn /\ [Next]_vars => ChildIsOwn'
  <2> SUFFICES ASSUME TypeOK, ChildIsOwn, [Next]_vars, NEW s \in Server,
                      inst'[s].life = "child"
               PROVE  proc'[inst'[s].pid] = s
    BY DEF ChildIsOwn
  <2>1. ChildStep
    BY EveryChildStep
  <2>2. ASSUME NEW t \in Server, Launch(t) PROVE proc'[inst'[s].pid] = s
    <3>1. PICK p \in Pid : /\ proc[p] = Free /\ proc' = [proc EXCEPT ![p] = t]
                           /\ inst' = [inst EXCEPT ![t] = StartedInstance(p)]
      BY <2>2 DEF Launch, Available
    <3>2. StartedInstance(p).pid = p
      BY DEF StartedInstance
    <3>3. CASE s = t
      BY <3>1, <3>2, <3>3 DEF TypeOK
    <3>4. CASE s # t
      <4>1. inst'[s] = inst[s] /\ proc[inst[s].pid] = s
        BY <3>1, <3>4 DEF ChildIsOwn, TypeOK
      <4>2. inst[s].pid # p
        BY <3>1, <4>1, OwnerAssumption
      <4>3. QED
        BY <3>1, <4>1, <4>2 DEF TypeOK
    <3>5. QED
      BY <3>3, <3>4
  <2>3. CASE ~ \E t \in Server : Launch(t)
    <3>1. /\ inst[s].life = "child" /\ inst'[s].pid = inst[s].pid
          /\ proc[inst[s].pid] = s
      BY <2>1, <2>3 DEF ChildStep, ChildIsOwn
    <3>2. ASSUME NEW p \in Pid, Ends(p) PROVE inst[s].pid # p
      BY <3>1, <3>2 DEF Ends, TypeOK, Instance, Absent, NewInstance
    <3>3. inst[s].pid \in Pid
      BY <3>1 DEF TypeOK, Instance, Absent, NewInstance
    <3>4. ASSUME NEW p \in Pid, Ends(p) PROVE proc'[inst[s].pid] = s
      BY <3>1, <3>2, <3>3, <3>4 DEF Ends, TypeOK
    <3>5. ASSUME NEW p \in Pid, proc[p] = Free, proc' = [proc EXCEPT ![p] = Foreign]
          PROVE  proc'[inst[s].pid] = s
      BY <3>1, <3>3, <3>5, OwnerAssumption DEF TypeOK
    <3>6. QED
      BY <2>1, <2>3, <3>1, <3>4, <3>5 DEF ChildStep
  <2>4. QED
    BY <2>2, <2>3
<1>3. QED
  BY <1>1, <1>2, TypeCorrect, PTL DEF Spec

-----------------------------------------------------------------------------
(* A deleted server is forgotten.  Between the delete of its row and the    *)
(* statements that follow, stage is "rowgone"; a panel that dies there has  *)
(* recovery to drop the record.                                             *)

Forgotten(t) ==
  /\ panel = "down" => ~Listed(t)
  /\ row[t] = "deleted" =>
       /\ stage[t] \in {"none", "rowgone"}
       /\ panel = "recover" => ~Listed(t) /\ (t \in todo \/ record[t] = NoPid)
       /\ panel \in {"boot", "up"} /\ stage[t] = "none" => ~Listed(t) /\ record[t] = NoPid

ForgetInv == \A t \in Server : Forgotten(t)

\* The end of a process takes no instance off the list.
LEMMA EndsListed ==
  ASSUME NEW p \in Pid, NEW t \in Server, TypeOK, Ends(p)
  PROVE  Listed(t)' <=> Listed(t)
<1>1. inst'[t] = IF inst[t].life = "child" /\ inst[t].pid = p
                   THEN [inst[t] EXCEPT !.life = "reaped"] ELSE inst[t]
  BY DEF Ends
<1>2. CASE inst[t].life = "child"
  <2>1. inst[t] \in Instance /\ [inst[t] EXCEPT !.life = "reaped"].life = "reaped"
    BY <1>2 DEF TypeOK, Instance, Absent, NewInstance
  <2> QED
    BY <1>1, <1>2, <2>1 DEF Listed
<1>3. CASE inst[t].life # "child"
  BY <1>1, <1>3 DEF Listed
<1> QED
  BY <1>2, <1>3

LEMMA HandlerForgets ==
  ASSUME SafeFaults, TypeOK, SafetyInv, ForgetInv, HandlerNext, NEW t \in Server
  PROVE  Forgotten(t)'
<1> PICK s \in Server :
      \/ CreateServer(s) \/ UpdateServer(s) \/ ClearLogHandler(s)
      \/ StartHandler(s) \/ StartFinish(s)
      \/ StopHandler(s) \/ StopRefused(s) \/ StopKill(s) \/ StopFinish(s)
      \/ DeleteHandler(s) \/ DeleteFinish(s)
  BY DEF HandlerNext
<1> USE DEF dbVars, panelVars, loopVars, ForgetInv, Forgotten, TypeOK, Listed, LockFree
<1>1. CASE CreateServer(s) \/ UpdateServer(s)
  BY <1>1 DEF CreateServer, UpdateServer
<1>2. CASE ClearLogHandler(s)
  BY <1>2 DEF ClearLogHandler
<1>3. CASE StartHandler(s)
  <2>1. t # s => UNCHANGED <<row, record, panel, inst[t], stage[t]>>
    BY <1>3 DEF StartHandler, Launch, LaunchFails
  <2>2. row[s] = "exists" /\ panel = "up" /\ UNCHANGED <<row, record, panel>>
    BY <1>3 DEF StartHandler
  <2> QED
    BY <2>1, <2>2
<1>4. CASE StartFinish(s)
  BY <1>4 DEF StartFinish, RecordServerProcess
<1>5. CASE StopHandler(s)
  <2>1. Idle
    BY <1>5, LockFreeFacts DEF StopHandler
  <2> QED
    BY <1>5, <2>1 DEF StopHandler, Interrupt, Idle
<1>6. CASE StopRefused(s)
  BY <1>6 DEF StopRefused
<1>7. CASE StopKill(s)
  <2>1. UNCHANGED <<row, record, panel, todo>> /\ (t # s => UNCHANGED stage[t])
    BY <1>7 DEF StopKill
  <2>2. Listed(t)' <=> Listed(t)
    <3>1. CASE Running(s)
      <4>1. inst[s].pid \in Pid /\ Ends(inst[s].pid)
        BY <1>7, <3>1 DEF StopKill, Running, ProcessAlive, Instance, Absent, NewInstance
      <4> QED
        BY <4>1, EndsListed
    <3>2. CASE ~Running(s)
      BY <1>7, <3>2 DEF StopKill
    <3> QED
      BY <3>1, <3>2
  <2>3. row[s] # "deleted"
    BY <1>7 DEF StopKill
  <2> QED
    BY <2>1, <2>2, <2>3
<1>8. CASE StopFinish(s)
  BY <1>8 DEF StopFinish
<1>9. CASE DeleteHandler(s)
  BY <1>9 DEF DeleteHandler
<1>10. CASE DeleteFinish(s)
  BY <1>10 DEF DeleteFinish, Absent
<1> QED
  BY <1>1, <1>2, <1>3, <1>4, <1>5, <1>6, <1>7, <1>8, <1>9, <1>10

LEMMA WatchForgets ==
  ASSUME SafeFaults, TypeOK, SafetyInv, ForgetInv, WatchNext, NEW t \in Server
  PROVE  Forgotten(t)'
<1> USE DEF dbVars, panelVars, loopVars, ForgetInv, Forgotten, TypeOK, Listed
<1>1. CASE WatchBegin \/ WatchEnd
  BY <1>1 DEF WatchBegin, WatchEnd, LockFree, SafetyInv, LockInv
<1>2. CASE \E s \in Server : WatchServer(s)
  <2> PICK s \in Server : WatchServer(s)
    BY <1>2
  <2>1. UNCHANGED <<row, record, panel>> /\ panel = "up"
    BY DEF WatchServer, SafetyInv, LockInv
  <2>2. CASE WatchAlive(s) \/ WatchRowGone(s)
    BY <2>1, <2>2 DEF WatchAlive, WatchRowGone, Absent
  <2>3. CASE WatchRestart(s)
    <3>1. row[s] = "exists" /\ (t # s => UNCHANGED <<inst[t], stage[t]>>)
      BY <2>3 DEF WatchRestart, Launch, LaunchFails
    <3> QED
      BY <2>1, <3>1
  <2> QED
    BY <2>2, <2>3 DEF WatchServer
<1> QED
  BY <1>1, <1>2 DEF WatchNext

LEMMA BootForgets ==
  ASSUME SafeFaults, TypeOK, SafetyInv, ForgetInv, BootNext, NEW t \in Server
  PROVE  Forgotten(t)'
<1> USE DEF dbVars, panelVars, loopVars, ForgetInv, Forgotten, TypeOK, Listed
<1>1. CASE PanelStart
  BY <1>1 DEF PanelStart
<1>2. CASE RecoverAborts \/ RecoverEnd
  BY <1>2 DEF RecoverAborts, RecoverEnd, SafeFaults, OrphanFaults, FaultNames
<1>3. CASE AutoStartBegin \/ AutoStartEnd
  BY <1>3 DEF AutoStartBegin, AutoStartEnd, SafetyInv, LockInv
<1>4. CASE \E s \in Server : RecoverServer(s)
  BY <1>4 DEF RecoverServer, RecoverDrops, RecoverAdopts
<1>5. CASE \E s \in Server : AutoStartServer(s)
  <2> PICK s \in Server : AutoStartServer(s)
    BY <1>5
  <2>1. row[s] = "exists" /\ panel = "boot" /\ UNCHANGED <<row, record, panel>>
    BY DEF AutoStartServer, SafetyInv, LockInv
  <2>2. t # s => UNCHANGED <<inst[t], stage[t]>>
    BY DEF AutoStartServer, Launch, LaunchFails
  <2> QED
    BY <2>1, <2>2
<1> QED
  BY <1>1, <1>2, <1>3, <1>4, <1>5 DEF BootNext

LEMMA DieForgets ==
  ASSUME SafeFaults, TypeOK, SafetyInv, ForgetInv, DieNext, NEW t \in Server
  PROVE  Forgotten(t)'
<1> USE DEF dbVars, panelVars, loopVars, ForgetInv, Forgotten, TypeOK, Listed
<1>1. CASE Dies
  BY <1>1 DEF Dies, Absent
<1>2. CASE TermStop
  BY <1>2 DEF TermStop
<1>3. CASE StopAllBegin \/ StopAllEnd
  BY <1>3 DEF StopAllBegin, StopAllEnd, SafetyInv, LockInv, ExitInv
<1>4. CASE \E s \in Server : StopAllServer(s)
  <2> PICK s \in Server : StopAllServer(s)
    BY <1>4
  <2>1. UNCHANGED <<row, record, panel>> /\ panel \in {"boot", "up"} /\ stage[s] = "none"
    BY DEF StopAllServer, Idle, SafetyInv, LockInv, ExitInv
  <2>2. CASE Running(s) /\ Interrupt(s)
    <3>1. row[s] # "deleted"
      BY <2>1, <2>2 DEF Running
    <3> QED
      BY <2>1, <2>2, <3>1 DEF Interrupt
  <2>3. CASE StopAllSkips(s)
    BY <2>1, <2>3 DEF StopAllSkips
  <2> QED
    BY <2>2, <2>3 DEF StopAllServer
<1> QED
  BY <1>1, <1>2, <1>3, <1>4 DEF DieNext, PanelCrash, TermPreserve, PanelExit

\* A server whose row is deleted leaves no instance and no PID record, wherever
\* the panel died between the statements of the delete.
THEOREM DeletedAreForgotten == ASSUME SafeFaults PROVE Spec => []DeletedIsForgotten
<1>1. Init => ForgetInv
  BY DEF Init, ForgetInv, Forgotten, Listed, Absent
<1>2. TypeOK /\ SafetyInv /\ ForgetInv /\ [Next]_vars => ForgetInv'
  <2> SUFFICES ASSUME TypeOK, SafetyInv, ForgetInv, [Next]_vars, NEW t \in Server
               PROVE  Forgotten(t)'
    BY DEF ForgetInv
  <2>1. CASE OSNext
    <3>1. UNCHANGED <<row, record, panel, todo, stage>>
      BY <2>1 DEF OSNext, ProcessExits, ForeignStarts, dbVars, panelVars, loopVars
    <3>2. Listed(t)' <=> Listed(t)
      <4>1. UNCHANGED inst \/ \E p \in Pid : Ends(p)
        BY <2>1 DEF OSNext, ProcessExits, ForeignStarts
      <4> QED
        BY <4>1, EndsListed DEF Listed
    <3> QED
      BY <3>1, <3>2 DEF ForgetInv, Forgotten, Listed
  <2>2. CASE UNCHANGED vars
    BY <2>2 DEF vars, ForgetInv, Forgotten, Listed
  <2> QED
    BY <2>1, <2>2, HandlerForgets, WatchForgets, BootForgets, DieForgets DEF Next
<1>3. ForgetInv => DeletedIsForgotten
  BY DEF ForgetInv, Forgotten, DeletedIsForgotten
<1>4. QED
  BY <1>1, <1>2, <1>3, Safe, TypeCorrect, PTL DEF Spec
=============================================================================
