----------------------------- MODULE Supervisor -----------------------------
(***************************************************************************)
(* What the panel promises about the openvpn processes of its servers, with *)
(* no panel in sight: a server that exists has no process or one, whatever  *)
(* happens to the panel in between.                                         *)
(***************************************************************************)
CONSTANTS
  Server,   \* servers
  Pid       \* process ids

VARIABLES
  known,    \* the servers that exist
  procs,    \* the processes of each server
  stopped   \* the servers an operator stopped and nobody started since

vars == <<known, procs, stopped>>

Init ==
  /\ known = {}
  /\ procs = [s \in Server |-> {}]
  /\ stopped = {}

Create(s) ==
  /\ known' = known \cup {s}
  /\ UNCHANGED <<procs, stopped>>

\* A process is launched only for a server that exists and has none.
Launch(s, p) ==
  /\ s \in known
  /\ procs[s] = {}
  /\ procs' = [procs EXCEPT ![s] = {p}]
  /\ stopped' = stopped \ {s}
  /\ UNCHANGED known

Lose(s) ==
  /\ procs' = [procs EXCEPT ![s] = {}]
  /\ UNCHANGED <<known, stopped>>

\* A stop is acknowledged when no process is left.
AcknowledgeStop(s) ==
  /\ procs[s] = {}
  /\ stopped' = stopped \cup {s}
  /\ UNCHANGED <<known, procs>>

Delete(s) ==
  /\ procs[s] = {}
  /\ known' = known \ {s}
  /\ UNCHANGED <<procs, stopped>>

Next ==
  \E s \in Server :
    \/ Create(s) \/ Lose(s) \/ AcknowledgeStop(s) \/ Delete(s)
    \/ \E p \in Pid : Launch(s, p)

Spec == Init /\ [][Next]_vars

=============================================================================
