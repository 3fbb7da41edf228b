----------------------------- MODULE MCSupervise ----------------------------
(***************************************************************************)
(* The monitor of a sandbox, and starting processes that are sent SIGTSTP: *)
(* one of the two moves in a behaviour, the other one stays where it is.   *)
(***************************************************************************)
EXTENDS Monitor, StopSignal

VARIABLE part

vars == <<part, mvars, svars>>

MCOptions == SUBSET {"timeout", "exitcode", "shutdown"}

Init ==
  /\ part \in {"monitor", "stop"}
  /\ MInit /\ (part = "stop" => opt = {})
  /\ SInit

Next ==
  \/ part = "monitor" /\ MNext /\ UNCHANGED <<part, svars>>
  \/ part = "stop" /\ SNext /\ UNCHANGED <<part, mvars>>

\* The monitor runs, a pending signal is delivered when it is let in, and a
\* parent outside the sandbox reaps its child.
MonitorFairness ==
  /\ WF_mvars(part = "monitor" /\ MonitorSteps)
  /\ \A s \in Signals : SF_mvars(part = "monitor" /\ EnterHandler(s))
  /\ \A p \in Pids :
       WF_mvars(part = "monitor" /\ parent[p] = Outside /\ ReapedByParent(p))

\* A process that can run does; nothing says that a stopped one is continued.
StopFairness == \A p \in Procs : WF_svars(part = "stop" /\ Runs(p))

FairSpec == Init /\ [][Next]_vars /\ MonitorFairness /\ StopFairness
=============================================================================
