------------------------------- MODULE MCWatch -------------------------------
(***************************************************************************)
(* The programs that watch over other processes, one at a time: firemon    *)
(* and the starter of an X11 session.                                      *)
(***************************************************************************)
EXTENDS ProcEvents, X11Session

VARIABLE watcher

vars == <<watcher, evars, xvars>>

EIdle ==
  EInit /\ target = 0
        /\ procs = [p \in Pids |-> IF p = 2 THEN Proc("sandbox", 1, TRUE) ELSE Gone]
XIdle ==
  XInit /\ (\A s \in Starters : server[s] = "xvfb") /\ (\A d \in Displays : file[d] = "no")

Init ==
  \/ watcher = "firemon" /\ EInit /\ XIdle
  \/ watcher = "x11" /\ XInit /\ EIdle

Next ==
  /\ UNCHANGED watcher
  /\ \/ watcher = "firemon" /\ ENext /\ UNCHANGED xvars
     \/ watcher = "x11" /\ XNext /\ UNCHANGED evars

\* EFairness and XFairness for the program that runs.
Fairness ==
  /\ WF_evars(watcher = "firemon" /\ FiremonStep)
  /\ \A s \in Starters :
       /\ WF_xvars(watcher = "x11" /\ StarterStep(s))
       /\ WF_xvars(watcher = "x11" /\ ServerSettles(s))
       /\ WF_xvars(watcher = "x11" /\ Terminated(s))

Spec == Init /\ [][Next]_vars /\ Fairness
==============================================================================
