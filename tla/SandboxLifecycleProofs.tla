----------------------- MODULE SandboxLifecycleProofs -----------------------
(***************************************************************************)
(* That Sandbox implements Lifecycle, for every set of options: each step  *)
(* of the parent, the child, the app or the environment is, through the    *)
(* mapping of SandboxLifecycle, one step of Lifecycle or none.             *)
(***************************************************************************)
EXTENDS SandboxLifecycle, SandboxProofs

\* A step of Lifecycle, or none.
Allowed == L!Next \/ UNCHANGED L!lvars

\* Nothing is marked, and nothing runs, too early.
Truthful ==
  /\ Mark = IF "done" \in disk THEN "ready" ELSE "none"
  /\ Program = IF apc = "dead" THEN "over" ELSE IF apc = "running" THEN "confined" ELSE "none"

\* The invariant makes the mapping truthful.
LEMMA TruthfulByInv == IInv => Truthful
<1> SUFFICES ASSUME IInv
             PROVE  /\ "done" \in disk => Ready
                    /\ apc = "running" => Ready
  BY DEF Truthful, Mark, Program
<1>1. JoinByteMeansReady BY ReadyByInv
<1>2. AppConfined BY ConfinedByInv
<1>3. QED BY <1>1, <1>2 DEF JoinByteMeansReady, AppConfined, Ready

USE DEF cvars, nvars, avars, pipes, pvars, runvars, BeforeClone, Postfork, Gone,
        ParentDead, ChildDead, ChildAlive, AppAlive, Unlisted, Firejail, Listing, Room,
        IInv, Handshake, Saved, AppState, Locks, Handlers,
        L!Next, L!lvars, L!Build, L!List, L!Admit, L!Start, L!Finish, L!Close, L!Retire,
        L!Leave

\* An exit of the child closes the room.
LEMMA ExitCloses ==
  ASSUME Order, Truthful, Truthful', ChildAlive, ChildExits
  PROVE  Order' /\ L!Close
BY DEF Order, Truthful, ChildExits, ChildEnds

\* A step of the parent.
LEMMA ParentRefines ==
  ASSUME IInv, Order, Truthful, Truthful', ParentNext
  PROVE  Order' /\ Allowed
<1> USE DEF Order, Truthful, Allowed
<1>1. CASE CheckNetwork BY <1>1 DEF CheckNetwork
<1>2. CASE SetNameRunFile BY <1>2 DEF SetNameRunFile
<1>3. CASE DbusProxyStart BY <1>3 DEF DbusProxyStart
<1>4. CASE Clone BY <1>4 DEF Clone
<1>5. CASE WritePidFile BY <1>5 DEF WritePidFile
<1>6. CASE LockPidFile BY <1>6 DEF LockPidFile
<1>7. CASE ForkNetChild BY Zenon, <1>7 DEF ForkNetChild
<1>8. CASE WaitNetChild BY <1>8 DEF WaitNetChild
<1>9. CASE NotifyBaseSetup BY Zenon, <1>9 DEF NotifyBaseSetup, NotifyChild, ParentEnds
<1>10. CASE WaitForUserNamespace BY Zenon, <1>10 DEF WaitForUserNamespace
<1>11. CASE WaitDeadPeer BY <1>11 DEF WaitDeadPeer
<1>12. CASE UpdateMap("uidmap", "uidmap", "gidmap") BY Zenon, <1>12 DEF UpdateMap
<1>13. CASE UpdateMap("gidmap", "gidmap", "notify2") BY Zenon, <1>13 DEF UpdateMap
<1>14. CASE NotifyMapped BY ZenonT(30), <1>14 DEF NotifyMapped, NotifyChild, ParentEnds
<1>15. CASE UnlockNetwork BY <1>15 DEF UnlockNetwork
<1>16. CASE Catch("catchINT", "INT", "catchTERM") BY <1>16 DEF Catch
<1>17. CASE Catch("catchTERM", "TERM", "wait") BY <1>17 DEF Catch
<1>18. CASE WaitChild BY <1>18 DEF WaitChild
<1>19. CASE RestoreDefault("dflTERM", "TERM", "dflINT") BY <1>19 DEF RestoreDefault
<1>20. CASE RestoreDefault("dflINT", "INT", "release") BY <1>20 DEF RestoreDefault
<1>21. CASE HandlerCheck BY Zenon, <1>21 DEF HandlerCheck
<1>22. CASE HandlerLooksAtChild BY <1>22 DEF HandlerLooksAtChild
<1>23. CASE HandlerSignals BY Zenon, <1>23 DEF HandlerSignals, SentToChild
<1>24. CASE HandlerWaits BY <1>24 DEF HandlerWaits
<1>25. CASE ReleaseSandboxLock BY <1>25 DEF ReleaseSandboxLock
<1>26. CASE StopProxy BY <1>26 DEF StopProxy
<1>27. CASE ReapProxy BY <1>27 DEF ReapProxy
<1>28. CASE DeleteRunFiles BY <1>28 DEF DeleteRunFiles, ParentEnds
<1>29. ASSUME NEW s \in Signals, EnterHandler(s) PROVE Order' /\ Allowed
  BY ZenonT(30), <1>29 DEF EnterHandler
<1>30. QED BY ZenonT(30), <1>1, <1>2, <1>3, <1>4, <1>5, <1>6, <1>7, <1>8, <1>9, <1>10, <1>11, <1>12, <1>13, <1>14, <1>15, <1>16, <1>17, <1>18, <1>19, <1>20, <1>21, <1>22, <1>23, <1>24, <1>25, <1>26, <1>27, <1>28, <1>29 DEF ParentNext

\* A step of the child.
LEMMA ChildRefines ==
  ASSUME IInv, Order, Truthful, Truthful', ChildNext
  PROVE  Order' /\ Allowed
<1> USE DEF Order, Truthful, Allowed
<1>1. CASE WaitForParent("wait1", "mount") BY Zenon, <1>1, ExitCloses DEF WaitForParent
<1>2. CASE MountNamespace BY <1>2 DEF MountNamespace, Stage
<1>3. CASE ConfigureNetwork BY Zenon, <1>3, ExitCloses DEF ConfigureNetwork, Stage
<1>4. CASE EnforceFilters BY <1>4 DEF EnforceFilters
<1>5. CASE ConfigureFilesystem BY <1>5 DEF ConfigureFilesystem, Stage
<1>6. CASE SaveState BY <1>6 DEF SaveState
<1>7. CASE LoadFilters BY <1>7 DEF LoadFilters
<1>8. CASE DropCaps BY <1>8 DEF DropCaps, Stage, SetCaps
<1>9. CASE CreateJoinFile BY <1>9 DEF CreateJoinFile
<1>10. CASE UnshareUser BY <1>10 DEF UnshareUser
<1>11. CASE NotifyParent BY <1>11 DEF NotifyParent
<1>12. CASE WaitForParent("wait2", "recaps") BY Zenon, <1>12, ExitCloses DEF WaitForParent
<1>13. CASE DropCapsAgain BY <1>13 DEF DropCapsAgain, Stage, SetCaps
<1>14. CASE SetNoNewPrivs BY <1>14 DEF SetNoNewPrivs, Stage
<1>15. CASE DropPrivs BY <1>15 DEF DropPrivs, Stage
<1>16. CASE SetParentDeathSignal BY <1>16 DEF SetParentDeathSignal, Stage
<1>17. CASE ForkApp BY <1>17 DEF ForkApp
<1>18. CASE InstallSandboxHandler BY <1>18 DEF InstallSandboxHandler
<1>19. CASE MonitorReturns BY ZenonT(30), <1>19, ExitCloses DEF MonitorReturns
<1>20. CASE RunSandboxHandler BY <1>20 DEF RunSandboxHandler
<1>21. CASE SandboxHandlerKills BY <1>21 DEF SandboxHandlerKills
<1>22. CASE SandboxHandlerExits BY ZenonT(30), <1>22, ExitCloses DEF SandboxHandlerExits
<1>23. QED BY ZenonT(30), <1>1, <1>2, <1>3, <1>4, <1>5, <1>6, <1>7, <1>8, <1>9, <1>10, <1>11, <1>12, <1>13, <1>14, <1>15, <1>16, <1>17, <1>18, <1>19, <1>20, <1>21, <1>22 DEF ChildNext

\* A step of the app.
LEMMA AppRefines ==
  ASSUME IInv, Order, Truthful, Truthful', AppNext
  PROVE  Order' /\ Allowed
<1> USE DEF Order, Truthful, Allowed
<1>1. CASE PrepareApp BY <1>1 DEF PrepareApp, AppStep
<1>2. CASE InstallFilters BY <1>2 DEF InstallFilters, AppStep
<1>3. CASE MarkSandboxDone BY <1>3 DEF MarkSandboxDone
<1>4. CASE ExecApp BY <1>4 DEF ExecApp, AppStep
<1>5. QED BY ZenonT(30), <1>1, <1>2, <1>3, <1>4 DEF AppNext

\* A step of the environment.
LEMMA EnvironmentRefines ==
  ASSUME IInv, Order, Truthful, Truthful', Environment
  PROVE  Order' /\ Allowed
<1> USE DEF Order, Truthful, Allowed
<1>1. CASE ParentFails BY ZenonT(30), <1>1 DEF ParentFails
<1>2. CASE ParentKilled BY <1>2 DEF ParentKilled, ParentEnds
<1>3. CASE ChildFails BY ZenonT(30), <1>3, ExitCloses DEF ChildFails
<1>4. CASE AppExits BY <1>4 DEF AppExits
<1>5. ASSUME NEW s \in Signals, SignalParent(s) PROVE Order' /\ Allowed
  BY <1>5 DEF SignalParent
<1>6. ASSUME NEW s \in Signals \cup {"KILL"}, SignalChild(s) PROVE Order' /\ Allowed
  BY <1>6 DEF SignalChild
<1>7. QED BY ZenonT(30), <1>1, <1>2, <1>3, <1>4, <1>5, <1>6 DEF Environment

\* A step of the other processes, or of none.
LEMMA OthersRefine ==
  ASSUME IInv, Order, Truthful, Truthful', ChildKilled \/ NetworkMain \/ ProxyEnds \/ UNCHANGED vars
  PROVE  Order' /\ Allowed
<1> USE DEF Order, Truthful, Allowed
<1>1. CASE ChildKilled BY ZenonT(30), <1>1, ExitCloses DEF ChildKilled
<1>2. CASE NetworkMain BY <1>2 DEF NetworkMain
<1>3. CASE ProxyEnds BY ZenonT(30), <1>3 DEF ProxyEnds
<1>4. CASE UNCHANGED vars BY <1>4 DEF vars
<1>5. QED BY ZenonT(30), <1>1, <1>2, <1>3, <1>4

HIDE DEF IInv, L!Next, L!lvars

\* Sandbox implements Lifecycle.
THEOREM Refinement == Spec => KeepsLifecycle
<1>1. Init => L!Init /\ Order
  BY DEF Init, L!Init, Order, Mark, Program
<1>2. IInv /\ IInv' /\ Order /\ Truthful /\ Truthful' /\ [Next]_vars
        => Order' /\ [L!Next]_(L!lvars)
  <2> SUFFICES ASSUME IInv, Order, Truthful, Truthful', [Next]_vars
               PROVE  Order' /\ Allowed
    BY DEF Allowed
  <2>1. QED
    BY ParentRefines, ChildRefines, AppRefines, EnvironmentRefines, OthersRefine
       DEF Next, Terminated
<1>3. QED BY <1>1, <1>2, TruthfulByInv, Invariance, PTL DEF Spec, KeepsLifecycle, L!Spec
=============================================================================
