--------------------------- MODULE SandboxProofs ---------------------------
(***************************************************************************)
(* That the inductive invariant of SandboxInv holds initially and that     *)
(* every step keeps it: the types, the handshake between parent and child, *)
(* the user namespace and the options both know; then what is in force for *)
(* child and app at each stage, what is saved for --join, the locks and    *)
(* the signal handlers.  There is one lemma for each group of conjuncts    *)
(* and each actor, with one step per action.  The theorems at the end hold *)
(* for every set of option combinations, not only those TLC goes through.  *)
(***************************************************************************)
EXTENDS SandboxInv, TLAPS

\* The groups of conjuncts of IInv that are proved together.

Control == Handshake /\ UserNamespace /\ Options
Confinement == Stages /\ Saved /\ AppState
Ending == Locks /\ Handlers

USE DEF cvars, nvars, avars, pipes, pvars, runvars, BeforeClone, BeforeNotify, Mapping,
        Middle, Prefork, Postfork, Late, Gone, Agreed, Mapped, Enforced

\* The initial states satisfy the invariant.
LEMMA InitIInv == Init => IInv
<1> SUFFICES ASSUME Init PROVE IInv OBVIOUS
<1>1. TypeOK BY OptionsAssumption DEF Init, TypeOK, ParentPC, ChildPC, AppPC
<1>2. Handshake /\ UserNamespace /\ Options /\ Stages
  BY DEF Init, Handshake, UserNamespace, Options, Stages
<1>3. Saved /\ AppState /\ Locks /\ Handlers
  BY DEF Init, Saved, AppState, Locks, Handlers
<1>4. QED BY <1>1, <1>2, <1>3 DEF IInv

\* The child may exit anywhere: the invariant asks nothing of a dead child
\* but what its app and its files already have.
LEMMA ChildExitsKeeps == ASSUME IInv, ChildAlive, ChildExits PROVE IInv'
<1> USE DEF IInv, TypeOK, ChildExits, ChildEnds
<1>1. TypeOK' BY DEF ParentDead, ParentPC, ChildPC, AppPC
<1> USE DEF ChildAlive, ChildDead, ParentDead
<1>2. Control' BY DEF Control, Handshake, UserNamespace, Options
<1>3. Confinement' BY DEF Confinement, Stages, Saved, AppState
<1>4. Ending' BY DEF Ending, Locks, Handlers, Handshake
<1>5. QED BY <1>1, <1>2, <1>3, <1>4 DEF Control, Confinement, Ending

\* So may the parent.
LEMMA ParentEndsKeeps ==
  ASSUME IInv, ~ParentDead, NEW end \in {"exited", "killed"}, ParentEnds(end),
         files' \subseteq files,
         UNCHANGED <<asked, parg, pcaught, psig, hsig, carg, ccaught, force, nvars,
                     avars, pipes, disk, proxy>>
  PROVE  IInv'
<1> USE DEF IInv, TypeOK, ParentEnds
<1>1. csig' \subseteq Signals \cup {"KILL"} OBVIOUS
<1>2. cpc' \in {cpc, "reaped"} /\ (cpc' # cpc => cpc = "zombie") OBVIOUS
<1>3. TypeOK' BY <1>1, <1>2 DEF ParentPC, ChildPC
<1>4. Control' BY <1>2 DEF Control, Handshake, UserNamespace, Options
<1>5. Confinement' BY <1>2 DEF Confinement, Stages, Saved, AppState
<1>6. Locks' BY <1>2 DEF Locks
<1>7. Handlers' BY <1>2 DEF Handlers, ParentDead
<1>8. QED BY <1>3, <1>4, <1>5, <1>6, <1>7 DEF Control, Confinement


\* Every step of the parent keeps the types.
LEMMA ParentNextTypes ==
  ASSUME IInv, ParentNext
  PROVE  TypeOK'
<1> USE DEF IInv, TypeOK
<1>1. CASE CheckNetwork BY <1>1 DEF CheckNetwork, ParentPC
<1>2. CASE SetNameRunFile BY <1>2 DEF SetNameRunFile, ParentPC
<1>3. CASE DbusProxyStart BY <1>3 DEF DbusProxyStart, ParentPC
<1>4. CASE Clone BY Zenon, <1>4 DEF Clone, ParentPC, ChildPC
<1>5. CASE WritePidFile BY <1>5 DEF WritePidFile, ParentPC
<1>6. CASE LockPidFile BY <1>6 DEF LockPidFile, ParentPC
<1>7. CASE ForkNetChild
  <2>2. npc' \in {"none", "run", "done"} BY <1>7 DEF ForkNetChild
  <2>3. netlock' \subseteq {"parent", "child", "net"} BY Zenon, <1>7 DEF ForkNetChild
  <2>4. QED BY <1>7, <2>2, <2>3 DEF ForkNetChild, ParentPC
<1>8. CASE WaitNetChild BY <1>8 DEF WaitNetChild, ParentPC
<1>9. CASE NotifyBaseSetup
  <2>1. CASE ChildDead
    <3>1. ParentEnds("killed") /\ p2c' = p2c BY <1>9, <2>1 DEF NotifyBaseSetup, NotifyChild
    <3>2. QED BY <1>9, <3>1, ParentEndsKeeps DEF NotifyBaseSetup, NotifyChild, ParentDead
  <2>2. CASE ~ChildDead
    <3>2. Message(parg) \in {0, 1} BY DEF Message
    <3>3. p2c' \in Seq({0, 1}) BY <1>9, <2>2, <3>2 DEF NotifyBaseSetup, NotifyChild
    <3>4. QED BY Zenon, <1>9, <2>2, <3>3 DEF NotifyBaseSetup, NotifyChild, ParentPC
  <2>3. QED BY <2>1, <2>2
<1>10. CASE WaitForUserNamespace
  <2>2. parg' \subseteq OptionNames
    BY <1>10 DEF WaitForUserNamespace, WithNoroot, OptionNames
  <2>3. c2p' = <<>> \/ c2p' = c2p BY <1>10 DEF WaitForUserNamespace
  <2>4. <<>> \in Seq({0, 1}) OBVIOUS
  <2>5. c2p' \in Seq({0, 1}) BY Zenon, <2>3, <2>4
  <2>6. QED BY <1>10, <2>2, <2>5 DEF WaitForUserNamespace, ParentPC
<1>11. CASE WaitDeadPeer BY <1>11 DEF WaitDeadPeer, ParentPC, ChildPC
<1>12. CASE UpdateMap("uidmap", "uidmap", "gidmap")
  BY <1>12 DEF UpdateMap, ChildAlive, ChildDead, Features, ParentPC
<1>13. CASE UpdateMap("gidmap", "gidmap", "notify2")
  BY <1>13 DEF UpdateMap, ChildAlive, ChildDead, Features, ParentPC
<1>14. CASE NotifyMapped
  <2>1. CASE ChildDead
    <3>1. ParentEnds("killed") /\ p2c' = p2c BY <1>14, <2>1 DEF NotifyMapped, NotifyChild
    <3>2. QED BY <1>14, <3>1, ParentEndsKeeps DEF NotifyMapped, NotifyChild, ParentDead
  <2>2. CASE ~ChildDead
    <3>2. Message(parg) \in {0, 1} BY DEF Message
    <3>3. p2c' \in Seq({0, 1}) BY <1>14, <2>2, <3>2 DEF NotifyMapped, NotifyChild
    <3>4. QED BY Zenon, <1>14, <2>2, <3>3 DEF NotifyMapped, NotifyChild, ParentPC
  <2>3. QED BY <2>1, <2>2
<1>15. CASE UnlockNetwork BY <1>15 DEF UnlockNetwork, ParentPC
<1>16. CASE Catch("catchINT", "INT", "catchTERM")
  BY <1>16 DEF Catch, Signals, ParentPC
<1>17. CASE Catch("catchTERM", "TERM", "wait") BY <1>17 DEF Catch, Signals, ParentPC
<1>18. CASE WaitChild BY <1>18 DEF WaitChild, ParentPC, ChildPC
<1>19. CASE RestoreDefault("dflTERM", "TERM", "dflINT")
  BY <1>19 DEF RestoreDefault, Signals, ParentPC
<1>20. CASE RestoreDefault("dflINT", "INT", "release")
  BY <1>20 DEF RestoreDefault, Signals, ParentPC
<1>21. CASE HandlerCheck
  BY <1>21 DEF HandlerCheck, ChildAlive, ChildDead, ParentPC, ChildPC
<1>22. CASE HandlerLooksAtChild
  BY <1>22 DEF HandlerLooksAtChild, ChildAlive, ChildDead, ParentPC
<1>23. CASE HandlerSignals
  <2>2. SentToChild("KILL") \subseteq Signals \cup {"KILL"} BY DEF SentToChild
  <2>3. hsig # "none" => SentToChild(hsig) \subseteq Signals \cup {"KILL"}
    BY DEF SentToChild
  <2>4. csig' \subseteq Signals \cup {"KILL"}
    BY <1>23, <2>2, <2>3 DEF HandlerSignals, Handlers
  <2>5. QED BY <1>23, <2>4 DEF HandlerSignals, ParentPC
<1>24. CASE HandlerWaits BY <1>24 DEF HandlerWaits, ParentPC, ChildPC
<1>25. CASE ReleaseSandboxLock BY <1>25 DEF ReleaseSandboxLock, ParentPC
<1>26. CASE StopProxy BY <1>26 DEF StopProxy, ParentPC
<1>27. CASE ReapProxy BY <1>27 DEF ReapProxy, ParentPC
<1>28. CASE DeleteRunFiles
  BY <1>28, ParentEndsKeeps DEF DeleteRunFiles, ParentDead
<1>29. ASSUME NEW s \in Signals, EnterHandler(s) PROVE TypeOK'
  BY <1>29 DEF EnterHandler, Signals, ParentPC
<1>30. QED BY ZenonT(30), <1>1, <1>2, <1>3, <1>4, <1>5, <1>6, <1>7, <1>8, <1>9, <1>10, <1>11,
    <1>12, <1>13, <1>14, <1>15, <1>16, <1>17, <1>18, <1>19, <1>20, <1>21, <1>22,
    <1>23, <1>24, <1>25, <1>26, <1>27, <1>28, <1>29 DEF ParentNext

\* Every step of the child keeps the types.
LEMMA ChildNextTypes ==
  ASSUME IInv, ChildNext
  PROVE  TypeOK'
<1> USE DEF IInv, TypeOK
<1>1. CASE WaitForParent("wait1", "mount")
  <2>1. CASE p2c # <<>> /\ ~ChildExits
    <3>1. /\ cpc' = "mount" /\ p2c' = <<>> /\ carg' = WithNoroot(carg, Head(p2c))
          /\ UNCHANGED <<asked, pvars, csig, ccaught, force, nvars, avars, c2p,
                         runvars, disk, proxy, orphan>>
      BY <1>1, <2>1 DEF WaitForParent
    <3>3. carg' \subseteq OptionNames BY <3>1 DEF WithNoroot, OptionNames
    <3>4. QED BY <3>1, <3>3 DEF ChildPC
  <2>2. CASE ChildExits
    BY <1>1, <2>2, ChildExitsKeeps DEF WaitForParent, ChildAlive, ChildDead
  <2>3. QED BY <1>1, <2>1, <2>2 DEF WaitForParent, EofForChild
<1>2. CASE MountNamespace BY <1>2 DEF MountNamespace, Stage, Features, ChildPC
<1>3. CASE ConfigureNetwork
  <2>1. CASE Stage("network", force \cup {"net"}, "enforce")
    <3>2. QED BY <2>1 DEF Stage, Features, ChildPC
  <2>2. CASE cpc = "network" /\ ChildExits
    BY <2>2, ChildExitsKeeps DEF ChildAlive, ChildDead
  <2>3. QED BY <1>3, <2>1, <2>2 DEF ConfigureNetwork
<1>4. CASE EnforceFilters BY <1>4 DEF EnforceFilters, OptionNames, ChildPC
<1>5. CASE ConfigureFilesystem
  BY <1>5 DEF ConfigureFilesystem, Stage, Features, ChildPC
<1>6. CASE SaveState BY <1>6 DEF SaveState, ChildPC
<1>7. CASE LoadFilters
  <2>2. disk' \subseteq Filters \cup {"umask", "nonewprivs", "nogroups", "join", "done"}
    BY <1>7 DEF LoadFilters
  <2>3. QED BY <1>7, <2>2 DEF LoadFilters, ChildPC
<1>8. CASE DropCaps BY <1>8 DEF DropCaps, Stage, SetCaps, Features, ChildPC
<1>9. CASE CreateJoinFile BY <1>9 DEF CreateJoinFile, ChildPC
<1>10. CASE UnshareUser BY <1>10 DEF UnshareUser, Features, ChildPC
<1>11. CASE NotifyParent
  <2>2. Message(carg) \in {0, 1} BY DEF Message
  <2>3. c2p' \in Seq({0, 1}) BY <1>11, <2>2 DEF NotifyParent
  <2>4. QED BY <1>11, <2>3 DEF NotifyParent, ChildPC
<1>12. CASE WaitForParent("wait2", "recaps")
  <2>1. CASE p2c # <<>> /\ ~ChildExits
    <3>1. /\ cpc' = "recaps" /\ p2c' = <<>> /\ carg' = WithNoroot(carg, Head(p2c))
          /\ UNCHANGED <<asked, pvars, csig, ccaught, force, nvars, avars, c2p,
                         runvars, disk, proxy, orphan>>
      BY <1>12, <2>1 DEF WaitForParent
    <3>3. carg' \subseteq OptionNames BY <3>1 DEF WithNoroot, OptionNames
    <3>4. QED BY <3>1, <3>3 DEF ChildPC
  <2>2. CASE ChildExits
    BY <1>12, <2>2, ChildExitsKeeps DEF WaitForParent, ChildAlive, ChildDead
  <2>3. QED BY <1>12, <2>1, <2>2 DEF WaitForParent, EofForChild
<1>13. CASE DropCapsAgain
  BY <1>13 DEF DropCapsAgain, Stage, SetCaps, Features, ChildPC
<1>14. CASE SetNoNewPrivs BY <1>14 DEF SetNoNewPrivs, Stage, Features, ChildPC
<1>15. CASE DropPrivs BY <1>15 DEF DropPrivs, Stage, Features, ChildPC
<1>16. CASE SetParentDeathSignal
  BY <1>16 DEF SetParentDeathSignal, Stage, Features, ChildPC
<1>17. CASE ForkApp BY <1>17 DEF ForkApp, Features, ChildPC, AppPC
<1>18. CASE InstallSandboxHandler BY <1>18 DEF InstallSandboxHandler, ChildPC
<1>19. CASE MonitorReturns
  BY <1>19, ChildExitsKeeps DEF MonitorReturns, ChildAlive, ChildDead
<1>20. CASE RunSandboxHandler BY <1>20 DEF RunSandboxHandler, Signals, ChildPC
<1>21. CASE SandboxHandlerKills BY <1>21 DEF SandboxHandlerKills, ChildPC, AppPC
<1>22. CASE SandboxHandlerExits
  BY <1>22, ChildExitsKeeps DEF SandboxHandlerExits, ChildAlive, ChildDead
<1>23. QED BY ZenonT(30), <1>1, <1>2, <1>3, <1>4, <1>5, <1>6, <1>7, <1>8, <1>9, <1>10, <1>11,
    <1>12, <1>13, <1>14, <1>15, <1>16, <1>17, <1>18, <1>19, <1>20, <1>21, <1>22 DEF
    ChildNext

\* Every step of the app keeps the types.
LEMMA AppNextTypes ==
  ASSUME IInv, AppNext
  PROVE  TypeOK'
<1> USE DEF IInv, TypeOK
<1>1. CASE PrepareApp BY <1>1 DEF PrepareApp, AppStep, AppPC
<1>2. CASE InstallFilters
  <2>2. aforce' \subseteq Features
    BY Zenon, <1>2 DEF InstallFilters, AppStep, Features, Filters
  <2>3. QED BY <1>2, <2>2 DEF InstallFilters, AppStep, AppPC
<1>3. CASE MarkSandboxDone BY <1>3 DEF MarkSandboxDone, AppPC
<1>4. CASE ExecApp BY <1>4 DEF ExecApp, AppStep, AppPC
<1>5. QED BY <1>1, <1>2, <1>3, <1>4 DEF AppNext

\* Every step of the environment keeps the types.
LEMMA EnvironmentTypes ==
  ASSUME IInv, Environment
  PROVE  TypeOK'
<1> USE DEF IInv, TypeOK
<1>1. CASE ParentFails BY <1>1 DEF ParentFails, ParentPC
<1>2. CASE ParentKilled
  BY <1>2, ParentEndsKeeps DEF ParentKilled
<1>3. CASE ChildFails
  BY <1>3, ChildExitsKeeps DEF ChildFails, ChildAlive, ChildDead
<1>4. CASE AppExits BY <1>4 DEF AppExits, AppAlive, AppPC
<1>5. ASSUME NEW s \in Signals, SignalParent(s) PROVE TypeOK'
  BY <1>5 DEF SignalParent
<1>6. ASSUME NEW s \in Signals \cup {"KILL"}, SignalChild(s) PROVE TypeOK'
  <2>2. csig' \subseteq Signals \cup {"KILL"} BY <1>6 DEF SignalChild, SentToChild
  <2>3. QED BY <1>6, <2>2 DEF SignalChild
<1>7. QED BY <1>1, <1>2, <1>3, <1>4, <1>5, <1>6 DEF Environment

\* Every step of the other processes, or of none, keeps the types.
LEMMA OthersTypes ==
  ASSUME IInv, ChildKilled \/ NetworkMain \/ ProxyEnds \/ UNCHANGED vars
  PROVE  TypeOK'
<1> USE DEF IInv, TypeOK
<1>1. CASE ChildKilled
  BY <1>1, ChildExitsKeeps DEF ChildKilled
<1>2. CASE NetworkMain BY <1>2 DEF NetworkMain
<1>3. CASE ProxyEnds BY <1>3 DEF ProxyEnds, ParentDead
<1>4. CASE UNCHANGED vars BY <1>4 DEF vars
<1>5. QED BY <1>1, <1>2, <1>3, <1>4

\* Every step of the parent keeps the handshake.
LEMMA ParentNextControl ==
  ASSUME IInv, ParentNext
  PROVE  Control'
<1> USE DEF Control, IInv, Handshake, UserNamespace, Options
<1>1. CASE CheckNetwork BY <1>1 DEF CheckNetwork
<1>2. CASE SetNameRunFile BY <1>2 DEF SetNameRunFile
<1>3. CASE DbusProxyStart BY <1>3 DEF DbusProxyStart
<1>4. CASE Clone BY <1>4 DEF Clone
<1>5. CASE WritePidFile BY <1>5 DEF WritePidFile
<1>6. CASE LockPidFile BY <1>6 DEF LockPidFile
<1>7. CASE ForkNetChild BY <1>7 DEF ForkNetChild
<1>8. CASE WaitNetChild BY <1>8 DEF WaitNetChild
<1>9. CASE NotifyBaseSetup
  <2>1. CASE ChildDead
    <3>1. ParentEnds("killed") /\ p2c' = p2c BY <1>9, <2>1 DEF NotifyBaseSetup, NotifyChild
    <3>2. QED BY <1>9, <3>1, ParentEndsKeeps DEF NotifyBaseSetup, NotifyChild, ParentDead
  <2>2. CASE ~ChildDead BY <1>9, <2>2 DEF NotifyBaseSetup, NotifyChild, Message, ChildDead
  <2>3. QED BY <2>1, <2>2
<1>10. CASE WaitForUserNamespace
  BY <1>10 DEF WaitForUserNamespace, WithNoroot, EofForParent, ChildDead
<1>11. CASE WaitDeadPeer BY <1>11 DEF WaitDeadPeer
<1>12. CASE UpdateMap("uidmap", "uidmap", "gidmap")
  BY <1>12 DEF UpdateMap, ChildAlive, ChildDead
<1>13. CASE UpdateMap("gidmap", "gidmap", "notify2")
  BY <1>13 DEF UpdateMap, ChildAlive, ChildDead
<1>14. CASE NotifyMapped
  <2>1. CASE ChildDead
    <3>1. ParentEnds("killed") /\ p2c' = p2c BY <1>14, <2>1 DEF NotifyMapped, NotifyChild
    <3>2. QED BY <1>14, <3>1, ParentEndsKeeps DEF NotifyMapped, NotifyChild, ParentDead
  <2>2. CASE ~ChildDead BY <1>14, <2>2 DEF NotifyMapped, NotifyChild, Message, ChildDead
  <2>3. QED BY <2>1, <2>2
<1>15. CASE UnlockNetwork BY <1>15 DEF UnlockNetwork
<1>16. CASE Catch("catchINT", "INT", "catchTERM") BY <1>16 DEF Catch
<1>17. CASE Catch("catchTERM", "TERM", "wait") BY <1>17 DEF Catch
<1>18. CASE WaitChild BY <1>18 DEF WaitChild
<1>19. CASE RestoreDefault("dflTERM", "TERM", "dflINT") BY <1>19 DEF RestoreDefault
<1>20. CASE RestoreDefault("dflINT", "INT", "release") BY <1>20 DEF RestoreDefault
<1>21. CASE HandlerCheck BY <1>21 DEF HandlerCheck, ChildAlive, ChildDead
<1>22. CASE HandlerLooksAtChild
  BY <1>22 DEF HandlerLooksAtChild, ChildAlive, ChildDead
<1>23. CASE HandlerSignals
  BY <1>23 DEF HandlerSignals, SentToChild, ChildAlive, ChildDead
<1>24. CASE HandlerWaits BY <1>24 DEF HandlerWaits
<1>25. CASE ReleaseSandboxLock BY <1>25 DEF ReleaseSandboxLock
<1>26. CASE StopProxy BY <1>26 DEF StopProxy
<1>27. CASE ReapProxy BY <1>27 DEF ReapProxy
<1>28. CASE DeleteRunFiles
  BY <1>28, ParentEndsKeeps DEF DeleteRunFiles, ParentDead
<1>29. ASSUME NEW s \in Signals, EnterHandler(s) PROVE Control'
  <2>1. pcaught # {} BY <1>29 DEF EnterHandler
  <2>2. QED BY <1>29, <2>1 DEF EnterHandler, ParentDead, Handlers
<1>30. QED BY ZenonT(30), <1>1, <1>2, <1>3, <1>4, <1>5, <1>6, <1>7, <1>8, <1>9, <1>10, <1>11,
    <1>12, <1>13, <1>14, <1>15, <1>16, <1>17, <1>18, <1>19, <1>20, <1>21, <1>22,
    <1>23, <1>24, <1>25, <1>26, <1>27, <1>28, <1>29 DEF ParentNext

\* Every step of the child keeps the handshake.
LEMMA ChildNextControl ==
  ASSUME IInv, ChildNext
  PROVE  Control'
<1> USE DEF Control, IInv, Handshake, UserNamespace, Options
<1>1. CASE WaitForParent("wait1", "mount")
  <2>1. CASE p2c # <<>> /\ ~ChildExits
    BY <1>1, <2>1 DEF WaitForParent, WithNoroot, EofForChild
  <2>2. CASE ChildExits
    BY <1>1, <2>2, ChildExitsKeeps DEF WaitForParent, ChildAlive, ChildDead
  <2>3. QED BY <1>1, <2>1, <2>2 DEF WaitForParent, EofForChild
<1>2. CASE MountNamespace BY <1>2 DEF MountNamespace, Stage
<1>3. CASE ConfigureNetwork
  <2>1. CASE Stage("network", force \cup {"net"}, "enforce") BY <2>1 DEF Stage
  <2>2. CASE cpc = "network" /\ ChildExits
    BY <2>2, ChildExitsKeeps DEF ChildAlive, ChildDead
  <2>3. QED BY <1>3, <2>1, <2>2 DEF ConfigureNetwork
<1>4. CASE EnforceFilters BY <1>4 DEF EnforceFilters, Container
<1>5. CASE ConfigureFilesystem BY <1>5 DEF ConfigureFilesystem, Stage
<1>6. CASE SaveState BY <1>6 DEF SaveState
<1>7. CASE LoadFilters BY <1>7 DEF LoadFilters
<1>8. CASE DropCaps BY <1>8 DEF DropCaps, Stage, SetCaps
<1>9. CASE CreateJoinFile BY <1>9 DEF CreateJoinFile
<1>10. CASE UnshareUser BY <1>10 DEF UnshareUser
<1>11. CASE NotifyParent BY <1>11 DEF NotifyParent, Message, ParentDead
<1>12. CASE WaitForParent("wait2", "recaps")
  <2>1. CASE p2c # <<>> /\ ~ChildExits
    BY <1>12, <2>1 DEF WaitForParent, WithNoroot, EofForChild
  <2>2. CASE ChildExits
    BY ZenonT(30), <1>12, <2>2, ChildExitsKeeps DEF WaitForParent, ChildAlive, ChildDead
  <2>3. QED BY <1>12, <2>1, <2>2 DEF WaitForParent, EofForChild
<1>13. CASE DropCapsAgain BY <1>13 DEF DropCapsAgain, Stage, SetCaps
<1>14. CASE SetNoNewPrivs BY <1>14 DEF SetNoNewPrivs, Stage
<1>15. CASE DropPrivs BY <1>15 DEF DropPrivs, Stage
<1>16. CASE SetParentDeathSignal BY <1>16 DEF SetParentDeathSignal, Stage
<1>17. CASE ForkApp BY <1>17 DEF ForkApp
<1>18. CASE InstallSandboxHandler BY <1>18 DEF InstallSandboxHandler
<1>19. CASE MonitorReturns
  BY <1>19, ChildExitsKeeps DEF MonitorReturns, ChildAlive, ChildDead
<1>20. CASE RunSandboxHandler BY <1>20 DEF RunSandboxHandler
<1>21. CASE SandboxHandlerKills BY <1>21 DEF SandboxHandlerKills
<1>22. CASE SandboxHandlerExits
  BY <1>22, ChildExitsKeeps DEF SandboxHandlerExits, ChildAlive, ChildDead
<1>23. QED BY ZenonT(30), <1>1, <1>2, <1>3, <1>4, <1>5, <1>6, <1>7, <1>8, <1>9, <1>10, <1>11,
    <1>12, <1>13, <1>14, <1>15, <1>16, <1>17, <1>18, <1>19, <1>20, <1>21, <1>22 DEF
    ChildNext

\* Every step of the app keeps the handshake.
LEMMA AppNextControl ==
  ASSUME IInv, AppNext
  PROVE  Control'
<1> USE DEF Control, IInv, Handshake, UserNamespace, Options
<1>1. CASE PrepareApp BY <1>1 DEF PrepareApp, AppStep
<1>2. CASE InstallFilters BY <1>2 DEF InstallFilters, AppStep
<1>3. CASE MarkSandboxDone BY <1>3 DEF MarkSandboxDone
<1>4. CASE ExecApp BY <1>4 DEF ExecApp, AppStep
<1>5. QED BY ZenonT(30), <1>1, <1>2, <1>3, <1>4 DEF AppNext

\* Every step of the environment keeps the handshake.
LEMMA EnvironmentControl ==
  ASSUME IInv, Environment
  PROVE  Control'
<1> USE DEF Control, IInv, Handshake, UserNamespace, Options
<1>1. CASE ParentFails BY <1>1 DEF ParentFails
<1>2. CASE ParentKilled
  BY ZenonT(30), <1>2, ParentEndsKeeps DEF ParentKilled
<1>3. CASE ChildFails
  BY ZenonT(30), <1>3, ChildExitsKeeps DEF ChildFails, ChildAlive, ChildDead
<1>4. CASE AppExits BY <1>4 DEF AppExits, AppAlive
<1>5. ASSUME NEW s \in Signals, SignalParent(s) PROVE Control'
  BY <1>5 DEF SignalParent
<1>6. ASSUME NEW s \in Signals \cup {"KILL"}, SignalChild(s) PROVE Control'
  BY <1>6 DEF SignalChild
<1>7. QED BY ZenonT(30), <1>1, <1>2, <1>3, <1>4, <1>5, <1>6 DEF Environment

\* Every step of the other processes, or of none, keeps the handshake.
LEMMA OthersControl ==
  ASSUME IInv, ChildKilled \/ NetworkMain \/ ProxyEnds \/ UNCHANGED vars
  PROVE  Control'
<1> USE DEF Control, IInv, Handshake, UserNamespace, Options
<1>1. CASE ChildKilled
  BY <1>1, ChildExitsKeeps DEF ChildKilled
<1>2. CASE NetworkMain BY <1>2 DEF NetworkMain
<1>3. CASE ProxyEnds BY <1>3 DEF ProxyEnds, ParentDead
<1>4. CASE UNCHANGED vars BY <1>4 DEF vars
<1>5. QED BY ZenonT(30), <1>1, <1>2, <1>3, <1>4

\* Every step of the parent keeps the confinement.
LEMMA ParentNextConfinement ==
  ASSUME IInv, ParentNext
  PROVE  Confinement'
<1> USE DEF Confinement, IInv, Stages, Saved, AppState
<1>1. CASE CheckNetwork BY <1>1 DEF CheckNetwork
<1>2. CASE SetNameRunFile BY <1>2 DEF SetNameRunFile
<1>3. CASE DbusProxyStart BY <1>3 DEF DbusProxyStart
<1>4. CASE Clone BY <1>4 DEF Clone, Filters, Container, UserNamespace, Handshake
<1>5. CASE WritePidFile BY <1>5 DEF WritePidFile
<1>6. CASE LockPidFile BY <1>6 DEF LockPidFile
<1>7. CASE ForkNetChild BY <1>7 DEF ForkNetChild
<1>8. CASE WaitNetChild BY <1>8 DEF WaitNetChild
<1>9. CASE NotifyBaseSetup
  <2>1. CASE ChildDead
    <3>1. ParentEnds("killed") /\ p2c' = p2c BY <1>9, <2>1 DEF NotifyBaseSetup, NotifyChild
    <3>2. QED BY ZenonT(30), <1>9, <3>1, ParentEndsKeeps DEF NotifyBaseSetup, NotifyChild, ParentDead
  <2>2. CASE ~ChildDead BY <1>9, <2>2 DEF NotifyBaseSetup, NotifyChild, Message, ChildDead
  <2>3. QED BY <2>1, <2>2
<1>10. CASE WaitForUserNamespace
  BY <1>10 DEF WaitForUserNamespace, WithNoroot, EofForParent, ChildDead
<1>11. CASE WaitDeadPeer BY <1>11 DEF WaitDeadPeer
<1>12. CASE UpdateMap("uidmap", "uidmap", "gidmap")
  BY <1>12 DEF UpdateMap, ChildAlive, ChildDead, UserNamespace, Handshake
<1>13. CASE UpdateMap("gidmap", "gidmap", "notify2")
  BY <1>13 DEF UpdateMap, ChildAlive, ChildDead, UserNamespace, Handshake
<1>14. CASE NotifyMapped
  <2>1. CASE ChildDead
    <3>1. ParentEnds("killed") /\ p2c' = p2c BY <1>14, <2>1 DEF NotifyMapped, NotifyChild
    <3>2. QED BY ZenonT(30), <1>14, <3>1, ParentEndsKeeps DEF NotifyMapped, NotifyChild, ParentDead
  <2>2. CASE ~ChildDead BY <1>14, <2>2 DEF NotifyMapped, NotifyChild, Message, ChildDead
  <2>3. QED BY <2>1, <2>2
<1>15. CASE UnlockNetwork BY <1>15 DEF UnlockNetwork
<1>16. CASE Catch("catchINT", "INT", "catchTERM") BY <1>16 DEF Catch
<1>17. CASE Catch("catchTERM", "TERM", "wait") BY <1>17 DEF Catch
<1>18. CASE WaitChild BY <1>18 DEF WaitChild
<1>19. CASE RestoreDefault("dflTERM", "TERM", "dflINT") BY <1>19 DEF RestoreDefault
<1>20. CASE RestoreDefault("dflINT", "INT", "release") BY <1>20 DEF RestoreDefault
<1>21. CASE HandlerCheck BY <1>21 DEF HandlerCheck, ChildAlive, ChildDead
<1>22. CASE HandlerLooksAtChild
  BY <1>22 DEF HandlerLooksAtChild, ChildAlive, ChildDead
<1>23. CASE HandlerSignals
  BY <1>23 DEF HandlerSignals, SentToChild, ChildAlive, ChildDead
<1>24. CASE HandlerWaits BY <1>24 DEF HandlerWaits
<1>25. CASE ReleaseSandboxLock BY <1>25 DEF ReleaseSandboxLock
<1>26. CASE StopProxy BY <1>26 DEF StopProxy
<1>27. CASE ReapProxy BY <1>27 DEF ReapProxy
<1>28. CASE DeleteRunFiles
  BY ZenonT(30), <1>28, ParentEndsKeeps DEF DeleteRunFiles, ParentDead
<1>29. ASSUME NEW s \in Signals, EnterHandler(s) PROVE Confinement'
  BY <1>29 DEF EnterHandler
<1>30. QED BY ZenonT(30), <1>1, <1>2, <1>3, <1>4, <1>5, <1>6, <1>7, <1>8, <1>9, <1>10, <1>11,
    <1>12, <1>13, <1>14, <1>15, <1>16, <1>17, <1>18, <1>19, <1>20, <1>21, <1>22,
    <1>23, <1>24, <1>25, <1>26, <1>27, <1>28, <1>29 DEF ParentNext

\* Every step of the child keeps the confinement.
LEMMA ChildNextConfinement ==
  ASSUME IInv, ChildNext
  PROVE  Confinement'
<1> USE DEF Confinement, IInv, Stages, Saved, AppState
<1>1. CASE WaitForParent("wait1", "mount")
  <2>1. CASE p2c # <<>> /\ ~ChildExits
    BY <1>1, <2>1 DEF WaitForParent, WithNoroot, EofForChild
  <2>2. CASE ChildExits
    BY ZenonT(30), <1>1, <2>2, ChildExitsKeeps DEF WaitForParent, ChildAlive, ChildDead
  <2>3. QED BY ZenonT(30), <1>1, <2>1, <2>2 DEF WaitForParent, EofForChild
<1>2. CASE MountNamespace BY <1>2 DEF MountNamespace, Stage
<1>3. CASE ConfigureNetwork
  <2>1. CASE Stage("network", force \cup {"net"}, "enforce") BY <2>1 DEF Stage
  <2>2. CASE cpc = "network" /\ ChildExits
    BY ZenonT(30), <2>2, ChildExitsKeeps DEF ChildAlive, ChildDead
  <2>3. QED BY ZenonT(30), <1>3, <2>1, <2>2 DEF ConfigureNetwork
<1>4. CASE EnforceFilters BY <1>4 DEF EnforceFilters, Filters, Container
<1>5. CASE ConfigureFilesystem BY <1>5 DEF ConfigureFilesystem, Stage
<1>6. CASE SaveState BY <1>6 DEF SaveState
<1>7. CASE LoadFilters BY <1>7 DEF LoadFilters, Filters, Container
<1>8. CASE DropCaps BY <1>8 DEF DropCaps, Stage, SetCaps
<1>9. CASE CreateJoinFile BY <1>9 DEF CreateJoinFile, Filters, Container
<1>10. CASE UnshareUser BY <1>10 DEF UnshareUser, UserNamespace, Handshake
<1>11. CASE NotifyParent BY <1>11 DEF NotifyParent, Message, ParentDead
<1>12. CASE WaitForParent("wait2", "recaps")
  <2>1. CASE p2c # <<>> /\ ~ChildExits
    BY <1>12, <2>1 DEF WaitForParent, WithNoroot, EofForChild, Filters
  <2>2. CASE ChildExits
    BY ZenonT(30), <1>12, <2>2, ChildExitsKeeps DEF WaitForParent, ChildAlive, ChildDead
  <2>3. QED BY ZenonT(30), <1>12, <2>1, <2>2 DEF WaitForParent, EofForChild
<1>13. CASE DropCapsAgain
  BY <1>13 DEF DropCapsAgain, Stage, SetCaps, UserNamespace, Handshake
<1>14. CASE SetNoNewPrivs BY <1>14 DEF SetNoNewPrivs, Stage
<1>15. CASE DropPrivs BY <1>15 DEF DropPrivs, Stage
<1>16. CASE SetParentDeathSignal BY <1>16 DEF SetParentDeathSignal, Stage
<1>17. CASE ForkApp BY <1>17 DEF ForkApp, Filters, Container, Options, UserNamespace
<1>18. CASE InstallSandboxHandler BY <1>18 DEF InstallSandboxHandler
<1>19. CASE MonitorReturns
  BY ZenonT(30), <1>19, ChildExitsKeeps DEF MonitorReturns, ChildAlive, ChildDead
<1>20. CASE RunSandboxHandler BY <1>20 DEF RunSandboxHandler
<1>21. CASE SandboxHandlerKills BY <1>21 DEF SandboxHandlerKills
<1>22. CASE SandboxHandlerExits
  BY Zenon, <1>22, ChildExitsKeeps DEF SandboxHandlerExits, ChildAlive, ChildDead
<1>23. QED BY Zenon, <1>1, <1>2, <1>3, <1>4, <1>5, <1>6, <1>7, <1>8, <1>9, <1>10, <1>11,
    <1>12, <1>13, <1>14, <1>15, <1>16, <1>17, <1>18, <1>19, <1>20, <1>21, <1>22 DEF
    ChildNext

\* Every step of the app keeps the confinement.
LEMMA AppNextConfinement ==
  ASSUME IInv, AppNext
  PROVE  Confinement'
<1> USE DEF Confinement, IInv, Stages, Saved, AppState
<1>1. CASE PrepareApp BY <1>1 DEF PrepareApp, AppStep
<1>2. CASE InstallFilters BY <1>2 DEF InstallFilters, AppStep, Filters, Container
<1>3. CASE MarkSandboxDone BY <1>3 DEF MarkSandboxDone
<1>4. CASE ExecApp BY <1>4 DEF ExecApp, AppStep
<1>5. QED BY ZenonT(30), <1>1, <1>2, <1>3, <1>4 DEF AppNext

\* Every step of the environment keeps the confinement.
LEMMA EnvironmentConfinement ==
  ASSUME IInv, Environment
  PROVE  Confinement'
<1> USE DEF Confinement, IInv, Stages, Saved, AppState
<1>1. CASE ParentFails BY <1>1 DEF ParentFails
<1>2. CASE ParentKilled
  BY ZenonT(30), <1>2, ParentEndsKeeps DEF ParentKilled
<1>3. CASE ChildFails
  BY Zenon, <1>3, ChildExitsKeeps DEF ChildFails, ChildAlive, ChildDead
<1>4. CASE AppExits BY <1>4 DEF AppExits, AppAlive
<1>5. ASSUME NEW s \in Signals, SignalParent(s) PROVE Confinement'
  BY <1>5 DEF SignalParent
<1>6. ASSUME NEW s \in Signals \cup {"KILL"}, SignalChild(s) PROVE Confinement'
  BY <1>6 DEF SignalChild
<1>7. QED BY ZenonT(30), <1>1, <1>2, <1>3, <1>4, <1>5, <1>6 DEF Environment

\* Every step of the other processes, or of none, keeps the confinement.
LEMMA OthersConfinement ==
  ASSUME IInv, ChildKilled \/ NetworkMain \/ ProxyEnds \/ UNCHANGED vars
  PROVE  Confinement'
<1> USE DEF Confinement, IInv, Stages, Saved, AppState
<1>1. CASE ChildKilled
  BY ZenonT(30), <1>1, ChildExitsKeeps DEF ChildKilled
<1>2. CASE NetworkMain BY <1>2 DEF NetworkMain
<1>3. CASE ProxyEnds BY <1>3 DEF ProxyEnds, ParentDead
<1>4. CASE UNCHANGED vars BY <1>4 DEF vars
<1>5. QED BY Zenon, <1>1, <1>2, <1>3, <1>4

\* Every step of the parent keeps the locks and handlers.
LEMMA ParentNextEnding ==
  ASSUME IInv, ParentNext
  PROVE  Ending'
<1> USE DEF Ending, IInv, Locks, Handlers
<1>1. CASE CheckNetwork BY <1>1 DEF CheckNetwork, Handshake, Options
<1>2. CASE SetNameRunFile BY <1>2 DEF SetNameRunFile
<1>3. CASE DbusProxyStart BY <1>3 DEF DbusProxyStart
<1>4. CASE Clone BY <1>4 DEF Clone, Handshake, Options
<1>5. CASE WritePidFile BY <1>5 DEF WritePidFile
<1>6. CASE LockPidFile BY <1>6 DEF LockPidFile
<1>7. CASE ForkNetChild
  <2>1. netlock \subseteq netlock' BY <1>7 DEF ForkNetChild
  <2>2. QED BY <1>7, <2>1 DEF ForkNetChild
<1>8. CASE WaitNetChild BY <1>8 DEF WaitNetChild
<1>9. CASE NotifyBaseSetup
  <2>1. CASE ChildDead
    <3>1. ParentEnds("killed") /\ p2c' = p2c BY <1>9, <2>1 DEF NotifyBaseSetup, NotifyChild
    <3>2. QED BY <1>9, <3>1, ParentEndsKeeps DEF NotifyBaseSetup, NotifyChild, ParentDead
  <2>2. CASE ~ChildDead BY <1>9, <2>2 DEF NotifyBaseSetup, NotifyChild, Message, ChildDead
  <2>3. QED BY <2>1, <2>2
<1>10. CASE WaitForUserNamespace
  BY <1>10 DEF WaitForUserNamespace, WithNoroot, EofForParent, ChildDead,
      Handshake, Options
<1>11. CASE WaitDeadPeer BY <1>11 DEF WaitDeadPeer
<1>12. CASE UpdateMap("uidmap", "uidmap", "gidmap")
  BY <1>12 DEF UpdateMap, ChildAlive, ChildDead
<1>13. CASE UpdateMap("gidmap", "gidmap", "notify2")
  BY <1>13 DEF UpdateMap, ChildAlive, ChildDead
<1>14. CASE NotifyMapped
  <2>1. CASE ChildDead
    <3>1. ParentEnds("killed") /\ p2c' = p2c BY <1>14, <2>1 DEF NotifyMapped, NotifyChild
    <3>2. QED BY <1>14, <3>1, ParentEndsKeeps DEF NotifyMapped, NotifyChild, ParentDead
  <2>2. CASE ~ChildDead BY <1>14, <2>2 DEF NotifyMapped, NotifyChild, Message, ChildDead
  <2>3. QED BY <2>1, <2>2
<1>15. CASE UnlockNetwork BY <1>15 DEF UnlockNetwork, Handshake
<1>16. CASE Catch("catchINT", "INT", "catchTERM") BY <1>16 DEF Catch
<1>17. CASE Catch("catchTERM", "TERM", "wait") BY <1>17 DEF Catch
<1>18. CASE WaitChild BY <1>18 DEF WaitChild, Handshake
<1>19. CASE RestoreDefault("dflTERM", "TERM", "dflINT")
  BY <1>19 DEF RestoreDefault, Signals
<1>20. CASE RestoreDefault("dflINT", "INT", "release")
  <2>1. pcaught' = {} BY <1>20 DEF RestoreDefault, TypeOK, Signals
  <2>2. QED BY <1>20, <2>1 DEF RestoreDefault
<1>21. CASE HandlerCheck BY <1>21 DEF HandlerCheck, ChildAlive, ChildDead, Handshake
<1>22. CASE HandlerLooksAtChild
  BY <1>22 DEF HandlerLooksAtChild, ChildAlive, ChildDead
<1>23. CASE HandlerSignals
  BY <1>23 DEF HandlerSignals, SentToChild, ChildAlive, ChildDead
<1>24. CASE HandlerWaits BY <1>24 DEF HandlerWaits
<1>25. CASE ReleaseSandboxLock BY <1>25 DEF ReleaseSandboxLock
<1>26. CASE StopProxy BY <1>26 DEF StopProxy
<1>27. CASE ReapProxy BY <1>27 DEF ReapProxy
<1>28. CASE DeleteRunFiles
  BY <1>28, ParentEndsKeeps DEF DeleteRunFiles, ParentDead
<1>29. ASSUME NEW s \in Signals, EnterHandler(s) PROVE Ending'
  <2>1. pcaught # {} BY <1>29 DEF EnterHandler
  <2>2. QED BY <1>29, <2>1 DEF EnterHandler, ParentDead, Signals
<1>30. QED BY ZenonT(30), <1>1, <1>2, <1>3, <1>4, <1>5, <1>6, <1>7, <1>8, <1>9, <1>10, <1>11,
    <1>12, <1>13, <1>14, <1>15, <1>16, <1>17, <1>18, <1>19, <1>20, <1>21, <1>22,
    <1>23, <1>24, <1>25, <1>26, <1>27, <1>28, <1>29 DEF ParentNext

\* Every step of the child keeps the locks and handlers.
LEMMA ChildNextEnding ==
  ASSUME IInv, ChildNext
  PROVE  Ending'
<1> USE DEF Ending, IInv, Locks, Handlers
<1>1. CASE WaitForParent("wait1", "mount")
  <2>1. CASE p2c # <<>> /\ ~ChildExits
    BY <1>1, <2>1 DEF WaitForParent, WithNoroot, EofForChild
  <2>2. CASE ChildExits
    BY <1>1, <2>2, ChildExitsKeeps DEF WaitForParent, ChildAlive, ChildDead
  <2>3. QED BY <1>1, <2>1, <2>2 DEF WaitForParent, EofForChild
<1>2. CASE MountNamespace BY <1>2 DEF MountNamespace, Stage
<1>3. CASE ConfigureNetwork
  <2>1. CASE Stage("network", force \cup {"net"}, "enforce") BY <2>1 DEF Stage
  <2>2. CASE cpc = "network" /\ ChildExits
    BY <2>2, ChildExitsKeeps DEF ChildAlive, ChildDead
  <2>3. QED BY <1>3, <2>1, <2>2 DEF ConfigureNetwork
<1>4. CASE EnforceFilters BY <1>4 DEF EnforceFilters, Handshake
<1>5. CASE ConfigureFilesystem BY <1>5 DEF ConfigureFilesystem, Stage
<1>6. CASE SaveState BY <1>6 DEF SaveState
<1>7. CASE LoadFilters BY <1>7 DEF LoadFilters
<1>8. CASE DropCaps BY <1>8 DEF DropCaps, Stage, SetCaps
<1>9. CASE CreateJoinFile BY <1>9 DEF CreateJoinFile
<1>10. CASE UnshareUser BY <1>10 DEF UnshareUser
<1>11. CASE NotifyParent BY <1>11 DEF NotifyParent, Message, ParentDead
<1>12. CASE WaitForParent("wait2", "recaps")
  <2>1. CASE p2c # <<>> /\ ~ChildExits
    BY <1>12, <2>1 DEF WaitForParent, WithNoroot, EofForChild
  <2>2. CASE ChildExits
    BY <1>12, <2>2, ChildExitsKeeps DEF WaitForParent, ChildAlive, ChildDead
  <2>3. QED BY <1>12, <2>1, <2>2 DEF WaitForParent, EofForChild
<1>13. CASE DropCapsAgain BY <1>13 DEF DropCapsAgain, Stage, SetCaps
<1>14. CASE SetNoNewPrivs BY <1>14 DEF SetNoNewPrivs, Stage
<1>15. CASE DropPrivs BY <1>15 DEF DropPrivs, Stage
<1>16. CASE SetParentDeathSignal BY <1>16 DEF SetParentDeathSignal, Stage
<1>17. CASE ForkApp BY <1>17 DEF ForkApp
<1>18. CASE InstallSandboxHandler BY <1>18 DEF InstallSandboxHandler
<1>19. CASE MonitorReturns
  BY <1>19, ChildExitsKeeps DEF MonitorReturns, ChildAlive, ChildDead
<1>20. CASE RunSandboxHandler BY <1>20 DEF RunSandboxHandler
<1>21. CASE SandboxHandlerKills BY <1>21 DEF SandboxHandlerKills
<1>22. CASE SandboxHandlerExits
  BY <1>22, ChildExitsKeeps DEF SandboxHandlerExits, ChildAlive, ChildDead
<1>23. QED BY ZenonT(30), <1>1, <1>2, <1>3, <1>4, <1>5, <1>6, <1>7, <1>8, <1>9, <1>10, <1>11,
    <1>12, <1>13, <1>14, <1>15, <1>16, <1>17, <1>18, <1>19, <1>20, <1>21, <1>22 DEF
    ChildNext

\* Every step of the app keeps the locks and handlers.
LEMMA AppNextEnding ==
  ASSUME IInv, AppNext
  PROVE  Ending'
<1> USE DEF Ending, IInv, Locks, Handlers
<1>1. CASE PrepareApp BY <1>1 DEF PrepareApp, AppStep
<1>2. CASE InstallFilters BY <1>2 DEF InstallFilters, AppStep
<1>3. CASE MarkSandboxDone BY <1>3 DEF MarkSandboxDone
<1>4. CASE ExecApp BY <1>4 DEF ExecApp, AppStep
<1>5. QED BY <1>1, <1>2, <1>3, <1>4 DEF AppNext

\* Every step of the environment keeps the locks and handlers.
LEMMA EnvironmentEnding ==
  ASSUME IInv, Environment
  PROVE  Ending'
<1> USE DEF Ending, IInv, Locks, Handlers
<1>1. CASE ParentFails BY <1>1 DEF ParentFails
<1>2. CASE ParentKilled
  BY <1>2, ParentEndsKeeps DEF ParentKilled
<1>3. CASE ChildFails
  BY <1>3, ChildExitsKeeps DEF ChildFails, ChildAlive, ChildDead
<1>4. CASE AppExits BY <1>4 DEF AppExits, AppAlive
<1>5. ASSUME NEW s \in Signals, SignalParent(s) PROVE Ending'
  BY <1>5 DEF SignalParent
<1>6. ASSUME NEW s \in Signals \cup {"KILL"}, SignalChild(s) PROVE Ending'
  BY <1>6 DEF SignalChild
<1>7. QED BY ZenonT(30), <1>1, <1>2, <1>3, <1>4, <1>5, <1>6 DEF Environment

\* Every step of the other processes, or of none, keeps the locks and handlers.
LEMMA OthersEnding ==
  ASSUME IInv, ChildKilled \/ NetworkMain \/ ProxyEnds \/ UNCHANGED vars
  PROVE  Ending'
<1> USE DEF Ending, IInv, Locks, Handlers
<1>1. CASE ChildKilled
  BY <1>1, ChildExitsKeeps DEF ChildKilled
<1>2. CASE NetworkMain BY <1>2 DEF NetworkMain, Handshake
<1>3. CASE ProxyEnds BY <1>3 DEF ProxyEnds, ParentDead
<1>4. CASE UNCHANGED vars BY <1>4 DEF vars
<1>5. QED BY <1>1, <1>2, <1>3, <1>4

\* IInv is an invariant of the specification.
THEOREM Invariance == Spec => []IInv
<1>1. Init => IInv BY InitIInv
<1>2. IInv /\ [Next]_vars => IInv'
  <2> SUFFICES ASSUME IInv, [Next]_vars PROVE IInv' OBVIOUS
  <2> USE DEF IInv, Control, Confinement, Ending
  <2>1. CASE ParentNext
    BY <2>1, ParentNextTypes, ParentNextControl, ParentNextConfinement, ParentNextEnding
  <2>2. CASE ChildNext
    BY <2>2, ChildNextTypes, ChildNextControl, ChildNextConfinement, ChildNextEnding
  <2>3. CASE AppNext
    BY <2>3, AppNextTypes, AppNextControl, AppNextConfinement, AppNextEnding
  <2>4. CASE Environment
    BY <2>4, EnvironmentTypes, EnvironmentControl, EnvironmentConfinement, EnvironmentEnding
  <2>5. CASE ChildKilled \/ NetworkMain \/ ProxyEnds \/ UNCHANGED vars
    BY <2>5, OthersTypes, OthersControl, OthersConfinement, OthersEnding
  <2>6. QED BY <2>1, <2>2, <2>3, <2>4, <2>5 DEF Next, Terminated
<1>3. QED BY <1>1, <1>2, PTL DEF Spec

\* Type correctness, for every set of options.
THEOREM TypeCorrect == Spec => []TypeOK
<1>1. IInv => TypeOK BY DEF IInv
<1>2. QED BY <1>1, Invariance, PTL

\* The invariant is strong enough for the confinement of a running program.
LEMMA ConfinedByInv == IInv => AppConfined
<1> SUFFICES ASSUME IInv, apc = "running"
             PROVE  /\ Promised(asked) \subseteq aforce
                    /\ "userns" \in aforce => {"uidmap", "gidmap"} \subseteq aforce
  BY DEF AppConfined
<1> USE DEF IInv, Options, AppState
<1>1. asked \ {"noroot"} \subseteq carg /\ (Container(asked) => Enforced \subseteq carg)
  OBVIOUS
<1>2. {"mountns", "fs", "net", "dropped"} \subseteq aforce OBVIOUS
<1>3. "caps" \in asked \/ Container(asked) => "caps" \in aforce BY <1>1
<1>4. "nonewprivs" \in asked \/ Container(asked) => "nnp" \in aforce BY <1>1
<1>5. asked \cap Filters # {} => "nnp" \in aforce BY <1>1 DEF Filters
<1>6. "kseccomp" \in asked => asked \cap Filters \subseteq aforce BY <1>1 DEF Filters
<1>7. QED BY <1>2, <1>3, <1>4, <1>5, <1>6 DEF Promised

\* The user's program only ever runs with everything its options promise in
\* force.
THEOREM AppIsConfined == Spec => []AppConfined
  BY ConfinedByInv, Invariance, PTL

\* The invariant is strong enough for what the join byte stands for.
LEMMA ReadyByInv == IInv => JoinByteMeansReady
<1> SUFFICES ASSUME IInv, "done" \in disk
             PROVE  /\ Promised(asked) \subseteq aforce
                    /\ {"join", "umask"}
                         \cup (asked \cap (Filters \cup {"nonewprivs", "nogroups"}))
                           \subseteq disk
                    /\ Container(asked) => {"nonewprivs", "nogroups"} \subseteq disk
  BY DEF JoinByteMeansReady
<1> USE DEF IInv, Options, Saved, AppState
<1>1. asked \ {"noroot"} \subseteq carg /\ (Container(asked) => Enforced \subseteq carg)
  OBVIOUS
<1>2. {"mountns", "fs", "net", "dropped"} \subseteq aforce OBVIOUS
<1>3. "caps" \in asked \/ Container(asked) => "caps" \in aforce BY <1>1
<1>4. "nonewprivs" \in asked \/ Container(asked) => "nnp" \in aforce BY <1>1
<1>5. asked \cap Filters # {} => "nnp" \in aforce BY <1>1 DEF Filters
<1>6. "kseccomp" \in asked => asked \cap Filters \subseteq aforce BY <1>1 DEF Filters
<1>7. Promised(asked) \subseteq aforce BY <1>2, <1>3, <1>4, <1>5, <1>6 DEF Promised
<1>8. {"join", "umask"} \cup (asked \cap (Filters \cup {"nonewprivs", "nogroups"}))
        \subseteq disk
  BY <1>1 DEF Filters
<1>9. Container(asked) => {"nonewprivs", "nogroups"} \subseteq disk BY <1>1
<1>10. QED BY <1>7, <1>8, <1>9

\* A process that finds the join byte set finds an app confined as promised,
\* and everything it needs to confine itself the same way.
THEOREM JoinByteIsReady == Spec => []JoinByteMeansReady
  BY ReadyByInv, Invariance, PTL

\* Parent and child agree on the user namespace after the child's message.
THEOREM NorootIsAgreed == Spec => []NorootAgreed
<1>1. IInv => NorootAgreed 
  BY DEF IInv, TypeOK, UserNamespace, NorootAgreed, ChildAlive, ChildDead, ChildPC
<1>2. QED BY <1>1, Invariance, PTL

\* There is never a second message in a pipe.
THEOREM NoMessageIsLost == Spec => []NoMessageLost
<1>1. Len(<<>>) <= 1 /\ Len(<<0>>) <= 1 /\ Len(<<1>>) <= 1 OBVIOUS
<1>2. IInv => NoMessageLost
  <2> SUFFICES ASSUME IInv PROVE NoMessageLost OBVIOUS
  <2>1. p2c \in {<<>>, <<0>>, <<1>>} /\ c2p \in {<<>>, <<0>>, <<1>>} BY DEF IInv, Handshake
  <2>2. QED BY Zenon, <2>1, <1>1 DEF NoMessageLost
<1>3. QED BY <1>2, Invariance, PTL

\* The addresses are configured under the network lock.
THEOREM NetworkIsLocked == Spec => []NetworkConfiguredLocked
<1>1. IInv => NetworkConfiguredLocked BY DEF IInv, Locks, NetworkConfiguredLocked
<1>2. QED BY <1>1, Invariance, PTL

\* my_handler() never signals a pid that was given back, and the pid file is
\* released once, after the end of the sandbox.
THEOREM EndIsOrderly == Spec => [](NoStrayKill /\ ReleasedOnceAndLast)
<1>1. IInv => NoStrayKill /\ ReleasedOnceAndLast
  BY DEF IInv, Locks, Handlers, NoStrayKill, ReleasedOnceAndLast
<1>2. QED BY <1>1, Invariance, PTL

\* Everything the processes of a sandbox rely on between them holds.
THEOREM ProcessesCoordinated == Spec => []Coordinated
  BY JoinByteIsReady, NorootIsAgreed, NoMessageIsLost, NetworkIsLocked, EndIsOrderly, PTL
     DEF Coordinated
=============================================================================
