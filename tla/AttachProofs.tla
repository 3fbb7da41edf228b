---------------------------- MODULE AttachProofs ----------------------------
(***************************************************************************)
(* What holds for a second firejail process beside a sandbox, for every    *)
(* set of options and commands.  The sandbox does not notice it: each step *)
(* of the two is a step of Sandbox or none, so everything proved there     *)
(* holds here.  And a program that --join starts is confined like the app, *)
(* by an invariant that says what has been read and put in force at each   *)
(* point of join(), and that nothing read there changes after the join     *)
(* byte has been set.                                                      *)
(***************************************************************************)
EXTENDS Attach, SandboxProofs

----------------------------------------------------------------------------
(* The sandbox, seen from outside *)

\* What the app may have in force beyond the child: filters, and the
\* NO_NEW_PRIVS that goes with them.
Added ==
  (IF carg \cap Filters # {} THEN {"nnp"} ELSE {})
  \cup (IF "kseccomp" \in carg THEN carg \cap Filters ELSE {})

\* The app has nothing else in force that the child has not.
AppBound ==
  /\ force \cap Filters = {}
  /\ force \cap {"uidmap", "gidmap"} # {} => "userns" \in force
  /\ apc # "none" => aforce \subseteq (force \ {"pdeath"}) \cup Added

\* Once the join byte is set, nothing --join relies on changes any more, and
\* a process that has ended does not come back.
Settled ==
  /\ "done" \in disk => UNCHANGED <<asked, carg, force, aforce, disk>>
  /\ cpc \in Gone => cpc' \in Gone

----------------------------------------------------------------------------
(* The process of --join *)

\* Where join() is after each of its steps.
AfterFilters == {"exec", "running"}
AfterDrop == {"filters"} \cup AfterFilters
AfterNnp == {"drop"} \cup AfterDrop
AfterUser == {"nnp"} \cup AfterNnp
AfterCaps == {"joinuser"} \cup AfterUser
AfterChroot == {"capsset"} \cup AfterCaps
AfterSetns == {"fork", "chroot"} \cup AfterChroot
AfterUmask == {"setns"} \cup AfterSetns
AfterUserns == {"umask"} \cup AfterUmask
AfterGroups == {"userns"} \cup AfterUserns
AfterStatus == {"groups"} \cup AfterGroups
AfterByte == {"nnpfile", "status"} \cup AfterStatus

\* What has been read so far.  The files of a process that has ended look
\* empty, but then the umask file does too, and that is an error.
HasRead ==
  /\ jpc \in AfterByte => "done" \in disk
  /\ jpc \in AfterStatus => /\ "caps" \in force => "caps" \in jarg
                            /\ "nnp" \in force => "nonewprivs" \in jarg
  /\ jpc \in AfterGroups =>
       carg \cap {"nogroups"} \subseteq jarg \/ (jpc \notin AfterUmask /\ cpc \in Gone)
  /\ jpc \in AfterUserns => ("userns" \in force => "noroot" \in jarg)
  /\ jpc \in AfterChroot => carg \cap Filters \subseteq queued

\* What is in force so far.
HasEntered ==
  /\ jpc \in AfterSetns => {"net", "mountns"} \subseteq jforce
  /\ jpc \in AfterChroot => "fs" \in jforce
  /\ jpc \in AfterCaps => jarg \cap {"caps"} \subseteq jforce
  /\ jpc \in AfterUser => ("noroot" \in jarg => {"userns", "uidmap", "gidmap"} \subseteq jforce)
  /\ jpc \in AfterNnp => ("nonewprivs" \in jarg => "nnp" \in jforce)
  /\ jpc \in AfterDrop => "dropped" \in jforce
  /\ jpc \in AfterFilters => /\ queued # {} => "nnp" \in jforce
                             /\ "kseccomp" \in asked => queued \subseteq jforce

\* The invariant: nothing is claimed of the second process while it looks for
\* the sandbox, in shut(), or at its end.
JInv == AppBound /\ (cmd = "join" => HasRead /\ HasEntered)


----------------------------------------------------------------------------
(* Steps of the sandbox *)

USE DEF cvars, nvars, avars, pipes, pvars, runvars, Mapping, Middle, Prefork, Postfork,
        Late, Gone, ParentDead, ChildDead, ChildAlive

\* No step of the parent gives the app more, or changes what --join relies on.
LEMMA ParentSettled ==
  ASSUME IInv, AppBound, ParentNext
  PROVE  AppBound' /\ Settled
<1> USE DEF AppBound, Added, Settled, IInv, Saved, AppState
<1>1. CASE CheckNetwork BY <1>1 DEF CheckNetwork
<1>2. CASE SetNameRunFile BY <1>2 DEF SetNameRunFile
<1>3. CASE DbusProxyStart BY <1>3 DEF DbusProxyStart
<1>4. CASE Clone BY <1>4 DEF Clone, Handshake, BeforeClone
<1>5. CASE WritePidFile BY <1>5 DEF WritePidFile
<1>6. CASE LockPidFile BY <1>6 DEF LockPidFile
<1>7. CASE ForkNetChild BY <1>7 DEF ForkNetChild
<1>8. CASE WaitNetChild BY <1>8 DEF WaitNetChild
<1>9. CASE NotifyBaseSetup BY <1>9 DEF NotifyBaseSetup, NotifyChild, ParentEnds
<1>10. CASE WaitForUserNamespace BY <1>10 DEF WaitForUserNamespace
<1>11. CASE WaitDeadPeer BY <1>11 DEF WaitDeadPeer
<1>12. CASE UpdateMap("uidmap", "uidmap", "gidmap") BY <1>12 DEF UpdateMap, Handshake, Filters
<1>13. CASE UpdateMap("gidmap", "gidmap", "notify2") BY <1>13 DEF UpdateMap, Handshake, Filters
<1>14. CASE NotifyMapped BY <1>14 DEF NotifyMapped, NotifyChild, ParentEnds
<1>15. CASE UnlockNetwork BY <1>15 DEF UnlockNetwork
<1>16. CASE Catch("catchINT", "INT", "catchTERM") BY <1>16 DEF Catch
<1>17. CASE Catch("catchTERM", "TERM", "wait") BY <1>17 DEF Catch
<1>18. CASE WaitChild BY <1>18 DEF WaitChild
<1>19. CASE RestoreDefault("dflTERM", "TERM", "dflINT") BY <1>19 DEF RestoreDefault
<1>20. CASE RestoreDefault("dflINT", "INT", "release") BY <1>20 DEF RestoreDefault
<1>21. CASE HandlerCheck BY <1>21 DEF HandlerCheck
<1>22. CASE HandlerLooksAtChild BY <1>22 DEF HandlerLooksAtChild
<1>23. CASE HandlerSignals BY <1>23 DEF HandlerSignals
<1>24. CASE HandlerWaits BY <1>24 DEF HandlerWaits
<1>25. CASE ReleaseSandboxLock BY <1>25 DEF ReleaseSandboxLock
<1>26. CASE StopProxy BY <1>26 DEF StopProxy
<1>27. CASE ReapProxy BY <1>27 DEF ReapProxy
<1>28. CASE DeleteRunFiles BY <1>28 DEF DeleteRunFiles, ParentEnds
<1>29. ASSUME NEW s \in Signals, EnterHandler(s) PROVE AppBound' /\ Settled BY <1>29 DEF EnterHandler
<1>30. QED BY ZenonT(30), <1>1, <1>2, <1>3, <1>4, <1>5, <1>6, <1>7, <1>8, <1>9, <1>10, <1>11, <1>12, <1>13,
    <1>14, <1>15, <1>16, <1>17, <1>18, <1>19, <1>20, <1>21, <1>22, <1>23, <1>24,
    <1>25, <1>26, <1>27, <1>28, <1>29 DEF ParentNext

\* Nor does a step of the child: after the fork its own confinement is fixed.
LEMMA ChildSettled ==
  ASSUME IInv, AppBound, ChildNext
  PROVE  AppBound' /\ Settled
<1> USE DEF AppBound, Added, Settled, IInv, Saved, AppState
<1>1. CASE WaitForParent("wait1", "mount") BY <1>1 DEF WaitForParent, ChildExits, ChildEnds
<1>2. CASE MountNamespace BY <1>2 DEF MountNamespace, Stage, Filters
<1>3. CASE ConfigureNetwork BY <1>3 DEF ConfigureNetwork, Stage, Filters, ChildExits, ChildEnds
<1>4. CASE EnforceFilters BY <1>4 DEF EnforceFilters
<1>5. CASE ConfigureFilesystem BY <1>5 DEF ConfigureFilesystem, Stage, Filters
<1>6. CASE SaveState BY <1>6 DEF SaveState
<1>7. CASE LoadFilters BY <1>7 DEF LoadFilters
<1>8. CASE DropCaps BY <1>8 DEF DropCaps, Stage, SetCaps, Filters
<1>9. CASE CreateJoinFile BY <1>9 DEF CreateJoinFile
<1>10. CASE UnshareUser BY <1>10 DEF UnshareUser, UserNamespace, Filters
<1>11. CASE NotifyParent BY <1>11 DEF NotifyParent
<1>12. CASE WaitForParent("wait2", "recaps") BY <1>12 DEF WaitForParent, ChildExits, ChildEnds
<1>13. CASE DropCapsAgain BY <1>13 DEF DropCapsAgain, Stage, SetCaps, Filters
<1>14. CASE SetNoNewPrivs BY <1>14 DEF SetNoNewPrivs, Stage, Filters
<1>15. CASE DropPrivs BY <1>15 DEF DropPrivs, Stage, Filters
<1>16. CASE SetParentDeathSignal BY <1>16 DEF SetParentDeathSignal, Stage, Filters
<1>17. CASE ForkApp BY <1>17 DEF ForkApp
<1>18. CASE InstallSandboxHandler BY <1>18 DEF InstallSandboxHandler
<1>19. CASE MonitorReturns BY <1>19 DEF MonitorReturns, ChildExits, ChildEnds
<1>20. CASE RunSandboxHandler BY <1>20 DEF RunSandboxHandler
<1>21. CASE SandboxHandlerKills BY <1>21 DEF SandboxHandlerKills
<1>22. CASE SandboxHandlerExits BY <1>22 DEF SandboxHandlerExits, ChildExits, ChildEnds
<1>23. QED BY ZenonT(30), <1>1, <1>2, <1>3, <1>4, <1>5, <1>6, <1>7, <1>8, <1>9, <1>10, <1>11, <1>12, <1>13,
    <1>14, <1>15, <1>16, <1>17, <1>18, <1>19, <1>20, <1>21, <1>22 DEF ChildNext

\* The app adds its filters before it sets the join byte.
LEMMA AppSettled ==
  ASSUME IInv, AppBound, AppNext
  PROVE  AppBound' /\ Settled
<1> USE DEF AppBound, Added, Settled, IInv, Saved, AppState
<1>1. CASE PrepareApp BY <1>1 DEF PrepareApp, AppStep
<1>2. CASE InstallFilters BY <1>2 DEF InstallFilters, AppStep
<1>3. CASE MarkSandboxDone BY <1>3 DEF MarkSandboxDone
<1>4. CASE ExecApp BY <1>4 DEF ExecApp, AppStep
<1>5. QED BY <1>1, <1>2, <1>3, <1>4 DEF AppNext

\* Failures and signals change nothing of it.
LEMMA EnvironmentSettled ==
  ASSUME IInv, AppBound, Environment
  PROVE  AppBound' /\ Settled
<1> USE DEF AppBound, Added, Settled, IInv, Saved, AppState
<1>1. CASE ParentFails BY <1>1 DEF ParentFails
<1>2. CASE ParentKilled BY <1>2 DEF ParentKilled, ParentEnds
<1>3. CASE ChildFails BY <1>3 DEF ChildFails, ChildExits, ChildEnds
<1>4. CASE AppExits BY <1>4 DEF AppExits, AppAlive
<1>5. ASSUME NEW s \in Signals, SignalParent(s) PROVE AppBound' /\ Settled BY <1>5 DEF SignalParent
<1>6. ASSUME NEW s \in Signals \cup {"KILL"}, SignalChild(s) PROVE AppBound' /\ Settled BY <1>6 DEF SignalChild
<1>7. QED BY <1>1, <1>2, <1>3, <1>4, <1>5, <1>6 DEF Environment

\* Nor do the other processes.
LEMMA OthersSettled ==
  ASSUME IInv, AppBound, ChildKilled \/ NetworkMain \/ ProxyEnds \/ UNCHANGED vars
  PROVE  AppBound' /\ Settled
<1> USE DEF AppBound, Added, Settled, IInv, Saved, AppState
<1>1. CASE ChildKilled BY <1>1 DEF ChildKilled, ChildExits, ChildEnds
<1>2. CASE NetworkMain BY <1>2 DEF NetworkMain
<1>3. CASE ProxyEnds BY <1>3 DEF ProxyEnds
<1>4. CASE UNCHANGED vars BY <1>4 DEF vars
<1>5. QED BY <1>1, <1>2, <1>3, <1>4

\* So no step of the sandbox does.
LEMMA SandboxSettled ==
  ASSUME IInv, AppBound, [Next]_vars
  PROVE  AppBound' /\ Settled
BY ParentSettled, ChildSettled, AppSettled, EnvironmentSettled, OthersSettled
   DEF Next, Terminated

----------------------------------------------------------------------------
(* Steps of the two together *)

USE DEF AfterByte, AfterStatus, AfterGroups, AfterUserns, AfterUmask, AfterSetns,
        AfterChroot, AfterCaps, AfterUser, AfterNnp, AfterDrop, AfterFilters

\* A step of the second process that leaves the sandbox alone is none of the
\* sandbox; a signal it sends is one the sandbox expects from anybody.
LEMMA AttachIsOutside ==
  ASSUME AttachNext
  PROVE  [Next]_vars
<1> USE DEF Keep, GivesUp, CheckStep, Extract, Enter
<1>1. CASE Beside(Next) BY <1>1 DEF Beside
<1>2. CASE PinParent \/ CheckParent \/ ReadPidFile \/ PinChild \/ CheckJoinable
  BY <1>2 DEF PinParent, CheckParent, ReadPidFile, PinChild, CheckJoinable
<1>3. CASE ExtractNonewprivs \/ ExtractCaps \/ ExtractNogroups \/ ExtractUserNamespace
           \/ ExtractUmask
  BY <1>3 DEF ExtractNonewprivs, ExtractCaps, ExtractNogroups, ExtractUserNamespace,
              ExtractUmask
<1>4. CASE JoinNamespaces \/ ForkJoined \/ ChangeRoot \/ SetJoinCaps \/ JoinUserNamespace
  BY <1>4 DEF JoinNamespaces, ForkJoined, ChangeRoot, SetJoinCaps, JoinUserNamespace
<1>5. CASE JoinNoNewPrivs \/ JoinDropPrivs \/ JoinFilters \/ JoinExec \/ JoinedExits
  BY <1>5 DEF JoinNoNewPrivs, JoinDropPrivs, JoinFilters, JoinExec, JoinedExits
<1>6. CASE ShutWatch BY <1>6 DEF ShutWatch
<1>7. CASE ShutTerm \/ ShutKill
  <2> SUFFICES ASSUME NEW s \in Signals \cup {"KILL"}, csig' = SentToChild(s),
                      UNCHANGED <<asked, pvars, carg, cpc, ccaught, force, nvars, avars,
                                  pipes, runvars, disk, proxy, orphan>>
               PROVE  [Next]_vars
    BY <1>7 DEF ShutTerm, ShutKill, Signals
  <2>1. CASE ChildAlive
    <3>1. SignalChild(s) BY <2>1 DEF SignalChild
    <3>2. QED BY <3>1 DEF Next, Environment
  <2>2. CASE ~ChildAlive BY <2>2 DEF SentToChild, vars
  <2>3. QED BY <2>1, <2>2
<1>8. QED BY <1>1, <1>2, <1>3, <1>4, <1>5, <1>6, <1>7 DEF AttachNext, AttachSteps

\* A step of the sandbox leaves alone what a joining process has read and put
\* in force, and ends it when the first process ends.
LEMMA BesideKeeps ==
  ASSUME IInv, JInv, Beside(Next)
  PROVE  JInv'
<1>1. AppBound' /\ Settled BY SandboxSettled DEF Beside, JInv
<1>2. jpc' \in {jpc, "done"} /\ UNCHANGED <<cmd, jarg, jforce, queued>> BY DEF Beside
<1>3. CASE cmd # "join" BY <1>1, <1>2, <1>3 DEF JInv
<1>4. CASE jpc' \notin AfterByte
  <2>1. HasRead' /\ HasEntered' BY <1>4 DEF HasRead, HasEntered
  <2>2. QED BY <1>1, <2>1 DEF JInv
<1>5. CASE cmd = "join" /\ jpc' \in AfterByte
  <2>1. jpc' = jpc /\ "done" \in disk BY <1>2, <1>5 DEF JInv, HasRead
  <2>2. UNCHANGED <<asked, carg, force, aforce, disk>> BY <1>1, <2>1 DEF Settled
  <2>3. HasRead' BY <1>1, <1>2, <1>5, <2>1, <2>2 DEF JInv, HasRead, Settled
  <2>4. HasEntered' BY <1>2, <1>5, <2>1, <2>2 DEF JInv, HasEntered
  <2>5. QED BY <1>1, <2>3, <2>4 DEF JInv
<1>6. QED BY <1>3, <1>4, <1>5

\* Each step of join() reads or puts in force what its successors count on.
LEMMA JoinKeeps ==
  ASSUME IInv, JInv, AttachSteps \/ JoinedExits
  PROVE  JInv'
<1>1. AppBound'
  <2>1. AttachNext BY DEF AttachNext
  <2>2. QED BY <2>1, AttachIsOutside, SandboxSettled DEF JInv
<1>2. SUFFICES ASSUME cmd = "join" PROVE HasRead' /\ HasEntered'
  <2>1. cmd' = cmd
    BY DEF AttachSteps, PinParent, CheckParent, ReadPidFile, PinChild, CheckJoinable,
       ExtractNonewprivs, ExtractCaps, ExtractNogroups, ExtractUserNamespace, ExtractUmask,
       JoinNamespaces, ForkJoined, ChangeRoot, SetJoinCaps, JoinUserNamespace,
       JoinNoNewPrivs, JoinDropPrivs, JoinFilters, JoinExec, JoinedExits, ShutWatch,
       ShutTerm, ShutKill, Keep, GivesUp, CheckStep, Extract, Enter
  <2>2. QED BY <1>1, <1>2, <2>1 DEF JInv
<1> USE <1>2 DEF JInv, HasRead, HasEntered, JGoto, Keep, vars
<1>3. CASE jpc' \notin AfterByte BY <1>3
<1>4. CASE CheckJoinable BY <1>4 DEF CheckJoinable, HasJoinFile, GivesUp
<1>5. CASE ExtractNonewprivs BY <1>5 DEF ExtractNonewprivs, Extract
<1>6. CASE ExtractCaps BY <1>6 DEF ExtractCaps, Extract, GivesUp
<1>7. CASE ExtractNogroups
  <2>1. "done" \in disk /\ jpc = "groups" BY <1>7 DEF ExtractNogroups, Extract
  <2>2. (cpc \in Gone \/ ChildAlive) /\ carg \cap {"nogroups"} \subseteq disk
    BY <2>1 DEF IInv, Saved, AppState
  <2>3. QED BY <1>7, <2>2 DEF ExtractNogroups, Extract
<1>8. CASE ExtractUserNamespace BY <1>8 DEF ExtractUserNamespace, Extract, GivesUp
<1>9. CASE ExtractUmask BY <1>9 DEF ExtractUmask, CheckStep, GivesUp
<1>10. CASE JoinNamespaces BY <1>10 DEF JoinNamespaces, Enter, GivesUp
<1>11. CASE ForkJoined BY <1>11 DEF ForkJoined, CheckStep, GivesUp
<1>12. CASE ChangeRoot
  <2>1. "done" \in disk /\ jpc = "chroot" BY <1>12 DEF ChangeRoot
  <2>2. carg \cap Filters \subseteq disk BY <2>1 DEF IInv, Saved, AppState
  <2>3. QED BY <1>12, <2>2 DEF ChangeRoot, GivesUp
<1>13. CASE SetJoinCaps BY <1>13 DEF SetJoinCaps, Enter
<1>14. CASE JoinUserNamespace BY <1>14 DEF JoinUserNamespace, Enter
<1>15. CASE JoinNoNewPrivs BY <1>15 DEF JoinNoNewPrivs, Enter
<1>16. CASE JoinDropPrivs BY <1>16 DEF JoinDropPrivs, Enter
<1>17. CASE JoinFilters BY <1>17 DEF JoinFilters, Enter
<1>18. CASE JoinExec BY <1>18 DEF JoinExec, Enter
<1>19. CASE PinParent \/ CheckParent \/ ReadPidFile \/ PinChild \/ ShutTerm \/ ShutWatch
            \/ ShutKill \/ JoinedExits
  BY Zenon, <1>3, <1>19 DEF PinParent, CheckParent, ReadPidFile, PinChild, CheckStep, ShutTerm,
     ShutWatch, ShutKill, JoinedExits, GivesUp
<1>20. QED BY Zenon, <1>4, <1>5, <1>6, <1>7, <1>8, <1>9, <1>10, <1>11, <1>12, <1>13, <1>14,
    <1>15, <1>16, <1>17, <1>18, <1>19 DEF AttachSteps

\* A second process that shares nothing but signals with the sandbox leaves it
\* a sandbox: whatever --join and --shutdown do, and whenever they do it, the
\* processes of the sandbox behave as module Sandbox says.
THEOREM SandboxUnaffected == AttachSpec => Spec
<1>1. AttachInit => Init BY DEF AttachInit
<1>2. [AttachNext]_avvars => [Next]_vars
  <2>1. ASSUME AttachNext PROVE [Next]_vars BY <2>1, AttachIsOutside
  <2>2. ASSUME UNCHANGED avvars PROVE [Next]_vars BY <2>2 DEF avvars
  <2>3. QED BY <2>1, <2>2
<1>3. QED BY <1>1, <1>2, PTL DEF AttachSpec, Spec

\* JInv is an invariant of the two processes.
THEOREM JoinInvariance == AttachSpec => [](IInv /\ JInv)
<1>1. AttachInit => JInv
  BY DEF AttachInit, Init, JInv, AppBound, HasRead, HasEntered
<1>2. IInv /\ JInv /\ [AttachNext]_avvars => JInv'
  <2> SUFFICES ASSUME IInv, JInv, [AttachNext]_avvars PROVE JInv' OBVIOUS
  <2>1. CASE Beside(Next) BY <2>1, BesideKeeps
  <2>2. CASE AttachSteps \/ JoinedExits BY <2>2, JoinKeeps
  <2>3. CASE UNCHANGED avvars
    BY <2>3 DEF avvars, jvars, vars, JInv, AppBound, Added, HasRead, HasEntered
  <2>4. QED BY <2>1, <2>2, <2>3 DEF AttachNext
<1>3. AttachSpec => []IInv BY SandboxUnaffected, Invariance, PTL
<1>4. QED BY <1>1, <1>2, <1>3, PTL DEF AttachSpec

\* The program that joins is confined in every respect the app is, and keeps
\* to the supplementary groups the sandbox keeps to.
THEOREM JoinedIsLikeApp == AttachSpec => []JoinedLikeApp
<1>1. IInv /\ JInv => JoinedLikeApp
  <2> SUFFICES ASSUME IInv, JInv, jpc = "running", cmd = "join"
               PROVE  /\ aforce \subseteq jforce
                      /\ Promised(asked) \subseteq jforce
                      /\ carg \cap {"nogroups"} \subseteq jarg
    BY DEF JoinedLikeApp
  <2>1. HasRead /\ HasEntered /\ "done" \in disk BY DEF JInv, HasRead
  <2>2. apc # "none" /\ cpc # "none" BY <2>1 DEF IInv, Saved, AppState
  <2>3. "kseccomp" \in carg => "kseccomp" \in asked BY <2>2 DEF IInv, Options, Enforced
  <2>4. Added \subseteq jforce
    BY <2>1, <2>3 DEF Added, HasRead, HasEntered
  <2>5. force \ {"pdeath"} \subseteq jforce
    <3>1. force \subseteq Features BY DEF IInv, TypeOK
    <3>2. {"mountns", "net", "fs", "dropped"} \subseteq jforce BY <2>1 DEF HasEntered
    <3>3. force \cap {"userns", "uidmap", "gidmap"} \subseteq jforce
      BY <2>1 DEF JInv, AppBound, HasRead, HasEntered
    <3>4. force \cap {"caps", "nnp"} \subseteq jforce BY <2>1 DEF HasRead, HasEntered
    <3>5. force \cap Filters = {} BY DEF JInv, AppBound
    <3>6. QED BY <3>1, <3>2, <3>3, <3>4, <3>5 DEF Features
  <2>6. aforce \subseteq jforce BY <2>2, <2>4, <2>5 DEF JInv, AppBound
  <2>7. Promised(asked) \subseteq aforce BY <2>1, ReadyByInv DEF JoinByteMeansReady
  <2>8. QED BY <2>1, <2>6, <2>7 DEF HasRead
<1>2. QED BY <1>1, JoinInvariance, PTL
=============================================================================
