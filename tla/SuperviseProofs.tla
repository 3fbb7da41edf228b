--------------------------- MODULE SuperviseProofs --------------------------
(***************************************************************************)
(* Proofs about the locks and SIGTSTP, for any number of processes and     *)
(* signals, and about the monitor of a sandbox, for any number of          *)
(* processes, joins and seconds.                                           *)
(***************************************************************************)
EXTENDS MCSupervise, TLAPS

(***************************************************************************)
(* SIGTSTP and the locks                                                   *)
(***************************************************************************)

SType ==
  /\ ip \in [Procs -> 1..6] /\ step \in [Procs -> Steps]
  /\ action \in [Procs -> Dispositions]
  /\ backup \in [Procs -> [Locks -> Dispositions]]
  /\ caught \in [Procs -> Nat]
  /\ holder \in [Locks -> Procs \cup {Nobody}]
  /\ stopped \subseteq Procs

\* The calls in which p asks for the lock l, and gives it back.
Last(p) == IF p \in Bridged THEN 6 ELSE 5
Asks(p) == IF p \in Bridged THEN {1, 3, 4} ELSE {1, 3}
About(p) == IF p \in Bridged THEN {3, 6} ELSE {5}        \* of the network lock

\* A process is in a step of the call it is in.
InCall ==
  \A p \in Procs :
    /\ ip[p] <= Last(p)
    /\ step[p] \in {"install", "flock"} => ip[p] \in Asks(p)
    /\ step[p] \in {"unlock", "restore", "look", "raise", "done"} => ip[p] \notin Asks(p)
    /\ step[p] = "done" => ip[p] = Last(p)

\* Between the two handlers of a lock: from install_ignore_tstp_signal_handler()
\* to uninstall_ignore_tstp_signal_handler().
Covered(p, n) ==
  \/ ip[p] = n /\ step[p] = "flock"
  \/ ip[p] = n + 1 /\ step[p] \in {"unlock", "restore"}
\* The same for the network lock of a bridged process, which the second pair of
\* calls for the directory is nested in.
CoveredNet(p) ==
  /\ p \in Bridged
  /\ \/ ip[p] = 3 /\ step[p] = "flock"
     \/ ip[p] \in {4, 5} /\ step[p] # "gone"
     \/ ip[p] = 6 /\ step[p] \in {"unlock", "restore"}
CoveredDir(p) == Covered(p, 1) \/ Covered(p, Last(p) - 2)

\* While a process is covered it catches the signal; what a bridged process
\* saved is the disposition it had outside.
Handling ==
  \A p \in Procs :
    /\ CoveredNet(p) \/ CoveredDir(p) => action[p] = "handle_sigtstp"
    /\ CoveredNet(p) => backup[p]["net"] = Original(p)
    /\ p \in Bridged /\ Covered(p, 1) => backup[p]["dir"] = Original(p)
    /\ p \in Bridged /\ Covered(p, 4) => backup[p]["dir"] = "handle_sigtstp"
    /\ p \in Bridged /\ ~CoveredNet(p) /\ ~CoveredDir(p) /\ step[p] # "gone"
         => action[p] = Original(p)

\* Whoever holds a lock is covered for it and has not yet given it back.
HeldCovered ==
  \A p \in Procs :
    /\ holder["dir"] = p => CoveredDir(p) /\ step[p] = "unlock"
    /\ holder["net"] = p => CoveredNet(p) /\ ip[p] # 3 /\ (ip[p] = 6 => step[p] = "unlock")

\* Outside, a signal that was caught is waited for by the look at caught_tstp.
CaughtSeen ==
  \A p \in Bridged :
    ~CoveredNet(p) /\ ~CoveredDir(p) /\ step[p] \notin {"look", "gone"} => caught[p] = 0

StoppedByDefault == \A p \in stopped : action[p] = "default"

SIInv == SType /\ InCall /\ Handling /\ HeldCovered /\ CaughtSeen /\ StoppedByDefault

\* What the calls of main() are, as far as the proofs need it.
LEMMA ProgramShape ==
  ASSUME NEW p \in Procs
  PROVE  /\ Len(Program(p)) = Last(p)
         /\ \A i \in 1..Last(p) :
              /\ Program(p)[i][1] = IF i \in Asks(p) THEN "install" ELSE "unlock"
              /\ Program(p)[i][2] = IF i \in About(p) THEN "net" ELSE "dir"
<1>1. CASE p \in Bridged
  BY <1>1 DEF Program, Last, Asks, About
<1>2. CASE p \notin Bridged
  BY <1>2 DEF Program, Last, Asks, About
<1> QED
  BY <1>1, <1>2

\* The lock of the call a process is in.
LEMMA LockShape ==
  ASSUME SType, InCall, NEW p \in Procs
  PROVE  Lock(p) = IF ip[p] \in About(p) THEN "net" ELSE "dir"
BY ProgramShape DEF SType, InCall, Lock, Last

\* The next call of main(), or the end of the startup.
LEMMA AdvanceShape ==
  ASSUME SType, InCall, NEW p \in Procs, Advance(p)
  PROVE  /\ ip' \in [Procs -> 1..6] /\ step' \in [Procs -> Steps]
         /\ \A q \in Procs \ {p} : ip'[q] = ip[q] /\ step'[q] = step[q]
         /\ ip[p] = Last(p) => ip'[p] = ip[p] /\ step'[p] = "done"
         /\ ip[p] # Last(p) => /\ ip'[p] = ip[p] + 1
                              /\ step'[p] = IF ip[p] + 1 \in Asks(p) THEN "install" ELSE "unlock"
<1>1. ip[p] \in 1..Last(p) /\ Last(p) \in {5, 6}
  BY DEF SType, InCall, Last
<1>2. Len(Program(p)) = Last(p)
  BY ProgramShape
<1>3. CASE ip[p] = Last(p)
  BY <1>1, <1>2, <1>3 DEF Advance, Goto, SType, Steps
<1>4. CASE ip[p] # Last(p)
  <2>1. ip[p] + 1 \in 1..Last(p)
    BY <1>1, <1>4
  <2>2. Program(p)[ip[p] + 1][1] = IF ip[p] + 1 \in Asks(p) THEN "install" ELSE "unlock"
    BY <2>1, ProgramShape
  <2> QED
    BY <1>1, <1>2, <1>4, <2>2 DEF Advance, Goto, SType, Steps
<1> QED
  BY <1>3, <1>4

\* Every step of a process keeps the invariant.
LEMMA SStep ==
  ASSUME SIInv, NEW p \in Procs, Runs(p) \/ Quit(p) \/ Stop(p) \/ Continue(p)
  PROVE  SIInv'
<1> USE StopSignalAssumption DEF SIInv, SType, InCall, Handling, HeldCovered, CaughtSeen,
        StoppedByDefault, CoveredDir, CoveredNet, Covered, Last, Asks, About, At, Goto,
        Steps, Dispositions, Locks, Original, Nobody
<1>1. CASE Install(p)
  <2>1. Lock(p) = (IF ip[p] = 3 /\ p \in Bridged THEN "net" ELSE "dir")
    BY <1>1, LockShape DEF Install
  <2>2. SType' /\ InCall'
    BY <1>1, <2>1 DEF Install
  <2>3. Handling'
    <3>1. \A q \in Procs \ {p} : UNCHANGED <<ip[q], step[q], action[q], backup[q]>>
      BY <1>1 DEF Install
    <3>2. /\ ip'[p] = ip[p] /\ step[p] = "install" /\ step'[p] = "flock"
          /\ action'[p] = "handle_sigtstp"
      BY <1>1 DEF Install
    <3>3. backup'[p][Lock(p)] = action[p] /\ \A l \in Locks \ {Lock(p)} : backup'[p][l] = backup[p][l]
      BY <1>1, <2>1 DEF Install
    <3>4. CASE p \in Bridged
      <4>1. CASE ip[p] = 1
        BY <2>1, <3>1, <3>2, <3>3, <3>4, <4>1
      <4>2. CASE ip[p] = 3
        BY <2>1, <3>1, <3>2, <3>3, <3>4, <4>2
      <4>3. CASE ip[p] = 4
        BY <2>1, <3>1, <3>2, <3>3, <3>4, <4>3
      <4> QED
        BY <3>2, <3>4, <4>1, <4>2, <4>3
    <3>5. CASE p \notin Bridged
      BY <2>1, <3>1, <3>2, <3>3, <3>5
    <3> QED
      BY <3>4, <3>5
  <2>4. HeldCovered' /\ CaughtSeen' /\ StoppedByDefault'
    BY <1>1 DEF Install
  <2> QED
    BY <2>2, <2>3, <2>4
<1>2. CASE Flock(p)
  <2>1. Lock(p) = (IF ip[p] = 3 /\ p \in Bridged THEN "net" ELSE "dir")
    BY <1>2, LockShape DEF Flock
  <2>2. SType' /\ InCall'
    BY <1>2, <2>1, AdvanceShape DEF Flock
  <2>3. Handling'
    BY <1>2, AdvanceShape DEF Flock
  <2>4. HeldCovered'
    BY <1>2, <2>1, AdvanceShape DEF Flock
  <2>5. CaughtSeen' /\ StoppedByDefault'
    BY <1>2, AdvanceShape DEF Flock
  <2> QED
    BY <2>2, <2>3, <2>4, <2>5
<1>3. CASE Unlock(p)
  BY <1>3, LockShape DEF Unlock
<1>4. CASE Restore(p)
  BY <1>4, LockShape DEF Restore
<1>5. CASE Look(p)
  <2>1. CASE caught[p] > 0
    <3>1. SType' /\ InCall'
      BY <1>5, <2>1 DEF Look
    <3>2. Handling'
      BY <1>5, <2>1 DEF Look
    <3>3. HeldCovered' /\ StoppedByDefault'
      BY <1>5, <2>1 DEF Look
    <3>4. CaughtSeen'
      BY <1>5, <2>1 DEF Look
    <3> QED
      BY <3>1, <3>2, <3>3, <3>4
  <2>2. CASE caught[p] = 0
    <3>0. SType'
      BY <1>5, <2>2, AdvanceShape DEF Look
    <3>1. InCall'
      BY <1>5, <2>2, AdvanceShape DEF Look
    <3>2. Handling'
      <4>1. CASE p \in Bridged
        BY <1>5, <2>2, <4>1, AdvanceShape DEF Look
      <4>2. CASE p \notin Bridged
        BY <1>5, <2>2, <4>2, AdvanceShape DEF Look
      <4> QED
        BY <4>1, <4>2
    <3>3. HeldCovered' /\ StoppedByDefault'
      BY <1>5, <2>2, AdvanceShape DEF Look
    <3>4. CaughtSeen'
      BY <1>5, <2>2, AdvanceShape DEF Look
    <3> QED
      BY <3>0, <3>1, <3>2, <3>3, <3>4
  <2> QED
    BY <1>5, <2>1, <2>2 DEF Look
<1>6. CASE Raise(p)
  BY <1>6, AdvanceShape DEF Raise, Deliver
<1>7. CASE Quit(p)
  BY <1>7 DEF Quit
<1>8. CASE Stop(p)
  BY <1>8 DEF Stop, Deliver
<1>9. CASE Continue(p)
  BY <1>9 DEF Continue
<1> QED
  BY Zenon, <1>1, <1>2, <1>3, <1>4, <1>5, <1>6, <1>7, <1>8, <1>9 DEF Runs

\* The processes start uncovered, with the disposition they were given.
LEMMA SInitIInv == SInit => SIInv
BY StopSignalAssumption DEF SInit, SIInv, SType, InCall, Handling, HeldCovered, CaughtSeen,
   StoppedByDefault, CoveredDir, CoveredNet, Covered, Last, Asks, Steps, Dispositions, Locks,
   Original, Nobody

\* What the properties ask of it.
LEMMA SIInvImplies == SIInv => StopWaitsForLocks
<1>1. ASSUME SIInv PROVE NotStoppedWithLock
  <2> SUFFICES ASSUME NEW p \in stopped, NEW l \in Locks, holder[l] = p PROVE FALSE
    BY DEF NotStoppedWithLock
  <2>1. action[p] = "handle_sigtstp"
    BY <1>1 DEF SIInv, SType, HeldCovered, Handling, Locks
  <2> QED
    BY <1>1, <2>1 DEF SIInv, StoppedByDefault
<1>2. ASSUME SIInv PROVE RestoredWhenNested
  <2> SUFFICES ASSUME NEW p \in Bridged, step[p] = "done"
               PROVE  action[p] = Original(p) /\ caught[p] = 0
    BY DEF RestoredWhenNested
  <2>1. p \in Procs /\ ip[p] = 6
    BY <1>2, StopSignalAssumption DEF SIInv, InCall, Last
  <2>2. ~CoveredNet(p) /\ ~CoveredDir(p)
    BY <2>1 DEF CoveredNet, CoveredDir, Covered, Last
  <2> QED
    BY <1>2, <2>1, <2>2 DEF SIInv, Handling, CaughtSeen
<1> QED
  BY <1>1, <1>2 DEF StopWaitsForLocks

(***************************************************************************)
(* The monitor                                                             *)
(***************************************************************************)

States == {"free", "running", "zombie", "gone"}
MType ==
  /\ state \in [Pids -> States] /\ parent \in [Pids -> Int]
  /\ top \in App..MaxPid /\ cursor \in 1..top
  /\ \A p \in Pids : state[p] = "free" <=> p > top

\* The application is a child of the monitor until it is reaped; the monitor
\* looks for others only then, since it finds the lowest pid first.
AppFirst ==
  /\ parent[App] = Init1
  /\ pc # "over" => appstatus = App \/ Here(App)
  /\ mon # App => appstatus = App
  /\ pc \in {"died", "scan", "return"} => appstatus = App

\* A look at /proc leaves nobody behind its cursor but what joined since.
LookedAt ==
  "shutdown" \notin opt =>
    /\ pc = "scan" => \A p \in Pids : Here(p) /\ p <= cursor => p \in late
    /\ pc = "return" => \A p \in Pids : Here(p) => p \in late

MIInv == MType /\ AppFirst /\ LookedAt /\ FirstChildsStatus

\* The application is the only process.
LEMMA MInitIInv == MInit => MIInv
BY MonitorAssumption DEF MInit, MIInv, MType, AppFirst, LookedAt, FirstChildsStatus, States,
   Here, Pids, App, Init1

\* Every step of the monitor keeps the invariant.
LEMMA MonitorStep ==
  ASSUME MIInv, MonitorSteps
  PROVE  MIInv'
<1> USE MonitorAssumption DEF MIInv, MType, AppFirst, LookedAt, FirstChildsStatus, States,
        Here, Pids, App, Init1
<1>1. ASSUME NEW p \in Pids, Reap(p) PROVE MIInv'
  BY <1>1 DEF Reap, Zombies, Children, Tick, AfterWait
<1>2. CASE NothingYet
  BY <1>2 DEF NothingYet, Tick, procs
<1>3. CASE NoChild
  BY <1>3 DEF NoChild, Children, procs, locals
<1>4. CASE TimeUp
  BY <1>4 DEF TimeUp, End, locals
<1>5. CASE ShutDown
  BY <1>5 DEF ShutDown, locals
<1>6. CASE OpenProc
  BY <1>6 DEF OpenProc
<1>7. CASE ReadProc
  BY <1>7 DEF ReadProc, Found, procs
<1>8. CASE EndOfProc
  BY <1>8 DEF EndOfProc, procs
<1>9. CASE Return
  BY <1>9 DEF Return, End, ExitStatus, locals
<1>10. CASE HandlerWaits
  BY <1>10 DEF HandlerWaits, procs
<1>11. CASE HandlerKills
  BY <1>11 DEF HandlerKills, End, locals
<1> QED
  BY <1>1, <1>2, <1>3, <1>4, <1>5, <1>6, <1>7, <1>8, <1>9, <1>10, <1>11 DEF MonitorSteps

\* And so does everything else that happens in the sandbox.
LEMMA OthersStep ==
  ASSUME MIInv, MNext, ~MonitorSteps
  PROVE  MIInv'
<1> USE MonitorAssumption DEF MIInv, MType, AppFirst, LookedAt, FirstChildsStatus, States,
        Here, Pids, App, Init1, Over
<1>1. ASSUME NEW s \in Signals, EnterHandler(s) \/ SendSignal(s) PROVE MIInv'
  BY <1>1 DEF EnterHandler, SendSignal, procs, locals
<1>2. ASSUME NEW p \in Pids, Fork(p) PROVE MIInv'
  BY <1>2 DEF Fork, NewProcess, locals
<1>3. ASSUME NEW p \in Pids, Exit(p) PROVE MIInv'
  BY <1>3 DEF Exit, locals
<1>4. ASSUME NEW p \in Pids, ReapedByParent(p) PROVE MIInv'
  BY <1>4 DEF ReapedByParent, locals
<1>5. CASE Join
  BY <1>5 DEF Join, NewProcess, locals, Outside
<1> QED
  BY <1>1, <1>2, <1>3, <1>4, <1>5 DEF MNext

\* The last look at /proc was complete.
LEMMA MIInvImplies == MIInv => LeavesWhenDone
BY DEF MIInv, LookedAt, LeavesWhenDone, NobodyAbandoned

(***************************************************************************)
(* The theorems                                                            *)
(***************************************************************************)

\* Of any number of processes that start and are sent any number of SIGTSTPs,
\* none is ever stopped with a lock in its hands, and every one that took the
\* network lock has its disposition of the signal back at the end
\* (preproc_lock_firejail_dir, uninstall_ignore_tstp_signal_handler).
THEOREM StopSignalsWait == SInit /\ [][SNext]_svars => []StopWaitsForLocks
<1>1. SIInv /\ [SNext]_svars => SIInv'
  <2> SUFFICES ASSUME SIInv, [SNext]_svars PROVE SIInv'
    OBVIOUS
  <2>1. CASE SNext
    BY <2>1, SStep DEF SNext
  <2>2. CASE UNCHANGED svars
    BY <2>2 DEF svars, SIInv, SType, InCall, Handling, HeldCovered, CaughtSeen,
                StoppedByDefault, CoveredDir, CoveredNet, Covered
  <2> QED
    BY <2>1, <2>2
<1> QED
  BY <1>1, SInitIInv, SIInvImplies, PTL

\* However many processes a sandbox has and whatever they do while the monitor
\* looks at /proc pid by pid, it leaves nobody behind but what joined meanwhile,
\* and with --deterministic-exit-code it returns the status of the first child
\* (monitor_application).
THEOREM MonitorLeavesNobody == MInit /\ [][MNext]_mvars => []LeavesWhenDone
<1>1. MIInv /\ [MNext]_mvars => MIInv'
  <2> SUFFICES ASSUME MIInv, [MNext]_mvars PROVE MIInv'
    OBVIOUS
  <2>1. CASE MNext
    BY <2>1, MonitorStep, OthersStep
  <2>2. CASE UNCHANGED mvars
    BY <2>2 DEF mvars, procs, locals, MIInv, MType, AppFirst, LookedAt, FirstChildsStatus, Here
  <2> QED
    BY <2>1, <2>2
<1> QED
  BY <1>1, MInitIInv, MIInvImplies, PTL

\* The specification that is model-checked for small sandboxes, in which one of
\* the two parts moves, has both properties.
THEOREM Supervised == FairSpec => [](StopWaitsForLocks /\ LeavesWhenDone)
<1>1. Init => SInit /\ MInit
  BY DEF Init
<1>2. [Next]_vars => [SNext]_svars /\ [MNext]_mvars
  BY DEF Next, vars, svars, mvars, procs, locals
<1> QED
  BY <1>1, <1>2, StopSignalsWait, MonitorLeavesNobody, PTL DEF FairSpec
=============================================================================
