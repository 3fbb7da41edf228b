---------------------------- MODULE RunDirProofs ----------------------------
(***************************************************************************)
(* Proofs about RunDir: for any number of pids, any sets of options and    *)
(* names, and any number of waiting steps, the run files of a sandbox that *)
(* is up are its own, and the cleanup by other processes removes exactly   *)
(* what dead ones have left.                                               *)
(*                                                                         *)
(* The argument is about what a cleaning process may have missed.  It read *)
(* /proc while it held the directory lock, so a pid that it read and did   *)
(* not find alive can since have come to life, but cannot have passed the  *)
(* first lock: the process has no files yet, and the ones under its pid    *)
(* are left over.                                                          *)
(***************************************************************************)
EXTENDS RunDir, SequenceTheorems, TLAPS

----------------------------------------------------------------------------
(* The inductive invariant *)

Suffixes ==
  {<<"sandbox", "network", "name", "x11", "profile">>,
   <<"network", "name", "x11", "profile">>, <<"name", "x11", "profile">>,
   <<"x11", "profile">>, <<"profile">>, <<>>}

\* The directories a call of delete_run_files() has still to visit.
Todo(p) == {left[p][i] : i \in 1..Len(left[p])}

\* p is in preproc_clean_run(), with the directory lock.
Cleaning(p) ==
  \/ pc[p] \in {"scan", "profiles", "names", "unlock1"}
  \/ pc[p] = "unlink" /\ ret[p] \in {"profiles", "names"}

\* The contents of name files.
Texts == Seq(Letters \cup Pids)

RType ==
  /\ proc \in [Pids -> {"none", "other", "firejail"}] /\ pc \in [Pids -> PC]
  /\ opt \in [Pids -> SUBSET {"profile", "net", "name", "x11"}]
  /\ unread \in [Pids -> SUBSET Pids] /\ seen \in [Pids -> SUBSET Pids]
  /\ victim \in [Pids -> Pids] /\ left \in [Pids -> Suffixes]
  /\ ret \in [Pids -> {"none", "options", "profiles", "names"}]
  /\ dirlock \in Pids \cup {0}
  /\ run \in [Dirs -> SUBSET Pids] /\ name \in [Pids -> Texts]

Alive == \A p \in Pids : proc[p] = "firejail" <=> pc[p] # "none"

\* The sections of main() that the directory lock protects.
Locked ==
  \A p \in Pids : Cleaning(p) \/ pc[p] \in {"name", "x11", "unlock2"} => dirlock = p

\* Where a deletion is, and for whom.
Deleting ==
  \A p \in Pids :
    /\ pc[p] \in {"profiles", "names", "unlock1"} => unread[p] = {}
    /\ pc[p] = "unlink" /\ ret[p] \in {"none", "options"} => victim[p] = p
    /\ pc[p] = "unlink" /\ ret[p] \in {"profiles", "names"} =>
         unread[p] = {} /\ victim[p] \notin seen[p] /\ victim[p] >= StartPid

\* A pid that the cleaning process has read and not found alive has no process
\* that has passed the first lock.
Missed ==
  \A p, q \in Pids :
    Cleaning(p) /\ q \notin unread[p] /\ q \notin seen[p] /\ q >= StartPid
      => pc[q] \in {"none", "lock1"}

\* What a deletion has removed stays removed until it is over.
Gone ==
  \A p \in Pids : pc[p] = "unlink" =>
    \A d \in Dirs : d \notin Todo(p) => victim[p] \notin run[d]

\* The name file is there exactly when it has contents.
NameFiles == \A p \in Pids : p \in run["name"] <=> name[p] # NoName

\* The files of a process, step by step of main().
AfterOptions == {"netlock", "netmap", "lock2", "name", "x11", "unlock2", "clone", "pidfile",
                 "netunlock", "up"}
AfterNetwork == AfterOptions \ {"netlock", "netmap"}
AfterName == AfterNetwork \ {"lock2", "name"}
AfterX11 == AfterName \ {"x11"}

OwnFiles ==
  \A p \in Pids :
    /\ pc[p] = "netmap" => "net" \in opt[p]
    /\ pc[p] \in {"options"} \cup AfterOptions =>
         /\ p \in run["profile"] <=> pc[p] \in AfterOptions /\ "profile" \in opt[p]
         /\ p \in run["network"] <=> pc[p] \in AfterNetwork /\ "net" \in opt[p]
         /\ p \in run["name"] <=> pc[p] \in AfterName /\ "name" \in opt[p]
         /\ p \in run["x11"] <=> pc[p] \in AfterX11 /\ "x11" \in opt[p]
         /\ p \in run["sandbox"] <=> pc[p] \in {"netunlock", "up"}

\* What the cleaning process has been through holds no stale file.
Cleaned ==
  \A p \in Pids :
    /\ pc[p] \in {"names", "unlock1"} \/ (pc[p] = "unlink" /\ ret[p] = "names")
         => Stale(p, "profile") = {}
    /\ pc[p] = "unlock1" => Stale(p, "name") = {}

\* The files of a process that had a profile can be found by its profile file.
Reachable ==
  \A q \in Pids : "profile" \in opt[q] =>
    \A d \in Dirs : q \in run[d] => q \in run["profile"]

\* A name is one a user asked for, or one with the process's own pid attached;
\* no two processes have been given the same.
GivenNames ==
  \A p \in Pids : pc[p] \in AfterName /\ name[p] # NoName =>
    name[p] \in Names \/ \E n \in Names : name[p] = Append(n, p)

DistinctNames ==
  \A p, q \in Pids :
    p # q /\ pc[p] \in AfterName /\ pc[q] \in AfterName /\ name[p] # NoName
      => name[p] # name[q]

NamesUnique == GivenNames /\ (NameChange /\ PlainNames => DistinctNames)

RIInv ==
  /\ RType /\ Alive /\ Locked /\ Deleting /\ Missed /\ Gone /\ NameFiles /\ OwnFiles
  /\ Cleaned /\ Reachable /\ NamesUnique

----------------------------------------------------------------------------
(* Lemmas about the operators *)

\* What delete_run_files() has still to do after one unlink().
LEMMA SuffixStep ==
  ASSUME NEW s \in Suffixes, s # <<>>
  PROVE  /\ Tail(s) \in Suffixes /\ Head(s) \in Dirs
         /\ {Tail(s)[i] : i \in 1..Len(Tail(s))} = {s[i] : i \in 1..Len(s)} \ {Head(s)}
         /\ Head(s) = "profile" => {s[i] : i \in 1..Len(s)} = {"profile"}
<1>1. CASE s = <<"sandbox", "network", "name", "x11", "profile">>
  BY <1>1 DEF Suffixes, Dirs
<1>2. CASE s = <<"network", "name", "x11", "profile">>
  BY <1>2 DEF Suffixes, Dirs
<1>3. CASE s = <<"name", "x11", "profile">>
  BY <1>3 DEF Suffixes, Dirs
<1>4. CASE s = <<"x11", "profile">>
  BY <1>4 DEF Suffixes, Dirs
<1>5. CASE s = <<"profile">>
  BY <1>5 DEF Suffixes, Dirs
<1> QED BY Zenon, <1>1, <1>2, <1>3, <1>4, <1>5 DEF Suffixes

\* At the start of a call of delete_run_files() everything is to be done, at
\* its end nothing.
LEMMA TodoEnds ==
  /\ {Order[i] : i \in 1..Len(Order)} = Dirs
  /\ {<<>>[i] : i \in 1..Len(<<>>)} = {}
BY DEF Order, Dirs

\* Both are among the states of the call.
LEMMA SuffixEnds == Order \in Suffixes /\ <<>> \in Suffixes
BY DEF Order, Suffixes

\* What most steps need to know of the constants.
LEMMA Constants ==
  /\ Pids \subseteq Nat \ {0} /\ StartPid \in Nat
  /\ OptionSets \subseteq SUBSET {"profile", "net", "name", "x11"}
BY RunDirAssumption

\* newname() returns a name.
LEMMA NewNameShape ==
  ASSUME NEW n \in Names, NEW p \in Pids
  PROVE  /\ NewName(n, p) \in Texts /\ NewName(n, p) # NoName
         /\ NewName(n, p) = n \/ NewName(n, p) = Append(n, p)
<1>1. n \in Seq(Letters \cup Pids) /\ n # NoName
  BY RunDirAssumption
<1>2. Append(n, p) \in Seq(Letters \cup Pids) /\ Append(n, p) # <<>>
  BY <1>1, AppendProperties
<1> QED BY <1>1, <1>2 DEF NewName, NoName, Texts
----------------------------------------------------------------------------
(* Every step keeps the invariant *)

Step(p) ==
  \/ Startup(p) \/ Start(p) \/ LeaveMain(p) \/ Killed(p)
  \/ OtherStarts(p) \/ OtherEnds(p) \/ OrphanEnds(p)

\* Every step of main() and of the host keeps the types.
LEMMA TypeStep ==
  ASSUME RIInv, NEW p \in Pids, Step(p)
  PROVE  RType'
<1> USE Constants, SuffixEnds DEF RIInv, RType, PC, Dirs, Goto, locals
<1>1. CASE LockDir(p, "lock1", "scan")
  BY <1>1 DEF LockDir
<1>2. CASE LockDir(p, "lock2", "name")
  BY <1>2 DEF LockDir
<1>3. CASE Scan(p)
  BY <1>3 DEF Scan, SeesPid
<1>4. CASE ScanDone(p)
  BY <1>4 DEF ScanDone
<1>5. CASE CleanDir(p, "profiles", "profile", "names")
  <2>1. CASE \E q \in Stale(p, "profile") : Call(p, q, "profiles")
    <3>1. PICK q \in Stale(p, "profile") : Call(p, q, "profiles")
      BY <2>1
    <3>2. q \in Pids
      BY <3>1 DEF Stale
    <3> QED BY <3>1, <3>2 DEF Call
  <2>2. CASE Goto(p, "names") /\ UNCHANGED <<proc, locals, dirlock, run, name>>
    BY <2>2
  <2> QED BY <1>5, <2>1, <2>2 DEF CleanDir
<1>6. CASE CleanDir(p, "names", "name", "unlock1")
  <2>1. CASE \E q \in Stale(p, "name") : Call(p, q, "names")
    <3>1. PICK q \in Stale(p, "name") : Call(p, q, "names")
      BY <2>1
    <3>2. q \in Pids
      BY <3>1 DEF Stale
    <3> QED BY <3>1, <3>2 DEF Call
  <2>2. CASE Goto(p, "unlock1") /\ UNCHANGED <<proc, locals, dirlock, run, name>>
    BY <2>2
  <2> QED BY <1>6, <2>1, <2>2 DEF CleanDir
<1>7. CASE Unlink(p)
  <2>1. Tail(left[p]) \in Suffixes /\ Head(left[p]) \in Dirs
    BY <1>7, SuffixStep DEF Unlink
  <2>2. NoName \in Texts
    BY DEF NoName, Texts
  <2>3. name' \in [Pids -> Texts]
    BY <1>7, <2>2 DEF Unlink
  <2>4. run' \in [Dirs -> SUBSET Pids]
    BY <1>7, <2>1 DEF Unlink
  <2>5. left' \in [Pids -> Suffixes]
    BY <1>7, <2>1 DEF Unlink
  <2> QED BY <1>7, <2>3, <2>4, <2>5 DEF Unlink
<1>8. CASE Return(p)
  <2>1. CASE ret[p] = "none"
    <3>1. Ends(p)
      BY <1>8, <2>1 DEF Return
    <3> QED BY <3>1 DEF Ends
  <2>2. CASE ret[p] # "none"
    <3>1. /\ pc[p] = "unlink" /\ pc' = [pc EXCEPT ![p] = ret[p]]
          /\ victim' = [victim EXCEPT ![p] = p] /\ ret' = [ret EXCEPT ![p] = "none"]
          /\ UNCHANGED <<proc, opt, unread, seen, left, dirlock, run, name>>
      BY <1>8, <2>2 DEF Return
    <3> QED BY <2>2, <3>1
  <2> QED BY <2>1, <2>2
<1>9. CASE UnlockDir(p, "unlock1", "own")
  BY <1>9 DEF UnlockDir
<1>10. CASE UnlockDir(p, "unlock2", "clone")
  BY <1>10 DEF UnlockDir
<1>11. CASE DeleteOwn(p)
  BY <1>11 DEF DeleteOwn, Call
<1>12. CASE ReadOptions(p)
  BY <1>12 DEF ReadOptions
<1>13. CASE LockNetwork(p)
  BY <1>13 DEF LockNetwork
<1>14. CASE SkipNetwork(p)
  BY <1>14 DEF SkipNetwork
<1>15. CASE SetNetworkFile(p)
  BY <1>15 DEF SetNetworkFile
<1>16. CASE SetNameFile(p)
  <2>1. name' \in [Pids -> Texts]
    BY <1>16, NewNameShape DEF SetNameFile
  <2>2. run' \in [Dirs -> SUBSET Pids]
    BY <1>16 DEF SetNameFile
  <2> QED BY Zenon, <1>16, <2>1, <2>2 DEF SetNameFile
<1>17. CASE SetX11File(p)
  BY <1>17 DEF SetX11File
<1>18. CASE Clone(p)
  BY <1>18 DEF Clone
<1>19. CASE SetSandboxFile(p)
  BY <1>19 DEF SetSandboxFile
<1>20. CASE UnlockNetwork(p)
  BY <1>20 DEF UnlockNetwork
<1>21. CASE Exit(p)
  BY <1>21 DEF Exit, Call
<1>22. CASE Retry(p)
  BY <1>22 DEF Retry
<1>23. CASE Timeout(p)
  <2>1. CASE pc[p] = "lock1"
    BY <1>23, <2>1 DEF Timeout, Ends
  <2>2. CASE pc[p] # "lock1"
    BY <1>23, <2>2 DEF Timeout, Busy
  <2> QED BY <2>1, <2>2
<1>24. CASE Start(p)
  BY <1>24 DEF Start
<1>25. CASE LeaveMain(p)
  BY <1>25 DEF LeaveMain
<1>26. CASE Killed(p)
  BY <1>26 DEF Killed, Ends
<1>27. CASE OtherStarts(p)
  BY <1>27 DEF OtherStarts
<1>28. CASE OtherEnds(p)
  BY <1>28 DEF OtherEnds
<1>29. CASE OrphanEnds(p)
  BY <1>29 DEF OrphanEnds
<1> QED BY Zenon, <1>1, <1>2, <1>3, <1>4, <1>5, <1>6, <1>7, <1>8, <1>9, <1>10, <1>11, <1>12, <1>13, <1>14, <1>15, <1>16, <1>17, <1>18, <1>19, <1>20, <1>21, <1>22, <1>23, <1>24, <1>25, <1>26, <1>27, <1>28, <1>29 DEF Step, Startup

\* Every step keeps the sections that the directory lock protects, and what is
\* known of a deletion under way.
LEMMA LockStep ==
  ASSUME RIInv, NEW p \in Pids, Step(p)
  PROVE  Alive' /\ Locked' /\ Deleting'
<1> USE Constants, SuffixEnds DEF RIInv, RType, PC, Alive, Locked, Cleaning, Deleting, Goto, locals
<1>1. CASE LockDir(p, "lock1", "scan")
  BY <1>1 DEF LockDir
<1>2. CASE LockDir(p, "lock2", "name")
  BY <1>2 DEF LockDir
<1>3. CASE Scan(p)
  BY <1>3 DEF Scan, SeesPid
<1>4. CASE ScanDone(p)
  BY <1>4 DEF ScanDone
<1>5. CASE CleanDir(p, "profiles", "profile", "names")
  BY <1>5 DEF CleanDir, Call, Stale
<1>6. CASE CleanDir(p, "names", "name", "unlock1")
  BY <1>6 DEF CleanDir, Call, Stale
<1>7. CASE Unlink(p)
  BY <1>7 DEF Unlink
<1>8. CASE Return(p)
  <2>1. CASE ret[p] = "none"
    <3>1. Ends(p)
      BY <1>8, <2>1 DEF Return
    <3> QED BY <3>1 DEF Ends
  <2>2. CASE ret[p] # "none"
    <3>1. /\ pc[p] = "unlink" /\ pc' = [pc EXCEPT ![p] = ret[p]]
          /\ victim' = [victim EXCEPT ![p] = p] /\ ret' = [ret EXCEPT ![p] = "none"]
          /\ UNCHANGED <<proc, opt, unread, seen, left, dirlock, run, name>>
      BY <1>8, <2>2 DEF Return
    <3> QED BY <2>2, <3>1
  <2> QED BY Zenon, <2>1, <2>2
<1>9. CASE UnlockDir(p, "unlock1", "own")
  BY <1>9 DEF UnlockDir
<1>10. CASE UnlockDir(p, "unlock2", "clone")
  BY <1>10 DEF UnlockDir
<1>11. CASE DeleteOwn(p)
  BY <1>11 DEF DeleteOwn, Call
<1>12. CASE ReadOptions(p)
  BY <1>12 DEF ReadOptions
<1>13. CASE LockNetwork(p)
  BY <1>13 DEF LockNetwork
<1>14. CASE SkipNetwork(p)
  BY <1>14 DEF SkipNetwork
<1>15. CASE SetNetworkFile(p)
  BY <1>15 DEF SetNetworkFile
<1>16. CASE SetNameFile(p)
  BY <1>16 DEF SetNameFile
<1>17. CASE SetX11File(p)
  BY <1>17 DEF SetX11File
<1>18. CASE Clone(p)
  BY <1>18 DEF Clone
<1>19. CASE SetSandboxFile(p)
  BY <1>19 DEF SetSandboxFile
<1>20. CASE UnlockNetwork(p)
  BY <1>20 DEF UnlockNetwork
<1>21. CASE Exit(p)
  BY <1>21 DEF Exit, Call
<1>22. CASE Retry(p)
  BY <1>22 DEF Retry
<1>23. CASE Timeout(p)
  <2>1. CASE pc[p] = "lock1"
    BY <1>23, <2>1 DEF Timeout, Ends
  <2>2. CASE pc[p] # "lock1"
    BY <1>23, <2>2 DEF Timeout, Busy
  <2> QED BY <2>1, <2>2
<1>24. CASE Start(p)
  BY <1>24 DEF Start
<1>25. CASE LeaveMain(p)
  BY <1>25 DEF LeaveMain
<1>26. CASE Killed(p)
  BY <1>26 DEF Killed, Ends
<1>27. CASE OtherStarts(p)
  BY <1>27 DEF OtherStarts
<1>28. CASE OtherEnds(p)
  BY <1>28 DEF OtherEnds
<1>29. CASE OrphanEnds(p)
  BY <1>29 DEF OrphanEnds
<1> QED BY ZenonT(30), <1>1, <1>2, <1>3, <1>4, <1>5, <1>6, <1>7, <1>8, <1>9, <1>10, <1>11, <1>12, <1>13, <1>14, <1>15, <1>16, <1>17, <1>18, <1>19, <1>20, <1>21, <1>22, <1>23, <1>24, <1>25, <1>26, <1>27, <1>28, <1>29 DEF Step, Startup

\* Every step keeps what a cleaning process knows of the pids it has missed: one
\* that it has read and not found alive waits for the lock the cleaner holds.
LEMMA MissedStep ==
  ASSUME RIInv, NEW p \in Pids, Step(p)
  PROVE  Missed'
<1> USE Constants DEF RIInv, RType, Alive, Locked, Cleaning, Deleting, Missed, Goto, locals
<1>1. CASE LockDir(p, "lock1", "scan")
  BY <1>1 DEF LockDir
<1>2. CASE LockDir(p, "lock2", "name")
  BY <1>2 DEF LockDir
<1>3. CASE Scan(p)
  <2>1. PICK r \in unread[p] :
          /\ unread' = [unread EXCEPT ![p] = @ \ {r}]
          /\ seen' = IF SeesPid(r) THEN [seen EXCEPT ![p] = @ \cup {r}] ELSE seen
    BY Zenon, <1>3 DEF Scan
  <2>2. SUFFICES ASSUME NEW q \in Pids, q \notin unread'[p], q \notin seen'[p], q >= StartPid
                 PROVE  pc[q] \in {"none", "lock1"}
    BY ZenonT(30), <1>3, <2>1 DEF Scan
  <2>3. CASE q = r
    <3>1. ~SeesPid(q)
      BY <2>1, <2>2, <2>3
    <3> QED BY <2>2, <3>1 DEF SeesPid
  <2>4. CASE q # r
    <3>1. q \notin unread[p]
      BY <2>1, <2>2, <2>4
    <3>2. q \notin seen[p]
      BY <2>1, <2>2
    <3>3. pc[p] = "scan"
      BY <1>3 DEF Scan
    <3> QED BY <2>2, <3>1, <3>2, <3>3
  <2> QED BY <2>3, <2>4
<1>4. CASE ScanDone(p)
  BY <1>4 DEF ScanDone
<1>5. CASE CleanDir(p, "profiles", "profile", "names")
  BY <1>5 DEF CleanDir, Call
<1>6. CASE CleanDir(p, "names", "name", "unlock1")
  BY <1>6 DEF CleanDir, Call
<1>7. CASE Unlink(p)
  BY <1>7 DEF Unlink
<1>8. CASE Return(p)
  <2>1. CASE ret[p] = "none"
    <3>1. pc[p] = "unlink" /\ Ends(p)
      BY <1>8, <2>1 DEF Return
    <3> QED BY <2>1, <3>1 DEF Ends
  <2>2. CASE ret[p] # "none"
    <3>1. /\ pc[p] = "unlink" /\ pc' = [pc EXCEPT ![p] = ret[p]]
          /\ victim' = [victim EXCEPT ![p] = p] /\ ret' = [ret EXCEPT ![p] = "none"]
          /\ UNCHANGED <<proc, opt, unread, seen, left, dirlock, run, name>>
      BY <1>8, <2>2 DEF Return
    <3> QED BY <2>2, <3>1
  <2> QED BY Zenon, <2>1, <2>2
<1>9. CASE UnlockDir(p, "unlock1", "own")
  BY <1>9 DEF UnlockDir
<1>10. CASE UnlockDir(p, "unlock2", "clone")
  BY <1>10 DEF UnlockDir
<1>11. CASE DeleteOwn(p)
  BY <1>11 DEF DeleteOwn, Call
<1>12. CASE ReadOptions(p)
  BY <1>12 DEF ReadOptions
<1>13. CASE LockNetwork(p)
  BY <1>13 DEF LockNetwork
<1>14. CASE SkipNetwork(p)
  BY <1>14 DEF SkipNetwork
<1>15. CASE SetNetworkFile(p)
  BY <1>15 DEF SetNetworkFile
<1>16. CASE SetNameFile(p)
  BY <1>16 DEF SetNameFile
<1>17. CASE SetX11File(p)
  BY <1>17 DEF SetX11File
<1>18. CASE Clone(p)
  BY <1>18 DEF Clone
<1>19. CASE SetSandboxFile(p)
  BY <1>19 DEF SetSandboxFile
<1>20. CASE UnlockNetwork(p)
  BY <1>20 DEF UnlockNetwork
<1>21. CASE Exit(p)
  BY <1>21 DEF Exit, Call
<1>22. CASE Retry(p)
  BY <1>22 DEF Retry
<1>23. CASE Timeout(p)
  <2>1. CASE pc[p] = "lock1"
    BY <1>23, <2>1 DEF Timeout, Ends
  <2>2. CASE pc[p] # "lock1"
    BY <1>23, <2>2 DEF Timeout, Busy
  <2> QED BY <2>1, <2>2
<1>24. CASE Start(p)
  BY <1>24 DEF Start
<1>25. CASE LeaveMain(p)
  BY <1>25 DEF LeaveMain
<1>26. CASE Killed(p)
  BY <1>26 DEF Killed, Ends
<1>27. CASE OtherStarts(p)
  BY <1>27 DEF OtherStarts
<1>28. CASE OtherEnds(p)
  BY <1>28 DEF OtherEnds
<1>29. CASE OrphanEnds(p)
  BY <1>29 DEF OrphanEnds
<1> QED BY Zenon, <1>1, <1>2, <1>3, <1>4, <1>5, <1>6, <1>7, <1>8, <1>9, <1>10, <1>11, <1>12, <1>13, <1>14, <1>15, <1>16, <1>17, <1>18, <1>19, <1>20, <1>21, <1>22, <1>23, <1>24, <1>25, <1>26, <1>27, <1>28, <1>29 DEF Step, Startup

\* What a step of p may do to the run files and to the deletions under way,
\* seen from the other processes: no deletion begins, and p, if it adds a file
\* at all, is past the first lock.
Frame(p) ==
  /\ \A q \in Pids : pc'[q] = "unlink" =>
       pc[q] = "unlink" /\ left'[q] = left[q] /\ victim'[q] = victim[q]
  /\ \A d \in Dirs : run'[d] \subseteq run[d] \cup {p}
  /\ pc[p] \in {"none", "lock1", "unlink"} => \A d \in Dirs : run'[d] \subseteq run[d]

\* Such a step brings back nothing that a deletion has removed: the process
\* being deleted is the deleting one itself, or has not passed the first lock.
LEMMA GoneFrame ==
  ASSUME RIInv, NEW p \in Pids, Frame(p)
  PROVE  Gone'
<1> SUFFICES ASSUME NEW r \in Pids, pc'[r] = "unlink", NEW d \in Dirs, d \notin Todo(r)'
             PROVE  victim'[r] \notin run'[d]
  BY DEF Gone
<1>1. pc[r] = "unlink" /\ Todo(r)' = Todo(r) /\ victim'[r] = victim[r]
  BY DEF Frame, Todo
<1>2. victim[r] \notin run[d] /\ victim[r] \in Pids
  BY <1>1 DEF RIInv, RType, Gone
<1>3. CASE victim[r] # p
  BY <1>1, <1>2, <1>3 DEF Frame
<1>4. CASE victim[r] = p
  <2>1. pc[p] \in {"none", "lock1", "unlink"}
    BY <1>1, <1>2, <1>4 DEF RIInv, RType, Deleting, Missed, Cleaning
  <2> QED BY <1>1, <1>2, <2>1 DEF Frame
<1> QED BY <1>3, <1>4

\* A call of delete_run_files() begins with everything still to be done.
LEMMA GoneCall ==
  ASSUME RIInv, NEW p \in Pids, NEW q \in Pids, NEW r, Call(p, q, r)
  PROVE  Gone'
<1> SUFFICES ASSUME NEW s \in Pids, pc'[s] = "unlink", NEW d \in Dirs, d \notin Todo(s)'
             PROVE  victim'[s] \notin run'[d]
  BY DEF Gone
<1>1. CASE s = p
  <2>1. left'[p] = Order
    BY DEF Call, RIInv, RType
  <2>2. Todo(s)' = {Order[i] : i \in 1..Len(Order)}
    BY <1>1, <2>1 DEF Todo
  <2> QED BY <2>2, TodoEnds
<1>2. CASE s # p
  <2>1. pc[s] = "unlink" /\ left'[s] = left[s] /\ victim'[s] = victim[s] /\ run' = run
    BY <1>2 DEF Call, Goto, RIInv, RType
  <2>2. Todo(s)' = Todo(s)
    BY <2>1 DEF Todo
  <2> QED BY <2>1, <2>2 DEF RIInv, Gone
<1> QED BY <1>1, <1>2

\* Every step keeps what a deletion under way has achieved.
LEMMA GoneStep ==
  ASSUME RIInv, NEW p \in Pids, Step(p)
  PROVE  Gone'
<1> USE GoneFrame DEF RIInv, RIInv, RType, Dirs, Alive, Frame, Goto, locals
<1>1. CASE LockDir(p, "lock1", "scan")
  BY <1>1 DEF LockDir
<1>2. CASE LockDir(p, "lock2", "name")
  BY <1>2 DEF LockDir
<1>3. CASE Scan(p)
  BY <1>3 DEF Scan, SeesPid
<1>4. CASE ScanDone(p)
  BY <1>4 DEF ScanDone
<1>5. CASE CleanDir(p, "profiles", "profile", "names")
  <2>1. CASE \E q \in Stale(p, "profile") : Call(p, q, "profiles")
    BY <2>1, GoneCall DEF Stale
  <2>2. CASE Goto(p, "names") /\ UNCHANGED <<proc, locals, dirlock, run, name>>
    BY <2>2
  <2> QED BY <1>5, <2>1, <2>2 DEF CleanDir
<1>6. CASE CleanDir(p, "names", "name", "unlock1")
  <2>1. CASE \E q \in Stale(p, "name") : Call(p, q, "names")
    BY <2>1, GoneCall DEF Stale
  <2>2. CASE Goto(p, "unlock1") /\ UNCHANGED <<proc, locals, dirlock, run, name>>
    BY <2>2
  <2> QED BY <1>6, <2>1, <2>2 DEF CleanDir
<1>7. CASE Unlink(p)
  <2> SUFFICES ASSUME NEW s \in Pids, pc'[s] = "unlink", NEW d \in Dirs, d \notin Todo(s)'
               PROVE  victim'[s] \notin run'[d]
    BY DEF Gone
  <2>1. /\ pc[p] = "unlink" /\ pc' = pc /\ victim' = victim /\ left[p] # <<>>
        /\ left' = [left EXCEPT ![p] = Tail(@)]
        /\ run' = [run EXCEPT ![Head(left[p])] = @ \ {victim[p]}]
    BY <1>7 DEF Unlink
  <2>2. CASE s = p
    <3> DEFINE l == left[p]
    <3>0. l \in Suffixes /\ l # <<>> /\ left'[p] = Tail(l)
      BY <2>1
    <3> HIDE DEF l
    <3>a. /\ Head(l) \in Dirs
          /\ {Tail(l)[i] : i \in 1..Len(Tail(l))} = {l[i] : i \in 1..Len(l)} \ {Head(l)}
      BY Zenon, <3>0, SuffixStep
    <3>b. Todo(p)' = {Tail(l)[i] : i \in 1..Len(Tail(l))} /\ Todo(p) = {l[i] : i \in 1..Len(l)}
      BY <3>0 DEF Todo, l
    <3>1. Head(left[p]) \in Dirs /\ Todo(p)' = Todo(p) \ {Head(left[p])}
      BY ZenonT(30), <3>a, <3>b DEF l
    <3>2. CASE d = Head(left[p])
      BY <2>1, <2>2, <3>1, <3>2
    <3>3. CASE d # Head(left[p])
      BY <2>1, <2>2, <3>1, <3>3 DEF Gone
    <3> QED BY Zenon, <3>2, <3>3
  <2>3. CASE s # p
    <3>1. Todo(s)' = Todo(s)
      BY <2>1, <2>3 DEF Todo
    <3> QED BY <2>1, <2>3, <3>1 DEF Gone
  <2> QED BY ZenonT(30), <2>2, <2>3
<1>8. CASE Return(p)
  <2>1. CASE ret[p] = "none"
    <3>1. pc[p] = "unlink" /\ Ends(p)
      BY <1>8, <2>1 DEF Return
    <3> QED BY <2>1, <3>1 DEF Ends
  <2>2. CASE ret[p] # "none"
    <3>1. /\ pc[p] = "unlink" /\ pc' = [pc EXCEPT ![p] = ret[p]]
          /\ victim' = [victim EXCEPT ![p] = p] /\ ret' = [ret EXCEPT ![p] = "none"]
          /\ UNCHANGED <<proc, opt, unread, seen, left, dirlock, run, name>>
      BY <1>8, <2>2 DEF Return
    <3> QED BY <2>2, <3>1
  <2> QED BY <2>1, <2>2
<1>9. CASE UnlockDir(p, "unlock1", "own")
  BY <1>9 DEF UnlockDir
<1>10. CASE UnlockDir(p, "unlock2", "clone")
  BY <1>10 DEF UnlockDir
<1>11. CASE DeleteOwn(p)
  BY Zenon, <1>11, GoneCall DEF DeleteOwn, Call
<1>12. CASE ReadOptions(p)
  <2>1. Frame(p)
    BY <1>12 DEF ReadOptions
  <2> QED BY <2>1
<1>13. CASE LockNetwork(p)
  BY <1>13 DEF LockNetwork
<1>14. CASE SkipNetwork(p)
  BY <1>14 DEF SkipNetwork
<1>15. CASE SetNetworkFile(p)
  BY <1>15 DEF SetNetworkFile
<1>16. CASE SetNameFile(p)
  <2>1. Frame(p)
    BY <1>16 DEF SetNameFile
  <2> QED BY <2>1
<1>17. CASE SetX11File(p)
  BY <1>17 DEF SetX11File
<1>18. CASE Clone(p)
  BY <1>18 DEF Clone
<1>19. CASE SetSandboxFile(p)
  BY <1>19 DEF SetSandboxFile
<1>20. CASE UnlockNetwork(p)
  BY <1>20 DEF UnlockNetwork
<1>21. CASE Exit(p)
  BY Zenon, <1>21, GoneCall DEF Exit, Call
<1>22. CASE Retry(p)
  BY <1>22 DEF Retry
<1>23. CASE Timeout(p)
  <2>1. CASE pc[p] = "lock1"
    <3>1. Ends(p)
      BY <1>23, <2>1 DEF Timeout
    <3> QED BY <3>1 DEF Ends
  <2>2. CASE pc[p] # "lock1"
    BY <1>23, <2>2 DEF Timeout, Busy
  <2> QED BY <2>1, <2>2
<1>24. CASE Start(p)
  BY <1>24 DEF Start
<1>25. CASE LeaveMain(p)
  BY <1>25 DEF LeaveMain
<1>26. CASE Killed(p)
  BY <1>26 DEF Killed, Ends
<1>27. CASE OtherStarts(p)
  BY <1>27 DEF OtherStarts
<1>28. CASE OtherEnds(p)
  BY <1>28 DEF OtherEnds
<1>29. CASE OrphanEnds(p)
  BY <1>29 DEF OrphanEnds
<1> QED BY <1>1, <1>2, <1>3, <1>4, <1>5, <1>6, <1>7, <1>8, <1>9, <1>10, <1>11, <1>12, <1>13, <1>14, <1>15, <1>16, <1>17, <1>18, <1>19, <1>20, <1>21, <1>22, <1>23, <1>24, <1>25, <1>26, <1>27, <1>28, <1>29 DEF Step, Startup

\* delete_run_files() works on the process itself, on its way in or out, or on
\* one that has not passed the first lock.
LEMMA Victims ==
  ASSUME RIInv, NEW p \in Pids, pc[p] = "unlink"
  PROVE  victim[p] \in Pids /\ pc[victim[p]] \in {"none", "lock1", "unlink"}
BY DEF RIInv, RType, Deleting, Missed, Cleaning

\* When delete_run_files() returns, no file is left.
LEMMA AllGone ==
  ASSUME RIInv, NEW p \in Pids, pc[p] = "unlink", left[p] = <<>>
  PROVE  \A d \in Dirs : victim[p] \notin run[d]
<1>1. Todo(p) = {}
  BY TodoEnds DEF Todo
<1> QED BY <1>1 DEF RIInv, Gone

\* main() writes the files of a process in its order, and nobody else removes
\* them meanwhile.
LEMMA OwnFilesStep ==
  ASSUME RIInv, NEW p \in Pids, Step(p)
  PROVE  OwnFiles'
<1> USE Constants DEF RIInv, RType, Dirs, Alive, OwnFiles, AfterOptions, AfterNetwork, AfterName, AfterX11, Goto, locals
<1>1. CASE LockDir(p, "lock1", "scan")
  BY <1>1 DEF LockDir
<1>2. CASE LockDir(p, "lock2", "name")
  BY <1>2 DEF LockDir
<1>3. CASE Scan(p)
  BY <1>3 DEF Scan, SeesPid
<1>4. CASE ScanDone(p)
  BY <1>4 DEF ScanDone
<1>5. CASE CleanDir(p, "profiles", "profile", "names")
  BY <1>5 DEF CleanDir, Call
<1>6. CASE CleanDir(p, "names", "name", "unlock1")
  BY <1>6 DEF CleanDir, Call
<1>7. CASE Unlink(p)
  <2>1. pc' = pc /\ opt' = opt /\ \A q \in Pids, d \in Dirs : q # victim[p] => (q \in run'[d] <=> q \in run[d])
    BY <1>7 DEF Unlink
  <2>2. pc[victim[p]] \in {"none", "lock1", "unlink"}
    BY <1>7, Victims DEF Unlink
  <2> QED BY <2>1, <2>2
<1>8. CASE Return(p)
  <2>1. CASE ret[p] = "none"
    <3>1. pc[p] = "unlink" /\ Ends(p)
      BY <1>8, <2>1 DEF Return
    <3> QED BY <2>1, <3>1 DEF Ends
  <2>2. CASE ret[p] # "none"
    <3>1. /\ pc[p] = "unlink" /\ pc' = [pc EXCEPT ![p] = ret[p]]
          /\ UNCHANGED <<opt, run, name>>
      BY <1>8, <2>2 DEF Return
    <3>2. ret[p] = "options" => \A d \in Dirs : p \notin run[d]
      BY <1>8, <3>1, AllGone DEF Return, Deleting
    <3> QED BY <2>2, <3>1, <3>2
  <2> QED BY <2>1, <2>2
<1>9. CASE UnlockDir(p, "unlock1", "own")
  BY <1>9 DEF UnlockDir
<1>10. CASE UnlockDir(p, "unlock2", "clone")
  BY <1>10 DEF UnlockDir
<1>11. CASE DeleteOwn(p)
  BY <1>11 DEF DeleteOwn, Call
<1>12. CASE ReadOptions(p)
  BY <1>12 DEF ReadOptions
<1>13. CASE LockNetwork(p)
  BY <1>13 DEF LockNetwork
<1>14. CASE SkipNetwork(p)
  BY <1>14 DEF SkipNetwork
<1>15. CASE SetNetworkFile(p)
  BY <1>15 DEF SetNetworkFile
<1>16. CASE SetNameFile(p)
  BY <1>16 DEF SetNameFile
<1>17. CASE SetX11File(p)
  BY <1>17 DEF SetX11File
<1>18. CASE Clone(p)
  BY <1>18 DEF Clone
<1>19. CASE SetSandboxFile(p)
  BY <1>19 DEF SetSandboxFile
<1>20. CASE UnlockNetwork(p)
  BY <1>20 DEF UnlockNetwork
<1>21. CASE Exit(p)
  BY <1>21 DEF Exit, Call
<1>22. CASE Retry(p)
  BY <1>22 DEF Retry
<1>23. CASE Timeout(p)
  <2>1. CASE pc[p] = "lock1"
    BY <1>23, <2>1 DEF Timeout, Ends
  <2>2. CASE pc[p] # "lock1"
    BY <1>23, <2>2 DEF Timeout, Busy
  <2> QED BY <2>1, <2>2
<1>24. CASE Start(p)
  BY <1>24 DEF Start
<1>25. CASE LeaveMain(p)
  BY <1>25 DEF LeaveMain
<1>26. CASE Killed(p)
  BY <1>26 DEF Killed, Ends
<1>27. CASE OtherStarts(p)
  BY <1>27 DEF OtherStarts
<1>28. CASE OtherEnds(p)
  BY <1>28 DEF OtherEnds
<1>29. CASE OrphanEnds(p)
  BY <1>29 DEF OrphanEnds
<1> QED BY ZenonT(30), <1>1, <1>2, <1>3, <1>4, <1>5, <1>6, <1>7, <1>8, <1>9, <1>10, <1>11, <1>12, <1>13, <1>14, <1>15, <1>16, <1>17, <1>18, <1>19, <1>20, <1>21, <1>22, <1>23, <1>24, <1>25, <1>26, <1>27, <1>28, <1>29 DEF Step, Startup

\* The steps that change a run file or the options.
LEMMA FileSteps ==
  ASSUME NEW p \in Pids, Step(p)
  PROVE  \/ Unlink(p) \/ ReadOptions(p) \/ SetNetworkFile(p) \/ SetNameFile(p)
         \/ SetX11File(p) \/ SetSandboxFile(p) \/ UNCHANGED <<opt, run, name>>
BY ZenonT(30) DEF Step, Startup, LockDir, Scan, ScanDone, CleanDir, Call, Return, Ends, UnlockDir,
       DeleteOwn, LockNetwork, SkipNetwork, Clone, UnlockNetwork, Exit, Retry, Timeout,
       Start, LeaveMain, Killed, OtherStarts, OtherEnds, OrphanEnds, locals

\* Name files are written and removed with their contents.
LEMMA NameFilesStep ==
  ASSUME RIInv, NEW p \in Pids, Step(p)
  PROVE  NameFiles'
<1> USE DEF RIInv, RType, Dirs, NameFiles
<1>1. CASE Unlink(p)
  <2>1. Head(left[p]) \in Dirs /\ victim[p] \in Pids
    BY <1>1, SuffixStep DEF Unlink
  <2>2. CASE Head(left[p]) = "name"
    BY <1>1, <2>1, <2>2 DEF Unlink
  <2>3. CASE Head(left[p]) # "name"
    BY <1>1, <2>1, <2>3 DEF Unlink
  <2> QED BY Zenon, <2>2, <2>3
<1>2. CASE ReadOptions(p)
  BY <1>2 DEF ReadOptions
<1>3. CASE SetNetworkFile(p)
  BY <1>3 DEF SetNetworkFile
<1>4. CASE SetNameFile(p)
  BY <1>4, NewNameShape DEF SetNameFile
<1>5. CASE SetX11File(p)
  BY <1>5 DEF SetX11File
<1>6. CASE SetSandboxFile(p)
  BY <1>6 DEF SetSandboxFile
<1>7. CASE UNCHANGED <<opt, run, name>>
  BY <1>7
<1> QED BY ZenonT(30), <1>1, <1>2, <1>3, <1>4, <1>5, <1>6, <1>7, FileSteps

\* The profile file is the first that is written and the last that is removed.
LEMMA ReachableStep ==
  ASSUME RIInv, NEW p \in Pids, Step(p)
  PROVE  Reachable'
<1> USE DEF RIInv, RType, Dirs, Reachable
<1>1. CASE Unlink(p)
  <2> DEFINE h == Head(left[p])
  <2>1. /\ pc[p] = "unlink" /\ left[p] # <<>> /\ left[p] \in Suffixes /\ opt' = opt
        /\ run' = [run EXCEPT ![h] = @ \ {victim[p]}]
    BY <1>1 DEF Unlink
  <2>2. h \in Dirs
    BY Zenon, <2>1, SuffixStep
  <2>3. CASE h = "profile"
    <3>1. \A d \in Dirs : d # "profile" => d \notin Todo(p)
      <4>1. Todo(p) \ {h} = {}
        <5> DEFINE l == left[p]
        <5>1. l \in Suffixes /\ l # <<>> /\ Head(l) = "profile"
          BY <2>1, <2>3
        <5> HIDE DEF l
        <5>2. {l[i] : i \in 1..Len(l)} \ {Head(l)} = {}
          BY ZenonT(30), <5>1, SuffixStep
        <5> QED BY <5>2 DEF Todo, l
      <4> QED BY <2>3, <4>1
    <3>2. \A d \in Dirs : d # "profile" => victim[p] \notin run[d]
      BY <2>1, <3>1 DEF Gone
    <3> QED BY <2>1, <2>2, <2>3, <3>2
  <2>4. CASE h # "profile"
    BY <2>1, <2>2, <2>4
  <2> QED BY Zenon, <2>3, <2>4
<1>2. CASE ReadOptions(p)
  BY <1>2 DEF ReadOptions, OwnFiles, AfterOptions, AfterNetwork, AfterName, AfterX11
<1>3. CASE SetNetworkFile(p)
  BY <1>3 DEF SetNetworkFile, locals, OwnFiles, AfterOptions
<1>4. CASE SetNameFile(p)
  BY <1>4 DEF SetNameFile, locals, OwnFiles, AfterOptions
<1>5. CASE SetX11File(p)
  BY <1>5 DEF SetX11File, locals, OwnFiles, AfterOptions
<1>6. CASE SetSandboxFile(p)
  BY <1>6 DEF SetSandboxFile, locals, OwnFiles, AfterOptions
<1>7. CASE UNCHANGED <<opt, run, name>>
  BY <1>7
<1> QED BY <1>1, <1>2, <1>3, <1>4, <1>5, <1>6, <1>7, FileSteps

\* A process adds only files of its own, and only after the first lock.
LEMMA FilesAdded ==
  ASSUME RType, NEW p \in Pids, Step(p), NEW d \in Dirs
  PROVE  \A q \in Pids : q \in run'[d] => q \in run[d] \/ (q = p /\ pc[p] \notin {"none", "lock1"})
<1>0. run \in [Dirs -> SUBSET Pids]
  BY DEF RType
<1>1. CASE Unlink(p)
  BY <1>0, <1>1 DEF Unlink
<1>2. CASE ReadOptions(p)
  <2>1. pc[p] = "options" /\ run' \in {run, [run EXCEPT !["profile"] = @ \cup {p}]}
    BY <1>2 DEF ReadOptions
  <2> QED BY <1>0, <2>1
<1>3. CASE SetNetworkFile(p)
  <2>1. pc[p] = "netmap" /\ run' = [run EXCEPT !["network"] = @ \cup {p}]
    BY <1>3 DEF SetNetworkFile
  <2> QED BY <1>0, <2>1
<1>4. CASE SetNameFile(p)
  <2>1. pc[p] = "name" /\ run' \in {run, [run EXCEPT !["name"] = @ \cup {p}]}
    BY <1>4 DEF SetNameFile
  <2> QED BY <1>0, <2>1
<1>5. CASE SetX11File(p)
  <2>1. pc[p] = "x11" /\ run' \in {run, [run EXCEPT !["x11"] = @ \cup {p}]}
    BY <1>5 DEF SetX11File
  <2> QED BY <1>0, <2>1
<1>6. CASE SetSandboxFile(p)
  <2>1. pc[p] = "pidfile" /\ run' = [run EXCEPT !["sandbox"] = @ \cup {p}]
    BY <1>6 DEF SetSandboxFile
  <2> QED BY <1>0, <2>1
<1>7. CASE UNCHANGED <<opt, run, name>>
  BY <1>7
<1> QED BY Zenon, <1>1, <1>2, <1>3, <1>4, <1>5, <1>6, <1>7, FileSteps

\* While p is cleaning, only processes it has found alive write files.
LEMMA StaleStep ==
  ASSUME RIInv, NEW p \in Pids, Step(p), NEW r \in Pids, NEW d \in Dirs, Stale(r, d) = {},
         unread[r] = {}, Cleaning(r), seen'[r] = seen[r]
  PROVE  Stale(r, d)' = {}
<1>0. RType /\ Missed
  BY DEF RIInv
<1>1. \A q \in Pids : q \in run'[d] => q \in run[d] \/ (q = p /\ pc[p] \notin {"none", "lock1"})
  BY Zenon, <1>0, FilesAdded
<1>2. p >= StartPid /\ pc[p] \notin {"none", "lock1"} => p \in seen[r]
  BY Zenon, <1>0 DEF Missed
<1>3. run'[d] \subseteq Pids
  BY TypeStep DEF RType
<1>4. ASSUME NEW q \in run'[d], q >= StartPid, q \notin seen[r]
      PROVE  FALSE
  <2>1. q \in run[d] => q \in Stale(r, d)
    BY <1>4 DEF Stale
  <2>2. ~(q = p /\ pc[p] \notin {"none", "lock1"})
    BY Zenon, <1>2, <1>4
  <2> QED BY Zenon, <1>1, <1>3, <2>1, <2>2
<1> QED BY <1>4 DEF Stale

\* A step of p leaves where the others are, and what they know, alone.
LEMMA OthersStep ==
  ASSUME RIInv, NEW p \in Pids, Step(p)
  PROVE  \A r \in Pids \ {p} :
           pc'[r] = pc[r] /\ ret'[r] = ret[r] /\ seen'[r] = seen[r]
<1> USE DEF RIInv, RType, Goto, locals
<1>1. CASE LockDir(p, "lock1", "scan")
  BY <1>1 DEF LockDir
<1>2. CASE LockDir(p, "lock2", "name")
  BY <1>2 DEF LockDir
<1>3. CASE Scan(p)
  BY <1>3 DEF Scan, SeesPid
<1>4. CASE ScanDone(p)
  BY <1>4 DEF ScanDone
<1>5. CASE CleanDir(p, "profiles", "profile", "names")
  BY <1>5 DEF CleanDir, Call
<1>6. CASE CleanDir(p, "names", "name", "unlock1")
  BY <1>6 DEF CleanDir, Call
<1>7. CASE Unlink(p)
  BY <1>7 DEF Unlink
<1>8. CASE Return(p)
  <2>1. CASE ret[p] = "none"
    <3>1. pc[p] = "unlink" /\ Ends(p)
      BY <1>8, <2>1 DEF Return
    <3> QED BY <2>1, <3>1 DEF Ends
  <2>2. CASE ret[p] # "none"
    <3>1. /\ pc[p] = "unlink" /\ pc' = [pc EXCEPT ![p] = ret[p]]
          /\ victim' = [victim EXCEPT ![p] = p] /\ ret' = [ret EXCEPT ![p] = "none"]
          /\ UNCHANGED <<proc, opt, unread, seen, left, dirlock, run, name>>
      BY <1>8, <2>2 DEF Return
    <3> QED BY <2>2, <3>1
  <2> QED BY <2>1, <2>2
<1>9. CASE UnlockDir(p, "unlock1", "own")
  BY <1>9 DEF UnlockDir
<1>10. CASE UnlockDir(p, "unlock2", "clone")
  BY <1>10 DEF UnlockDir
<1>11. CASE DeleteOwn(p)
  BY <1>11 DEF DeleteOwn, Call
<1>12. CASE ReadOptions(p)
  BY <1>12 DEF ReadOptions
<1>13. CASE LockNetwork(p)
  BY <1>13 DEF LockNetwork
<1>14. CASE SkipNetwork(p)
  BY <1>14 DEF SkipNetwork
<1>15. CASE SetNetworkFile(p)
  BY <1>15 DEF SetNetworkFile
<1>16. CASE SetNameFile(p)
  BY <1>16 DEF SetNameFile
<1>17. CASE SetX11File(p)
  BY <1>17 DEF SetX11File
<1>18. CASE Clone(p)
  BY <1>18 DEF Clone
<1>19. CASE SetSandboxFile(p)
  BY <1>19 DEF SetSandboxFile
<1>20. CASE UnlockNetwork(p)
  BY <1>20 DEF UnlockNetwork
<1>21. CASE Exit(p)
  BY <1>21 DEF Exit, Call
<1>22. CASE Retry(p)
  BY <1>22 DEF Retry
<1>23. CASE Timeout(p)
  <2>1. CASE pc[p] = "lock1"
    BY <1>23, <2>1 DEF Timeout, Ends
  <2>2. CASE pc[p] # "lock1"
    BY <1>23, <2>2 DEF Timeout, Busy
  <2> QED BY Zenon, <2>1, <2>2
<1>24. CASE Start(p)
  BY <1>24 DEF Start
<1>25. CASE LeaveMain(p)
  BY <1>25 DEF LeaveMain
<1>26. CASE Killed(p)
  BY <1>26 DEF Killed, Ends
<1>27. CASE OtherStarts(p)
  BY <1>27 DEF OtherStarts
<1>28. CASE OtherEnds(p)
  BY <1>28 DEF OtherEnds
<1>29. CASE OrphanEnds(p)
  BY <1>29 DEF OrphanEnds
<1> QED BY ZenonT(30), <1>1, <1>2, <1>3, <1>4, <1>5, <1>6, <1>7, <1>8, <1>9, <1>10, <1>11, <1>12, <1>13, <1>14, <1>15, <1>16, <1>17, <1>18, <1>19, <1>20, <1>21, <1>22, <1>23, <1>24, <1>25, <1>26, <1>27, <1>28, <1>29 DEF Step, Startup

\* What a cleaning process has been through stays free of stale files.
LEMMA OwnCleanedStep ==
  ASSUME RIInv, NEW p \in Pids, Step(p)
  PROVE  LET through == pc'[p] \in {"names", "unlock1"} \/ (pc'[p] = "unlink" /\ ret'[p] = "names")
         IN  /\ through => Stale(p, "profile")' = {}
             /\ pc'[p] = "unlock1" => Stale(p, "name")' = {}
<1> USE DEF RIInv, RType, Deleting, Cleaned, Stale, Goto, locals
<1>1. CASE LockDir(p, "lock1", "scan")
  BY <1>1 DEF LockDir
<1>2. CASE LockDir(p, "lock2", "name")
  BY <1>2 DEF LockDir
<1>3. CASE Scan(p)
  BY <1>3 DEF Scan, SeesPid
<1>4. CASE ScanDone(p)
  BY <1>4 DEF ScanDone
<1>5. CASE CleanDir(p, "profiles", "profile", "names")
  BY <1>5 DEF CleanDir, Call
<1>6. CASE CleanDir(p, "names", "name", "unlock1")
  BY <1>6 DEF CleanDir, Call
<1>7. CASE Unlink(p)
  <2>1. pc' = pc /\ ret' = ret /\ seen' = seen /\ pc[p] = "unlink"
    BY <1>7 DEF Unlink
  <2>2. ret[p] = "names" => Stale(p, "profile")' = {}
    BY ZenonT(30), <2>1, StaleStep DEF Cleaning, Dirs
  <2> QED BY <2>1, <2>2
<1>8. CASE Return(p)
  <2>1. CASE ret[p] = "none"
    <3>1. pc[p] = "unlink" /\ Ends(p)
      BY <1>8, <2>1 DEF Return
    <3> QED BY <2>1, <3>1 DEF Ends
  <2>2. CASE ret[p] # "none"
    <3>1. /\ pc[p] = "unlink" /\ pc' = [pc EXCEPT ![p] = ret[p]]
          /\ victim' = [victim EXCEPT ![p] = p] /\ ret' = [ret EXCEPT ![p] = "none"]
          /\ UNCHANGED <<proc, opt, unread, seen, left, dirlock, run, name>>
      BY <1>8, <2>2 DEF Return
    <3> QED BY <2>2, <3>1
  <2> QED BY ZenonT(30), <2>1, <2>2
<1>9. CASE UnlockDir(p, "unlock1", "own")
  BY <1>9 DEF UnlockDir
<1>10. CASE UnlockDir(p, "unlock2", "clone")
  BY <1>10 DEF UnlockDir
<1>11. CASE DeleteOwn(p)
  BY <1>11 DEF DeleteOwn, Call
<1>12. CASE ReadOptions(p)
  BY <1>12 DEF ReadOptions
<1>13. CASE LockNetwork(p)
  BY <1>13 DEF LockNetwork
<1>14. CASE SkipNetwork(p)
  BY <1>14 DEF SkipNetwork
<1>15. CASE SetNetworkFile(p)
  BY <1>15 DEF SetNetworkFile
<1>16. CASE SetNameFile(p)
  BY <1>16 DEF SetNameFile
<1>17. CASE SetX11File(p)
  BY <1>17 DEF SetX11File
<1>18. CASE Clone(p)
  BY <1>18 DEF Clone
<1>19. CASE SetSandboxFile(p)
  BY <1>19 DEF SetSandboxFile
<1>20. CASE UnlockNetwork(p)
  BY <1>20 DEF UnlockNetwork
<1>21. CASE Exit(p)
  BY <1>21 DEF Exit, Call
<1>22. CASE Retry(p)
  BY <1>22 DEF Retry
<1>23. CASE Timeout(p)
  <2>1. CASE pc[p] = "lock1"
    BY <1>23, <2>1 DEF Timeout, Ends
  <2>2. CASE pc[p] # "lock1"
    BY <1>23, <2>2 DEF Timeout, Busy
  <2> QED BY <2>1, <2>2
<1>24. CASE Start(p)
  BY <1>24 DEF Start
<1>25. CASE LeaveMain(p)
  BY <1>25 DEF LeaveMain
<1>26. CASE Killed(p)
  BY <1>26 DEF Killed, Ends
<1>27. CASE OtherStarts(p)
  BY <1>27 DEF OtherStarts
<1>28. CASE OtherEnds(p)
  BY <1>28 DEF OtherEnds
<1>29. CASE OrphanEnds(p)
  BY <1>29 DEF OrphanEnds
<1> QED BY ZenonT(30), <1>1, <1>2, <1>3, <1>4, <1>5, <1>6, <1>7, <1>8, <1>9, <1>10, <1>11, <1>12, <1>13, <1>14, <1>15, <1>16, <1>17, <1>18, <1>19, <1>20, <1>21, <1>22, <1>23, <1>24, <1>25, <1>26, <1>27, <1>28, <1>29 DEF Step, Startup

\* The same for every process.
LEMMA CleanedStep ==
  ASSUME RIInv, NEW p \in Pids, Step(p)
  PROVE  Cleaned'
<1> SUFFICES ASSUME NEW r \in Pids
             PROVE  /\ \/ pc'[r] \in {"names", "unlock1"}
                       \/ pc'[r] = "unlink" /\ ret'[r] = "names"
                       => Stale(r, "profile")' = {}
                    /\ pc'[r] = "unlock1" => Stale(r, "name")' = {}
  BY DEF Cleaned
<1>1. CASE r = p
  BY <1>1, OwnCleanedStep
<1>2. CASE r # p
  <2>1. pc'[r] = pc[r] /\ ret'[r] = ret[r] /\ seen'[r] = seen[r]
    BY <1>2, OthersStep
  <2> QED BY Zenon, <2>1, StaleStep DEF RIInv, Cleaned, Cleaning, Deleting, Dirs
<1> QED BY ZenonT(30), <1>1, <1>2
\* Only set_name_run_file() takes a process past the point where it has its name.
LEMMA NamedBefore ==
  ASSUME RIInv, NEW p \in Pids, Step(p)
  PROVE  pc'[p] \in AfterName => pc[p] \in AfterName \/ SetNameFile(p)
<1> USE DEF RIInv, RType, AfterOptions, AfterNetwork, AfterName, Goto, locals
<1>1. CASE LockDir(p, "lock1", "scan")
  BY <1>1 DEF LockDir
<1>2. CASE LockDir(p, "lock2", "name")
  BY <1>2 DEF LockDir
<1>3. CASE Scan(p)
  BY <1>3 DEF Scan, SeesPid
<1>4. CASE ScanDone(p)
  BY <1>4 DEF ScanDone
<1>5. CASE CleanDir(p, "profiles", "profile", "names")
  BY <1>5 DEF CleanDir, Call
<1>6. CASE CleanDir(p, "names", "name", "unlock1")
  BY <1>6 DEF CleanDir, Call
<1>7. CASE Unlink(p)
  BY <1>7 DEF Unlink
<1>8. CASE Return(p)
  <2>1. CASE ret[p] = "none"
    <3>1. pc[p] = "unlink" /\ Ends(p)
      BY <1>8, <2>1 DEF Return
    <3> QED BY <2>1, <3>1 DEF Ends
  <2>2. CASE ret[p] # "none"
    <3>1. /\ pc[p] = "unlink" /\ pc' = [pc EXCEPT ![p] = ret[p]]
          /\ victim' = [victim EXCEPT ![p] = p] /\ ret' = [ret EXCEPT ![p] = "none"]
          /\ UNCHANGED <<proc, opt, unread, seen, left, dirlock, run, name>>
      BY <1>8, <2>2 DEF Return
    <3> QED BY <2>2, <3>1
  <2> QED BY <2>1, <2>2
<1>9. CASE UnlockDir(p, "unlock1", "own")
  BY <1>9 DEF UnlockDir
<1>10. CASE UnlockDir(p, "unlock2", "clone")
  BY <1>10 DEF UnlockDir
<1>11. CASE DeleteOwn(p)
  BY <1>11 DEF DeleteOwn, Call
<1>12. CASE ReadOptions(p)
  BY <1>12 DEF ReadOptions
<1>13. CASE LockNetwork(p)
  BY <1>13 DEF LockNetwork
<1>14. CASE SkipNetwork(p)
  BY <1>14 DEF SkipNetwork
<1>15. CASE SetNetworkFile(p)
  BY <1>15 DEF SetNetworkFile
<1>16. CASE SetNameFile(p)
  BY <1>16 DEF SetNameFile
<1>17. CASE SetX11File(p)
  BY <1>17 DEF SetX11File
<1>18. CASE Clone(p)
  BY <1>18 DEF Clone
<1>19. CASE SetSandboxFile(p)
  BY <1>19 DEF SetSandboxFile
<1>20. CASE UnlockNetwork(p)
  BY <1>20 DEF UnlockNetwork
<1>21. CASE Exit(p)
  BY <1>21 DEF Exit, Call
<1>22. CASE Retry(p)
  BY <1>22 DEF Retry
<1>23. CASE Timeout(p)
  <2>1. CASE pc[p] = "lock1"
    BY <1>23, <2>1 DEF Timeout, Ends
  <2>2. CASE pc[p] # "lock1"
    BY <1>23, <2>2 DEF Timeout, Busy
  <2> QED BY <2>1, <2>2
<1>24. CASE Start(p)
  BY <1>24 DEF Start
<1>25. CASE LeaveMain(p)
  BY <1>25 DEF LeaveMain
<1>26. CASE Killed(p)
  BY <1>26 DEF Killed, Ends
<1>27. CASE OtherStarts(p)
  BY <1>27 DEF OtherStarts
<1>28. CASE OtherEnds(p)
  BY <1>28 DEF OtherEnds
<1>29. CASE OrphanEnds(p)
  BY <1>29 DEF OrphanEnds
<1> QED BY ZenonT(30), <1>1, <1>2, <1>3, <1>4, <1>5, <1>6, <1>7, <1>8, <1>9, <1>10, <1>11, <1>12, <1>13, <1>14, <1>15, <1>16, <1>17, <1>18, <1>19, <1>20, <1>21, <1>22, <1>23, <1>24, <1>25, <1>26, <1>27, <1>28, <1>29 DEF Step, Startup

\* newname() gives no two processes the same name.
LEMMA NamesStep ==
  ASSUME RIInv, NEW p \in Pids, Step(p)
  PROVE  NamesUnique'
<1> USE DEF RIInv, RType
<1>1. CASE SetNameFile(p) /\ "name" \in opt[p]
  <2>1. PICK n \in Names : name' = [name EXCEPT ![p] = NewName(n, p)]
    BY <1>1 DEF SetNameFile
  <2>2. pc' = [pc EXCEPT ![p] = "x11"]
    BY <1>1 DEF SetNameFile, Goto
  <2>3. GivenNames'
    BY ZenonT(30), <2>1, <2>2, NewNameShape DEF NamesUnique, GivenNames
  <2>4. ASSUME NameChange, PlainNames, NEW q \in Pids \ {p}, pc[q] \in AfterName,
               name[q] # NoName
        PROVE  NewName(n, p) # name[q]
    <3>1. proc[q] = "firejail"
      BY <2>4 DEF Alive, AfterName, AfterNetwork, AfterOptions
    <3>2. CASE ~InUse(n, p)
      BY <2>4, <3>1, <3>2 DEF InUse, NewName
    <3>3. CASE InUse(n, p)
      <4>1. NewName(n, p) = Append(n, p)
        BY <2>4, <3>3 DEF NewName
      <4>2. CASE name[q] \in Names
        BY <2>4, <4>1, <4>2 DEF PlainNames
      <4>3. CASE \E m \in Names : name[q] = Append(m, q)
        <5>1. PICK m \in Names : name[q] = Append(m, q)
          BY <4>3
        <5>2. m \in Seq(Letters \cup Pids) /\ n \in Seq(Letters \cup Pids)
          BY RunDirAssumption
        <5> QED BY <4>1, <5>1, <5>2, AppendInjective
      <4> QED BY <2>4, <4>2, <4>3 DEF NamesUnique, GivenNames
    <3> QED BY <3>2, <3>3
  <2>5. NameChange /\ PlainNames => DistinctNames'
    <3> SUFFICES ASSUME NameChange, PlainNames, NEW q \in Pids, NEW r \in Pids, q # r,
                        pc'[q] \in AfterName, pc'[r] \in AfterName, name'[q] # NoName
                 PROVE  name'[q] # name'[r]
      BY DEF DistinctNames
    <3>1. NewName(n, p) # NoName
      BY NewNameShape
    <3>2. CASE q = p
      <4>1. pc[r] \in AfterName /\ name'[r] = name[r] /\ name'[q] = NewName(n, p)
        BY <2>1, <2>2, <3>2
      <4> QED BY <2>4, <3>1, <3>2, <4>1
    <3>3. CASE r = p
      <4>1. pc[q] \in AfterName /\ name'[q] = name[q] /\ name'[r] = NewName(n, p)
        BY <2>1, <2>2, <3>3
      <4> QED BY <2>4, <3>3, <4>1
    <3>4. CASE q # p /\ r # p
      BY <2>1, <2>2, <3>4 DEF NamesUnique, DistinctNames
    <3> QED BY <3>2, <3>3, <3>4
  <2> QED BY <2>3, <2>5 DEF NamesUnique, PlainNames
<1>2. CASE ~(SetNameFile(p) /\ "name" \in opt[p])
  <2>1. \A q \in Pids : pc'[q] \in AfterName => name'[q] = name[q]
    <3>1. CASE Unlink(p)
      <4>1. /\ pc' = pc
            /\ name' = IF Head(left[p]) = "name" THEN [name EXCEPT ![victim[p]] = NoName]
                                                ELSE name
        BY <3>1 DEF Unlink
      <4>2. pc[victim[p]] \in {"none", "lock1", "unlink"}
        BY <3>1, Victims DEF Unlink
      <4> QED BY <4>1, <4>2 DEF AfterName, AfterNetwork, AfterOptions
    <3>2. CASE ~Unlink(p)
      <4>1. name' = name
        BY <1>2, <3>2, FileSteps
           DEF SetNameFile, ReadOptions, SetNetworkFile, SetX11File, SetSandboxFile
      <4> QED BY <4>1
    <3> QED BY <3>1, <3>2
  <2>2. \A q \in Pids : pc'[q] \in AfterName =>
          pc[q] \in AfterName \/ (q = p /\ SetNameFile(p))
    BY ZenonT(30), OthersStep, NamedBefore
  <2>3. SetNameFile(p) => name'[p] = NoName
    BY <1>2 DEF SetNameFile, NameFiles, OwnFiles, AfterName, AfterNetwork, AfterOptions
  <2>4. GivenNames'
    BY ZenonT(30), <2>1, <2>2, <2>3 DEF NamesUnique, GivenNames
  <2>5. NameChange /\ PlainNames => DistinctNames'
    BY <2>1, <2>2, <2>3 DEF NamesUnique, DistinctNames
  <2> QED BY <2>4, <2>5 DEF NamesUnique, PlainNames
<1> QED BY <1>1, <1>2

\* The initial states satisfy the invariant: there are no processes and no files.
LEMMA RInitIInv == Init => RIInv
<1> SUFFICES ASSUME Init PROVE RIInv
  OBVIOUS
<1>1. RType
  BY SuffixEnds DEF Init, RType, PC, NoName, Texts
<1>2. Alive /\ Locked /\ Deleting /\ Missed /\ Gone
  BY DEF Init, Alive, Locked, Deleting, Missed, Gone, Cleaning
<1>3. NameFiles /\ OwnFiles /\ Cleaned /\ Reachable
  BY DEF Init, NameFiles, OwnFiles, Cleaned, Reachable, AfterOptions, AfterNetwork, AfterName,
         AfterX11, Dirs
<1>4. NamesUnique
  BY DEF Init, NamesUnique, GivenNames, DistinctNames, AfterName, AfterNetwork, AfterOptions
<1> QED BY <1>1, <1>2, <1>3, <1>4 DEF RIInv

\* Every step, stuttering included, keeps it: the lemmas above, one conjunct each.
LEMMA RStep == RIInv /\ [Next]_vars => RIInv'
<1> SUFFICES ASSUME RIInv, [Next]_vars PROVE RIInv'
  OBVIOUS
<1>1. CASE Next
  <2>1. PICK p \in Pids : Step(p)
    BY <1>1 DEF Next, Step
  <2> QED BY <2>1, TypeStep, LockStep, MissedStep, GoneStep, NameFilesStep, OwnFilesStep,
             CleanedStep, ReachableStep, NamesStep DEF RIInv
<1>2. CASE UNCHANGED vars
  <2> USE <1>2 DEF vars, locals, RIInv
  <2>1. RType' /\ Alive' /\ Locked' /\ Deleting' /\ Missed'
    BY DEF RType, Alive, Locked, Deleting, Missed, Cleaning
  <2>2. Gone'
    BY ZenonT(30) DEF Gone, Todo
  <2>3. NameFiles' /\ OwnFiles' /\ Cleaned' /\ Reachable'
    BY ZenonT(30) DEF NameFiles, OwnFiles, Cleaned, Reachable, Stale
  <2>4. NamesUnique'
    BY Zenon DEF NamesUnique, GivenNames, DistinctNames, PlainNames
  <2> QED BY <2>1, <2>2, <2>3, <2>4
<1> QED BY <1>1, <1>2

----------------------------------------------------------------------------
(* The properties *)

\* In every run of any number of firejail processes, killed at any point and
\* with pids used again, a sandbox that is up has exactly the run files its
\* options call for, and a name no other one has (preproc_clean_run,
\* delete_run_files, newname).
THEOREM RunFilesAreTrue == Spec => []RunFilesTrue
<1>1. RIInv => RunFilesTrue
  <2> SUFFICES ASSUME RIInv PROVE RunFilesTrue
    OBVIOUS
  <2> USE DEF RIInv, RType, OwnFiles, NameFiles, AfterOptions, AfterNetwork, AfterName, AfterX11
  <2>1. ASSUME NEW p \in Pids, pc[p] = "up"
        PROVE  /\ Files(p) = {"sandbox"} \cup (opt[p] \cap {"profile", "name", "x11"})
                             \cup (IF "net" \in opt[p] THEN {"network"} ELSE {})
               /\ name[p] # NoName <=> "name" \in opt[p]
    <3>1. /\ p \in run["sandbox"]
          /\ p \in run["profile"] <=> "profile" \in opt[p]
          /\ p \in run["network"] <=> "net" \in opt[p]
          /\ p \in run["name"] <=> "name" \in opt[p]
          /\ p \in run["x11"] <=> "x11" \in opt[p]
      BY <2>1
    <3>2. \A d \in Dirs :
            d \in Files(p) <=> d \in {"sandbox"} \cup (opt[p] \cap {"profile", "name", "x11"})
                                    \cup (IF "net" \in opt[p] THEN {"network"} ELSE {})
      BY <3>1 DEF Files, Dirs
    <3>3. Files(p) \subseteq Dirs
      BY DEF Files
    <3> QED BY <3>1, <3>2, <3>3 DEF Dirs
  <2>2. NameChange /\ PlainNames => UniqueNames
    BY DEF NamesUnique, DistinctNames, UniqueNames
  <2> QED BY <2>1, <2>2 DEF RunFilesTrue, FilesAreOwn
<1> QED BY <1>1, RInitIInv, RStep, PTL DEF Spec

\* The cleanup leaves no profile or name file of a process that was gone, and
\* what a killed process with a profile left behind stays within its reach.
THEOREM StaleFilesAreGone == Spec => []StaleFilesGone
<1>1. RIInv => StaleFilesGone
  <2> SUFFICES ASSUME RIInv PROVE StaleFilesGone
    OBVIOUS
  <2>1. CleanupComplete
    BY DEF RIInv, Cleaned, Stale, CleanupComplete
  <2>2. LeftoversReachable
    BY DEF RIInv, Reachable, LeftoversReachable, Files
  <2> QED BY <2>1, <2>2 DEF StaleFilesGone
<1> QED BY <1>1, RInitIInv, RStep, PTL DEF Spec

\* No step of another process removes a file of a process that is past the
\* first cleanup.
THEOREM LiveFilesStay == Spec => LiveFilesKept
<1> DEFINE Kept ==
      \A q \in Pids :
        proc[q] = "firejail" /\ pc[q] \notin {"lock1", "scan", "profiles", "names",
                                              "unlock1", "own", "unlink"}
          => \A d \in Dirs : q \in run[d] => q \in run'[d]
<1>1. RIInv /\ [Next]_vars => [Kept]_vars
  <2> SUFFICES ASSUME RIInv, NEW p \in Pids, Step(p) PROVE Kept
    BY ZenonT(30) DEF Next, Step
  <2> USE DEF RIInv, RType, Dirs
  <2>1. CASE Unlink(p)
    <3>1. \A q \in Pids, d \in Dirs : q # victim[p] /\ q \in run[d] => q \in run'[d]
      BY <2>1 DEF Unlink
    <3>2. pc[victim[p]] \in {"none", "lock1", "unlink"} /\ victim[p] \in Pids
      BY <2>1, Victims DEF Unlink
    <3> QED BY Zenon, <3>1, <3>2 DEF Alive
  <2>2. CASE ReadOptions(p)
    BY <2>2 DEF ReadOptions
  <2>3. CASE SetNetworkFile(p)
    BY <2>3 DEF SetNetworkFile
  <2>4. CASE SetNameFile(p)
    BY <2>4 DEF SetNameFile
  <2>5. CASE SetX11File(p)
    BY <2>5 DEF SetX11File
  <2>6. CASE SetSandboxFile(p)
    BY <2>6 DEF SetSandboxFile
  <2>7. CASE UNCHANGED <<opt, run, name>>
    BY <2>7
  <2> QED BY <2>1, <2>2, <2>3, <2>4, <2>5, <2>6, <2>7, FileSteps
<1> QED BY <1>1, RInitIInv, RStep, PTL DEF Spec, LiveFilesKept
=============================================================================
