------------------------------- MODULE RunDir -------------------------------
(***************************************************************************)
(* The run directory /run/firejail, shared by all firejail processes of    *)
(* the host: the files each of them keeps there under its pid (preproc.c,  *)
(* run_files.c), the cleanup of what dead ones left behind, sandbox names, *)
(* and the two lock files.  Processes come and go at any time, are killed  *)
(* at any point, and pids are used again.                                  *)
(***************************************************************************)
EXTENDS Naturals, Sequences, FiniteSets

CONSTANTS
  Pids,       \* process ids
  StartPid,   \* cleanup looks at ids from here on (start_pid)
  Names,      \* names the users may ask for, as sequences
  OptionSets, \* subsets of {"profile", "net", "name", "x11"}
  NameChange, \* the setting name-change of firejail.config
  MaxTries    \* sleeps of preproc_lock_file() before its timeout (19 in the code)

NoName == <<>>
Letters == UNION {{n[i] : i \in DOMAIN n} : n \in Names}

ASSUME RunDirAssumption ==
  /\ Pids \subseteq Nat \ {0} /\ IsFiniteSet(Pids)
  /\ StartPid \in Nat /\ MaxTries \in Nat /\ NameChange \in BOOLEAN
  /\ Names \subseteq Seq(Letters) /\ NoName \notin Names
  /\ OptionSets \subseteq SUBSET {"profile", "net", "name", "x11"}

Dirs == {"sandbox", "network", "name", "x11", "profile"}

\* mutant: the profile file goes first
ProfileFirst == <<"profile", "sandbox", "network", "name", "x11">>

\* The order of delete_run_files().
Order == <<"sandbox", "network", "name", "x11", "profile">>

PC == {"none", "lock1", "scan", "profiles", "names", "unlock1", "own", "options",
       "netlock", "netmap", "lock2", "name", "x11", "unlock2", "clone",
       "pidfile", "netunlock", "up", "unlink", "exit"}

VARIABLES
  proc,     \* what runs under a pid: "none", "other" or "firejail"
  pc,       \* where each firejail process is
  opt,      \* its options
  tries,    \* failed attempts at the lock it waits for
  unread,   \* pids the scan of /proc has still to read
  seen,     \* pidarr: the pids found alive
  victim,   \* the pid delete_run_files() was called for
  left,     \* the directories it has still to visit
  ret,      \* where it returns to
  dirlock,  \* holder of the directory lock, 0 if free
  netlock,  \* holder of the network lock, 0 if free
  run,      \* run files: the pids that have one, per directory
  name,     \* contents of the name files
  cloned,   \* processes that have started their sandbox
  orphans   \* sandboxes whose parent died before it released the network lock

locals == <<opt, tries, unread, seen, victim, left, ret>>
vars == <<proc, pc, locals, dirlock, netlock, run, name, cloned, orphans>>

Goto(p, s) == pc' = [pc EXCEPT ![p] = s]

Init ==
  /\ proc = [p \in Pids |-> "none"] /\ pc = [p \in Pids |-> "none"]
  /\ opt = [p \in Pids |-> {}] /\ tries = [p \in Pids |-> 0]
  /\ unread = [p \in Pids |-> {}] /\ seen = [p \in Pids |-> {}]
  /\ victim = [p \in Pids |-> p] /\ left = [p \in Pids |-> <<>>]
  /\ ret = [p \in Pids |-> "none"]
  /\ dirlock = 0 /\ netlock = 0
  /\ run = [d \in Dirs |-> {}] /\ name = [p \in Pids |-> NoName]
  /\ cloned = {} /\ orphans = {}

\* A process ceases to exist.  Its locks go, except that a sandbox that was
\* cloned already shares the open network lock file.
Ends(p) ==
  /\ proc' = [proc EXCEPT ![p] = "none"] /\ Goto(p, "none")
  /\ tries' = [tries EXCEPT ![p] = 0]
  /\ unread' = [unread EXCEPT ![p] = {}] /\ seen' = [seen EXCEPT ![p] = {}]
  /\ victim' = [victim EXCEPT ![p] = p] /\ left' = [left EXCEPT ![p] = <<>>]
  /\ ret' = [ret EXCEPT ![p] = "none"]
  /\ dirlock' = IF dirlock = p THEN 0 ELSE dirlock
  /\ cloned' = cloned \ {p}
  /\ IF netlock = p /\ p \in cloned
       THEN orphans' = orphans \cup {p} /\ UNCHANGED netlock
       ELSE /\ netlock' = IF netlock = p /\ p \notin orphans THEN 0 ELSE netlock
            /\ UNCHANGED orphans
  /\ UNCHANGED <<opt, run, name>>

----------------------------------------------------------------------------
(* Locks *)

\* mutant: the lock is not waited for
LockDirAnyway(p, here, next) ==
  /\ pc[p] = here
  /\ dirlock' = p /\ tries' = [tries EXCEPT ![p] = 0] /\ Goto(p, next)
  /\ unread' = [unread EXCEPT ![p] = IF next = "scan" THEN Pids ELSE {}]
  /\ UNCHANGED <<proc, opt, seen, victim, left, ret, netlock, run, name, cloned, orphans>>

\* preproc_lock_file()
LockDir(p, here, next) ==
  /\ pc[p] = here /\ dirlock = 0
  /\ dirlock' = p /\ tries' = [tries EXCEPT ![p] = 0] /\ Goto(p, next)
  /\ unread' = [unread EXCEPT ![p] = IF next = "scan" THEN Pids ELSE {}]
  /\ UNCHANGED <<proc, opt, seen, victim, left, ret, netlock, run, name, cloned, orphans>>

LockNetwork(p) ==
  /\ pc[p] = "netlock" /\ "net" \in opt[p] /\ netlock = 0
  /\ netlock' = p /\ tries' = [tries EXCEPT ![p] = 0] /\ Goto(p, "netmap")
  /\ UNCHANGED <<proc, opt, unread, seen, victim, left, ret, dirlock, run, name, cloned, orphans>>

\* any_bridge_configured() is false.
SkipNetwork(p) ==
  /\ pc[p] = "netlock" /\ "net" \notin opt[p] /\ Goto(p, "lock2")
  /\ UNCHANGED <<proc, locals, dirlock, netlock, run, name, cloned, orphans>>

Busy(p) ==
  \/ pc[p] \in {"lock1", "lock2"} /\ dirlock # 0
  \/ pc[p] = "netlock" /\ "net" \in opt[p] /\ netlock # 0

\* The lock is held by another process: sleep and try again.
Retry(p) ==
  /\ Busy(p) /\ tries[p] < MaxTries /\ tries' = [tries EXCEPT ![p] = @ + 1]
  /\ UNCHANGED <<proc, pc, opt, unread, seen, victim, left, ret, dirlock, netlock, run,
                 name, cloned, orphans>>

\* mutant: the process waits for ever
NoTimeout(p) == FALSE /\ Ends(p)

\* "timeout occurred while trying to lock": exit, through clear_atexit() once
\* that is registered.
Timeout(p) ==
  /\ Busy(p) /\ tries[p] = MaxTries
  /\ \/ pc[p] = "lock1" /\ Ends(p)
     \/ /\ pc[p] # "lock1" /\ Goto(p, "exit")
        /\ tries' = [tries EXCEPT ![p] = 0]
        /\ UNCHANGED <<proc, opt, unread, seen, victim, left, ret, dirlock, netlock,
                       run, name, cloned, orphans>>

UnlockDir(p, here, next) ==
  /\ pc[p] = here /\ dirlock' = 0 /\ Goto(p, next)
  /\ seen' = [seen EXCEPT ![p] = {}]
  /\ UNCHANGED <<proc, opt, tries, unread, victim, left, ret, netlock, run, name, cloned, orphans>>

----------------------------------------------------------------------------
(* delete_run_files() and the cleanup *)

Call(p, q, r) ==
  /\ victim' = [victim EXCEPT ![p] = q] /\ left' = [left EXCEPT ![p] = Order]
  /\ ret' = [ret EXCEPT ![p] = r] /\ Goto(p, "unlink")
  /\ UNCHANGED <<proc, opt, tries, unread, seen, dirlock, netlock, run, name, cloned, orphans>>

\* One unlink() of delete_run_files(); a missing file is no error.
Unlink(p) ==
  /\ pc[p] = "unlink" /\ left[p] # <<>>
  /\ run' = [run EXCEPT ![Head(left[p])] = @ \ {victim[p]}]
  /\ name' = IF Head(left[p]) = "name" THEN [name EXCEPT ![victim[p]] = NoName] ELSE name
  /\ left' = [left EXCEPT ![p] = Tail(@)]
  /\ UNCHANGED <<proc, pc, opt, tries, unread, seen, victim, ret, dirlock, netlock, cloned, orphans>>

\* exit() after the deletion of one's own files ends the process.
Return(p) ==
  /\ pc[p] = "unlink" /\ left[p] = <<>>
  /\ \/ ret[p] = "none" /\ Ends(p)
     \/ /\ ret[p] # "none" /\ Goto(p, ret[p])
        /\ victim' = [victim EXCEPT ![p] = p] /\ ret' = [ret EXCEPT ![p] = "none"]
        /\ UNCHANGED <<proc, opt, tries, unread, seen, left, dirlock, netlock, run,
                       name, cloned, orphans>>

SeesPid(q) == q >= StartPid /\ proc[q] # "none"

\* preproc_clean_run(): /proc is read entry by entry, in order, while
\* processes come and go.
Scan(p) ==
  /\ pc[p] = "scan"
  /\ \E q \in unread[p] :
       /\ \A r \in unread[p] : q <= r
       /\ unread' = [unread EXCEPT ![p] = @ \ {q}]
       /\ seen' = IF SeesPid(q) THEN [seen EXCEPT ![p] = @ \cup {q}] ELSE seen
  /\ UNCHANGED <<proc, pc, opt, tries, victim, left, ret, dirlock, netlock, run, name, cloned, orphans>>

ScanDone(p) ==
  /\ pc[p] = "scan" /\ unread[p] = {} /\ Goto(p, "profiles")
  /\ UNCHANGED <<proc, locals, dirlock, netlock, run, name, cloned, orphans>>

Stale(p, d) == {q \in run[d] : q >= StartPid /\ q \notin seen[p]}

\* clean_dir(): delete the run files of every id that was not found in /proc.
CleanDir(p, here, d, next) ==
  /\ pc[p] = here
  /\ \/ \E q \in Stale(p, d) : Call(p, q, here)
     \/ /\ Stale(p, d) = {} /\ Goto(p, next)
        /\ UNCHANGED <<proc, locals, dirlock, netlock, run, name, cloned, orphans>>

----------------------------------------------------------------------------
(* One firejail process, in the order of main() *)

Start(p) ==
  /\ proc[p] = "none" /\ proc' = [proc EXCEPT ![p] = "firejail"] /\ Goto(p, "lock1")
  /\ UNCHANGED <<locals, dirlock, netlock, run, name, cloned, orphans>>

\* mutant: the leftovers of an earlier process with this pid stay
KeepOwn(p) ==
  /\ pc[p] = "own" /\ Goto(p, "options")
  /\ UNCHANGED <<proc, locals, dirlock, netlock, run, name, cloned, orphans>>

\* delete_run_files(getpid())
DeleteOwn(p) == pc[p] = "own" /\ Call(p, p, "options")

\* The options are read, and with them the profile (set_profile_run_file()).
ReadOptions(p) ==
  /\ pc[p] = "options" /\ Goto(p, "netlock")
  /\ \E o \in OptionSets :
       /\ opt' = [opt EXCEPT ![p] = o]
       /\ run' = IF "profile" \in o THEN [run EXCEPT !["profile"] = @ \cup {p}] ELSE run
  /\ UNCHANGED <<proc, tries, unread, seen, victim, left, ret, dirlock, netlock, name,
                 cloned, orphans>>

\* network_set_run_file()
SetNetworkFile(p) ==
  /\ pc[p] = "netmap" /\ Goto(p, "lock2")
  /\ run' = [run EXCEPT !["network"] = @ \cup {p}]
  /\ UNCHANGED <<proc, locals, dirlock, netlock, name, cloned, orphans>>

\* name2pid(): some other firejail process, or one that has just gone, has
\* this name.
InUse(n, p) == \E q \in Pids \ {p} : proc[q] = "firejail" /\ name[q] = n

\* newname()
NewName(n, p) == IF NameChange /\ InUse(n, p) THEN Append(n, p) ELSE n

\* set_name_run_file(), under the directory lock
SetNameFile(p) ==
  /\ pc[p] = "name" /\ Goto(p, "x11")
  /\ \/ /\ "name" \in opt[p]
        /\ \E n \in Names : name' = [name EXCEPT ![p] = NewName(n, p)]
        /\ run' = [run EXCEPT !["name"] = @ \cup {p}]
     \/ "name" \notin opt[p] /\ UNCHANGED name /\ UNCHANGED run
  /\ UNCHANGED <<proc, locals, dirlock, netlock, cloned, orphans>>

\* set_x11_run_file(), under the directory lock
SetX11File(p) ==
  /\ pc[p] = "x11" /\ Goto(p, "unlock2")
  /\ run' = IF "x11" \in opt[p] THEN [run EXCEPT !["x11"] = @ \cup {p}] ELSE run
  /\ UNCHANGED <<proc, locals, dirlock, netlock, name, cloned, orphans>>

\* clone(): the sandbox gets copies of the open descriptors.
Clone(p) ==
  /\ pc[p] = "clone" /\ Goto(p, "pidfile")
  /\ cloned' = cloned \cup {p}
  /\ UNCHANGED <<proc, locals, dirlock, netlock, run, name, orphans>>

\* set_sandbox_run_file()
SetSandboxFile(p) ==
  /\ pc[p] = "pidfile" /\ Goto(p, "netunlock")
  /\ run' = [run EXCEPT !["sandbox"] = @ \cup {p}]
  /\ UNCHANGED <<proc, locals, dirlock, netlock, name, cloned, orphans>>

\* preproc_unlock_firejail_network_dir(): without a lock it does nothing.
UnlockNetwork(p) ==
  /\ pc[p] = "netunlock" /\ Goto(p, "up")
  /\ netlock' = IF netlock = p /\ p \notin orphans THEN 0 ELSE netlock
  /\ UNCHANGED <<proc, locals, dirlock, run, name, cloned, orphans>>

\* The end of main(), my_handler(), or exit() anywhere after atexit(); the
\* second call of delete_run_files() in clear_atexit() finds nothing.
LeaveMain(p) ==
  /\ pc[p] \in {"up", "options", "netlock", "netmap", "lock2", "name", "x11", "unlock2",
              "clone", "pidfile", "netunlock"}
  /\ Goto(p, "exit")
  /\ UNCHANGED <<proc, locals, dirlock, netlock, run, name, cloned, orphans>>

Exit(p) == pc[p] = "exit" /\ Call(p, p, "none")

Killed(p) == proc[p] = "firejail" /\ Ends(p)

----------------------------------------------------------------------------
(* Other processes of the host *)

OtherStarts(p) ==
  /\ proc[p] = "none" /\ proc' = [proc EXCEPT ![p] = "other"]
  /\ UNCHANGED <<pc, locals, dirlock, netlock, run, name, cloned, orphans>>

OtherEnds(p) ==
  /\ proc[p] = "other" /\ proc' = [proc EXCEPT ![p] = "none"]
  /\ UNCHANGED <<pc, locals, dirlock, netlock, run, name, cloned, orphans>>

\* The last process of an orphaned sandbox ends, and its descriptors close.
OrphanEnds(p) ==
  /\ p \in orphans /\ orphans' = orphans \ {p} /\ netlock' = 0
  /\ UNCHANGED <<proc, pc, locals, dirlock, run, name, cloned>>

----------------------------------------------------------------------------

Startup(p) ==
  \/ LockDir(p, "lock1", "scan") \/ Scan(p) \/ ScanDone(p)
  \/ CleanDir(p, "profiles", "profile", "names") \/ CleanDir(p, "names", "name", "unlock1")
  \/ Unlink(p) \/ Return(p) \/ UnlockDir(p, "unlock1", "own") \/ DeleteOwn(p)
  \/ ReadOptions(p) \/ LockNetwork(p) \/ SkipNetwork(p) \/ SetNetworkFile(p)
  \/ LockDir(p, "lock2", "name") \/ SetNameFile(p) \/ SetX11File(p)
  \/ UnlockDir(p, "unlock2", "clone") \/ Clone(p) \/ SetSandboxFile(p)
  \/ UnlockNetwork(p) \/ Exit(p) \/ Retry(p) \/ Timeout(p)

Next ==
  \E p \in Pids :
    \/ Startup(p) \/ Start(p) \/ LeaveMain(p) \/ Killed(p)
    \/ OtherStarts(p) \/ OtherEnds(p) \/ OrphanEnds(p)

Spec == Init /\ [][Next]_vars

\* A firejail process that can go on with its startup or its exit does.
FairSpec == Spec /\ \A p \in Pids : WF_vars(Startup(p))

----------------------------------------------------------------------------
(* Properties *)

Files(p) == {d \in Dirs : p \in run[d]}

FilesAreOwn ==
  \A p \in Pids : pc[p] = "up" =>
    /\ Files(p) = {"sandbox"} \cup (opt[p] \cap {"profile", "name", "x11"})
                  \cup (IF "net" \in opt[p] THEN {"network"} ELSE {})
    /\ name[p] # NoName <=> "name" \in opt[p]

PlainNames == \A n, m \in Names, p \in Pids : n # Append(m, p)

UniqueNames ==
  \A p, q \in Pids :
    p # q /\ pc[p] = "up" /\ pc[q] = "up" /\ name[p] # NoName => name[p] # name[q]

\* A sandbox that is up has exactly the run files its options call for: no
\* cleanup by another process has taken one away, however that process's view
\* of /proc and the pid's earlier life overlapped with this one's startup, and
\* nothing of an earlier process with the same pid is left.  Two sandboxes that
\* are up never have the same name (newname(), unless it is turned off), as
\* long as no user asks for a name of the form "name-PID".
RunFilesTrue == FilesAreOwn /\ (NameChange /\ PlainNames => UniqueNames)

\* Only the process itself ever removes a file of a firejail process that has
\* gone through the first cleanup (preproc_clean_run, delete_run_files).
LiveFilesKept ==
  [][\A q \in Pids :
       proc[q] = "firejail" /\ pc[q] \notin {"lock1", "scan", "profiles", "names",
                                             "unlock1", "own", "unlink"}
         => \A d \in Dirs : q \in run[d] => q \in run'[d]]_vars

CleanupComplete ==
  \A p \in Pids : pc[p] = "unlock1" =>
    \A q \in run["profile"] \cup run["name"] : q >= StartPid => q \in seen[p]

LeftoversReachable ==
  \A q \in Pids : proc[q] = "none" /\ "profile" \in opt[q] /\ Files(q) # {}
                    => q \in run["profile"]

\* The cleanup is complete: when it is over no process that was gone before it
\* read /proc has a profile or a name file.  And whatever a process with a
\* profile leaves behind when it is killed, also in the middle of a deletion, a
\* later cleanup finds through the profile directory, the only directory
\* besides the names that is looked at (preproc_clean_run, delete_run_files).
StaleFilesGone == CleanupComplete /\ LeftoversReachable

\* Every startup ends, in a running sandbox or in the end of the process,
\* even while an orphaned sandbox keeps the network lock (preproc_lock_file).
StartupEnds == \A p \in Pids : pc[p] = "lock1" ~> pc[p] \in {"up", "none"}
=============================================================================
