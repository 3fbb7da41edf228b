----------------------------- MODULE StopSignal -----------------------------
(***************************************************************************)
(* SIGTSTP and the locks of the run directory (preproc.c).  A process that *)
(* is stopped with a lock in its hands would block every later start of    *)
(* firejail, so the signal is caught from before a lock is asked for until *)
(* after it is given back, and then raised again.  Two pairs of calls      *)
(* nest: main() locks the network, then locks and unlocks the directory,   *)
(* and unlocks the network at the end, also when it never locked it.       *)
(***************************************************************************)
EXTENDS Naturals, Sequences, FiniteSets

CONSTANTS
  Procs,      \* firejail processes that start
  Bridged,    \* those of them with any_bridge_configured()
  Ignoring,   \* those of them started with SIGTSTP ignored
  MaxStops    \* SIGTSTPs each of them is sent

Nobody == 0

ASSUME StopSignalAssumption ==
  /\ IsFiniteSet(Procs) /\ Nobody \notin Procs
  /\ Bridged \subseteq Procs /\ Ignoring \subseteq Procs
  /\ MaxStops \in Nat

Locks == {"dir", "net"}
Dispositions == {"default", "ignore", "handle_sigtstp"}
Steps == {"install", "flock", "unlock", "restore", "look", "raise", "done", "gone"}

\* The calls of main(), each with the lock it is about.
Program(p) ==
  <<<<"install", "dir">>, <<"unlock", "dir">>>>
    \o (IF p \in Bridged THEN <<<<"install", "net">>>> ELSE <<>>)
    \o <<<<"install", "dir">>, <<"unlock", "dir">>, <<"unlock", "net">>>>

Original(p) == IF p \in Ignoring THEN "ignore" ELSE "default"

VARIABLES
  ip,       \* the call each process is in
  step,     \* where it is in that call
  action,   \* its disposition of SIGTSTP
  backup,   \* backup_tstp_directory_action and backup_tstp_network_action
  caught,   \* caught_tstp
  holder,   \* who holds each flock
  stopped,  \* processes that are stopped
  sent      \* SIGTSTPs sent so far

svars == <<ip, step, action, backup, caught, holder, stopped, sent>>

Lock(p) == Program(p)[ip[p]][2]
At(p, s) == step[p] = s /\ p \notin stopped
Goto(p, s) == step' = [step EXCEPT ![p] = s]

SInit ==
  /\ ip = [p \in Procs |-> 1] /\ step = [p \in Procs |-> "install"]
  /\ action = [p \in Procs |-> Original(p)]
  /\ backup = [p \in Procs |-> [l \in Locks |-> "default"]]  \* zeroed static data
  /\ caught = [p \in Procs |-> 0]
  /\ holder = [l \in Locks |-> Nobody]
  /\ stopped = {} /\ sent = [p \in Procs |-> 0]

\* On to the next call of main().
Advance(p) ==
  /\ ip' = [ip EXCEPT ![p] = IF @ < Len(Program(p)) THEN @ + 1 ELSE @]
  /\ Goto(p, IF ip[p] < Len(Program(p)) THEN Program(p)[ip[p] + 1][1] ELSE "done")

\* What the arrival of a SIGTSTP does, by the disposition it meets.
Deliver(p) ==
  /\ caught' = IF action[p] = "handle_sigtstp" THEN [caught EXCEPT ![p] = @ + 1] ELSE caught
  /\ stopped' = IF action[p] = "default" THEN stopped \cup {p} ELSE stopped

----------------------------------------------------------------------------
(* preproc_lock_firejail_dir() and preproc_lock_firejail_network_dir() *)

\* install_ignore_tstp_signal_handler()
Install(p) ==
  /\ At(p, "install") /\ Goto(p, "flock")
  /\ action' = [action EXCEPT ![p] = "handle_sigtstp"]
  /\ backup' = [backup EXCEPT ![p][Lock(p)] = action[p]]
  /\ UNCHANGED <<ip, caught, holder, stopped, sent>>

\* preproc_lock_file() gets the lock ...
Flock(p) ==
  /\ At(p, "flock") /\ holder[Lock(p)] = Nobody
  /\ holder' = [holder EXCEPT ![Lock(p)] = p]
  /\ Advance(p)
  /\ UNCHANGED <<action, backup, caught, stopped, sent>>

\* ... or exits after the timeout; any other end of a process is alike.
Quit(p) ==
  /\ step[p] \notin {"done", "gone"} /\ Goto(p, "gone")
  /\ holder' = [l \in Locks |-> IF holder[l] = p THEN Nobody ELSE holder[l]]
  /\ stopped' = stopped \ {p}
  /\ UNCHANGED <<ip, action, backup, caught, sent>>

----------------------------------------------------------------------------
(* preproc_unlock_firejail_dir() and preproc_unlock_firejail_network_dir() *)

\* mutant: the old disposition comes back while the lock is still held
RestoreThenUnlock(p) ==
  /\ At(p, "unlock") /\ Goto(p, "restore")
  /\ action' = [action EXCEPT ![p] = backup[p][Lock(p)]]
  /\ UNCHANGED <<ip, backup, caught, holder, stopped, sent>>

\* preproc_unlock_file(): without the lock it does nothing.
Unlock(p) ==
  /\ At(p, "unlock") /\ Goto(p, "restore")
  /\ holder' = [holder EXCEPT ![Lock(p)] = IF @ = p THEN Nobody ELSE @]
  /\ UNCHANGED <<ip, action, backup, caught, stopped, sent>>

\* uninstall_ignore_tstp_signal_handler(): sigaction()
Restore(p) ==
  /\ At(p, "restore") /\ Goto(p, "look")
  /\ action' = [action EXCEPT ![p] = backup[p][Lock(p)]]
  /\ UNCHANGED <<ip, backup, caught, holder, stopped, sent>>

\* mutant: the signals caught are forgotten and none is raised
LookAndForget(p) ==
  /\ At(p, "look")
  /\ caught' = [caught EXCEPT ![p] = 0] /\ Advance(p)
  /\ UNCHANGED <<action, backup, holder, stopped, sent>>

\* if (caught_tstp > 0) caught_tstp = 0
Look(p) ==
  /\ At(p, "look")
  /\ \/ /\ caught[p] > 0 /\ caught' = [caught EXCEPT ![p] = 0]
        /\ Goto(p, "raise") /\ UNCHANGED ip
     \/ caught[p] = 0 /\ Advance(p) /\ UNCHANGED caught
  /\ UNCHANGED <<action, backup, holder, stopped, sent>>

\* raise(SIGTSTP)
Raise(p) ==
  /\ At(p, "raise") /\ Deliver(p) /\ Advance(p)
  /\ UNCHANGED <<action, backup, holder, sent>>

----------------------------------------------------------------------------
(* The terminal and the user *)

Stop(p) ==
  /\ step[p] # "gone" /\ p \notin stopped
  /\ sent[p] < MaxStops /\ sent' = [sent EXCEPT ![p] = @ + 1]
  /\ Deliver(p)
  /\ UNCHANGED <<ip, step, action, backup, holder>>

Continue(p) ==
  /\ p \in stopped /\ stopped' = stopped \ {p}
  /\ UNCHANGED <<ip, step, action, backup, caught, holder, sent>>

Runs(p) ==
  Install(p) \/ Flock(p) \/ Unlock(p) \/ Restore(p) \/ Look(p) \/ Raise(p)

SNext == \E p \in Procs : Runs(p) \/ Quit(p) \/ Stop(p) \/ Continue(p)

----------------------------------------------------------------------------
(* Properties *)

NotStoppedWithLock == \A p \in stopped, l \in Locks : holder[l] # p

RestoredWhenNested ==
  \A p \in Bridged : step[p] = "done" => action[p] = Original(p) /\ caught[p] = 0

\* A process that is stopped holds no lock ("otherwise that signal could stop
\* this process before the locks are released, causing future firejail
\* processes to be stuck during startup", preproc.c).  At the end of the startup
\* SIGTSTP does what it did before ("the outermost unlock will restore the
\* original handler"), and no caught signal is left, for processes that took the
\* network lock they give back.
StopWaitsForLocks == NotStoppedWithLock /\ RestoredWhenNested

WaitersGetLock == \A p \in Procs : step[p] = "flock" ~> step[p] # "flock"

StopNotLost ==
  \A p \in Procs \ Ignoring :
    caught[p] > 0 ~> p \in stopped \/ step[p] = "gone"

\* A process that waits for a lock gets it (or ends), whatever the user stops;
\* a stop asked for while a lock is held happens once the locks are released
\* (preproc_lock_file, uninstall_ignore_tstp_signal_handler).
StopServed == WaitersGetLock /\ StopNotLost
=============================================================================
