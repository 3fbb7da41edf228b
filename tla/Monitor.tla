------------------------------ MODULE Monitor -------------------------------
(***************************************************************************)
(* The first process of a sandbox, after it has started the application    *)
(* (monitor_application() and sandbox_handler() in sandbox.c).  It is pid 1 *)
(* of the sandbox: it reaps what is orphaned there, looks in /proc for     *)
(* somebody to wait for, and ends when nobody is left, when the time is    *)
(* up, or on a signal.  Its end ends everything in the sandbox.            *)
(***************************************************************************)
EXTENDS Integers, FiniteSets

CONSTANTS
  MaxPid,     \* the last pid of the sandbox that is used
  MaxJoins,   \* processes that join the sandbox (firejail --join)
  Timeout,    \* the number of seconds of --timeout
  MonSec,     \* seconds the handler waits for the monitored process
  OptionSets, \* subsets of {"timeout", "exitcode", "shutdown"}
  Signals     \* the signals handled

Init1 == 1       \* the monitor itself
App == 2         \* app_pid
Outside == 0     \* parent of a process that joined
Pids == 2..MaxPid

ASSUME MonitorAssumption ==
  /\ MaxPid \in Nat /\ MaxPid >= App
  /\ MaxJoins \in Nat /\ MonSec \in Nat /\ Timeout \in Nat \ {0}
  /\ OptionSets \subseteq SUBSET {"timeout", "exitcode", "shutdown"}

VARIABLES
  opt,       \* arg_deterministic_exit_code and so on
  state,     \* of each process: "free", "running", "zombie" or "gone"
  parent,    \* of each process
  top,       \* the highest pid given so far
  joined,    \* processes that joined
  late,      \* those that joined since the last look at /proc began, and their children
  pending,   \* signals sent and not yet handled
  pc,        \* where the monitor is
  mon,       \* monitored_pid
  status,    \* the process whose exit status is in status, 0 for none
  appstatus, \* the same for app_status
  timeout,   \* seconds left
  cursor,    \* the last pid looked for in /proc
  monsec,    \* seconds left to the handler
  code       \* how the monitor ended, and whose exit status it returned

procs == <<state, parent, top, joined, late>>
locals == <<mon, status, appstatus, timeout, cursor, monsec>>
mvars == <<opt, procs, pending, pc, locals, code>>

Here(p) == state[p] \in {"running", "zombie"}
Children == {p \in Pids : Here(p) /\ parent[p] = Init1}
Zombies == {p \in Children : state[p] = "zombie"}
Over == pc = "over"

MInit ==
  /\ opt \in OptionSets
  /\ state = [p \in Pids |-> IF p = App THEN "running" ELSE "free"]
  /\ parent = [p \in Pids |-> Init1] /\ top = App
  /\ joined = {} /\ late = {} /\ pending = {}
  /\ pc = "wait" /\ mon = App /\ status = 0 /\ appstatus = 0
  /\ timeout = Timeout /\ cursor = 1 /\ monsec = MonSec
  /\ code = [why |-> "none", of |-> 0]

----------------------------------------------------------------------------
(* The processes of the sandbox *)

NewProcess(q) ==
  /\ ~Over /\ top < MaxPid /\ top' = top + 1
  /\ state' = [state EXCEPT ![top + 1] = "running"]
  /\ parent' = [parent EXCEPT ![top + 1] = q]
  /\ UNCHANGED <<opt, pending, pc, locals, code>>

Fork(p) ==
  /\ state[p] = "running" /\ NewProcess(p)
  /\ late' = IF p \in late THEN late \cup {top + 1} ELSE late
  /\ UNCHANGED joined

Join ==
  /\ Cardinality(joined) < MaxJoins /\ NewProcess(Outside)
  /\ joined' = joined \cup {top + 1} /\ late' = late \cup {top + 1}

\* The children of a process that ends become children of pid 1.
Exit(p) ==
  /\ ~Over /\ state[p] = "running"
  /\ state' = [state EXCEPT ![p] = "zombie"]
  /\ parent' = [q \in Pids |-> IF parent[q] = p THEN Init1 ELSE parent[q]]
  /\ UNCHANGED <<opt, top, joined, late, pending, pc, locals, code>>

\* Reaped by its parent, which is not the monitor.
ReapedByParent(p) ==
  /\ ~Over /\ state[p] = "zombie" /\ parent[p] # Init1
  /\ state' = [state EXCEPT ![p] = "gone"]
  /\ UNCHANGED <<opt, parent, top, joined, late, pending, pc, locals, code>>

SendSignal(s) ==
  /\ ~Over /\ pending' = pending \cup {s}
  /\ UNCHANGED <<opt, procs, pc, locals, code>>

----------------------------------------------------------------------------
(* monitor_application() *)

\* The monitor ends and the kernel kills whoever is left.
End(why, of) ==
  /\ pc' = "over" /\ code' = [why |-> why, of |-> of]
  /\ state' = [p \in Pids |-> IF Here(p) THEN "gone" ELSE state[p]]
  /\ UNCHANGED <<opt, parent, top, joined, late, pending, locals>>

\* mutant: the time is not counted while children are reaped
TickIdle(next) == pc' = next /\ UNCHANGED timeout

\* if (options) { if (--timeout == 0) ... }: signals are blocked from here on.
Tick(next) ==
  IF "timeout" \in opt
    THEN timeout' = timeout - 1 /\ pc' = IF timeout = 1 THEN "timeup" ELSE next
    ELSE pc' = next /\ UNCHANGED timeout

AfterWait(rv) == IF rv = mon THEN "died" ELSE "wait"

\* waitpid() returns a child that has ended.
Reap(p) ==
  /\ pc = "wait" /\ p \in Zombies
  /\ state' = [state EXCEPT ![p] = "gone"]
  /\ status' = p /\ appstatus' = IF p = App THEN p ELSE appstatus
  /\ Tick(AfterWait(p))
  /\ UNCHANGED <<opt, parent, top, joined, late, pending, mon, cursor, monsec, code>>

\* waitpid() with WNOHANG finds no child that has ended.
NothingYet ==
  /\ pc = "wait" /\ "timeout" \in opt /\ Zombies = {} /\ Children # {}
  /\ Tick("wait")
  /\ UNCHANGED <<opt, procs, pending, mon, status, appstatus, cursor, monsec, code>>

\* waitpid() fails with ECHILD: only processes that joined are left, or none.
NoChild ==
  /\ pc = "wait" /\ Children = {} /\ pc' = "died"
  /\ UNCHANGED <<opt, procs, pending, locals, code>>

\* The time is up: SIGTERM, SIGKILL, _exit(1).
TimeUp == pc = "timeup" /\ End("timeout", 0)

\* --deterministic-shutdown: SIGTERM, SIGKILL, and out of the loop.
ShutDown ==
  /\ pc = "died" /\ "shutdown" \in opt /\ pc' = "return"
  /\ state' = [p \in Pids |-> IF state[p] = "running" THEN "zombie" ELSE state[p]]
  /\ UNCHANGED <<opt, parent, top, joined, late, pending, locals, code>>

\* opendir("/proc")
OpenProc ==
  /\ pc = "died" /\ "shutdown" \notin opt /\ pc' = "scan" /\ cursor' = 1
  /\ late' = {}
  /\ UNCHANGED <<opt, state, parent, top, joined, pending, mon, status, appstatus,
                 timeout, monsec, code>>

\* mutant: only children of the monitor are looked for
FoundChild(p) == p \in Children

\* dhclient4_pid and dhclient6_pid are 0: --ip=dhcp is disabled.
Found(p) == Here(p)

\* readdir() returns the pids in ascending order while processes come and go.
ReadProc ==
  /\ pc = "scan" /\ cursor < top /\ cursor' = cursor + 1
  /\ \/ Found(cursor + 1) /\ mon' = cursor + 1 /\ pc' = "wait"
     \/ ~Found(cursor + 1) /\ UNCHANGED mon /\ UNCHANGED pc
  /\ UNCHANGED <<opt, procs, pending, status, appstatus, timeout, monsec, code>>

\* The end of /proc: nobody is left.
EndOfProc ==
  /\ pc = "scan" /\ cursor = top /\ mon' = 0 /\ pc' = "return"
  /\ UNCHANGED <<opt, procs, pending, status, appstatus, timeout, cursor, monsec, code>>

ExitStatus == IF "exitcode" \in opt THEN appstatus ELSE status

\* The exit status is converted, and sandbox() returns.
Return == pc = "return" /\ End("exit", ExitStatus)

----------------------------------------------------------------------------
(* sandbox_handler(): signals are let in only around waitpid() *)

EnterHandler(s) ==
  /\ pc = "wait" /\ s \in pending /\ pending' = pending \ {s} /\ pc' = "handler"
  /\ UNCHANGED <<opt, procs, locals, code>>

HandlerWaits ==
  /\ pc = "handler" /\ mon # 0 /\ state[mon] = "running" /\ monsec > 0
  /\ monsec' = monsec - 1
  /\ UNCHANGED <<opt, procs, pending, pc, mon, status, appstatus, timeout, cursor, code>>

\* SIGKILL to everybody, exit(128 + sig)
HandlerKills ==
  /\ pc = "handler" /\ (monsec = 0 \/ mon = 0 \/ state[mon] # "running")
  /\ End("signal", 0)

----------------------------------------------------------------------------

MonitorSteps ==
  \/ \E p \in Pids : Reap(p)
  \/ NothingYet \/ NoChild \/ TimeUp \/ ShutDown \/ OpenProc \/ ReadProc \/ EndOfProc
  \/ Return \/ HandlerWaits \/ HandlerKills

MNext ==
  \/ MonitorSteps
  \/ \E s \in Signals : EnterHandler(s) \/ SendSignal(s)
  \/ \E p \in Pids : Fork(p) \/ Exit(p) \/ ReapedByParent(p)
  \/ Join

----------------------------------------------------------------------------
(* Properties *)

NobodyAbandoned ==
  pc = "return" /\ "shutdown" \notin opt =>
    \A p \in Pids : Here(p) => p \in late

FirstChildsStatus ==
  code.why = "exit" /\ "exitcode" \in opt => code.of = App

\* The sandbox is kept "alive as long as it contains running processes"
\* (firejail.1, --deterministic-shutdown): when the monitor leaves its loop
\* because it found nobody in /proc, nobody is left but what joined
\* while it looked, although it looks at one pid after the other while
\* processes fork and end.  And "always exit firejail with the first child's
\* exit status" (--deterministic-exit-code): whichever way the loop is left,
\* app_status has been set by then (monitor_application).
LeavesWhenDone == NobodyAbandoned /\ FirstChildsStatus

\* Nobody is left to wait for.
Empty == \A p \in Pids : ~Here(p)

EndsWithLast == Empty ~> Over \/ ~Empty
SignalEnds == pending # {} ~> Over
TimeoutEnds == "timeout" \in opt ~> Over \/ joined # {}

\* When the last process has ended, the sandbox ends, unless another one
\* joins just then; a signal ends it, although signals are blocked most of the
\* time and processes may ignore SIGTERM; and it is killed "automatically after
\* the time has elapsed" (firejail.1, --timeout), as long as nobody has joined
\* (monitor_application, sandbox_handler).
SandboxEnds == EndsWithLast /\ SignalEnds /\ TimeoutEnds
=============================================================================
