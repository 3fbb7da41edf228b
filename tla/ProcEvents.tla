------------------------------ MODULE ProcEvents ------------------------------
(***************************************************************************)
(* The process monitor, firemon [PID], run as root.  It first fills the    *)
(* table pids[] from /proc (pid_read), then asks the kernel for process    *)
(* events (procevent_netlink_setup) and follows them (procevent_monitor).  *)
(* The kernel side is external: processes fork, run programs, change       *)
(* credentials, exit and are reaped at any time, a pid is used again, and  *)
(* an event that finds the receive buffer full is dropped.                 *)
(***************************************************************************)
EXTENDS Integers, Sequences, FiniteSets, SequencesExt

CONSTANTS MaxPid,      \* pids are 2..MaxPid
          MaxQueue,    \* events the receive buffer holds
          MaxKernel    \* kernel steps of one behaviour

Pids == 2..MaxPid
Kinds == {"other", "sandbox", "command", "x11"}

VARIABLES procs,     \* kernel: [Pids -> process], gone where there is none
          queue,     \* kernel: events not received yet
          lost,      \* an event after the read of /proc does not reach firemon
          kernel,    \* kernel steps taken
          pids,      \* firemon: the table, level and parent of a pid
          mon,       \* firemon: "read", "setup", "listen" or "done"
          target,    \* firemon: mypid, 0 to monitor every sandbox
          watched    \* the target was running when /proc was read

evars == <<procs, queue, lost, kernel, pids, mon, target, watched>>

(***************************************************************************)
(* Processes.  A "sandbox" is a firejail that starts a sandbox, a          *)
(* "command" one of the firejail commands pid_is_firejail excludes         *)
(* (--list, --top, --ls...), "x11" the starter of an X11 server.  inside:  *)
(* the process is such a firejail or descends from one (a history that     *)
(* firemon does not read).                                                 *)
(***************************************************************************)
Gone == [kind |-> "other", state |-> "gone", parent |-> 0, inside |-> FALSE]
Proc(kind, parent, inside) ==
  [kind |-> kind, state |-> "runs", parent |-> parent, inside |-> inside]
Runs(p) == p \in Pids /\ procs[p].state = "runs"

Event(what, pid, child) == [what |-> what, pid |-> pid, child |-> child]

\* The kernel queues an event for a listener, or drops it; what happens after
\* /proc was read and before there is a listener is lost as well.
Emit(e) ==
  IF mon = "read" THEN UNCHANGED <<queue, lost>>
  ELSE IF mon = "listen" /\ Len(queue) < MaxQueue
       THEN queue' = Append(queue, e) /\ UNCHANGED lost
       ELSE lost' = TRUE /\ UNCHANGED queue

KernelStep ==
  /\ mon # "done" /\ kernel < MaxKernel
  /\ kernel' = kernel + 1
  /\ UNCHANGED <<pids, mon, target, watched>>

Fork ==
  \E p, c \in Pids :
    /\ KernelStep
    /\ Runs(p) /\ procs[c].state = "gone"
    /\ procs' = [procs EXCEPT ![c] = Proc(procs[p].kind, p, procs[p].inside)]
    /\ Emit(Event("fork", p, c))

Exec ==
  \E p \in Pids, k \in Kinds \ {"x11"} :
    /\ KernelStep
    /\ Runs(p)
    /\ procs' = [procs EXCEPT ![p].kind = k,
                              ![p].inside = @ \/ k = "sandbox"]
    /\ Emit(Event("exec", p, 0))

\* Children of a process that exits are given to process 1.
Exit ==
  \E p \in Pids :
    /\ KernelStep
    /\ Runs(p)
    /\ procs' = [q \in Pids |->
                   IF q = p THEN [procs[p] EXCEPT !.state = "zombie"]
                   ELSE IF procs[q].parent = p
                        THEN [procs[q] EXCEPT !.parent = 1] ELSE procs[q]]
    /\ Emit(Event("exit", p, 0))

Reaped ==
  \E p \in Pids :
    /\ KernelStep
    /\ procs[p].state = "zombie"
    /\ procs' = [procs EXCEPT ![p] = Gone]
    /\ UNCHANGED <<queue, lost>>

\* "cred" stands for uid, gid and comm events, and for sid, coredump and
\* ptrace events, which change the table the same way; "thread" for the events
\* of threads.
Other ==
  \E p \in Pids, what \in {"cred", "thread"} :
    /\ KernelStep
    /\ mon = "listen" /\ Runs(p)
    /\ UNCHANGED procs
    /\ Emit(Event(what, p, 0))

-----------------------------------------------------------------------------
(***************************************************************************)
(* pid_read: /proc lists the pids in ascending order; the level of a       *)
(* process is one more than its parent's when the parent was already read  *)
(* as part of a sandbox; one more pass over the table does the same again. *)
(***************************************************************************)
Entry(level, parent) == [level |-> level, parent |-> parent]
Unknown == Entry(0, 0)

\* The level of a pid, where the table holds nothing for pids 0 and 1.
LevelIn(t, p) == IF p \in Pids THEN t[p].level ELSE 0

InOrder == [i \in 1..(MaxPid - 1) |-> i + 1]

\* The command line of a zombie is empty.
pid_proc_cmdline_x11_xpra_xephyr(p) == procs[p].state = "runs" /\ procs[p].kind = "x11"

OwnLevel(p) ==
  IF procs[p].kind # "other" /\ ~pid_proc_cmdline_x11_xpra_xephyr(p) /\ target \in {0, p}
  THEN 1 ELSE -1

\* One more than the level of the parent, where the parent is in a sandbox.
BelowParent(t, parent, level) ==
  IF LevelIn(t, parent) > 0 THEN LevelIn(t, parent) + 1 ELSE level

ReadStatus(t, p) ==
  IF procs[p].state = "gone" THEN t
  ELSE [t EXCEPT ![p] = Entry(BelowParent(t, procs[p].parent, OwnLevel(p)),
                              procs[p].parent)]

\* mutant: the table as the first pass leaves it
PropagateNot(t, p) == t

Propagate(t, p) ==
  [t EXCEPT ![p].level = BelowParent(t, t[p].parent, @)]

(***************************************************************************)
(* The reference for pid_read: the firejail processes it looks for, and    *)
(* all their descendants.                                                  *)
(***************************************************************************)
Present == {p \in Pids : procs[p].state # "gone"}

Descendants(S, E(_)) ==
  FoldLeft(LAMBDA acc, i : acc \cup {p \in Present : procs[p].parent \in acc /\ E(p)},
           S, InOrder)

SandboxRoots == {p \in Present : OwnLevel(p) = 1}
InSandboxes == Descendants(SandboxRoots, LAMBDA p : TRUE)

\* Descendants on whose line the pid numbers wrapped around at most once.
Ascending(S) == Descendants(S, LAMBDA p : p > procs[p].parent)
InSandboxesWrappedOnce ==
  LET up == Ascending(SandboxRoots)
  IN  Ascending(up \cup {p \in Present : procs[p].parent \in up})

pid_read ==
  /\ mon = "read"
  /\ \E first \in {FoldLeft(ReadStatus, [p \in Pids |-> Unknown], InOrder)} :
       pids' = FoldLeft(Propagate, first, InOrder)
  /\ mon' = "setup"
  /\ procs' = [p \in Pids |-> [procs[p] EXCEPT !.inside = @ \/ p \in InSandboxes]]
  /\ watched' = (target \in SandboxRoots /\ Runs(target))
  /\ lost' = \E p \in Pids : procs[p].state = "zombie"  \* exited too early for an event
  /\ UNCHANGED <<queue, kernel, target>>

procevent_netlink_setup ==
  /\ mon = "setup"
  /\ mon' = "listen"
  /\ UNCHANGED <<procs, queue, lost, kernel, pids, target, watched>>

-----------------------------------------------------------------------------
(***************************************************************************)
(* procevent_monitor.                                                      *)
(***************************************************************************)

\* /proc/PID/comm of a zombie is still there and its cmdline is empty, which
\* leaves the answer of comm.
pid_is_firejail(p) ==
  \/ procs[p].state = "runs" /\ procs[p].kind \in {"sandbox", "x11"}
  \/ procs[p].state = "zombie" /\ procs[p].kind # "other"

\* The events of threads, and credential changes of the sandbox process and
\* of its children, end the handler at once.
Skipped(e) ==
  \/ e.what = "thread"
  \/ /\ e.what = "cred"
     /\ \/ pids[e.pid].level = 1
        \/ LevelIn(pids, pids[e.pid].parent) = 1

\* The switch over the kind of event: a child of a tracked process is
\* tracked, a process that runs a new program is looked at again.
AfterSwitch(e) ==
  IF e.what = "fork" /\ pids[e.pid].level > 0
  THEN [pids EXCEPT ![e.child] = Entry(pids[e.pid].level + 1, e.pid)]
  ELSE IF e.what = "exec" /\ pids[e.pid].level = -1
       THEN [pids EXCEPT ![e.pid].level = 0]
       ELSE pids

Tracked(t, p) ==
  IF t[p].level # 0 THEN t
  ELSE [t EXCEPT ![p].level = IF pid_is_firejail(p) /\ target = 0 THEN 1 ELSE -1]

\* mutant: the entry of a process that exits is kept
RemovedNot(t, e) == t

\* An exit of a process that is not tracked leaves its entry alone.
Removed(t, e) ==
  IF e.what = "exit" /\ t[e.pid].level > 0 THEN [t EXCEPT ![e.pid] = Unknown] ELSE t

\* mutant: the level of the sandbox process counted from zero
SandboxClosedZero(e) ==
  e.what = "exit" /\ pids[e.pid].level = 0 /\ target = e.pid

SandboxClosed(e) ==
  e.what = "exit" /\ pids[e.pid].level = 1 /\ target = e.pid

procevent_monitor ==
  /\ mon = "listen" /\ queue # <<>>
  /\ queue' = Tail(queue)
  /\ LET e == Head(queue)
     IN  IF Skipped(e) THEN UNCHANGED <<pids, mon>>
         ELSE \E t \in {Tracked(AfterSwitch(e), e.pid)} :
                /\ pids' = Removed(t, e)
                /\ mon' = IF SandboxClosed(e) THEN "done" ELSE mon
  /\ UNCHANGED <<procs, lost, kernel, target, watched>>

-----------------------------------------------------------------------------
(***************************************************************************)
(* firemon starts on a system with one firejail of some kind and perhaps a *)
(* process outside; more processes appear before /proc is read.            *)
(***************************************************************************)
EInit ==
  \E r \in {2, MaxPid}, k \in Kinds \ {"other"}, others \in SUBSET {3} :
    /\ procs = [p \in Pids |-> IF p = r THEN Proc(k, 1, k \in {"sandbox", "x11"})
                               ELSE IF p \in others THEN Proc("other", 1, FALSE)
                               ELSE Gone]
    /\ target \in IF k = "sandbox" THEN {0, r} ELSE {0}
    /\ queue = <<>> /\ lost = FALSE /\ kernel = 0
    /\ pids = [p \in Pids |-> Unknown]
    /\ mon = "read" /\ watched = FALSE

ENext ==
  \/ Fork \/ Exec \/ Exit \/ Reaped \/ Other
  \/ pid_read \/ procevent_netlink_setup \/ procevent_monitor

\* What firemon itself does.  It runs: weak fairness of these steps is assumed.
FiremonStep == pid_read \/ procevent_netlink_setup \/ procevent_monitor

-----------------------------------------------------------------------------
\* Once the events are handled and none was lost, no process outside every
\* sandbox is followed as a sandboxed one, whichever pids were used again
\* while events were waiting (the -1 and 0 levels and the removal at exit in
\* procevent_monitor).
OnlySandboxed ==
  mon = "listen" /\ queue = <<>> /\ ~lost =>
    \A p \in Pids : Runs(p) /\ pids[p].level > 0 => procs[p].inside

\* pid_read finds every process of the sandboxes it is asked for and no other,
\* as long as the pid numbers wrapped around at most once on the way down from
\* the sandbox (the second pass at the end of pid_read; a process behind a
\* second wrap is missed).
TableComplete ==
  [][pid_read => \A p \in Pids :
       /\ pids'[p].level > 0 => p \in InSandboxes
       /\ p \in InSandboxesWrappedOnce => pids'[p].level > 0]_evars

\* firemon PID ends after the sandbox it monitors has ended, unless an event
\* was dropped or came before the events were asked for (sandbox_closed in
\* procevent_monitor).
TargetEnds == (watched /\ ~Runs(target)) ~> (mon = "done" \/ lost)
==============================================================================
