------------------------------- MODULE Attach -------------------------------
(***************************************************************************)
(* A second firejail process that reaches into a running sandbox: --join   *)
(* (join.c) and --shutdown (shutdown.c), composed with the sandbox of      *)
(* module Sandbox.  It finds the sandbox's first process through the pid   *)
(* file, holds on to it by a descriptor of its /proc directory, waits for  *)
(* the join byte, and then rebuilds the confinement from what it reads     *)
(* there, or signals it, while the sandbox goes its own way and may end    *)
(* between any two of these steps.                                         *)
(***************************************************************************)
EXTENDS Sandbox

CONSTANTS
  Commands,  \* what the second process may be
  MaxPolls,  \* looks at the join byte before join_timeout
  MonSec     \* seconds shut() waits before it sends SIGKILL (11 in the code)

\* --join of the owner, --join, --join-network and --join-filesystem of root,
\* and --shutdown of the owner.
CommandNames == {"join", "rootjoin", "joinnet", "joinfs", "shut"}

ASSUME AttachAssumption ==
  Commands \subseteq CommandNames /\ MaxPolls \in Nat /\ MonSec \in Nat

AttachPC == {"pin", "check", "pidfile", "child", "joinable", "nnpfile", "status", "groups",
             "userns", "umask", "setns", "fork", "chroot", "capsset", "joinuser", "nnp",
             "drop", "filters", "exec", "running", "term", "watch", "kill", "done"}

VARIABLES
  cmd,     \* the command
  jpc,     \* where the second process is
  jarg,    \* what it has read: arg_nonewprivs, apply_caps, arg_nogroups, arg_noroot
  jforce,  \* what is in force for the program it starts
  queued,  \* the filters of seccomp_load_file_list()
  polls    \* looks or seconds spent

jvars == <<cmd, jpc, jarg, jforce, queued, polls>>
avvars == <<vars, jvars>>

\* Processes that setns() and fork() have put into the pid namespace.
Inside ==
  /\ cmd \in {"join", "rootjoin"}
  /\ jpc \in {"chroot", "capsset", "joinuser", "nnp", "drop", "filters", "exec", "running"}

AttachInit ==
  /\ Init
  /\ cmd \in Commands /\ jpc = "pin" /\ jarg = {} /\ jforce = {} /\ queued = {}
  /\ polls = 0

JGoto(s) == jpc' = s
Keep == UNCHANGED vars /\ UNCHANGED cmd

\* The process gives up: "no valid sandbox", a /proc file that has gone.
GivesUp == JGoto("done") /\ Keep /\ UNCHANGED <<jarg, jforce, queued, polls>>

----------------------------------------------------------------------------
(* pin_sandbox_process() *)

\* One step from "here": go on to "next" if "ok", else exit.
CheckStep(here, ok, next) ==
  /\ jpc = here
  /\ \/ ok /\ JGoto(next) /\ Keep /\ UNCHANGED <<jarg, jforce, queued, polls>>
     \/ ~ok /\ GivesUp

\* find_pidns_parent(), check_firejail_comm(), check_firejail_credentials():
\* the /proc entry of the firejail process, which keeps saved uid 0 and
\* belongs to the user.
PinParent == CheckStep("pin", ~ParentDead, "check")
CheckParent ==
  CheckStep("check", ~ParentDead /\ (cmd \in {"join", "shut"} => "rootuser" \notin asked),
            "pidfile")

\* read_sandbox_pidfile(): "assume pidfile is outdated if parent doesn't hold
\* a lock".
PidFileValid == "sandbox" \in files /\ pidlock # {}

ReadPidFile == CheckStep("pidfile", PidFileValid, "child")

\* pin_child_process(): the process exists and the parent is its parent.
PinChild == CheckStep("child", ~ParentDead /\ cpc \notin {"none", "reaped"}, "joinable")

\* mutant: the file is enough, whatever the byte in it
JoinFileExists == ChildAlive /\ "join" \in disk

\* has_join_file()
HasJoinFile == ChildAlive /\ "done" \in disk

\* check_joinable()
CheckJoinable ==
  /\ jpc = "joinable"
  /\ \/ /\ HasJoinFile
        /\ JGoto(IF cmd = "shut" THEN "term" ELSE IF cmd = "join"
                   THEN "nnpfile" ELSE "setns")
        /\ polls' = 0 /\ Keep /\ UNCHANGED <<jarg, jforce, queued>>
     \/ /\ ~HasJoinFile /\ polls < MaxPolls
        /\ polls' = polls + 1 /\ Keep /\ UNCHANGED <<jpc, jarg, jforce, queued>>
     \/ ~HasJoinFile /\ polls = MaxPolls /\ GivesUp

----------------------------------------------------------------------------
(* join(), as a regular user: what is read from the sandbox *)

Extract(here, what, next) ==
  /\ jpc = here /\ JGoto(next) /\ jarg' = jarg \cup what
  /\ Keep /\ UNCHANGED <<jforce, queued, polls>>

\* extract_nonewprivs() and extract_nogroups(): the root of a process that
\* has ended cannot be followed (ENOENT), which looks like a missing file.
ExtractNonewprivs ==
  Extract("nnpfile", IF ChildAlive THEN disk \cap {"nonewprivs"} ELSE {}, "status")
ExtractNogroups ==
  Extract("groups", IF ChildAlive THEN disk \cap {"nogroups"} ELSE {}, "userns")

\* extract_caps(): CapBnd and NoNewPrivs of the first process.
ExtractCaps ==
  \/ /\ cpc # "reaped"
     /\ Extract("status", (force \cap {"caps"})
                            \cup (IF "nnp" \in force THEN {"nonewprivs"} ELSE {}), "groups")
  \/ jpc = "status" /\ cpc = "reaped" /\ GivesUp

\* extract_user_namespace(); of a zombie the kernel may still tell.
ExtractUserNamespace ==
  \/ /\ cpc # "reaped"
     /\ Extract("userns", IF "userns" \in force THEN {"noroot"} ELSE {}, "umask")
  \/ jpc = "userns" /\ ~ChildAlive /\ GivesUp

\* extract_umask(): here a missing file is an error.
ExtractUmask == CheckStep("umask", ChildAlive /\ "umask" \in disk, "setns")

----------------------------------------------------------------------------
(* join(): entering the sandbox *)

\* What takes effect for the joining process in one step.
Enter(here, f, next) ==
  /\ jpc = here /\ JGoto(next) /\ jforce' = f
  /\ Keep /\ UNCHANGED <<jarg, queued, polls>>

\* process_join_namespace(): a process that has ended has no namespaces.
JoinNamespaces ==
  \/ /\ ChildAlive
     /\ Enter("setns", CASE cmd = "joinnet" -> {"net"}
                       [] cmd = "joinfs" -> {"mountns"}
                       [] OTHER -> {"net", "mountns"}, "fork")
  \/ jpc = "setns" /\ ~ChildAlive /\ GivesUp

\* fork() into a pid namespace whose first process has gone fails.
ForkJoined ==
  CheckStep("fork", ChildAlive \/ cmd \in {"joinnet", "joinfs"},
            IF cmd = "joinnet" THEN "capsset" ELSE "chroot")

\* process_rootfs_chroot() and seccomp_load_file_list()
ChangeRoot ==
  /\ jpc = "chroot"
  /\ \/ /\ ChildAlive /\ JGoto("capsset") /\ jforce' = jforce \cup {"fs"}
        /\ queued' = IF cmd = "join" THEN disk \cap Filters ELSE {}
        /\ Keep /\ UNCHANGED <<jarg, polls>>
     \/ ~ChildAlive /\ GivesUp

SetJoinCaps == Enter("capsset", jforce \cup (jarg \cap {"caps"}), "joinuser")

\* The user namespace "resets capabilities"; they are set once more.
JoinUserNamespace ==
  Enter("joinuser",
        IF "noroot" \in jarg
          THEN (jforce \ {"caps"}) \cup {"userns", "uidmap", "gidmap"}
                 \cup (jarg \cap {"caps"})
          ELSE jforce, "nnp")

JoinNoNewPrivs ==
  Enter("nnp", IF "nonewprivs" \in jarg THEN jforce \cup {"nnp"} ELSE jforce, "drop")

\* drop_privs(arg_nogroups), PR_SET_PDEATHSIG
JoinDropPrivs == Enter("drop", jforce \cup {"dropped"}, "filters")

\* start_application(): seccomp_install_filters()
JoinFilters ==
  Enter("filters",
        jforce \cup (IF queued # {} THEN {"nnp"} ELSE {})
               \cup (IF "kseccomp" \in asked THEN queued ELSE {}),
        "exec")

JoinExec == Enter("exec", jforce, "running")

\* The program ends, and the joining process with it.
JoinedExits == jpc = "running" /\ GivesUp

----------------------------------------------------------------------------
(* shut() *)

\* process_send_signal(SIGTERM)
ShutTerm ==
  /\ jpc = "term" /\ JGoto("watch") /\ csig' = SentToChild("TERM") /\ polls' = 0
  /\ UNCHANGED <<asked, pvars, carg, cpc, ccaught, force, nvars, avars, pipes, runvars,
                 disk, proxy, orphan, cmd, jarg, jforce, queued>>

\* One second of waiting; an empty or missing cmdline says the process ended.
ShutWatch ==
  /\ jpc = "watch"
  /\ \/ polls < MonSec /\ ~ChildAlive /\ GivesUp
     \/ /\ polls < MonSec /\ ChildAlive /\ polls' = polls + 1
        /\ Keep /\ UNCHANGED <<jpc, jarg, jforce, queued>>
     \/ /\ polls = MonSec /\ JGoto("kill")
        /\ Keep /\ UNCHANGED <<jarg, jforce, queued, polls>>

\* mutant: SIGTERM once more instead of SIGKILL
ShutTermAgain ==
  /\ jpc = "kill" /\ JGoto("done") /\ csig' = SentToChild("TERM")
  /\ UNCHANGED <<asked, pvars, carg, cpc, ccaught, force, nvars, avars, pipes, runvars,
                 disk, proxy, orphan, cmd, jarg, jforce, queued, polls>>

\* "force SIGKILL"
ShutKill ==
  /\ jpc = "kill" /\ JGoto("done") /\ csig' = SentToChild("KILL")
  /\ UNCHANGED <<asked, pvars, carg, cpc, ccaught, force, nvars, avars, pipes, runvars,
                 disk, proxy, orphan, cmd, jarg, jforce, queued, polls>>

----------------------------------------------------------------------------

\* A step A of the sandbox; when its first process ends, the kernel kills the
\* joined ones.
Beside(A) ==
  /\ A
  /\ jpc' = IF Inside /\ ChildAlive /\ cpc' \in {"zombie", "reaped"} THEN "done" ELSE jpc
  /\ UNCHANGED <<cmd, jarg, jforce, queued, polls>>

AttachSteps ==
  \/ PinParent \/ CheckParent \/ ReadPidFile \/ PinChild \/ CheckJoinable
  \/ ExtractNonewprivs \/ ExtractCaps \/ ExtractNogroups \/ ExtractUserNamespace
  \/ ExtractUmask \/ JoinNamespaces \/ ForkJoined \/ ChangeRoot \/ SetJoinCaps
  \/ JoinUserNamespace \/ JoinNoNewPrivs \/ JoinDropPrivs \/ JoinFilters \/ JoinExec
  \/ ShutTerm \/ ShutWatch \/ ShutKill

AttachNext == Beside(Next) \/ AttachSteps \/ JoinedExits

AttachSpec == AttachInit /\ [][AttachNext]_avvars

\* The sandbox is as fair as in Sandbox, and the second process runs.
FairAttachSpec ==
  /\ AttachSpec /\ WF_avvars(AttachSteps)
  /\ WF_avvars(Beside(ParentNext)) /\ WF_avvars(Beside(ChildNext))
  /\ WF_avvars(Beside(ChildKilled)) /\ WF_avvars(Beside(AppNext))
  /\ WF_avvars(Beside(NetworkMain))

----------------------------------------------------------------------------
(* Properties *)

\* "If --join command is issued as a regular user, all security filters are
\* configured for the new process the same they are configured in the sandbox"
\* (firejail.1): the program that joins is confined in every respect the app
\* is, although it is put together from files and /proc entries of a sandbox
\* that is starting up or ending at the same time.
JoinedLikeApp ==
  jpc = "running" /\ cmd = "join" =>
    /\ aforce \subseteq jforce
    /\ Promised(asked) \subseteq jforce
    /\ carg \cap {"nogroups"} \subseteq jarg

\* --shutdown ends the sandbox, also when SIGTERM comes before the first
\* process has its handler and the kernel drops it.
ShutdownEnds == jpc = "watch" ~> ChildDead
=============================================================================
