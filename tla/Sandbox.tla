------------------------------ MODULE Sandbox ------------------------------
(***************************************************************************)
(* One sandbox from the moment its options are known to its end: the       *)
(* firejail process (main() in main.c, "parent"), the process it clones    *)
(* into new namespaces (sandbox() in sandbox.c, "child", pid 1 of its pid  *)
(* namespace), the helper that configures the host side of the network     *)
(* ("net child") and the first program of the sandbox ("app",              *)
(* start_application() in sandbox.c).  Any of them may fail, the parent    *)
(* may be killed or signalled at any point.                                *)
(*                                                                         *)
(* Options and the protections in force are sets of flags, so that one     *)
(* stage of the setup is one union.  What runs inside the sandbox after    *)
(* the app has been started is reduced to "some process is left" here;     *)
(* module Monitor has the detail.                                          *)
(***************************************************************************)
EXTENDS Naturals, Sequences

CONSTANT OptionSets   \* the combinations of options the user may ask for

Filters == {"protocol", "seccomp", "mdwx", "namespaces"}

\* "caps" stands for any of the caps.* options, "container" for chroot or
\* appimage, "rootuser" for getuid() = 0, "kseccomp" for a kernel that
\* accepts seccomp filters.
OptionNames == Filters \cup {"bridge", "iface", "nonet", "noroot", "chroot",
                 "appimage", "nonewprivs", "caps", "nogroups", "rootuser",
                 "dbus", "named", "kseccomp"}

ASSUME OptionsAssumption ==
  /\ OptionSets \subseteq SUBSET OptionNames
  \* --net and --net=none exclude each other (net_check_cfg), and root may
  \* not ask for a user namespace (check_user_namespace)
  /\ \A o \in OptionSets : /\ ~({"bridge", "nonet"} \subseteq o)
                           /\ ~({"rootuser", "noroot"} \subseteq o)

Signals == {"TERM", "INT"}

\* What may be in force for a process of the sandbox.
Features == Filters \cup {"mountns", "net", "fs", "caps", "userns", "uidmap",
              "gidmap", "nnp", "dropped", "pdeath"}

ParentPC == {"start", "runfiles", "proxy", "clone", "pidfile", "pidlock",
             "netfork", "netwait", "notify1", "wait1", "uidmap", "gidmap",
             "notify2", "unlock", "catchINT", "catchTERM", "wait", "dflTERM",
             "dflINT", "release", "hcheck", "hcgt", "hsig", "hkill", "hwait",
             "hrelease", "proxystop", "proxywait", "delete", "atexit",
             "eofwait", "exited", "killed"}

ChildPC == {"none", "wait1", "mount", "network", "enforce", "fs", "save",
            "seccomp", "caps", "joinfile", "userns", "notify", "wait2",
            "recaps", "nnp", "drop", "pdeath", "fork", "handlers", "monitor",
            "handler", "broadcast", "zombie", "reaped"}

AppPC == {"none", "prepare", "filters", "mark", "exec", "running", "dead"}

VARIABLES
  asked,    \* the options the user asked for (never changes)
  parg,     \* arg_* and cfg of the parent
  ppc,      \* where the parent is
  pcaught,  \* signals for which the parent has a handler installed
  psig,     \* signals pending for the parent
  hsig,     \* the signal my_handler is running for, or "none"
  carg,     \* arg_* and cfg of the child (a copy made by clone)
  cpc,      \* where the child is
  csig,     \* signals pending for the child
  ccaught,  \* signals for which the child has installed sandbox_handler
  force,    \* what is in force for the child
  npc,      \* the net child
  moved,    \* interfaces the net child has moved into the sandbox
  apc,      \* where the app is
  aforce,   \* what is in force for the app
  p2c, c2p, \* the two pipes: sequences of values of arg_noroot
  netlock,  \* processes through whose descriptor the network flock is held
  pidlock,  \* processes that hold the fcntl lock on the pid file
  files,    \* run files of this sandbox under /run/firejail
  disk,     \* what the child left for --join on its private tmpfs
  proxy,    \* xdg-dbus-proxy
  orphan    \* history: where the child was when it lost its parent

pvars == <<parg, ppc, pcaught, psig, hsig>>
cvars == <<carg, cpc, csig, ccaught, force>>
nvars == <<npc, moved>>
avars == <<apc, aforce>>
pipes == <<p2c, c2p>>
runvars == <<netlock, pidlock, files>>
vars == <<asked, pvars, cvars, nvars, avars, pipes, runvars, disk, proxy, orphan>>

----------------------------------------------------------------------------
(* Helpers *)

ParentDead == ppc \in {"exited", "killed"}
ChildDead == cpc \in {"zombie", "reaped"}
ChildAlive == cpc # "none" /\ ~ChildDead
AppAlive == apc \notin {"none", "dead"}

\* Both processes reach their end: nothing is left to do.
Over == ParentDead /\ cpc \in {"none", "reaped"}

\* A pipe is at end of file for its reader once no process has its write end
\* open.  The child closes its copy of the first pipe's write end before it
\* reads; the net child inherits both ends.
ParentHasWriteEnd == ~ParentDead /\ ppc \notin {"unlock", "catchINT", "catchTERM",
    "wait", "dflTERM", "dflINT", "release", "hcheck", "hcgt", "hsig", "hkill",
    "hwait", "hrelease", "proxystop", "proxywait", "delete"}
\* mutant: a write end stays open in the reader
EofForChildNever == p2c = <<>> /\ FALSE

EofForChild == p2c = <<>> /\ ~ParentHasWriteEnd /\ npc # "run"
EofForParent == c2p = <<>> /\ ChildDead /\ npc # "run"

\* notify_other() writes "arg_noroot=%d".
Message(arg) == IF "noroot" \in arg THEN 1 ELSE 0

\* wait_for_other() takes the value of noroot from the message.
WithNoroot(arg, b) == IF b = 1 THEN arg \cup {"noroot"} ELSE arg \ {"noroot"}

\* The caps.* options restrict the bounding set; set_caps() itself is a
\* sequence of prctl calls that the child runs alone.
SetCaps(f) == f \cup {"caps"}

\* The part of sandbox() between the parent's last notification and
\* PR_SET_PDEATHSIG.
Unguarded ==
  \/ cpc \in {"recaps", "nnp", "drop", "pdeath"}
  \/ cpc = "wait2" /\ p2c # <<>>

\* The parent process ceases to exist with final pc "end": its descriptors
\* are closed, its fcntl lock goes, a child that armed PR_SET_PDEATHSIG is
\* sent SIGKILL and a zombie child is reaped by the host's init.
ParentEnds(end) ==
  /\ ppc' = end
  /\ netlock' = netlock \ {"parent"}
  /\ pidlock' = {}
  /\ csig' = IF "pdeath" \in force /\ ChildAlive THEN csig \cup {"KILL"} ELSE csig
  /\ cpc' = IF cpc = "zombie" THEN "reaped" ELSE cpc
  /\ orphan' = IF ~ChildAlive THEN "no"
               ELSE IF Unguarded THEN "unguarded" ELSE "guarded"

\* Sending a signal to the child, pid 1 of its namespace: without a handler
\* the kernel drops it; SIGKILL from the host always works.
SentToChild(s) ==
  IF ChildAlive /\ (s = "KILL" \/ s \in ccaught) THEN csig \cup {s} ELSE csig

\* The child, pid 1 of the pid namespace, ceases to exist: the kernel kills
\* every process of the namespace, and its descriptors are closed.
ChildEnds ==
  /\ cpc' = IF ParentDead THEN "reaped" ELSE "zombie"
  /\ apc' = IF apc = "none" THEN "none" ELSE "dead"
  /\ netlock' = netlock \ {"child"}

----------------------------------------------------------------------------
(* The parent, up to the end of the handshake *)

Init ==
  /\ asked \in OptionSets
  /\ parg = asked /\ ppc = "start" /\ pcaught = {} /\ psig = {} /\ hsig = "none"
  /\ carg = {} /\ cpc = "none" /\ csig = {} /\ ccaught = {} /\ force = {}
  /\ npc = "none" /\ moved = {}
  /\ apc = "none" /\ aforce = {}
  /\ p2c = <<>> /\ c2p = <<>>
  /\ netlock = {} /\ pidlock = {} /\ files = {"profile"}
  /\ disk = {} /\ proxy = "none" /\ orphan = "no"

\* With a bridge configured: take the network lock, choose the addresses and
\* write the network map; noroot is dropped for chroot.
CheckNetwork ==
  /\ ppc = "start" /\ ppc' = "runfiles"
  /\ netlock' = IF "bridge" \in parg THEN {"parent"} ELSE {}
  /\ files' = IF "bridge" \in parg THEN files \cup {"network"} ELSE files
  /\ parg' = IF "chroot" \in parg THEN parg \ {"noroot"} ELSE parg
  /\ UNCHANGED <<asked, pcaught, psig, hsig, cvars, nvars, avars, pipes, pidlock,
                 disk, proxy, orphan>>

SetNameRunFile ==
  /\ ppc = "runfiles" /\ ppc' = "proxy"
  /\ files' = IF "named" \in parg THEN files \cup {"name"} ELSE files
  /\ UNCHANGED <<asked, parg, pcaught, psig, hsig, cvars, nvars, avars, pipes,
                 netlock, pidlock, disk, proxy, orphan>>

\* dbus_proxy_start() returns once the proxy has reported that it is ready.
DbusProxyStart ==
  /\ ppc = "proxy" /\ ppc' = "clone"
  /\ proxy' = IF "dbus" \in parg THEN "run" ELSE "none"
  /\ UNCHANGED <<asked, parg, pcaught, psig, hsig, cvars, nvars, avars, pipes,
                 runvars, disk, orphan>>

\* The child starts with copies of the parent's variables and descriptors.
Clone ==
  /\ ppc = "clone" /\ ppc' = "pidfile"
  /\ cpc' = "wait1" /\ carg' = parg
  /\ netlock' = IF netlock = {} THEN {} ELSE netlock \cup {"child"}
  /\ UNCHANGED <<asked, parg, pcaught, psig, hsig, csig, ccaught, force, nvars,
                 avars, pipes, pidlock, files, disk, proxy, orphan>>

\* set_sandbox_run_file(): the child's pid is in the file before the lock
\* that makes the file valid is taken.
WritePidFile ==
  /\ ppc = "pidfile" /\ ppc' = "pidlock"
  /\ files' = files \cup {"sandbox"}
  /\ UNCHANGED <<asked, parg, pcaught, psig, hsig, cvars, nvars, avars, pipes,
                 netlock, pidlock, disk, proxy, orphan>>

LockPidFile ==
  /\ ppc = "pidlock" /\ ppc' = "netfork"
  /\ pidlock' = {"parent"}
  /\ UNCHANGED <<asked, parg, pcaught, psig, hsig, cvars, nvars, avars, pipes,
                 netlock, files, disk, proxy, orphan>>

ForkNetChild ==
  /\ ppc = "netfork"
  /\ IF "nonet" \in parg
       THEN ppc' = "notify1" /\ UNCHANGED npc /\ UNCHANGED netlock
       ELSE /\ ppc' = "netwait" /\ npc' = "run"
            /\ netlock' = IF netlock = {} THEN {} ELSE netlock \cup {"net"}
  /\ UNCHANGED <<asked, parg, pcaught, psig, hsig, cvars, moved, avars, pipes,
                 pidlock, files, disk, proxy, orphan>>

\* network_main() in the net child: it creates and moves the interfaces the
\* options ask for, or exits with an error on the way.
NetworkMain ==
  /\ npc = "run" /\ npc' = "done"
  /\ moved' \in IF ChildAlive THEN SUBSET (parg \cap {"bridge", "iface"}) ELSE {{}}
  /\ netlock' = netlock \ {"net"}
  /\ UNCHANGED <<asked, pvars, cvars, avars, pipes, pidlock, files, disk, proxy,
                 orphan>>

\* The parent does not look at the net child's exit status.
WaitNetChild ==
  /\ ppc = "netwait" /\ npc = "done" /\ ppc' = "notify1"
  /\ UNCHANGED <<asked, parg, pcaught, psig, hsig, cvars, nvars, avars, pipes,
                 runvars, disk, proxy, orphan>>

\* notify_other(): with the child gone the pipe has no reader, and SIGPIPE has
\* its default action.
NotifyChild(here, next) ==
  /\ ppc = here
  /\ IF ChildDead
       THEN ParentEnds("killed") /\ UNCHANGED p2c
       ELSE /\ ppc' = next /\ p2c' = Append(p2c, Message(parg))
            /\ UNCHANGED cpc /\ UNCHANGED csig /\ UNCHANGED netlock
            /\ UNCHANGED pidlock /\ UNCHANGED orphan
  /\ UNCHANGED <<asked, parg, pcaught, psig, hsig, carg, ccaught, force, nvars,
                 avars, c2p, files, disk, proxy>>

\* The base setup is complete.
NotifyBaseSetup == NotifyChild("notify1", "wait1")

\* wait_for_other(): a fresh stdio stream reads all there is in the pipe and
\* uses one line of it.  At end of file the peer is reaped and the process
\* exits.
WaitForUserNamespace ==
  /\ ppc = "wait1"
  /\ \/ /\ c2p # <<>>
        /\ ppc' = "uidmap" /\ parg' = WithNoroot(parg, Head(c2p)) /\ c2p' = <<>>
     \/ /\ EofForParent
        /\ ppc' = "eofwait" /\ UNCHANGED parg /\ UNCHANGED c2p
  /\ UNCHANGED <<asked, pcaught, psig, hsig, cvars, nvars, avars, p2c, runvars,
                 disk, proxy, orphan>>

WaitDeadPeer ==
  /\ ppc = "eofwait" /\ cpc = "zombie"
  /\ cpc' = "reaped" /\ ppc' = "atexit"
  /\ UNCHANGED <<asked, parg, pcaught, psig, hsig, carg, csig, ccaught, force,
                 nvars, avars, pipes, runvars, disk, proxy, orphan>>

\* update_map(): the kernel accepts a map for a live process in a user
\* namespace without one; otherwise the parent exits.
UpdateMap(here, map, next) ==
  /\ ppc = here
  /\ IF "noroot" \notin parg
       THEN ppc' = next /\ UNCHANGED force
       ELSE IF ChildAlive /\ "userns" \in force
              THEN ppc' = next /\ force' = force \cup {map}
              ELSE ppc' = "atexit" /\ UNCHANGED force
  /\ UNCHANGED <<asked, parg, pcaught, psig, hsig, carg, cpc, csig, ccaught,
                 nvars, avars, pipes, runvars, disk, proxy, orphan>>

\* The uid and gid maps are written.
NotifyMapped == NotifyChild("notify2", "unlock")

\* flock(LOCK_UN) ends the lock for every process that shares the open file.
UnlockNetwork ==
  /\ ppc = "unlock" /\ ppc' = "catchINT"
  /\ netlock' = {}
  /\ UNCHANGED <<asked, parg, pcaught, psig, hsig, cvars, nvars, avars, pipes,
                 pidlock, files, disk, proxy, orphan>>

----------------------------------------------------------------------------
(* The child: sandbox() *)

\* A stage that only changes what is in force for the child.
Stage(here, f, next) ==
  /\ cpc = here /\ cpc' = next /\ force' = f
  /\ UNCHANGED <<asked, pvars, carg, csig, ccaught, nvars, avars, pipes, runvars,
                 disk, proxy, orphan>>

\* The child exits with an error.
ChildExits ==
  /\ ChildEnds
  /\ UNCHANGED <<asked, pvars, carg, csig, ccaught, force, nvars, aforce, pipes,
                 pidlock, files, disk, proxy, orphan>>

\* wait_for_other() in the child, once per notification of the parent.
WaitForParent(here, next) ==
  /\ cpc = here
  /\ \/ /\ p2c # <<>>
        /\ cpc' = next /\ carg' = WithNoroot(carg, Head(p2c)) /\ p2c' = <<>>
        /\ UNCHANGED <<asked, pvars, csig, ccaught, force, nvars, avars, c2p,
                       runvars, disk, proxy, orphan>>
     \/ EofForChild /\ ChildExits

\* Slave mounts, and a tmpfs on /run/firejail/mnt.
MountNamespace == Stage("mount", force \cup {"mountns"}, "network")

\* Interfaces: configuring one that the net child did not deliver fails.
ConfigureNetwork ==
  \/ /\ carg \cap {"bridge", "iface"} \subseteq moved
     /\ Stage("network", force \cup {"net"}, "enforce")
  \/ cpc = "network" /\ ~(carg \cap {"bridge", "iface"} \subseteq moved) /\ ChildExits

\* enforce_filters(): chroot and appimage of a regular user.
EnforceFilters ==
  /\ cpc = "enforce" /\ cpc' = "fs"
  /\ carg' = IF "rootuser" \notin carg /\ carg \cap {"appimage", "chroot"} # {}
               THEN carg \cup {"nonewprivs", "caps", "nogroups"} ELSE carg
  /\ UNCHANGED <<asked, pvars, csig, ccaught, force, nvars, avars, pipes, runvars,
                 disk, proxy, orphan>>

\* chroot or the basic filesystem, the private-* options, D-Bus policy, host
\* name, /proc and /sys, /etc, whitelists, blacklists, devices, DNS, cwd, X11.
ConfigureFilesystem == Stage("fs", force \cup {"fs"}, "save")

\* save_umask(), save_nonewprivs(), save_cpu(): state for --join.
SaveState ==
  /\ cpc = "save" /\ cpc' = "seccomp"
  /\ disk' = disk \cup {"umask"} \cup (carg \cap {"nonewprivs"})
  /\ UNCHANGED <<asked, pvars, carg, csig, ccaught, force, nvars, avars, pipes,
                 runvars, proxy, orphan>>

\* seccomp_load() of every configured filter: each is queued in memory for
\* the app and its name is appended to RUN_SECCOMP_LIST.
LoadFilters ==
  /\ cpc = "seccomp" /\ cpc' = "caps"
  /\ disk' = disk \cup (carg \cap Filters)
  /\ UNCHANGED <<asked, pvars, carg, csig, ccaught, force, nvars, avars, pipes,
                 runvars, proxy, orphan>>

DropCaps ==
  Stage("caps", IF "caps" \in carg THEN SetCaps(force) ELSE force, "joinfile")

\* create_join_file() and save_nogroups(): the join byte is zero for now.
CreateJoinFile ==
  /\ cpc = "joinfile" /\ cpc' = "userns"
  /\ disk' = disk \cup {"join"} \cup (carg \cap {"nogroups"})
  /\ UNCHANGED <<asked, pvars, carg, csig, ccaught, force, nvars, avars, pipes,
                 runvars, proxy, orphan>>

\* unshare(CLONE_NEWUSER) gives the child all capabilities in the new
\* namespace.  When it fails the child goes on without noroot.
UnshareUser ==
  /\ cpc = "userns" /\ cpc' = "notify"
  /\ \/ /\ "noroot" \in carg
        /\ force' = (force \ {"caps"}) \cup {"userns"} /\ UNCHANGED carg
     \/ carg' = carg \ {"noroot"} /\ UNCHANGED force
  /\ UNCHANGED <<asked, pvars, csig, ccaught, nvars, avars, pipes, runvars, disk,
                 proxy, orphan>>

NotifyParent ==
  /\ cpc = "notify" /\ cpc' = "wait2"
  /\ c2p' = IF ParentDead THEN c2p ELSE Append(c2p, Message(carg))
  /\ UNCHANGED <<asked, pvars, carg, csig, ccaught, force, nvars, avars, p2c,
                 runvars, disk, proxy, orphan>>

\* mutant: the capabilities are not dropped a second time
KeepCaps == Stage("recaps", force, "nnp")

\* The new user namespace has reset the capabilities.
DropCapsAgain ==
  Stage("recaps", IF {"noroot", "caps"} \subseteq carg THEN SetCaps(force) ELSE force,
        "nnp")

SetNoNewPrivs ==
  Stage("nnp", IF "nonewprivs" \in carg THEN force \cup {"nnp"} ELSE force, "drop")

\* drop_privs(): setresgid and setresuid need the ids mapped; without maps they
\* fail like any other stage (ChildFails).
DropPrivs ==
  /\ "userns" \in force => {"uidmap", "gidmap"} \subseteq force
  /\ Stage("drop", force \cup {"dropped"}, "pdeath")

SetParentDeathSignal == Stage("pdeath", force \cup {"pdeath"}, "fork")

\* The app inherits what is in force for the child, except the death signal.
ForkApp ==
  /\ cpc = "fork" /\ cpc' = "handlers"
  /\ apc' = "prepare" /\ aforce' = force \ {"pdeath"}
  /\ UNCHANGED <<asked, pvars, carg, csig, ccaught, force, nvars, pipes, runvars,
                 disk, proxy, orphan>>

\* monitor_application() blocks SIGTERM and SIGINT, then installs
\* sandbox_handler; the signals stay pending until it waits.
InstallSandboxHandler ==
  /\ cpc = "handlers" /\ cpc' = "monitor" /\ ccaught' = Signals
  /\ UNCHANGED <<asked, pvars, carg, csig, force, nvars, avars, pipes, runvars,
                 disk, proxy, orphan>>

\* The last process of the sandbox is gone: monitor_application() returns and
\* sandbox() ends.
MonitorReturns == cpc = "monitor" /\ ~AppAlive /\ ChildExits

\* sandbox_handler(): SIGTERM for all, a bounded wait, SIGKILL for all, exit.
RunSandboxHandler ==
  /\ cpc = "monitor" /\ csig \cap ccaught # {}
  /\ cpc' = "handler" /\ csig' = csig \ Signals
  /\ UNCHANGED <<asked, pvars, carg, ccaught, force, nvars, avars, pipes, runvars,
                 disk, proxy, orphan>>

SandboxHandlerKills ==
  /\ cpc = "handler" /\ cpc' = "broadcast"
  /\ apc' = "dead"
  /\ UNCHANGED <<asked, pvars, carg, csig, ccaught, force, nvars, aforce, pipes,
                 runvars, disk, proxy, orphan>>

SandboxHandlerExits == cpc = "broadcast" /\ ChildExits

\* SIGKILL ends the child wherever it is.
ChildKilled == ChildAlive /\ "KILL" \in csig /\ ChildExits

\* Any stage of sandbox() up to the fork of the app may fail and exit.
ChildFails ==
  /\ cpc \in {"mount", "network", "enforce", "fs", "save", "seccomp", "caps",
              "joinfile", "userns", "recaps", "nnp", "drop", "fork"}
  /\ ChildExits

----------------------------------------------------------------------------
(* The first process of the sandbox: start_application() *)

AppStep(here, f, next) ==
  /\ apc = here /\ apc' = next /\ aforce' = f
  /\ UNCHANGED <<asked, pvars, cvars, nvars, pipes, runvars, disk, proxy, orphan>>

\* AppArmor, descriptors, limits, environment, umask, Landlock, ok_to_run().
PrepareApp == AppStep("prepare", aforce, "filters")

\* seccomp_install_filters(): NO_NEW_PRIVS first; a kernel without seccomp
\* only earns a warning.
InstallFilters ==
  AppStep("filters",
          aforce \cup (IF carg \cap Filters # {} THEN {"nnp"} ELSE {})
                 \cup (IF "kseccomp" \in carg THEN carg \cap Filters ELSE {}),
          "mark")

\* mutant: the join byte may be set before the filters are installed
MarkSandboxEarly ==
  /\ apc \in {"filters", "mark"} /\ apc' = IF apc = "mark" THEN "exec" ELSE apc
  /\ disk' = disk \cup {"done"}
  /\ UNCHANGED <<asked, pvars, cvars, nvars, aforce, pipes, runvars, proxy, orphan>>

\* *set_sandbox_status = SANDBOX_DONE
MarkSandboxDone ==
  /\ apc = "mark" /\ apc' = "exec" /\ disk' = disk \cup {"done"}
  /\ UNCHANGED <<asked, pvars, cvars, nvars, aforce, pipes, runvars, proxy, orphan>>

ExecApp == AppStep("exec", aforce, "running")

\* An error before or at execvp, or the end of the program and of all it
\* started.
AppExits ==
  /\ AppAlive /\ apc' = "dead"
  /\ UNCHANGED <<asked, pvars, cvars, nvars, aforce, pipes, runvars, disk, proxy,
                 orphan>>

----------------------------------------------------------------------------
(* The parent after the handshake: signals and termination *)

\* install_handler() first catches SIGINT, then SIGTERM.
Catch(here, s, next) ==
  /\ ppc = here /\ ppc' = next /\ pcaught' = pcaught \cup {s}
  /\ UNCHANGED <<asked, parg, psig, hsig, cvars, nvars, avars, pipes, runvars,
                 disk, proxy, orphan>>

WaitChild ==
  /\ ppc = "wait" /\ cpc = "zombie"
  /\ ppc' = "dflTERM" /\ cpc' = "reaped"
  /\ UNCHANGED <<asked, parg, pcaught, psig, hsig, carg, csig, ccaught, force,
                 nvars, avars, pipes, runvars, disk, proxy, orphan>>

RestoreDefault(here, s, next) ==
  /\ ppc = here /\ ppc' = next /\ pcaught' = pcaught \ {s}
  /\ UNCHANGED <<asked, parg, psig, hsig, cvars, nvars, avars, pipes, runvars,
                 disk, proxy, orphan>>

\* A signal that is caught enters my_handler(); the handler never returns and
\* each signal is blocked while the other one is handled.
EnterHandler(s) ==
  /\ s \in psig \cap pcaught /\ hsig = "none" /\ ~ParentDead
  /\ hsig' = s /\ psig' = psig \ {s} /\ ppc' = "hcheck"
  /\ UNCHANGED <<asked, parg, pcaught, cvars, nvars, avars, pipes, runvars, disk,
                 proxy, orphan>>

\* mutant: the handler does not look whether the child was reaped already
HandlerNoCheck ==
  /\ ppc = "hcheck" /\ ppc' = "hcgt"
  /\ UNCHANGED <<asked, parg, pcaught, psig, hsig, cvars, nvars, avars, pipes,
                 runvars, disk, proxy, orphan>>

\* waitpid(child, WNOHANG) == 0: the child has not terminated.
HandlerCheck ==
  /\ ppc = "hcheck"
  /\ IF ChildAlive
       THEN ppc' = "hcgt" /\ UNCHANGED cpc
       ELSE ppc' = "hrelease" /\ cpc' = "reaped"
  /\ UNCHANGED <<asked, parg, pcaught, psig, hsig, carg, csig, ccaught, force,
                 nvars, avars, pipes, runvars, disk, proxy, orphan>>

\* mutant: the signal is passed on without asking for a handler
HandlerForwards ==
  /\ ppc = "hcgt" /\ ppc' = "hsig"
  /\ UNCHANGED <<asked, parg, pcaught, psig, hsig, cvars, nvars, avars, pipes,
                 runvars, disk, proxy, orphan>>

\* has_handler(): SigCgt of the child; pid 1 of a namespace does not receive
\* a signal it has no handler for.
HandlerLooksAtChild ==
  /\ ppc = "hcgt" /\ ppc' = IF hsig \in ccaught /\ ChildAlive THEN "hsig" ELSE "hkill"
  /\ UNCHANGED <<asked, parg, pcaught, psig, hsig, cvars, nvars, avars, pipes,
                 runvars, disk, proxy, orphan>>

HandlerSignals ==
  /\ ppc \in {"hsig", "hkill"} /\ ppc' = "hwait"
  /\ csig' = SentToChild(IF ppc = "hkill" THEN "KILL" ELSE hsig)
  /\ UNCHANGED <<asked, parg, pcaught, psig, hsig, carg, cpc, ccaught, force,
                 nvars, avars, pipes, runvars, disk, proxy, orphan>>

HandlerWaits ==
  /\ ppc = "hwait" /\ cpc = "zombie"
  /\ ppc' = "hrelease" /\ cpc' = "reaped"
  /\ UNCHANGED <<asked, parg, pcaught, psig, hsig, carg, csig, ccaught, force,
                 nvars, avars, pipes, runvars, disk, proxy, orphan>>

\* release_sandbox_lock()
ReleaseSandboxLock ==
  /\ ppc \in {"release", "hrelease"} /\ ppc' = "proxystop" /\ pidlock' = {}
  /\ UNCHANGED <<asked, parg, pcaught, psig, hsig, cvars, nvars, avars, pipes,
                 netlock, files, disk, proxy, orphan>>

\* myexit(): dbus_proxy_stop() closes the status pipe and waits for the proxy.
StopProxy ==
  /\ ppc = "proxystop" /\ ppc' = IF proxy = "none" THEN "delete" ELSE "proxywait"
  /\ UNCHANGED <<asked, parg, pcaught, psig, hsig, cvars, nvars, avars, pipes,
                 runvars, disk, proxy, orphan>>

ReapProxy ==
  /\ ppc = "proxywait" /\ proxy = "dead" /\ ppc' = "delete"
  /\ UNCHANGED <<asked, parg, pcaught, psig, hsig, cvars, nvars, avars, pipes,
                 runvars, disk, proxy, orphan>>

\* myexit() and clear_atexit(): the run files go before the process does.
DeleteRunFiles ==
  /\ ppc \in {"delete", "atexit"} /\ ParentEnds("exited")
  /\ files' = {}
  /\ UNCHANGED <<asked, parg, pcaught, psig, hsig, carg, ccaught, force, nvars,
                 avars, pipes, disk, proxy>>

\* errExit() and exit(1) before the signal-safe part of main().
ParentFails ==
  /\ ppc \in {"start", "runfiles", "proxy", "clone", "pidfile", "pidlock", "netfork",
              "notify1", "uidmap", "gidmap", "notify2", "unlock"}
  /\ ppc' = "atexit"
  /\ UNCHANGED <<asked, parg, pcaught, psig, hsig, cvars, nvars, avars, pipes,
                 runvars, disk, proxy, orphan>>

\* SIGKILL, or a signal that has its default action at this point: nothing is
\* cleaned up.
ParentKilled ==
  /\ ~ParentDead /\ ParentEnds("killed")
  /\ UNCHANGED <<asked, parg, pcaught, psig, hsig, carg, ccaught, force, nvars,
                 avars, pipes, files, disk, proxy>>

----------------------------------------------------------------------------
(* The world around the sandbox *)

\* xdg-dbus-proxy ends when the other end of its status pipe is closed in
\* every process that inherited it.
ProxyEnds ==
  /\ proxy = "run"
  /\ ParentDead \/ ppc = "proxywait"
  /\ ~ChildAlive /\ npc # "run"
  /\ proxy' = "dead"
  /\ UNCHANGED <<asked, pvars, cvars, nvars, avars, pipes, runvars, disk, orphan>>

\* The user signals the firejail process.
SignalParent(s) ==
  /\ ~ParentDead /\ psig' = psig \cup {s}
  /\ UNCHANGED <<asked, parg, ppc, pcaught, hsig, cvars, nvars, avars, pipes,
                 runvars, disk, proxy, orphan>>

\* A terminal, an administrator or the kernel signals the child.
SignalChild(s) ==
  /\ ChildAlive /\ csig' = SentToChild(s)
  /\ UNCHANGED <<asked, pvars, carg, cpc, ccaught, force, nvars, avars, pipes,
                 runvars, disk, proxy, orphan>>

Terminated == Over /\ UNCHANGED vars

----------------------------------------------------------------------------

ParentNext ==
  \/ CheckNetwork \/ SetNameRunFile \/ DbusProxyStart \/ Clone
  \/ WritePidFile \/ LockPidFile \/ ForkNetChild \/ WaitNetChild
  \/ NotifyBaseSetup \/ WaitForUserNamespace \/ WaitDeadPeer
  \/ UpdateMap("uidmap", "uidmap", "gidmap")
  \/ UpdateMap("gidmap", "gidmap", "notify2")
  \/ NotifyMapped \/ UnlockNetwork
  \/ Catch("catchINT", "INT", "catchTERM") \/ Catch("catchTERM", "TERM", "wait")
  \/ WaitChild
  \/ RestoreDefault("dflTERM", "TERM", "dflINT")
  \/ RestoreDefault("dflINT", "INT", "release")
  \/ \E s \in Signals : EnterHandler(s)
  \/ HandlerCheck \/ HandlerLooksAtChild \/ HandlerSignals \/ HandlerWaits
  \/ ReleaseSandboxLock \/ StopProxy \/ ReapProxy \/ DeleteRunFiles

ChildNext ==
  \/ WaitForParent("wait1", "mount") \/ MountNamespace \/ ConfigureNetwork
  \/ EnforceFilters \/ ConfigureFilesystem \/ SaveState \/ LoadFilters \/ DropCaps
  \/ CreateJoinFile \/ UnshareUser \/ NotifyParent \/ WaitForParent("wait2", "recaps")
  \/ DropCapsAgain \/ SetNoNewPrivs \/ DropPrivs \/ SetParentDeathSignal \/ ForkApp
  \/ InstallSandboxHandler \/ MonitorReturns \/ RunSandboxHandler
  \/ SandboxHandlerKills \/ SandboxHandlerExits

AppNext == PrepareApp \/ InstallFilters \/ MarkSandboxDone \/ ExecApp

\* Failures, signals from outside and the end of the program: nothing says
\* that they ever happen.
Environment ==
  \/ ParentFails \/ ParentKilled \/ ChildFails \/ AppExits
  \/ \E s \in Signals : SignalParent(s)
  \/ \E s \in Signals \cup {"KILL"} : SignalChild(s)

Next ==
  \/ ParentNext \/ ChildNext \/ ChildKilled \/ AppNext \/ NetworkMain \/ ProxyEnds
  \/ Environment \/ Terminated

Spec == Init /\ [][Next]_vars

\* Every process that can take a step takes it some day.
Fairness ==
  /\ WF_vars(ParentNext) /\ WF_vars(ChildNext) /\ WF_vars(ChildKilled)
  /\ WF_vars(AppNext) /\ WF_vars(NetworkMain) /\ WF_vars(ProxyEnds)

FairSpec == Spec /\ Fairness

----------------------------------------------------------------------------
(* Properties *)

TypeOK ==
  /\ asked \in OptionSets /\ parg \subseteq OptionNames /\ carg \subseteq OptionNames
  /\ ppc \in ParentPC /\ cpc \in ChildPC /\ apc \in AppPC
  /\ pcaught \subseteq Signals /\ psig \subseteq Signals
  /\ hsig \in Signals \cup {"none"}
  /\ csig \subseteq Signals \cup {"KILL"} /\ ccaught \subseteq Signals
  /\ force \subseteq Features /\ aforce \subseteq Features
  /\ npc \in {"none", "run", "done"} /\ moved \subseteq {"bridge", "iface"}
  /\ p2c \in Seq({0, 1}) /\ c2p \in Seq({0, 1})
  /\ netlock \subseteq {"parent", "child", "net"} /\ pidlock \subseteq {"parent"}
  /\ files \subseteq {"profile", "network", "name", "sandbox"}
  /\ disk \subseteq Filters \cup {"umask", "nonewprivs", "nogroups", "join", "done"}
  /\ proxy \in {"none", "run", "dead"} /\ orphan \in {"no", "guarded", "unguarded"}

\* What the options promise for a program run in the sandbox.
Container(o) == "rootuser" \notin o /\ o \cap {"chroot", "appimage"} # {}
Promised(o) ==
  {"mountns", "fs", "net", "dropped"}
  \cup (IF "caps" \in o \/ Container(o) THEN {"caps"} ELSE {})
  \cup (IF "nonewprivs" \in o \/ Container(o) \/ o \cap Filters # {}
        THEN {"nnp"} ELSE {})
  \cup (IF "kseccomp" \in o THEN o \cap Filters ELSE {})

\* No instruction of the user's program runs before everything its options
\* promise is in force for it - through the order of the setup stages, the
\* user namespace that hands back all capabilities halfway, and the parent's
\* part of the work - and a new user namespace has both its maps.
AppConfined ==
  apc = "running" =>
    /\ Promised(asked) \subseteq aforce
    /\ "userns" \in aforce => {"uidmap", "gidmap"} \subseteq aforce

\* The join byte is set only once the app is confined as promised and all the
\* state --join rebuilds the confinement from has been saved.
JoinByteMeansReady ==
  "done" \in disk =>
    /\ Promised(asked) \subseteq aforce
    /\ {"join", "umask"} \cup (asked \cap (Filters \cup {"nonewprivs", "nogroups"}))
         \subseteq disk
    /\ Container(asked) => {"nonewprivs", "nogroups"} \subseteq disk

\* Once the parent has heard from the child about the user namespace, both
\* agree on whether there is one, also when unshare() failed: the parent
\* writes maps exactly when the child sits in a namespace that needs them.
NorootAgreed ==
  /\ (ppc \in {"uidmap", "gidmap", "notify2", "unlock"} /\ ChildAlive)
       => ("noroot" \in parg <=> "userns" \in force)
  /\ cpc \in {"recaps", "nnp", "drop", "pdeath", "fork"}
       => ("noroot" \in carg <=> "userns" \in force)

\* wait_for_other() reads the pipe through a stdio buffer that it throws away,
\* so a second message in the pipe would be lost with it: there never is one.
NoMessageLost == Len(p2c) <= 1 /\ Len(c2p) <= 1

\* The child configures the addresses the parent chose while the network lock
\* is still held, whatever happens to the parent meanwhile: no other sandbox
\* can choose the same addresses in between.
NetworkConfiguredLocked ==
  cpc = "network" /\ "bridge" \in carg => netlock # {}

\* my_handler() signals the pid of the child only while the parent has not
\* reaped it, so the pid cannot belong to another process by then.
NoStrayKill == ppc \in {"hcgt", "hsig", "hkill"} => cpc # "reaped"

\* The assertion in release_sandbox_lock(): whichever of main() and
\* my_handler() gets there finds the pid file still locked, and neither
\* gives up the lock or the run files while something runs in the sandbox.
ReleasedOnceAndLast ==
  /\ ppc \in {"release", "hrelease"} => pidlock # {}
  /\ ppc \in {"release", "hrelease", "proxystop", "proxywait", "delete"}
       => cpc = "reaped"

\* The processes that make up a sandbox, and those that join it, rely on one
\* another only where they may: on the join byte, on the answer about the user
\* namespace, on single messages, on the network lock, on the pid of the child
\* and on the lock of the pid file (main(), sandbox(), my_handler()).
Coordinated ==
  /\ JoinByteMeansReady /\ NorootAgreed /\ NoMessageLost
  /\ NetworkConfiguredLocked /\ NoStrayKill /\ ReleasedOnceAndLast

HandshakeEnds == cpc = "wait1" ~> ChildDead \/ apc \in {"running", "dead"}

NetworkLockReleased ==
  netlock # {} ~> netlock = {} \/ orphan = "unguarded"

\* The handshake never hangs: every sandbox that is cloned either gets to run
\* its program or is given up.  The network lock does not outlive the startup,
\* except in the hands of a child that lost its parent after the last
\* notification (wait_for_other(), notify_other()).
StartupSettles == HandshakeEnds /\ NetworkLockReleased

CaughtSignalEnds ==
  hsig # "none" ~> ppc = "killed" \/ (ppc = "exited" /\ cpc = "reaped")

OrphanDies == orphan = "guarded" ~> ChildDead

\* A caught SIGTERM or SIGINT ends the sandbox and the parent, wherever the
\* child is: still in the handshake, without handlers, or monitoring.  A child
\* whose parent dies goes too: through the end of file on the pipe before the
\* last notification, through the death signal once it is armed (my_handler(),
\* sandbox_handler(), wait_for_other()).
SandboxEndsWithParent == CaughtSignalEnds /\ OrphanDies

\* "kill the sandbox in case the parent died" (sandbox.c), without exception.
OrphanAlwaysDies == ParentDead /\ ChildAlive ~> ChildDead
============================================================================
