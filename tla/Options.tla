------------------------------- MODULE Options -------------------------------
(***************************************************************************)
(* main.c from the first instruction to the clone of the sandbox: the      *)
(* command line, the profiles it loads and the final checks.               *)
(*                                                                         *)
(* Every operator Cmd... is one stretch of run_cmd_and_exit or of the      *)
(* option loop; it takes the world, firejail.config, the configuration     *)
(* and the option.  An option whose feature is disabled ends the program.  *)
(* Profiles are read one line at a time; the open files are a stack, so    *)
(* include_level is the number of files below the one that is opened.      *)
(***************************************************************************)
EXTENDS Profile

CONSTANT Worlds, MaxInclude

VARIABLES w,      \* the world: constant during a run
          penv,   \* environment of the process: a function from names
          exe,    \* argv[0]: "firejail" or the name of a symbolic link
          argv,   \* the options that follow
          f,      \* firejail.config
          c,      \* the configuration
          i,      \* the option being looked at
          stack,  \* the profile files being read
          pc,     \* the stretch of main()
          hist    \* the lines and options that changed the network devices

vars == <<w, penv, exe, argv, f, c, i, stack, pc, hist>>

Required(feature, new) == IF Enabled(w, f, feature) THEN new ELSE Fail(c)
RequirePid(v, what) == IF v \in w.running THEN Done(c, what) ELSE Fail(c)

-----------------------------------------------------------------------------
(* run_cmd_and_exit *)

CmdX11Server(l) ==
  IF l.o \in {"help", "version"} THEN Done(c, l.o) ELSE Required("x11", Done(c, "x11"))

Traces == {"nettrace", "dnstrace", "snitrace", "icmptrace"}
CmdTrace(l) ==
  Required("network", CASE ~w.root -> Fail(c)
                        [] l.v = "" -> Done(c, l.o)
                        [] OTHER -> RequirePid(l.v, l.o))

CmdNetfilterPrint(l) == RequirePid(l.v, l.o)

DebugSeccomp == {"debug-syscalls", "debug-syscalls32", "debug-syscall-groups", "debug-errnos"}
CmdDebugSeccomp(l) == Required("seccomp", Done(c, l.o))

CmdSeccompPrint(l) ==
  IF l.o = "debug-protocols" THEN Done(c, l.o) ELSE Required("seccomp", RequirePid(l.v, l.o))

CmdProfilePrint(l) == RequirePid(l.v, l.o)

Prints == {"cpu.print", "apparmor.print", "caps.print", "fs.print", "dns.print", "debug-caps"}
CmdPrint(l) == IF l.o = "debug-caps" THEN Done(c, l.o) ELSE RequirePid(l.v, l.o)

(* firemon keeps its privileges when /proc hides processes *)
CmdFiremon(l) == Done(c, IF w.hidepid THEN "firemon-root" ELSE "firemon-user")

CmdNetCommands(l) ==
  Required("network", IF l.o = "netstats" THEN CmdFiremon(l) ELSE RequirePid(l.v, l.o))

(* get, put, ls and cat take the rest of the command line as paths *)
CmdTransfer(l) ==
  LET rest == SubSeq(argv, i + 1, Len(argv))
      quiet == IF l.o \in {"ls", "cat"} /\ ~IsSet(c, "debug") THEN Set(c, "quiet") ELSE c
  IN  Required("file-transfer",
        CASE IsSet(c, "private_cwd") -> Fail(c)
          [] Len(rest) # (IF l.o = "put" THEN 2 ELSE 1) -> Fail(c)
          [] \E k \in DOMAIN rest : rest[k].v = "bad" -> Fail(c)
          [] l.v \notin w.running -> Fail(quiet)
          [] OTHER -> Done(quiet, l.o))

CmdJoin(l) ==
  IF Enabled(w, f, "join") \/ w.root THEN RequirePid(l.v, "join") ELSE Fail(c)

CmdJoinNetwork(l) == Required("network", IF w.root THEN RequirePid(l.v, "join-network") ELSE Fail(c))
CmdJoinFilesystem(l) == IF w.root THEN RequirePid(l.v, "join-filesystem") ELSE Fail(c)
CmdShutdown(l) == RequirePid(l.v, "shutdown")

(* join-or-start has two parts: join a running sandbox, or be named so *)
CmdJoinOrStart(l) ==
  CASE ~(Enabled(w, f, "join") \/ w.root) -> Fail(c)
    [] l.v \in w.running -> Done(c, "join")
    [] OTHER -> SetName(c, l.v)

-----------------------------------------------------------------------------
(* The option loop *)

CmdDebug(l) ==
  CASE l.o = "debug" -> Clear(Set(c, "debug"), "quiet")
    [] l.o = "debug-blacklists" -> Set(c, "debug_blacklists")
    [] l.o = "debug-whitelists" -> Set(c, "debug_whitelists")
    [] l.o = "quiet" -> IF IsSet(c, "debug") THEN c ELSE Set(c, "quiet")
    [] l.o \in {"allow-debuggers", "appimage", "oom"} -> c
    [] l.o = "allow-bwrap" -> Set(c, "allow_bwrap")

CmdXephyr(l) == Required("x11", c)

CmdApparmor(l) ==
  CASE l.o = "apparmor" -> Apparmor(c, IF l.v = "" THEN "firejail-default" ELSE l.v)
    [] l.o = "apparmor-replace" -> Set(Set(c, "apparmor"), "apparmor_replace")

CmdProtocol(l) == Required("seccomp", Augment(c, "protocol", l.list))

(* seccomp and its lists exclude each other; block-secondary comes before   *)
(* no 32-bit list                                                           *)
CmdSeccomp(l) ==
  Required("seccomp",
    CASE l.o = "seccomp.block-secondary" ->
           IF IsSet(c, "seccomp32") THEN Fail(c) ELSE Set(c, "block_secondary")
      [] IsSet(c, SeccompSwitch(l.o)) -> Fail(c)
      [] l.o = "seccomp" /\ l.list = <<>> -> Set(c, "seccomp")
      [] OTHER -> StoreSeccomp(c, l))

CmdLandlock(l) == IF l.o = "landlock.enforce" THEN Set(c, "landlock_enforce") ELSE LandlockAdd(c, l)

CmdMdwx(l) == Required("seccomp", Set(c, "mdwx"))

CmdNamespaces(l) ==
  Required("seccomp",
    IF l.list = <<>> THEN Augment(Set(c, "restrict_namespaces"), "restrict_namespaces", AllNamespaces)
    ELSE Augment(c, "restrict_namespaces", l.list))

CmdErrorAction(l) ==
  Required("seccomp",
    IF Has(f.str, "seccomp-error-action") \/ l.v = "bad" THEN Fail(c)
    ELSE PutStr(c, "error_action", l.v))

(* caps_cmdline: capabilities were chosen by the user, except drop=all *)
CmdCaps(l) ==
  CASE l.o = "caps" -> Set(Set(c, "caps_default_filter"), "caps_cmdline")
    [] l.o = "caps.drop" /\ l.v = "all" -> Set(c, "caps_drop_all")
    [] OTHER -> Set(CapsList(c, IF l.o = "caps.drop" THEN "caps_drop" ELSE "caps_keep", l.v), "caps_cmdline")

CmdTracefile(l) ==
  IF l.v = "" THEN Set(c, "trace")
  ELSE IF l.v = "bad" THEN Fail(c) ELSE Set(PutStr(c, "tracefile", l.v), "trace")

CmdRlimit(l) == SetRlimit(c, l)

CmdIpcCpuNice(l) ==
  CASE l.o = "ipc-namespace" -> Set(c, "ipc")
    [] l.o = "cpu" -> ReadCpuList(c, l)
    [] l.o = "nice" -> SetNice(w, c, l.n)

(* allusers, and the options that are handed to profile_check_line: what it *)
(* answers is not looked at, the line is added always                       *)
PathOptions == {"tmpfs", "blacklist", "noblacklist", "whitelist", "nowhitelist", "mkdir", "mkfile",
                "read-only", "noexec", "read-write", "bind"} \cup DbusRules

CheckAndAdd(l) ==
  LET r == CheckLine(w, f, c, l) IN IF r.out # "" THEN r ELSE [ProfileAdd(r, l.o, l.v) EXCEPT !.ret = 0]

CmdPath(l) == IF l.o = "bind" THEN Required("bind", CheckAndAdd(l)) ELSE CheckAndAdd(l)

CmdNoprofile(l) ==
  IF IsSet(c, "custom_profile") THEN Fail(c) ELSE Set(Set(c, "noprofile"), "keep_config_pulse")

CmdIgnore(l) == IF IsSet(c, "custom_profile") THEN Fail(c) ELSE ProfileAddIgnore(c, IgnoreOf(l))

CmdKeepFd(l) == IF l.v = "all" THEN Set(c, "keep_fd_all") ELSE Augment(c, "keep_fd", l.list)

CmdChroot(l) == Required("chroot", CheckedFile(c, "chrootdir", l.v))

CmdWritable(l) == IF l.o = "writable-etc" THEN WritableEtc(c) ELSE Set(c, WritableSwitch[l.o])

CmdPrivate(l) ==
  CASE l.o = "private" /\ l.v = "" -> Set(c, "private")
    [] l.o = "private" -> IF l.v = "bad" THEN Fail(c) ELSE Set(PutStr(c, "home_private", l.v), "private")
    [] OTHER -> Set(c, SwitchOf[l.o])

(* a list must follow, except for private-etc *)
CmdPrivateLists(l) ==
  LET d == PrivateDir[l.o]
      on == Set(c, PrivateSwitch[d])
  IN  Required(l.o,
        IF \/ d = "etc" /\ IsSet(c, "writable_etc")
           \/ l.list = <<>> /\ d # "etc"
        THEN Fail(c)
        ELSE IF l.list = <<>> THEN on ELSE Concat(on, d, l.list))

CmdPrivateTmp(l) ==
  CASE l.o = "private-tmp" -> Set(c, "private_tmp")
    [] l.o = "private-cache" -> Required("private-cache", Set(c, "private_cache"))
    [] l.o = "private-cwd" -> LineFlags(w, f, c, l)

CmdHostname(l) == IF l.o = "name" THEN SetName(c, l.v) ELSE LineHostname(c, l)

CmdSwitch(l) ==
  CASE l.o = "noroot" -> Required("userns", CheckUserNamespace(w, c))
    [] l.o = "env" -> EnvStore(c, "set", l.v, IF l.n = 0 THEN "asked" ELSE "bad")
    [] l.o = "rmenv" -> EnvStore(c, "rm", l.v, "")
    [] l.o = "noprinters" ->
         ProfileAdd(ProfileAdd(Set(c, "noprinters"), "blacklist", "/dev/lp"), "blacklist", "cups.sock")
    [] l.o = "nou2f" -> Set(c, "nou2f")
    [] l.o = "notpm" -> c
    [] l.o = "nodbus" -> [c EXCEPT !.dbus = [user |-> Block, system |-> Block]]
    [] OTHER -> Set(c, SwitchOf[l.o])

CmdDbus(l) ==
  CASE l.o = "dbus-user" -> DbusPolicy(c, "user", "dbus_log_user", l.v)
    [] l.o = "dbus-system" -> DbusPolicy(c, "system", "dbus_log_system", l.v)
    [] l.o = "dbus-log" -> IF Has(c.str, "dbus_log_file") THEN Fail(c) ELSE PutStr(c, "dbus_log_file", l.v)
    [] l.o = "dbus-user.log" -> IF c.dbus.user # Filter THEN Fail(c) ELSE Set(c, "dbus_log_user")
    [] l.o = "dbus-system.log" -> IF c.dbus.system # Filter THEN Fail(c) ELSE Set(c, "dbus_log_system")

CmdNetlock(l) ==
  Required("network", IF l.v = "" THEN Set(c, "netlock") ELSE RequirePid(l.v, "netlock"))

(* interface: an existing device other than lo, not with net none *)
CmdInterface(l) ==
  LET free == {b \in Bridges : ~c.intf[b].configured}
      slot == CHOOSE b \in free : \A x \in free : b <= x
  IN  Required("network",
        IF IsSet(c, "nonetwork") \/ l.v \in {"lo", "bad"} \/ free = {} THEN Fail(c)
        ELSE [c EXCEPT !.intf[slot] = [configured |-> TRUE, dev |-> l.v]])

CmdNet(l) == IF l.v = "none" THEN NetNone(c) ELSE Required("network", NetDevice(c, l.v))

CmdVethName(l) ==
  Required("network", OnLastBridge(c, Never, l.v = "", LAMBDA b : [b EXCEPT !.veth = l.v]))
CmdScan(l) == Required("network", Set(c, "scan"))
CmdIprange(l) ==
  Required("network",
    OnLastBridge(c, LAMBDA b : b.lo # 0 \/ b.hi # 0, l.v = "bad" \/ l.n >= l.m,
                 LAMBDA b : [b EXCEPT !.lo = l.n, !.hi = l.m]))
CmdMac(l) ==
  Required("network", OnLastBridge(c, LAMBDA b : b.mac # "", l.v \in {"bad", "multicast"},
                                   LAMBDA b : [b EXCEPT !.mac = l.v]))
CmdMtu(l) ==
  Required("network", OnLastBridge(c, Never, l.n \notin 576..9198, LAMBDA b : [b EXCEPT !.mtu = l.n]))
CmdIp(l) == Required("network", BridgeIp(c, l.v))

(* unlike a profile, the command line sets the mask of the device only *)
CmdNetmask(l) ==
  Required("network", OnLastBridge(c, LAMBDA b : b.ip_none \/ b.mask # "", l.v = "bad",
                                   LAMBDA b : [b EXCEPT !.mask = l.v]))
CmdIp6(l) == Required("network", BridgeIp6(c, l.v))
CmdDefaultgw(l) == Required("network", CheckedFile(c, "defaultgw", l.v))
CmdDns(l) == LineDns(c, l)

CmdNetfilter(l) ==
  Required("network",
    CASE l.o = "netfilter" /\ l.v = "" -> Set(c, "netfilter")
      [] l.o = "netfilter" -> CheckedFile(Set(c, "netfilter"), "netfilter_file", l.v)
      [] l.o = "netfilter6" -> CheckedFile(Set(c, "netfilter6"), "netfilter6_file", l.v)
      [] l.o = "netns" -> CheckedFile(c, "netns", l.v))

CmdCommand(l) ==
  CASE l.o = "timeout" -> IF l.v = "bad" THEN Fail(c) ELSE PutNum(c, "timeout", l.n)
    [] l.o = "shell" -> Fail(c)
    [] l.o = "-c" -> IF i = Len(argv) THEN Fail(c) ELSE Set(c, "command")
    [] l.o = "x11" /\ l.v = "none" -> Set(c, "x11_block")
    [] l.o = "x11" /\ l.v = "xorg" -> Required("x11", Set(c, "x11_xorg"))

CmdLast(l) ==
  CASE l.o = "disable-mnt" -> Set(c, "disable_mnt")
    [] l.o = "deterministic-exit-code" -> Set(c, "deterministic_exit_code")
    [] l.o = "deterministic-shutdown" -> Set(c, "deterministic_shutdown")
    [] l.o = "tab" -> Set(c, "tab")
    [] l.o = "unhide-pid1" -> Set(c, "unhide_pid1")

(* The option loop takes an option to its stretch; "tmpfs" to "dbus" hold    *)
(* the commands, an unknown one is an error                                  *)
Cmd(l) ==
  CASE l.o \in {"help", "version"} \/ (l.o = "x11" /\ l.v \in {"", "xvfb"}) -> CmdX11Server(l)
    [] l.o \in Traces -> CmdTrace(l)
    [] l.o \in {"netfilter.print", "netfilter6.print"} -> CmdNetfilterPrint(l)
    [] l.o \in DebugSeccomp -> CmdDebugSeccomp(l)
    [] l.o \in {"seccomp.print", "protocol.print", "debug-protocols"} -> CmdSeccompPrint(l)
    [] l.o = "profile.print" -> CmdProfilePrint(l)
    [] l.o \in Prints -> CmdPrint(l)
    [] l.o \in {"list", "tree", "top"} -> CmdFiremon(l)
    [] l.o \in {"netstats", "net.print"} -> CmdNetCommands(l)
    [] l.o \in {"get", "put", "ls", "cat"} -> CmdTransfer(l)
    [] l.o = "join" -> CmdJoin(l)
    [] l.o = "join-or-start" -> CmdJoinOrStart(l)
    [] l.o = "join-network" -> CmdJoinNetwork(l)
    [] l.o = "join-filesystem" -> CmdJoinFilesystem(l)
    [] l.o = "shutdown" -> CmdShutdown(l)
    [] l.o \in {"debug", "debug-blacklists", "debug-whitelists", "quiet", "allow-debuggers", "appimage",
                "oom", "allow-bwrap"} -> CmdDebug(l)
    [] l.o \in {"xephyr-screen", "xephyr-extra-params"} -> CmdXephyr(l)
    [] l.o \in {"apparmor", "apparmor-replace"} -> CmdApparmor(l)
    [] l.o = "protocol" -> CmdProtocol(l)
    [] l.o \in DOMAIN SeccompList \cup {"seccomp.block-secondary"} -> CmdSeccomp(l)
    [] l.o \in DOMAIN LandlockTypes \cup {"landlock.enforce"} -> CmdLandlock(l)
    [] l.o = "memory-deny-write-execute" -> CmdMdwx(l)
    [] l.o = "restrict-namespaces" -> CmdNamespaces(l)
    [] l.o = "seccomp-error-action" -> CmdErrorAction(l)
    [] l.o \in {"caps", "caps.drop", "caps.keep"} -> CmdCaps(l)
    [] l.o = "trace" -> CmdTracefile(l)
    [] l.o \in Rlimits -> CmdRlimit(l)
    [] l.o \in {"ipc-namespace", "cpu", "nice"} -> CmdIpcCpuNice(l)
    [] l.o \in PathOptions -> CmdPath(l)
    [] l.o = "noprofile" -> CmdNoprofile(l)
    [] l.o = "ignore" -> CmdIgnore(l)
    [] l.o = "keep-fd" -> CmdKeepFd(l)
    [] l.o = "chroot" -> CmdChroot(l)
    [] l.o \in DOMAIN WritableSwitch \cup {"writable-etc"} -> CmdWritable(l)
    [] l.o \in {"private", "private-dev", "keep-dev-ntsync", "keep-dev-shm", "keep-dev-tpm"} -> CmdPrivate(l)
    [] l.o \in DOMAIN PrivateDir -> CmdPrivateLists(l)
    [] l.o \in {"private-tmp", "private-cache", "private-cwd"} -> CmdPrivateTmp(l)
    [] l.o \in {"name", "hostname", "hostname-randomize", "keep-hostname"} -> CmdHostname(l)
    [] l.o \in {"noroot", "env", "rmenv", "noprinters", "nou2f", "notpm", "nodbus", "nogroups",
                "nonewprivs", "nosound", "noautopulse", "novideo", "no3d", "notv", "nodvd", "noinput",
                "allusers"} -> CmdSwitch(l)
    [] l.o \in {"dbus-user", "dbus-system", "dbus-log", "dbus-user.log", "dbus-system.log"} -> CmdDbus(l)
    [] l.o = "netlock" -> CmdNetlock(l)
    [] l.o = "interface" -> CmdInterface(l)
    [] l.o = "net" -> CmdNet(l)
    [] l.o = "veth-name" -> CmdVethName(l)
    [] l.o = "scan" -> CmdScan(l)
    [] l.o = "iprange" -> CmdIprange(l)
    [] l.o = "mac" -> CmdMac(l)
    [] l.o = "mtu" -> CmdMtu(l)
    [] l.o = "ip" -> CmdIp(l)
    [] l.o = "netmask" -> CmdNetmask(l)
    [] l.o = "ip6" -> CmdIp6(l)
    [] l.o = "defaultgw" -> CmdDefaultgw(l)
    [] l.o \in {"dns", "hosts-file"} -> CmdDns(l)
    [] l.o \in {"netfilter", "netfilter6", "netns"} -> CmdNetfilter(l)
    [] l.o \in {"timeout", "shell", "-c"} \/ (l.o = "x11" /\ l.v \in {"none", "xorg"}) -> CmdCommand(l)
    [] l.o \in {"disable-mnt", "deterministic-exit-code", "deterministic-shutdown", "tab",
                "unhide-pid1"} -> CmdLast(l)
    [] OTHER -> Fail(c)

-----------------------------------------------------------------------------
(* From the first instruction to the option loop *)

Init ==
  /\ w \in Worlds
  /\ penv = w.envp /\ exe = w.exe /\ argv = w.argv
  /\ f = ConfigDefaults /\ c = EmptyConfig
  /\ i = 1 /\ stack = <<>> /\ pc = "start" /\ hist = <<>>

(* the step ends the program, or goes on at next *)
Settle(new, next) ==
  \E r \in {new} : /\ c' = [r EXCEPT !.ret = 0]
                   /\ pc' = IF r.out # "" THEN "end" ELSE next

(* check_arg: an option in front of the program, "--" or "-c" *)
Separators == {"prog", "--", "-c"}
CheckArg(o) ==
  \E k \in DOMAIN argv : argv[k].o = o /\ \A j \in 1..(k - 1) : argv[j].o \notin Separators

(* fenv: the environment that is stored, after what firejail.config stores *)
Stashed(e, env) ==
  FoldSet(LAMBDA n, r : Append(r, [op |-> "set", name |-> n, value |-> e[n]]), env, DOMAIN e)

Start ==
  /\ pc = "start"
  /\ \E cf \in {LoadConfig(w)} :
     LET quiet == CheckArg("quiet") \/ EnvGet(c.env, "FIREJAIL_QUIET") = "yes"
         c1 == IF quiet THEN Set(c, "quiet") ELSE c
         c2 == IF CheckArg("debug") THEN Clear(Set(c1, "debug"), "quiet") ELSE c1
         c3 == CASE cf.quiet = "yes" -> Set(c2, "quiet")
                 [] cf.quiet = "no" -> Clear(c2, "quiet")
                 [] OTHER -> c2
         c4 == [c3 EXCEPT !.env = Stashed(penv, cf.env)]
     IN  /\ f' = cf
         /\ Settle(IF \/ cf.err
                      \/ Len(argv) + 1 >= cf.arg_max
                      \/ Cardinality(DOMAIN penv) >= cf.env_max
                      \/ ~w.allowed
                   THEN Fail(c4) ELSE InitCfg(c4), "symlink")
         /\ penv' = EnvApplyWhitelist(c4.env)
  /\ UNCHANGED <<w, exe, argv, i, stack, hist>>

(* execv of firejail itself: everything but the arguments and the           *)
(* environment is lost                                                      *)
Reexec(args) ==
  /\ argv' = args /\ exe' = "firejail"
  /\ penv' = EnvApplyAll(penv, c.env)
  /\ f' = ConfigDefaults /\ c' = EmptyConfig /\ pc' = "start"
  /\ UNCHANGED <<w, i, stack, hist>>

(* run_symlink: the program the link is named after, in a new sandbox; root *)
(* gets the program itself                                                  *)
RunSymlink ==
  /\ pc = "symlink"
  /\ \/ /\ exe = "firejail"
        /\ Settle(c, "wrap")
        /\ UNCHANGED <<w, penv, exe, argv, f, i, stack, hist>>
     \/ /\ exe # "firejail"
        /\ EnvGet(c.env, "PATH") = "null" \/ w.root
        /\ Settle(IF EnvGet(c.env, "PATH") = "null" THEN Fail(c) ELSE Done(c, "original"), "end")
        /\ UNCHANGED <<w, penv, exe, argv, f, i, stack, hist>>
     \/ /\ exe # "firejail"
        /\ EnvGet(c.env, "PATH") # "null" /\ ~w.root
        /\ Reexec(<<Flag("prog")>> \o argv)

(* run_no_sandbox: what follows -c, or the first argument that is no option *)
NoSandbox ==
  LET first == SelectSeq([k \in DOMAIN argv |-> k], LAMBDA k : argv[k].o \in {"prog", "-c"})
      debug == \E k \in DOMAIN argv : argv[k].o = "debug" /\ (first # <<>> => k < first[1])
      c1 == Set(IF debug THEN Set(c, "debug") ELSE c, "quiet")
  IN  IF first # <<>> /\ argv[first[1]].o = "-c" /\ first[1] = Len(argv) THEN Fail(c)
      ELSE Done(c1, "plain")

(* check_output: firejail runs again with its output in a pipe, without the *)
(* output options in front of the program                                   *)
OutputOptions == {"output", "output-stderr"}
FirstOutput == CHOOSE k \in DOMAIN argv : argv[k].o \in OutputOptions
                                         /\ \A j \in 1..(k - 1) : argv[j].o \notin OutputOptions
(* mutant: the output option goes on to the next firejail *)
WithOutput == argv

WithoutOutput ==
  LET ends == {k \in DOMAIN argv : argv[k].o \in Separators}
      front == SelectSeq([k \in DOMAIN argv |-> k],
                         LAMBDA k : \/ argv[k].o \notin OutputOptions
                                    \/ \E e \in ends : e < k)
  IN  [k \in DOMAIN front |-> argv[front[k]]]

Wrap ==
  /\ pc = "wrap"
  /\ \/ /\ w.nested
        /\ Settle(NoSandbox, "end")
        /\ penv' = EnvApplyAll(penv, c.env)
        /\ UNCHANGED <<w, exe, argv, f, i, stack, hist>>
     \/ /\ ~w.nested /\ CheckArg("build")
        /\ Settle(Done(c, "build"), "end")
        /\ penv' = EnvApplyAll(penv, c.env)
        /\ UNCHANGED <<w, exe, argv, f, i, stack, hist>>
     \/ /\ ~w.nested /\ ~CheckArg("build")
        /\ IF \E o \in OutputOptions : CheckArg(o)
           THEN IF argv[FirstOutput].v = "bad"
                THEN /\ Settle(Fail(c), "end")
                     /\ UNCHANGED <<w, penv, exe, argv, f, i, stack, hist>>
                ELSE Reexec(WithoutOutput)
           ELSE /\ Settle(c, "prepare")
                /\ UNCHANGED <<w, penv, exe, argv, f, i, stack, hist>>

(* the options that must be known before any profile is read *)
Prepare ==
  /\ pc = "prepare"
  /\ LET c1 == IF ~CheckArg("allow-debuggers") THEN c
               ELSE IF w.oldkernel THEN Fail(c)
               ELSE ProfileAddIgnore(ProfileAdd(Set(c, "allow_debuggers"), "noblacklist", "strace"),
                                     [o |-> "apparmor", v |-> ""])
         c2 == IF CheckArg("appimage") THEN Set(c1, "appimage") ELSE c1
         c3 == IF Enabled(w, f, "force-nonewprivs") THEN Set(c2, "nonewprivs") ELSE c2
     IN  Settle(c3, "args")
  /\ UNCHANGED <<w, penv, exe, argv, f, i, stack, hist>>

-----------------------------------------------------------------------------
(* Profile files.  A file is named <<directory, name>>; w.files gives its    *)
(* lines, w.denied the files that exist and may not be read.                 *)

LocalNames == {"app.local"}
Exists(file) == file \in DOMAIN w.files \cup w.denied
Readable(file) == file \in DOMAIN w.files

(* profile_find_firejail: the user's directory, then the system's; "" when  *)
(* neither has the file                                                     *)
FindFirejail(name) ==
  CASE Exists(<<"user", name>>) -> "user"
    [] Exists(<<"etc", name>>) -> "etc"
    [] OTHER -> ""

(* profile_read as far as the first line: [c, stack] *)
ProfileRead(cc, file) ==
  LET skipped == /\ file[1] # "cwd"
                 /\ \/ IsSet(cc, "allow_debuggers") /\ file[2] = "disable-devel.inc"
                    \/ IsSet(cc, "appimage") /\ file[2] = "disable-shell.inc"
      named == IF stack = <<>> THEN PutStr(cc, "profile_run_file", file[2]) ELSE cc
  IN  CASE Len(stack) > MaxInclude \/ file[2] = "bad" -> [c |-> Fail(cc), stack |-> stack]
        [] ~Readable(file) -> [c |-> IF file[2] \in LocalNames /\ file \notin w.denied THEN cc ELSE Fail(cc),
                               stack |-> stack]
        [] skipped -> [c |-> cc, stack |-> stack]
        [] OTHER -> [c |-> named, stack |-> Append(stack, [file |-> file, pos |-> 1])]

(* an include line: a path, a profile of the directories, or a file here *)
IncludeFile(l) ==
  CASE l.n = 1 -> <<"abs", l.v>>
    [] FindFirejail(l.v) # "" -> <<FindFirejail(l.v), l.v>>
    [] OTHER -> <<"cwd", l.v>>

(* the option --include: access() answers 0 for a file that can be read *)
IncludeOption(l) ==
  CASE l.n = 1 -> ProfileRead(c, <<"abs", l.v>>)
    [] ~Readable(<<"cwd", l.v>>) -> ProfileRead(c, <<"cwd", l.v>>)
    [] FindFirejail(l.v) = "" -> [c |-> Fail(c), stack |-> stack]
    [] OTHER -> ProfileRead(c, <<FindFirejail(l.v), l.v>>)

(* the option --profile: a path (n = 1), or the name of an application, not *)
(* the name of a file (m = 1)                                               *)
ProfileOption(l) ==
  LET failed == [c |-> Fail(c), stack |-> stack]
      custom(r) == [r EXCEPT !.c = Set(@, "custom_profile")]
  IN  CASE IsSet(c, "noprofile") \/ l.v = "bad" -> failed
        [] l.n = 1 -> IF Readable(<<"abs", l.v>>) THEN custom(ProfileRead(c, <<"abs", l.v>>)) ELSE failed
        [] l.m = 1 \/ FindFirejail(l.v) = "" -> failed
        [] OTHER -> custom(ProfileRead(c, <<FindFirejail(l.v), l.v>>))

(* The options and lines the properties look back at, once they are carried  *)
(* out                                                                       *)
Watched == {"net", "veth-name", "iprange", "mac", "mtu", "ip", "netmask", "ip6", "env", "rmenv", "protocol"}

Remember(l, cc) ==
  hist' = IF l.o \in Watched /\ c'.out = "" /\ ~IsIgnored(cc, l)
             /\ (l.cond # "" => ConditionHolds(w, f, cc, l.cond))
          THEN Append(hist, l) ELSE hist

(* the line profile_read is at *)
Line == w.files[Last(stack).file][Last(stack).pos]
Advanced == [stack EXCEPT ![Len(stack)].pos = @ + 1]

(* the loop of profile_read: whitelist-ro and quiet are handled before the  *)
(* ignore list is looked at                                                 *)
ReadLine ==
  /\ stack # <<>> /\ pc # "end"
  /\ Last(stack).pos <= Len(w.files[Last(stack).file])
  /\ LET l == Line IN
     /\ CASE l.cond = "" /\ l.o = "whitelist-ro" ->
               /\ Settle(ProfileAdd(ProfileAdd(c, "whitelist", l.v), "read-only", l.v), pc)
               /\ stack' = Advanced
          [] l.cond = "" /\ l.o = "quiet" ->
               /\ Settle(CASE IsIgnored(c, l) -> Clear(c, "quiet")
                           [] ~IsSet(c, "debug") -> Set(c, "quiet")
                           [] OTHER -> c, pc)
               /\ stack' = Advanced
          [] l.cond = "" /\ l.o = "include" /\ ~IsIgnored(c, l) ->
               LET r == ProfileRead(c, IncludeFile(l))
               IN  /\ Settle(r.c, pc)
                   /\ stack' = IF r.stack = stack THEN Advanced
                               ELSE Append(Advanced, Last(r.stack))
          [] OTHER ->
               /\ Settle(Applied(CheckLine(w, f, c, l), l), pc)
               /\ stack' = Advanced
     /\ Remember(l, c)
  /\ UNCHANGED <<w, penv, exe, argv, f, i>>

EndOfFile ==
  /\ stack # <<>> /\ pc # "end"
  /\ Last(stack).pos > Len(w.files[Last(stack).file])
  /\ stack' = Front(stack)
  /\ UNCHANGED <<w, penv, exe, argv, f, c, i, pc, hist>>

-----------------------------------------------------------------------------
(* The option loop *)

Arg ==
  /\ pc = "args" /\ stack = <<>>
  /\ i <= Len(argv) /\ argv[i].o \notin {"prog", "--"}
  /\ LET l == argv[i] IN
     /\ CASE l.o = "include" -> LET r == IncludeOption(l) IN Settle(r.c, pc) /\ stack' = r.stack
          [] l.o = "profile" -> LET r == ProfileOption(l) IN Settle(r.c, pc) /\ stack' = r.stack
          [] OTHER -> Settle(Cmd(l), pc) /\ stack' = stack
     /\ Remember(l, [c EXCEPT !.ignore = <<>>])
  /\ i' = i + 1
  /\ UNCHANGED <<w, penv, exe, argv, f>>

(* the program name ends the loop, with or without "--" in front of it *)
Program ==
  /\ pc = "args" /\ stack = <<>>
  /\ i <= Len(argv) /\ argv[i].o \in {"prog", "--"}
  /\ LET k == IF argv[i].o = "--" THEN i + 1 ELSE i
     IN  /\ Settle(IF k > Len(argv) \/ w.command = "bad" THEN Fail(c)
                   ELSE PutStr(c, "command_name", w.command), "after")
         /\ i' = k
  /\ UNCHANGED <<w, penv, exe, argv, f, stack, hist>>

NoProgram ==
  /\ pc = "args" /\ stack = <<>> /\ i > Len(argv)
  /\ Settle(c, "after")
  /\ UNCHANGED <<w, penv, exe, argv, f, i, stack, hist>>

(* the checks between the command line and the profile *)
AfterArgs ==
  /\ pc = "after"
  /\ LET c1 == IF Has(c.str, "chrootdir") THEN Clear(c, "noroot") ELSE c
         c2 == IF IsSet(c1, "block_secondary") THEN Set(c1, "seccomp") ELSE c1
     IN  Settle(CASE ~w.root /\ IsSet(c, "caps_cmdline")
                     /\ (IsSet(c, "appimage") \/ Has(c.str, "chrootdir")) -> Fail(c)
                  [] IsSet(c, "writable_etc") /\ c.dns # <<>> -> Fail(c)
                  [] OTHER -> c2, "command")
  /\ UNCHANGED <<w, penv, exe, argv, f, i, stack, hist>>

(* appimage_set: a loop device for the archive, and its environment *)
AppimageSet(cc) ==
  IF w.command = "nofile" THEN Fail(cc)
  ELSE LET names == <<"APPIMAGE", "APPDIR", "ARGV0">> \o (IF Has(cc.str, "cwd") THEN <<"OWD">> ELSE <<>>)
       IN  [cc EXCEPT !.env = @ \o [k \in DOMAIN names |->
                                      [op |-> "set", name |-> names[k], value |-> "appimage"]]]

(* the command line of the program; without a program, the user's shell *)
BuildCommand ==
  /\ pc = "command"
  /\ Settle(CASE ~Has(c.str, "command_name") ->
                   IF IsSet(c, "appimage") THEN Fail(c) ELSE PutStr(c, "command_name", "shell")
              [] IsSet(c, "appimage") ->
                   PutList(AppimageSet(c), "command_line", BuildAppimageCmdline(w.prog))
              [] OTHER -> PutList(c, "command_line", BuildCmdline(w.prog)), "load")
  /\ UNCHANGED <<w, penv, exe, argv, f, i, stack, hist>>

(* the profile of the program (for an appimage, of the program in           *)
(* firecfg.config its name starts with), or the default one                 *)
ReadFound(name, next) ==
  LET r == ProfileRead(Set(c, "custom_profile"), <<FindFirejail(name), name>>)
  IN  Settle(r.c, next) /\ stack' = r.stack

LoadProfile ==
  /\ pc = "load"
  /\ LET name == IF IsSet(c, "appimage") THEN w.firecfg ELSE c.str["command_name"]
     IN  IF IsSet(c, "noprofile") \/ IsSet(c, "custom_profile") \/ FindFirejail(name) = ""
         THEN Settle(c, "default") /\ stack' = stack
         ELSE ReadFound(name, "default")
  /\ UNCHANGED <<w, penv, exe, argv, f, i, hist>>

DefaultProfile ==
  /\ pc = "default" /\ stack = <<>>
  /\ LET name == IF w.root THEN "server" ELSE "default"
     IN  IF IsSet(c, "noprofile") \/ IsSet(c, "custom_profile")
         THEN Settle(c, "final") /\ stack' = stack
         ELSE IF FindFirejail(name) = "" THEN Settle(Fail(c), "end") /\ stack' = stack
         ELSE ReadFound(name, "final")
  /\ UNCHANGED <<w, penv, exe, argv, f, i, hist>>

-----------------------------------------------------------------------------
(* From the profile to the clone *)

(* x11_block: only useful where abstract sockets cannot be reached *)
X11Block(cc) ==
  LET isolated == \/ IsSet(cc, "nonetwork") \/ Has(cc.str, "netns")
                  \/ cc.bridge[1].configured \/ cc.intf[1].configured
      auth == IF EnvGet(cc.env, "XAUTHORITY") # "null" THEN <<"XAUTHORITY">> ELSE <<>>
      lines == <<"/tmp/.X11-unix", ".Xauthority">> \o auth
      added == FoldLeft(LAMBDA r, v : ProfileAdd(r, "blacklist", v), cc, lines)
  IN  CASE ~IsSet(cc, "x11_block") -> cc
        [] ~isolated /\ w.abstract -> Fail(cc)
        [] OTHER -> EnvStore(EnvStore(added, "rm", "DISPLAY", ""), "rm", "XAUTHORITY", "")

(* net_check_cfg: a gateway needs a network, and a network is not none *)
NetCheckCfg(cc) ==
  IF \/ Has(cc.str, "defaultgw") /\ ~AnyBridge(cc) /\ ~AnyInterface(cc)
     \/ IsSet(cc, "nonetwork") /\ AnyBridge(cc)
  THEN Fail(cc) ELSE cc

(* seccomp-filter-add goes to the default lists only *)
SeccompFilterAdd(cc) ==
  LET to(r, switch, list, keep, drop) ==
        IF IsSet(r, switch) /\ ~Has(r.lists, keep) /\ ~Has(r.lists, drop)
        THEN Augment(r, list, f.filter_add) ELSE r
  IN  IF f.filter_add = <<>> THEN cc
      ELSE to(to(cc, "seccomp", "seccomp_list", "seccomp_list_keep", "seccomp_list_drop"),
              "seccomp32", "seccomp_list32", "seccomp_list_keep32", "seccomp_list_drop32")

Final ==
  /\ pc = "final" /\ stack = <<>>
  /\ LET next(cc, check(_)) == Bind(cc, LAMBDA x : IF x.out = "" THEN check(x) ELSE x)
     IN  Settle(next(next(next(X11Block(c), NetCheckCfg), SeccompFilterAdd),
                     LAMBDA x : IF Has(x.str, "chrootdir") THEN Clear(x, "noroot") ELSE x), "clone")
  /\ UNCHANGED <<w, penv, exe, argv, f, i, stack, hist>>

(* the namespaces of the clone *)
CloneFlags(cc) ==
  {"mnt", "pid", "uts"} \cup (IF w.root \/ IsSet(cc, "ipc") THEN {"ipc"} ELSE {})
  \cup (IF AnyBridge(cc) \/ AnyInterface(cc) \/ IsSet(cc, "nonetwork") THEN {"net"} ELSE {})

(* appimages and chroots of a user lose everything that could be gained *)
EnforceFilters(cc) ==
  IF ~w.root /\ (IsSet(cc, "appimage") \/ Has(cc.str, "chrootdir"))
  THEN Set(Set(Set(cc, "nonewprivs"), "caps_drop_all"), "nogroups") ELSE cc

(* the sandbox: its environment is complete when the program starts *)
Launch ==
  /\ pc = "clone"
  /\ LET c1 == IF "net" \in CloneFlags(c) THEN c ELSE EnvIbusLoad(c, w)
     IN  \E c2 \in {EnvDefaults(EnforceFilters(c1), f)} :
           /\ c' = [c2 EXCEPT !.out = "go", !.did = "sandbox"]
           /\ penv' = EnvApplyAll(penv, c2.env)
  /\ pc' = "end"
  /\ UNCHANGED <<w, exe, argv, f, i, stack, hist>>

Ended == pc = "end" /\ UNCHANGED vars

Next == \/ Start \/ RunSymlink \/ Wrap \/ Prepare \/ Arg \/ Program \/ NoProgram \/ ReadLine \/ EndOfFile
        \/ AfterArgs \/ BuildCommand \/ LoadProfile \/ DefaultProfile \/ Final \/ Launch \/ Ended

(* one process, which the scheduler does not forget *)
Spec == Init /\ [][Next]_vars /\ WF_vars(Next)

-----------------------------------------------------------------------------
(* Properties *)

(* What the comment of profile_list_compress says of an item, applied item   *)
(* by item to a list without repetitions.                                    *)
ListMeaning(list, x) ==
  CASE x.op = "-" -> SelectSeq(list, LAMBDA y : y # x.name)
    [] x.op = "=" -> IF x.name = "" THEN <<>> ELSE <<x.name>>
    [] OTHER -> IF x.name = "" \/ Contains(list, x.name) THEN list ELSE Append(list, x.name)

(* The protocol list collected over the command line and the profiles is the *)
(* documented meaning of all the items that were given, in their order.      *)
ListsAsDocumented ==
  LET given == SelectSeq(hist, LAMBDA l : l.o = "protocol")
      items == FlattenSeq([k \in DOMAIN given |-> given[k].list])
  IN  Enabled(w, f, "seccomp") /\ given # <<>> /\ c.out # "error" =>
        c.lists["protocol"] = FoldLeft(ListMeaning, <<>>, items)

NetworkFlags == {"netfilter", "netfilter6", "netlock", "scan"}
SeccompFlags == {"seccomp", "seccomp32", "block_secondary", "mdwx", "restrict_namespaces"}

DisabledStaysOff ==
  pc # "start" =>
    /\ ~Enabled(w, f, "network") =>
         /\ ~AnyBridge(c) /\ ~AnyInterface(c) /\ c.flags \cap NetworkFlags = {}
         /\ DOMAIN c.str \cap {"netns", "defaultgw", "netfilter_file"} = {}
         /\ c.did \notin Traces \cup {"net.print", "join-network", "netlock"}
    /\ ~Enabled(w, f, "seccomp") =>
         /\ c.flags \cap SeccompFlags = {}
         /\ DOMAIN c.lists \cap ({"protocol"} \cup {SeccompList[o] : o \in DOMAIN SeccompList}) = {}
    /\ ~Enabled(w, f, "x11") => c.did # "x11" /\ ~IsSet(c, "x11_xorg")
    /\ ~Enabled(w, f, "userns") => ~IsSet(c, "noroot")
    /\ ~Enabled(w, f, "chroot") => ~Has(c.str, "chrootdir")
    /\ ~Enabled(w, f, "bind") => \A k \in DOMAIN c.profile : c.profile[k].o # "bind"
    /\ ~Enabled(w, f, "file-transfer") => c.did \notin {"get", "put", "ls", "cat"}
    /\ ~Enabled(w, f, "join") => w.root \/ c.did # "join"
    /\ \A o \in DOMAIN PrivateDir : ~Enabled(w, f, o) => ~IsSet(c, PrivateSwitch[PrivateDir[o]])

BridgeMeaning(devs, l) ==
  LET n == Len(devs) IN
  CASE l.o = "net" -> IF l.v = "none" THEN <<>> ELSE Append(devs, "dev" :> l.v)
    [] l.o = "iprange" -> [devs EXCEPT ![n] = ("lo" :> ToString(l.n)) @@ @]
    [] l.o = "mtu" -> [devs EXCEPT ![n] = ("mtu" :> ToString(l.n)) @@ @]
    [] OTHER -> [devs EXCEPT ![n] = (l.o :> l.v) @@ @]

BridgeOf(b) ==
  LET given == [dev |-> b.dev, mac |-> b.mac, netmask |-> b.mask, ip6 |-> b.ip6,
                lo |-> ToString(b.lo), mtu |-> ToString(b.mtu),
                ip |-> IF b.ip_none THEN "none" ELSE b.ip] @@ ("veth-name" :> b.veth)
  IN  [k \in {x \in DOMAIN given : given[x] \notin {"", "0"}} |-> given[k]]

BridgeAttributes ==
  LET given == SelectSeq(hist, LAMBDA l : l.o \notin {"env", "rmenv", "protocol"})
      devs == FoldLeft(BridgeMeaning, <<>>, given)
      gone == \E k \in DOMAIN given : given[k].o = "net" /\ given[k].v = "none"
  IN  Enabled(w, f, "network") /\ c.out # "error" /\ ~gone =>
        \A b \in Bridges : /\ c.bridge[b].configured = (b <= Len(devs))
                            /\ b <= Len(devs) => BridgeOf(c.bridge[b]) = devs[b]

MutuallyExclusive ==
  c.out = "go" =>
    /\ ~(Has(c.str, "hostname") /\ IsSet(c, "hostname_randomize"))
    /\ ~(IsSet(c, "noroot") /\ Has(c.str, "chrootdir"))
    /\ ~(IsSet(c, "nonetwork") /\ (AnyBridge(c) \/ AnyInterface(c)))
    /\ ~(IsSet(c, "writable_etc") /\ Has(c.lists, "etc"))
    /\ IsSet(c, "caps_cmdline") => w.root \/ ~(IsSet(c, "appimage") \/ Has(c.str, "chrootdir"))
    /\ IsSet(c, "appimage") /\ ~w.root => {"nonewprivs", "caps_drop_all", "nogroups"} \subseteq c.flags
    /\ IsSet(c, "noprofile") = ~IsSet(c, "custom_profile")

(* A feature that firejail.config turns off leaves no trace in the           *)
(* configuration, whether it is asked for on the command line or in a        *)
(* profile, conditional or included.  An attribute of a network device       *)
(* belongs to the device named last in front of it: the same device and      *)
(* value are found in the reading of the options that keeps one record per   *)
(* device (last_bridge_configured and the free slots; net none forgets the   *)
(* devices).  A configuration the sandbox is started with holds no two       *)
(* options that exclude each other, whichever of them came first and         *)
(* wherever from, and either a profile was loaded or the user asked for none.*)
SettingsCoherent == DisabledStaysOff /\ BridgeAttributes /\ MutuallyExclusive

EnvMeaning(e, l) == IF l.o = "env" THEN Setenv(e, l.v, "asked") ELSE Unsetenv(e, l.v)

(* The program gets what its user typed.  A shell splits the command line    *)
(* that is built (build_cmdline, build_appimage_cmdline) into the very       *)
(* arguments the user gave, whatever quotes and spaces are in them, and the  *)
(* line fills its buffer exactly.  A variable of the caller has the value it *)
(* had, or what the env and rmenv options say last, although the environment *)
(* is emptied on the way and firejail may have executed itself again.        *)
ProgramAsAsked ==
  c.out = "go" =>
    LET asked == FoldLeft(EnvMeaning, w.envp, SelectSeq(hist, LAMBDA l : l.o \in {"env", "rmenv"}))
        line == c.lists["command_line"]
    IN  /\ \A n \in {"LANG", "MINE"} : /\ (n \in DOMAIN penv) = (n \in DOMAIN asked)
                                      /\ n \in DOMAIN asked => penv[n] = asked[n]
        /\ Has(c.lists, "command_line") =>
             IF IsSet(c, "appimage") THEN ShellWords(line) = <<AppRun>> \o Tail(w.prog)
             ELSE ShellWords(line) = w.prog /\ Len(line) = CmdlineLength(w.prog, TRUE)

IgnoredNow ==
  /\ stack # <<>> /\ pc # "end" /\ Last(stack).pos <= Len(w.files[Last(stack).file])
  /\ IsIgnored(c, Line)
  /\ Line.o \notin {"whitelist-ro", "quiet"}
  /\ Line.cond = "" \/ (Line.cond \in Conditionals /\ Line.o # "include")

Restrictive == {"seccomp", "seccomp32", "block_secondary", "mdwx", "nonewprivs", "caps_drop_all",
                "caps_default_filter", "nogroups", "nosound", "novideo", "no3d", "noinput", "nou2f",
                "notv", "nodvd", "private", "private_dev", "private_tmp", "private_etc", "private_bin",
                "nonetwork", "netfilter", "netlock", "x11_block", "disable_mnt", "landlock_enforce",
                "apparmor", "ipc"}

(* No option and no line takes back what an earlier one said: a D-Bus policy,*)
(* a switch that takes rights away, or a command for the file system; and a  *)
(* line that the ignore list names changes nothing, not even behind a        *)
(* conditional, the two commands profile_read handles itself apart.          *)
EarlierLinesStand ==
  [][pc' # "start" =>
       /\ IgnoredNow => c' = c
       /\ c.dbus.user <= c'.dbus.user /\ c.dbus.system <= c'.dbus.system
       /\ c.flags \cap Restrictive \subseteq c'.flags
       /\ IsPrefix(c.ignore, c'.ignore) /\ IsPrefix(c.profile, c'.profile)
       /\ IsPrefix(c.landlock, c'.landlock)]_vars

(* firejail executes itself again, and reads profiles that include others    *)
(* (MAX_INCLUDE_LEVEL), a finite number of times: it refuses, carries out a  *)
(* command or starts a sandbox.                                              *)
Terminates == <>(pc = "end")
=============================================================================
