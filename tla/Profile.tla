------------------------------- MODULE Profile -------------------------------
(***************************************************************************)
(* profile.c: what one line of a profile does to the configuration.        *)
(*                                                                         *)
(* Every operator Line... is one stretch of profile_check_line.  It takes  *)
(* the world, the loaded firejail.config, the configuration and the line,  *)
(* and returns the new configuration: ret = 1 when the line must also be   *)
(* added to the list of file system commands, out # "" when the program    *)
(* ends.  A line whose feature is disabled is skipped with a warning.      *)
(***************************************************************************)
EXTENDS OptionState

Gated(w, f, feature, c, new) == IF Enabled(w, f, feature) THEN new ELSE c
Add(c) == [c EXCEPT !.ret = 1]

-----------------------------------------------------------------------------
(* The ignore list.  An entry matches the lines that start with its words.  *)
MaxIgnore == 3

IsIgnored(c, l) ==
  \E i \in DOMAIN c.ignore : /\ c.ignore[i].o = l.o
                             /\ c.ignore[i].v \in {"", l.v}

ProfileAddIgnore(c, l) ==
  IF l.o = "" \/ Len(c.ignore) >= MaxIgnore THEN Fail(c)
  ELSE [c EXCEPT !.ignore = Append(@, [o |-> l.o, v |-> l.v])]

(* profile_add: at the end of the list *)
ProfileAdd(c, o, v) == [c EXCEPT !.profile = Append(@, [o |-> o, v |-> v])]

(* mutant: the first device *)
FirstBridge(c) == IF c.bridge[1].configured THEN 1 ELSE 0

(* last_bridge_configured and any_bridge_configured; 0 is the null pointer *)
LastBridge(c) ==
  LET on == {b \in Bridges : c.bridge[b].configured}
  IN  IF on = {} THEN 0 ELSE CHOOSE b \in on : \A x \in on : x <= b

AnyBridge(c) == \E b \in Bridges : c.bridge[b].configured
AnyInterface(c) == \E b \in Bridges : c.intf[b].configured

(* check_user_namespace *)
CheckUserNamespace(w, c) ==
  IF ~w.root /\ w.userns THEN Set(c, "noroot") ELSE Clear(c, "noroot")

-----------------------------------------------------------------------------
(* The ignored command of an ignore line is the word in v, its argument in  *)
(* list.                                                                    *)
IgnoreOf(l) == [o |-> l.v, v |-> IF l.list = <<>> THEN "" ELSE l.list[1].name]

LineSetup(w, f, c, l) ==
  CASE l.o = "ignore" -> ProfileAddIgnore(c, IgnoreOf(l))
    [] l.o = "warn" -> c
    [] l.o = "keep-fd" -> IF l.v = "all" THEN Set(c, "keep_fd_all") ELSE Augment(c, "keep_fd", l.list)
    [] l.o = "xephyr-screen" -> Gated(w, f, "x11", c, PutStr(c, "xephyr_screen", l.v))

SetName(c, v) == IF v \in {"", "bad"} THEN Fail(c) ELSE PutStr(c, "name", v)

(* mkdir and mkfile are carried out now and once more with the blacklists *)
LineMake(c, l) ==
  CASE l.o \in {"mkdir", "mkfile"} ->
         IF l.v = "bad" THEN Fail(c) ELSE Add(PutStr(c, "made", l.v))
    [] l.o = "name" -> SetName(c, l.v)

(* the switches, and the commands that are no more than a switch *)
SwitchOf ==
  [x \in {"nonewprivs", "private", "tab", "allusers", "nogroups", "nosound", "notv", "nodvd",
          "novideo", "no3d", "noinput"} |-> x]
  @@ ("ipc-namespace" :> "ipc") @@ ("caps" :> "caps_default_filter")
  @@ ("private-dev" :> "private_dev") @@ ("keep-dev-ntsync" :> "keep_dev_ntsync")
  @@ ("keep-dev-shm" :> "keep_dev_shm") @@ ("keep-dev-tpm" :> "keep_dev_tpm")
  @@ ("private-tmp" :> "private_tmp") @@ ("noautopulse" :> "keep_config_pulse")
  @@ ("noprinters" :> "noprinters")

RemovedLines == {"tracelog"}

LineFlags(w, f, c, l) ==
  CASE l.o = "noroot" -> Gated(w, f, "userns", c, CheckUserNamespace(w, c))
    [] l.o = "seccomp" -> Gated(w, f, "seccomp", c, Set(c, "seccomp"))
    [] l.o = "caps.drop" -> Set(c, "caps_drop_all")
    [] l.o \in RemovedLines -> c
    [] l.o = "private-home" -> Fail(c)
    [] l.o = "private-cwd" ->
         IF l.v = "" THEN Set([c EXCEPT !.str = [k \in DOMAIN @ \ {"cwd"} |-> @[k]]], "private_cwd")
         ELSE IF l.v = "bad" THEN Fail(c) ELSE Set(PutStr(c, "cwd", l.v), "private_cwd")
    [] l.o = "private-cache" -> Gated(w, f, "private-cache", c, Set(c, "private_cache"))
    [] l.o = "noprinters" ->
         ProfileAdd(ProfileAdd(Set(c, "noprinters"), "blacklist", "/dev/lp"), "blacklist", "cups.sock")
    [] l.o \in DOMAIN SwitchOf -> Set(c, SwitchOf[l.o])

-----------------------------------------------------------------------------
(* D-Bus: 0 allow, 1 filter, 2 block *)
Filter == 1
Block == 2

(* mutant: the last policy wins *)
DbusPolicyLast(c, bus, log, v) ==
  CASE v = "filter" -> [c EXCEPT !.dbus[bus] = Filter]
    [] v = "none" -> IF IsSet(c, log) THEN Fail(c) ELSE [c EXCEPT !.dbus[bus] = Block]
    [] OTHER -> Fail(c)

DbusPolicy(c, bus, log, v) ==
  CASE v = "filter" -> IF c.dbus[bus] = Block THEN c ELSE [c EXCEPT !.dbus[bus] = Filter]
    [] v = "none" -> IF IsSet(c, log) THEN Fail(c) ELSE [c EXCEPT !.dbus[bus] = Block]
    [] OTHER -> Fail(c)

DbusRules == {"dbus-user.see", "dbus-user.talk", "dbus-user.own", "dbus-user.call",
              "dbus-user.broadcast", "dbus-system.see", "dbus-system.talk", "dbus-system.own",
              "dbus-system.call", "dbus-system.broadcast"}

LineDbus(c, l) ==
  CASE l.o = "nodbus" -> [c EXCEPT !.dbus = [user |-> Block, system |-> Block]]
    [] l.o = "dbus-user" -> DbusPolicy(c, "user", "dbus_log_user", l.v)
    [] l.o = "dbus-system" -> DbusPolicy(c, "system", "dbus_log_system", l.v)
    [] l.o \in DbusRules -> IF l.v = "bad" THEN Fail(c) ELSE Add(c)

-----------------------------------------------------------------------------
(* Network *)
CheckedFile(c, k, v) == IF v = "bad" THEN Fail(c) ELSE PutStr(c, k, v)

LineNetfilter(w, f, c, l) ==
  CASE l.o = "notpm" -> c
    [] l.o = "nou2f" -> Set(c, "nou2f")
    [] OTHER ->
         Gated(w, f, "network", c,
           CASE l.o = "netfilter" /\ l.v = "" -> Set(c, "netfilter")
             [] l.o = "netfilter" -> CheckedFile(Set(c, "netfilter"), "netfilter_file", l.v)
             [] l.o = "netfilter6" -> CheckedFile(Set(c, "netfilter6"), "netfilter6_file", l.v)
             [] l.o = "netlock" -> Set(c, "netlock")
             [] l.o = "netns" -> CheckedFile(c, "netns", l.v))

(* net none: the devices are no longer configured, what else was said about *)
(* them stays                                                               *)
NetNone(c) ==
  ProfileAdd([Set(c, "nonetwork") EXCEPT !.bridge = [b \in Bridges |-> [@[b] EXCEPT !.configured = FALSE]],
                                         !.intf = [b \in Bridges |-> [@[b] EXCEPT !.configured = FALSE]]],
             "blacklist", "/run/systemd/resolve")

FreeBridge(c) ==
  LET free == {b \in Bridges : ~c.bridge[b].configured}
  IN  IF free = {} THEN 0 ELSE CHOOSE b \in free : \A x \in free : b <= x

NetDevice(c, v) ==
  IF v = "lo" \/ FreeBridge(c) = 0 THEN Fail(c)
  ELSE [c EXCEPT !.bridge[FreeBridge(c)].dev = v, !.bridge[FreeBridge(c)].configured = TRUE]

LineNet(w, f, c, l) ==
  IF l.v = "none" THEN NetNone(c) ELSE Gated(w, f, "network", c, NetDevice(c, l.v))

(* The options about the last device.  once: the option was already given *)
OnLastBridge(c, once(_), bad, new(_)) ==
  LET b == LastBridge(c)
  IN  IF b = 0 \/ (b # 0 /\ once(c.bridge[b])) \/ bad THEN Fail(c)
      ELSE [c EXCEPT !.bridge[b] = new(@)]

Never(b) == FALSE

LineVethRange(w, f, c, l) ==
  Gated(w, f, "network", c,
    CASE l.o = "veth-name" ->
           OnLastBridge(c, Never, l.v = "", LAMBDA b : [b EXCEPT !.veth = l.v])
      [] l.o = "iprange" ->
           OnLastBridge(c, LAMBDA b : b.lo # 0 \/ b.hi # 0, l.v = "bad" \/ l.n >= l.m,
                        LAMBDA b : [b EXCEPT !.lo = l.n, !.hi = l.m]))

LineMacMtu(w, f, c, l) ==
  Gated(w, f, "network", c,
    CASE l.o = "mac" ->
           OnLastBridge(c, LAMBDA b : b.mac # "", l.v \in {"bad", "multicast"},
                        LAMBDA b : [b EXCEPT !.mac = l.v])
      [] l.o = "mtu" ->
           OnLastBridge(c, Never, l.n \notin 576..9198, LAMBDA b : [b EXCEPT !.mtu = l.n]))

(* the mask of the sandbox becomes the mask of a device without one *)
LineNetmask(w, f, c, l) ==
  Gated(w, f, "network", c,
    OnLastBridge(c, LAMBDA b : b.ip_none \/ b.masksandbox # "" \/ b.mask # "", l.v = "bad",
                 LAMBDA b : [b EXCEPT !.masksandbox = l.v, !.mask = l.v]))

BridgeIp(c, v) ==
  OnLastBridge(c, LAMBDA b : b.ip_none \/ b.ip # "", v = "bad",
               LAMBDA b : IF v = "none" THEN [b EXCEPT !.ip_none = TRUE] ELSE [b EXCEPT !.ip = v])

BridgeIp6(c, v) ==
  OnLastBridge(c, LAMBDA b : b.ip6 # "", v = "bad", LAMBDA b : [b EXCEPT !.ip6 = v])

LineIp(w, f, c, l) == Gated(w, f, "network", c, BridgeIp(c, l.v))
LineIp6(w, f, c, l) == Gated(w, f, "network", c, BridgeIp6(c, l.v))
LineGateway(w, f, c, l) == Gated(w, f, "network", c, CheckedFile(c, "defaultgw", l.v))

-----------------------------------------------------------------------------
(* Filters and capabilities *)
Apparmor(c, v) == PutStr(Set(c, "apparmor"), "apparmor_profile", v)

LineApparmor(c, l) ==
  CASE l.o = "apparmor" -> Apparmor(c, IF l.v = "" THEN "firejail-default" ELSE l.v)
    [] l.o = "apparmor-replace" -> Set(Set(c, "apparmor"), "apparmor_replace")
    [] l.o = "apparmor-stack" -> Clear(Set(c, "apparmor"), "apparmor_replace")
    [] l.o = "allow-bwrap" -> Set(c, "allow_bwrap")

LineProtocol(w, f, c, l) ==
  CASE l.o = "protocol" -> Gated(w, f, "seccomp", c, Augment(c, "protocol", l.list))
    [] l.o = "env" -> EnvStore(c, "set", l.v, IF l.n = 0 THEN "asked" ELSE "bad")
    [] l.o = "rmenv" -> EnvStore(c, "rm", l.v, "")

SeccompList ==
  "seccomp" :> "seccomp_list" @@ "seccomp.32" :> "seccomp_list32"
  @@ "seccomp.drop" :> "seccomp_list_drop" @@ "seccomp.32.drop" :> "seccomp_list_drop32"
  @@ "seccomp.keep" :> "seccomp_list_keep" @@ "seccomp.32.keep" :> "seccomp_list_keep32"
SeccompSwitch(o) == IF o \in {"seccomp.32", "seccomp.32.drop", "seccomp.32.keep"} THEN "seccomp32" ELSE "seccomp"

(* seccomp_check_list refuses the empty list and odd characters *)
StoreSeccomp(c, l) ==
  IF l.list = <<>> THEN Fail(c)
  ELSE PutList(Set(c, SeccompSwitch(l.o)), SeccompList[l.o], [i \in DOMAIN l.list |-> l.list[i].name])

LineSeccomp(w, f, c, l) ==
  Gated(w, f, "seccomp", c,
        IF l.o = "seccomp.block-secondary" THEN Set(c, "block_secondary") ELSE StoreSeccomp(c, l))

LandlockTypes == "landlock.fs.read" :> "read" @@ "landlock.fs.write" :> "write"
                 @@ "landlock.fs.makeipc" :> "makeipc" @@ "landlock.fs.makedev" :> "makedev"
                 @@ "landlock.fs.execute" :> "exec"

(* ll_add_profile: after the last entry *)
LandlockAdd(c, l) ==
  [c EXCEPT !.landlock = Append(@, [type |-> LandlockTypes[l.o], path |-> l.v])]

LineLandlock(c, l) ==
  IF l.o = "landlock.enforce" THEN Set(c, "landlock_enforce") ELSE LandlockAdd(c, l)

AllNamespaces == <<Item("", "cgroup"), Item("", "net"), Item("", "user")>>

LineNamespaces(w, f, c, l) ==
  Gated(w, f, "seccomp", c,
    CASE l.o = "memory-deny-write-execute" -> Set(c, "mdwx")
      [] l.o = "restrict-namespaces" /\ l.list = <<>> ->
           Augment(Set(c, "restrict_namespaces"), "restrict_namespaces", AllNamespaces)
      [] OTHER -> Augment(c, "restrict_namespaces", l.list))

(* the action of firejail.config wins over the one of a profile *)
LineErrorAction(w, f, c, l) ==
  Gated(w, f, "seccomp", c,
    CASE Has(f.str, "seccomp-error-action") ->
           PutStr(c, "error_action", f.str["seccomp-error-action"])
      [] l.v = "bad" -> Fail(c)
      [] OTHER -> PutStr(c, "error_action", l.v))

(* one list for both kinds: the last one given *)
CapsList(c, kind, v) == IF v = "bad" THEN Fail(c) ELSE [Set(c, kind) EXCEPT !.caps = v]

LineCaps(c, l) == CapsList(c, IF l.o = "caps.drop" THEN "caps_drop" ELSE "caps_keep", l.v)

-----------------------------------------------------------------------------
(* Identity, limits and directories *)
LineHostname(c, l) ==
  CASE l.o = "hostname" ->
         IF IsSet(c, "hostname_randomize") \/ l.v \in {"", "bad"} THEN Fail(c)
         ELSE PutStr(c, "hostname", l.v)
    [] l.o = "hostname-randomize" ->
         IF Has(c.str, "hostname") THEN Fail(c) ELSE Set(c, "hostname_randomize")
    [] l.o = "keep-hostname" -> c

MaxDns == 4
AddDns(c, v) ==
  CASE v = "bad" -> Fail(c)
    [] Len(c.dns) < MaxDns -> [c EXCEPT !.dns = Append(@, v)]
    [] OTHER -> c

LineDns(c, l) == IF l.o = "hosts-file" THEN CheckedFile(c, "hosts_file", l.v) ELSE AddDns(c, l.v)

(* read_cpu_list: numbers below 32 only *)
ReadCpuList(c, l) ==
  IF l.v = "bad" \/ l.n \notin 0..31 THEN Fail(c) ELSE [c EXCEPT !.cpus = @ \cup {l.n}]

SetNice(w, c, n) == PutNum(Set(c, "nice"), "nice", IF ~w.root /\ n < 0 THEN 0 ELSE n)

LineCpuNice(w, c, l) == IF l.o = "cpu" THEN ReadCpuList(c, l) ELSE SetNice(w, c, l.n)

WritableEtc(c) == IF Has(c.lists, "etc") THEN Fail(c) ELSE Set(c, "writable_etc")

WritableSwitch ==
  "machine-id" :> "machineid" @@ "keep-config-pulse" :> "keep_config_pulse"
  @@ "keep-shell-rc" :> "keep_shell_rc" @@ "writable-var" :> "writable_var"
  @@ "keep-var-tmp" :> "keep_var_tmp" @@ "writable-run-user" :> "writable_run_user"
  @@ "writable-var-log" :> "writable_var_log"

LineWritable(c, l) ==
  CASE l.o = "writable-etc" -> WritableEtc(c)
    [] l.o = "private" -> IF l.v = "bad" THEN Fail(c) ELSE Set(PutStr(c, "home_private", l.v), "private")
    [] OTHER -> Set(c, WritableSwitch[l.o])

(* x11 without a server yet: the whole command is started again under one *)
LineX11(w, f, c, l) ==
  CASE l.o = "allow-debuggers" -> Set(c, "allow_debuggers")
    [] l.o = "x11" /\ l.v = "none" -> Set(c, "x11_block")
    [] OTHER -> Gated(w, f, "x11", c, IF EnvGet(c.env, "FIREJAIL_X11") = "yes" THEN c ELSE Done(c, "x11"))

PrivateDir == "private-etc" :> "etc" @@ "private-opt" :> "opt" @@ "private-srv" :> "srv"
              @@ "private-bin" :> "bin"
PrivateSwitch == "etc" :> "private_etc" @@ "opt" :> "private_opt" @@ "srv" :> "private_srv"
                 @@ "bin" :> "private_bin"

LinePrivate(w, f, c, l) ==
  LET d == PrivateDir[l.o]
      on == Set(c, PrivateSwitch[d])
  IN  Gated(w, f, l.o, c,
        IF d = "etc" /\ IsSet(c, "writable_etc") THEN Fail(c)
        ELSE IF l.list = <<>> THEN on ELSE Concat(on, d, l.list))

LineBind(w, f, c, l) ==
  Gated(w, f, "bind", c, IF ~w.root \/ l.v = "bad" THEN Fail(c) ELSE Add(c))

Rlimits == {"rlimit-as", "rlimit-cpu", "rlimit-fsize", "rlimit-nofile", "rlimit-nproc", "rlimit-sigpending"}

SetRlimit(c, l) ==
  IF l.v = "bad" \/ (l.o \in {"rlimit-as", "rlimit-fsize"} /\ l.n = 0) THEN Fail(c)
  ELSE PutNum(c, l.o, l.n)

LineRlimit(c, l) ==
  CASE l.o \in Rlimits -> SetRlimit(c, l)
    [] l.o = "rlimit" -> Fail(c)
    [] l.o = "timeout" -> IF l.v = "bad" THEN Fail(c) ELSE PutNum(c, "timeout", l.n)

LineJoin(w, f, c, l) ==
  IF Enabled(w, f, "join") \/ w.root
  THEN IF l.v \in w.running THEN Done(c, "join") ELSE SetName(c, l.v)
  ELSE c

PathLines == {"blacklist", "blacklist-nolog", "noblacklist", "whitelist", "nowhitelist",
              "read-only", "read-write", "noexec", "tmpfs"}

(* the last branch: a path, or not a command at all *)
LinePath(c, l) ==
  CASE l.o = "disable-mnt" -> Set(c, "disable_mnt")
    [] l.o = "deterministic-exit-code" -> Set(c, "deterministic_exit_code")
    [] l.o = "deterministic-shutdown" -> Set(c, "deterministic_shutdown")
    [] l.o \in PathLines ->
         IF l.v = "bad" THEN Fail(c)
         ELSE Add(IF l.o = "whitelist" THEN Set(c, "whitelist") ELSE c)
    [] OTHER -> Fail(c)

-----------------------------------------------------------------------------
(* Conditionals *)
Conditionals == {"HAS_APPIMAGE", "HAS_NET", "HAS_NODBUS", "HAS_NOSOUND", "HAS_PRIVATE", "HAS_X11",
                 "BROWSER_DISABLE_U2F", "BROWSER_ALLOW_DRM", "ALLOW_TRAY"}

ConditionHolds(w, f, c, cond) ==
  CASE cond = "HAS_APPIMAGE" -> IsSet(c, "appimage")
    [] cond = "HAS_NET" -> IsSet(c, "nonetwork") \/ AnyBridge(c)
    [] cond = "HAS_NODBUS" -> c.dbus.user # 0 \/ c.dbus.system # 0
    [] cond = "HAS_NOSOUND" -> IsSet(c, "nosound")
    [] cond = "HAS_PRIVATE" -> IsSet(c, "private")
    [] cond = "HAS_X11" -> IsSet(c, "x11_block") \/ IsSet(c, "x11_xorg")
                           \/ EnvGet(c.env, "FIREJAIL_X11") # "null"
    [] cond = "BROWSER_DISABLE_U2F" -> Enabled(w, f, "browser-disable-u2f")
    [] cond = "BROWSER_ALLOW_DRM" -> Enabled(w, f, "browser-allow-drm")
    [] cond = "ALLOW_TRAY" -> Enabled(w, f, "allow-tray")

(* profile_check_line without a conditional; 2 words of a command may      *)
(* belong to different branches (seccomp, caps.drop all, private)          *)
Dispatch(w, f, c, l) ==
  CASE l.o \in {"ignore", "warn", "keep-fd", "xephyr-screen"} -> LineSetup(w, f, c, l)
    [] l.o \in {"mkdir", "mkfile", "name"} -> LineMake(c, l)
    [] \/ l.o \in {"seccomp", "private"} /\ l.list = <<>> /\ l.v = ""
       \/ l.o = "caps.drop" /\ l.v = "all"
       \/ l.o \in (DOMAIN SwitchOf \ {"private"}) \cup RemovedLines
                  \cup {"noroot", "private-home", "private-cwd", "private-cache"} -> LineFlags(w, f, c, l)
    [] l.o \in {"nodbus", "dbus-user", "dbus-system"} \cup DbusRules -> LineDbus(c, l)
    [] l.o \in {"notpm", "nou2f", "netfilter", "netfilter6", "netlock", "netns"} -> LineNetfilter(w, f, c, l)
    [] l.o = "net" -> LineNet(w, f, c, l)
    [] l.o \in {"veth-name", "iprange"} -> LineVethRange(w, f, c, l)
    [] l.o \in {"mac", "mtu"} -> LineMacMtu(w, f, c, l)
    [] l.o = "netmask" -> LineNetmask(w, f, c, l)
    [] l.o = "ip" -> LineIp(w, f, c, l)
    [] l.o = "ip6" -> LineIp6(w, f, c, l)
    [] l.o = "defaultgw" -> LineGateway(w, f, c, l)
    [] l.o \in {"apparmor", "apparmor-replace", "apparmor-stack", "allow-bwrap"} -> LineApparmor(c, l)
    [] l.o \in {"protocol", "env", "rmenv"} -> LineProtocol(w, f, c, l)
    [] l.o \in DOMAIN SeccompList \cup {"seccomp.block-secondary"} -> LineSeccomp(w, f, c, l)
    [] l.o \in DOMAIN LandlockTypes \cup {"landlock.enforce"} -> LineLandlock(c, l)
    [] l.o \in {"memory-deny-write-execute", "restrict-namespaces"} -> LineNamespaces(w, f, c, l)
    [] l.o = "seccomp-error-action" -> LineErrorAction(w, f, c, l)
    [] l.o \in {"caps.drop", "caps.keep"} -> LineCaps(c, l)
    [] l.o \in {"hostname", "hostname-randomize", "keep-hostname"} -> LineHostname(c, l)
    [] l.o \in {"hosts-file", "dns"} -> LineDns(c, l)
    [] l.o \in {"cpu", "nice"} -> LineCpuNice(w, c, l)
    [] l.o \in DOMAIN WritableSwitch \cup {"writable-etc", "private"} -> LineWritable(c, l)
    [] l.o \in {"allow-debuggers", "x11"} -> LineX11(w, f, c, l)
    [] l.o \in DOMAIN PrivateDir -> LinePrivate(w, f, c, l)
    [] l.o = "bind" -> LineBind(w, f, c, l)
    [] l.o \in Rlimits \cup {"rlimit", "timeout"} -> LineRlimit(c, l)
    [] l.o = "join-or-start" -> LineJoin(w, f, c, l)
    [] OTHER -> LinePath(c, l)

CheckPlain(w, f, c, l) ==
  IF IsIgnored(c, l) THEN [c EXCEPT !.ret = 0] ELSE Dispatch(w, f, [c EXCEPT !.ret = 0], l)

(* a line is added to the list when its handler says so *)
Applied(r, l) ==
  IF r.out = "" /\ r.ret = 1 THEN [ProfileAdd(r, l.o, l.v) EXCEPT !.ret = 0] ELSE r

(* profile_check_conditional: the rest of the line is checked, and added,   *)
(* inside it; its caller is told to do nothing more                         *)
CheckConditional(w, f, c, l) ==
  LET rest == [l EXCEPT !.cond = ""]
  IN  CASE l.cond \notin Conditionals -> Fail(c)
        [] ~ConditionHolds(w, f, c, l.cond) -> [c EXCEPT !.ret = 0]
        [] l.o \in {"quiet", "include"} -> Fail(c)
        [] OTHER -> Applied(CheckPlain(w, f, c, rest), rest)

(* profile_check_line *)
CheckLine(w, f, c, l) ==
  IF l.cond = "" THEN CheckPlain(w, f, c, l) ELSE CheckConditional(w, f, c, l)
=============================================================================
