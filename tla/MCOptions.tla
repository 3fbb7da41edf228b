------------------------------ MODULE MCOptions ------------------------------
(* firejail started with every option alone, on the command line and in the  *)
(* profile of the program; with every pair of options that touch the same    *)
(* setting; and with the cases below that need more than two.                *)
EXTENDS Options

MCMaxInclude == 2

NoFiles == [k \in {<<"etc", "default">>, <<"etc", "server">>} |-> <<>>]

Ordinary ==
  [root |-> FALSE, userns |-> TRUE, allowed |-> TRUE, nested |-> FALSE, oldkernel |-> FALSE,
   hidepid |-> FALSE, abstract |-> FALSE, config |-> <<Option("chroot", "yes")>>,
   envp |-> "LANG" :> "given" @@ "PATH" :> "given" @@ "MINE" :> "given",
   ibus |-> <<"IBUS">>, running |-> {"box"}, files |-> NoFiles, denied |-> {}, firecfg |-> "",
   exe |-> "firejail", argv |-> <<Flag("prog")>>, command |-> "app", prog |-> <<<<"a">>>>]

(* options, then a program whose profile has the lines *)
Case(options, lines) ==
  [Ordinary EXCEPT !.argv = options \o <<Flag("prog")>>,
                   !.files = (<<"etc", "app">> :> lines) @@ NoFiles]

AllOff == [k \in 1..12 |-> Option(<<"network", "seccomp", "x11", "userns", "bind", "file-transfer", "join",
                                    "private-etc", "private-bin", "private-opt", "private-cache",
                                    "private-srv">>[k], "no")]

AB == <<Item("", "a"), Item("", "b")>>
SomeList == <<Item("", "a")>>

Switches == DOMAIN SwitchOf \cup DOMAIN WritableSwitch
            \cup {"writable-etc", "private-etc", "seccomp", "seccomp.block-secondary", "landlock.enforce",
                  "memory-deny-write-execute", "restrict-namespaces", "apparmor", "apparmor-replace",
                  "hostname-randomize", "keep-hostname", "noroot", "nodbus", "nou2f", "notpm", "netfilter",
                  "netlock", "private-cache", "private-cwd", "disable-mnt", "deterministic-exit-code",
                  "deterministic-shutdown", "allow-bwrap", "allow-debuggers", "quiet", "x11"}

Valued == {"mkdir", "mkfile", "name", "dbus-user", "dbus-system", "dbus-user.see", "dbus-system.talk",
           "netfilter", "netfilter6", "netns", "veth-name", "mac", "netmask", "ip", "ip6", "defaultgw",
           "landlock.fs.read", "landlock.fs.write", "seccomp-error-action", "caps.drop", "caps.keep",
           "hostname", "dns", "hosts-file", "private", "private-cwd", "join-or-start", "xephyr-screen",
           "blacklist", "noblacklist", "whitelist", "nowhitelist", "read-only", "read-write", "noexec",
           "tmpfs", "bind", "apparmor", "timeout", "cpu", "rlimit-cpu"}

ListOptions == DOMAIN SeccompList \cup {"protocol", "restrict-namespaces", "keep-fd"} \cup DOMAIN PrivateDir

Values(o) ==
  CASE o \in {"dbus-user", "dbus-system"} -> {"filter", "none", "bad"}
    [] o = "caps.drop" -> {"all", "kill", "bad"}
    [] o \in {"name", "hostname", "join-or-start"} -> {"box", "new", "bad"}
    [] o = "mac" -> {"m1", "multicast"}
    [] o = "ip" -> {"10.0.0.2", "none", "bad"}
    [] OTHER -> {"x", "bad"}

Common ==
  {Flag(o) : o \in Switches}
  \cup UNION {{Option(o, v) : v \in Values(o)} : o \in Valued}
  \cup {Listed(o, SomeList) : o \in ListOptions}
  \cup {Option("net", v) : v \in {"none", "lo", "br0"}} \cup {Option("x11", "none"), Option("keep-fd", "all")}
  \cup {Number("mtu", 575), Number("mtu", 576), Number("nice", -1), Number("cpu", 32), Number("rlimit-as", 0),
        Number("rlimit-as", 5), [Number("iprange", 3) EXCEPT !.m = 3]}
  \cup {[Option("ignore", "seccomp") EXCEPT !.list = <<>>], Option("ignore", "")}
  \cup {Option("env", "MINE"), Option("rmenv", "MINE"), [Option("env", "MINE") EXCEPT !.n = 1]}

CommandOnly ==
  {Flag(o) : o \in {"help", "debug-caps", "debug-protocols", "debug-errnos", "list", "netstats",
                    "noprofile", "scan", "shell", "-c", "debug", "debug-blacklists", "debug-whitelists", "trace",
                    "build", "unhide-pid1", "--", "nosuch", "dbus-user.log", "dbus-system.log", "appimage", "oom",
                    "xephyr-extra-params"} \cup Traces}
  \cup {Option(o, v) : o \in {"nettrace", "netfilter.print", "seccomp.print", "profile.print", "cpu.print",
                              "net.print", "get", "ls", "put", "join", "join-network", "join-filesystem",
                              "shutdown", "netlock"},
                       v \in {"box", "none"}}
  \cup {Option("chroot", "x"), Option("x11", "xorg"), Option("interface", "lo"), Option("interface", "eth0"),
        Option("dbus-log", "x"), Option("trace", "x"), Option("trace", "bad"), Option("output", "x"),
        Option("output-stderr", "bad"), Option("profile", "app"), Option("profile", "missing"),
        [Option("profile", "app.profile") EXCEPT !.m = 1], [Option("profile", "away") EXCEPT !.n = 1],
        Option("include", "app"), Option("include", "missing"), [Option("include", "away") EXCEPT !.n = 1]}

ProfileOnly ==
  {Flag(o) : o \in {"tracelog", "private-home", "apparmor-stack", "rlimit", "shell"}}
  \cup {Option(o, "x") : o \in {"whitelist-ro", "warn", "include"}}
  \cup {[Flag("nosound") EXCEPT !.cond = x] : x \in Conditionals \cup {"HAS_NOTHING"}}
  \cup {[Option("blacklist", "x") EXCEPT !.cond = "BROWSER_DISABLE_U2F"],
        [Flag("quiet") EXCEPT !.cond = "BROWSER_DISABLE_U2F"]}

Singles ==
  {[Case(ol[1], ol[2]) EXCEPT !.root = r, !.config = cf] :
     ol \in {<<<<o>>, <<>>>> : o \in Common \cup CommandOnly} \cup {<<<<>>, <<o>>>> : o \in Common \cup ProfileOnly},
     r \in BOOLEAN, cf \in {Ordinary.config, AllOff}}

(* options that set, exclude or undo each other *)
Touching ==
  {Option("net", "none"), Option("net", "br0"), Option("mac", "m1"), Option("ip", "none"), Option("netmask", "255"),
   Number("mtu", 576), [Number("iprange", 2) EXCEPT !.m = 5], Option("defaultgw", "10.0.0.1"),
   Option("hostname", "new"), Flag("hostname-randomize"), Flag("writable-etc"), Flag("private-etc"),
   Listed("private-etc", SomeList), Option("dns", "8.8.8.8"), Flag("seccomp"), Listed("seccomp.32", SomeList),
   Flag("seccomp.block-secondary"), Listed("seccomp.drop", SomeList), Option("caps.keep", "kill"), Flag("nodbus"),
   Option("dbus-user", "filter"), Option("dbus-user", "none"), Flag("noroot"), Option("env", "LANG"),
   Option("rmenv", "LANG"), Option("ignore", "net"), Option("ignore", "seccomp"), Flag("quiet"),
   Option("x11", "none"), Flag("allow-debuggers"), Flag("private-cwd")}

CommandTouching == Touching \cup
  {Option("chroot", "x"), Flag("noprofile"), Option("profile", "app"), Flag("appimage"), Flag("dbus-user.log"),
   Option("interface", "eth0"), Option("output", "x"), Flag("debug"), Option("ls", "box")}

Pairs ==
  {Case(<<a, b>>, <<>>) : a \in CommandTouching, b \in CommandTouching}
  \cup {Case(<<a>>, <<b>>) : a \in CommandTouching, b \in Touching}
  \cup {Case(<<>>, <<a, b>>) : a \in Touching, b \in Touching}

(* several devices, each with attributes *)
Devices ==
  {Case(<<Option("net", "br0"), a, Option("net", "br1"), b>>, ls) :
     a, b \in {Option("mac", "m1"), Option("mac", "m2"), Option("ip", "10.0.0.2"), Option("netmask", "255"),
               Option("ip6", "fe80"), Option("veth-name", "v")},
     ls \in {<<>>, <<Option("net", "br2"), Option("mac", "m3")>>, <<Option("netmask", "254")>>}}
  \cup {Case([k \in 1..5 |-> Option(o, "d")], <<>>) : o \in {"net", "interface", "dns"}}

(* profiles that include each other, are missing, or may not be read *)
Include(v) == Option("include", v)
Included ==
  {[Ordinary EXCEPT !.argv = opts \o <<Flag("prog")>>, !.denied = d, !.files = NoFiles @@
      (<<"etc", "app">> :> <<Include("one.inc"), Flag("nosound")>>)
      @@ (<<dir, "one.inc">> :> <<Include(target), Flag("seccomp")>>)
      @@ (<<"etc", "disable-devel.inc">> :> <<Flag("novideo")>>)
      @@ (<<"etc", "disable-shell.inc">> :> <<Flag("notv"), Include("one.inc")>>)] :
     opts \in {<<>>, <<Flag("allow-debuggers")>>, <<Flag("appimage")>>, <<Option("ignore", "include")>>,
               <<Option("ignore", "seccomp"), Option("ignore", "nosound")>>},
     dir \in {"user", "etc", "cwd"},
     target \in {"one.inc", "app", "app.local", "missing.inc", "disable-devel.inc", "disable-shell.inc", "bad"},
     d \in {{}, {<<"user", "app.local">>}}}

(* arguments with quotes and spaces *)
Words(n) == UNION {[1..k -> {"a", Q, D, S}] : k \in 0..n}
Quoting ==
  {[Case(opts, <<>>) EXCEPT !.prog = p, !.firecfg = "app"] :
     p \in {<<x, y>> : x \in Words(1), y \in Words(2)} \cup {<<x>> : x \in Words(3)},
     opts \in {<<>>, <<Flag("appimage")>>}}

(* comma lists in three places *)
Items == {Item(op, n) : op \in {"", "+", "-", "="}, n \in {"", "a", "b"}}
Lists ==
  {[Case(<<Listed("protocol", a)>>, <<Listed("protocol", <<x, y>>)>>)
      EXCEPT !.config = <<[Option("seccomp-filter-add", "") EXCEPT !.list = SomeList]>>] :
     a \in {<<Item("", "a")>>, <<Item("", "b"), Item("+", "a")>>, <<Item("", "c"), Item("", "a"), Item("", "c")>>},
     x \in Items, y \in Items}

(* firejail.config, the caller and the ways around a sandbox *)
Around ==
  {[Ordinary EXCEPT !.config = <<l>>] :
     l \in {Option("network", "maybe"), Option("nosuch", "yes"), Number("arp-probes", 1), Number("arp-probes", 30),
            Number("arg-max-count", 2), Number("env-max-count", 3), Option("quiet-by-default", "yes"),
            Option("restricted-network", "yes"), Option("force-nonewprivs", "yes"), Option("file-copy-limit", "5"),
            Option("tracelog", "yes"), Option("xephyr-screen", "bad"), Option("netfilter-default", "x"),
            Option("xvfb-extra-params", "x")}}
  \cup {[Case(<<o>>, ls) EXCEPT !.exe = e, !.nested = n, !.root = r, !.envp = env] :
          o \in {Flag("nosound"), Flag("-c"), Flag("debug"), Option("output", "x")},
          ls \in {<<>>, <<Option("env", "MINE")>>}, e \in {"firejail", "app"}, n, r \in BOOLEAN,
          env \in {Ordinary.envp, "MINE" :> "given", "FIREJAIL_QUIET" :> "yes" @@ "PATH" :> "given"}}
  \cup {[Case(<<Option("seccomp-error-action", "kill")>>, <<>>) EXCEPT !.config = <<Option("seccomp-error-action", "log")>>],
        [Case(<<>>, <<Option("seccomp-error-action", "kill")>>) EXCEPT !.config = <<Option("seccomp-error-action", "log")>>],
        [Case(<<Flag("allow-debuggers")>>, <<>>) EXCEPT !.oldkernel = TRUE],
        [Case(<<Option("x11", "none")>>, <<>>) EXCEPT !.abstract = TRUE],
        [Case(<<Flag("appimage")>>, <<>>) EXCEPT !.command = "nofile"],
        [Case(<<>>, <<>>) EXCEPT !.command = "bad"],
        [Ordinary EXCEPT !.allowed = FALSE], [Ordinary EXCEPT !.files = <<>>], [Ordinary EXCEPT !.argv = <<>>],
        [Case(<<Flag("noroot")>>, <<>>) EXCEPT !.userns = FALSE],
        [Case(<<>>, <<Flag("x11")>>) EXCEPT !.envp = "FIREJAIL_X11" :> "yes"],
        [Case(<<Flag("list")>>, <<>>) EXCEPT !.hidepid = TRUE],
        [Case(<<[Option("ls", "box") EXCEPT !.o = "ls"]>>, <<>>) EXCEPT !.argv = <<Option("ls", "box"), Option("prog", "bad")>>],
        [Ordinary EXCEPT !.argv = <<Option("put", "box"), Flag("prog"), Flag("prog")>>],
        [Ordinary EXCEPT !.argv = <<Flag("--"), Flag("prog"), Flag("output")>>],
        [Ordinary EXCEPT !.argv = <<Option("ignore", "a"), Option("ignore", "b"), Option("ignore", "c"),
                                    Option("ignore", "d")>>]}

MCWorlds == Singles \cup Pairs \cup Devices \cup Included \cup Quoting \cup Lists \cup Around
=============================================================================
