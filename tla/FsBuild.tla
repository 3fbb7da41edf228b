------------------------------- MODULE FsBuild -------------------------------
(***************************************************************************)
(* The file system of the sandbox as sandbox() of sandbox.c builds it: one *)
(* action per call that mounts something, in the order of the function,    *)
(* from the namespace of the host to the moment the program is started.    *)
(* The options and the profile are any the constants allow; the functions  *)
(* add lines of their own to the profile on the way.                       *)
(***************************************************************************)
EXTENDS FsProfile

CONSTANT Cases      \* the configurations: [opts: the options, prof: the commands of the profile]

VARIABLES view,     \* what the sandbox sees
          opts,     \* the options
          prof,     \* cfg.profile
          work,     \* what the first pass of fs_whitelist() found
          before,   \* the view when the whitelist was applied
          between,  \* the view when the blacklist was applied
          at        \* the next step of sandbox(), or "exit"

vars == <<view, opts, prof, work, before, between, at>>

Order == <<"hosts", "base", "appimage", "private", "private_dev", "private_opt", "bwrap", "private_bin",
           "private_cache", "private_tmp", "dbus", "hostname", "netns", "proc_sys", "mnt", "private_etc",
           "whitelist", "blacklist", "sound", "devices", "dns", "cwd", "x11", "exec">>
After(s) == Order[1 + CHOOSE i \in 1..(Len(Order) - 1) : Order[i] = s]

FsInit == /\ \E c \in Cases : opts = c.opts /\ prof = c.prof
          /\ view = HostView /\ work = NoWork /\ before = HostView /\ between = HostView
          /\ at = "hosts"

Has(option) == option \in opts
\* The step s leads to the view w and the profile f.
Leads(s, w, f) == /\ at = s /\ at' = After(s)
                  /\ view' = Eager(w) /\ prof' = f
                  /\ UNCHANGED opts
                  /\ before' = (IF s = "private_etc" THEN view' ELSE before)
                  /\ between' = (IF s = "whitelist" THEN view' ELSE between)
Adds(s, w, f) == Leads(s, w, f) /\ UNCHANGED work
Gives(s, w) == Adds(s, w, prof)
Fails(s) == at = s /\ at' = "exit" /\ UNCHANGED <<view, opts, prof, work, before, between>>

-----------------------------------------------------------------------------
Etc(f) == <<"etc", f>>
Home(f) == HomeDir(opts) \o <<f>>
\* fs_store_hosts_file: a copy for fs_hostname(), taken before the chroot.
FsStoreHostsFile == Gives("hosts", CopyTo(view, Etc("hosts"), Mnt \o <<"hosts">>))

\* fs_basic_fs: /etc and /var unless writable, and the program and library directories.
ReadOnlyDirs == (IF Has("writable-etc") THEN {} ELSE {<<"etc">>})
                \cup (IF Has("writable-var") THEN {} ELSE {<<"var">>}) \cup {<<"usr">>, <<"bin">>}
ReadOnlyBase(v) == FoldSet(LAMBDA d, x : Remount(x, d, "read-only", User(opts), TRUE), v, ReadOnlyDirs)
NoexecBase(v) == IF Has("uid0") THEN v
                 ELSE FoldSet(LAMBDA d, x : Remount(x, d, "noexec", User(opts), TRUE), v, ReadOnlyDirs \cap {<<"etc">>, <<"var">>})

\* disable_config: the directories below /run/firejail other sandboxes are found by.
DisableConfig(v) == IF Has("uid0") THEN v
                    ELSE DisableFile(FsMkdir(v, HomeDir(opts) \o <<".config", "firejail">>), {<<"run", "firejail", "name">>})

\* fs_chroot: the tree of the chroot directory with the /dev, resolv.conf and
\* /run/firejail/mnt of the host; nothing else of the host is left.
FromHost(p) == Under(<<"dev">>, p) \/ Under(Mnt, p) \/ p = <<"run", "firejail">> \/ (Has("display") /\ Under(<<"tmp", ".X11-unix">>, p))
ChrootView(v) ==
  Eager([p \in Paths |-> IF FromHost(p) \/ ~Present(v, p) THEN v[p]
                         ELSE IF p = Etc("resolv.conf") THEN [v[p] EXCEPT !.c = <<"copy", p>>]
                         ELSE IF p \in DOMAIN Host THEN [v[p] EXCEPT !.c = <<"chroot", p>>] ELSE v[p]])
FsBasicFs == IF Has("chroot") THEN ChrootView(view) ELSE NoexecBase(ReadOnlyBase(view))
BaseFs == /\ at = "base"
          /\ \E basic \in {FsBasicFs} : \E withVar \in {FsMachineid(FsVar(basic, opts), opts)} :
             \E mine \in {RestrictUsers(withVar, opts)} : Gives("base", DisableConfig(mine))

AppimageMount == Gives("appimage", IF Has("appimage") THEN Tmpfs(view, <<"run", "firejail", "appimage">>, "root") ELSE view)

Private == Gives("private",
  IF Has("private=") THEN (IF Has("chroot") THEN view ELSE FsPrivateHomedir(view, opts))
  ELSE IF Has("private") THEN FsPrivateHome(view, opts) ELSE view)

PrivateDev == Gives("private_dev", IF Has("private-dev") THEN FsPrivateDev(view, opts) ELSE view)
PrivateOpt == Gives("private_opt",
                    IF Has("private-opt") /\ ~Has("chroot") THEN FsPrivateDirList(view, <<"opt">>) ELSE view)
Bwrap == Gives("bwrap", IF Has("allow-bwrap") THEN view ELSE FsBwrap(view))
PrivateBin == Gives("private_bin", IF Has("private-bin") /\ ~Has("appimage") /\ ~Has("chroot")
                                   THEN FsPrivateBinList(view, opts) ELSE view)

\* private-cache and private-tmp only add lines to the profile.
PrivateCache == Adds("private_cache", view,
                      IF Has("private-cache") THEN Append(prof, Entry("tmpfs", Home(".cache"))) ELSE prof)
X11Unix == <<"tmp", ".X11-unix">>
FsPrivateTmp == <<Entry("whitelist", X11Unix), Entry("read-only", X11Unix)>>
                \o (IF Present(view, <<"tmp", "pulse-1">>) THEN <<Entry("whitelist", <<"tmp", "pulse-1">>)>> ELSE <<>>)
PrivateTmp == Adds("private_tmp", view, IF Has("private-tmp") THEN prof \o FsPrivateTmp ELSE prof)

-----------------------------------------------------------------------------
\* dbus_apply_policy: the proxy's socket is taken from /run/firejail/dbus before that is disabled.
DbusDir == <<"run", "firejail", "dbus">>
Bus == RunUser \o <<"bus">>
RunBus == Mnt \o <<"bus">>
DbusSocket(v) == LET made == Put(v, RunBus, New("file", "root"))
                 IN IF Has("dbus-filter") THEN Bind(made, made, DbusDir \o <<"u">>, RunBus) ELSE made
DbusApplyPolicy ==
  Gives("dbus", DisableFileOrDir(
    IF Has("dbus-none") \/ Has("dbus-filter") THEN DisableFileOrDir(DbusSocket(view), {Bus, Home(".dbus")}) ELSE view,
    {DbusDir}))

\* fs_hostname and fs_mount_hosts_file
OverEtc(v, fs) == [p \in Paths |-> IF p \in fs /\ Present(v, p) THEN [c |-> New("file", "root"), ro |-> FALSE, nx |-> FALSE, m |-> p] ELSE v[p]]
FsHostname == Gives("hostname", OverEtc(view, {Etc("hostname")} \cup (IF Present(view, Mnt \o <<"hosts">>) THEN {Etc("hosts")} ELSE {})))
\* netns_mounts: what /etc/netns/<name> holds.
NetnsMounts == Gives("netns", IF Has("netns") THEN OverEtc(view, {Etc("resolv.conf")}) ELSE view)

\* fs_proc_sys_dev_boot
ProcFiles == {<<"proc", "kcore">>, <<"dev", "port">>} \cup (IF Has("allow-debuggers") THEN {} ELSE {<<"boot">>})
             \cup (IF Has("writable-run-user") THEN {} ELSE {RunUser \o <<"gnupg">>})
Gnupg(v) == IF ~Has("writable-run-user") /\ IsDir(v, RunUser) THEN MkDir(v, RunUser \o <<"gnupg">>, "user") ELSE v
NvidiaPattern == <<"sys", "module", "nvidia*">>
SysEntries == IF Present(view, <<"dev", "nvidiactl">>) /\ ~Has("no3d")
              THEN <<Entry("whitelist", NvidiaPattern), Entry("read-only", NvidiaPattern)>>
              ELSE <<Entry("blacklist", <<"sys", "module">>)>>
FsProcSysDevBoot ==
  Adds("proc_sys", DisableFile(RemountRec(Gnupg(view), <<"sys">>, "read-only", "root", FALSE), ProcFiles), prof \o SysEntries)

\* fs_mnt: firejail.config hides the directories at once, the option through the profile.
FsMnt == Adds("mnt", IF Has("cfg-disable-mnt") THEN DisableFile(view, {<<"mnt">>, <<"media">>}) ELSE view,
               IF Has("disable-mnt") /\ ~Has("cfg-disable-mnt")
               THEN prof \o <<Entry("blacklist", <<"mnt">>), Entry("blacklist", <<"media">>)>> ELSE prof)

PrivateEtc == Gives("private_etc", IF Has("private-etc") /\ ~Has("chroot") THEN FsPrivateEtc(view, opts) ELSE view)

FsWhitelist == /\ at = "whitelist"
               /\ \E found \in {VerifyAll(view, opts, prof)} :
                    IF found.bad THEN Fails("whitelist")
                    ELSE /\ Leads("whitelist", WhitelistAll(view, opts, found), prof \o found.more)
                         /\ work' = found
BlacklistStep == Gives("blacklist", FsBlacklist(view, prof, opts))

-----------------------------------------------------------------------------
\* pulseaudio_disable and pipewire_disable
PulseFiles == {HomeDir(opts) \o <<".config", "pulse">>, RunUser \o <<"pulse">>, <<"tmp", "pulse-1">>}
\* pulseaudio_init: ~/.config/pulse is created unless that fails, and covered by
\* RUN_PULSE_DIR with the flag of the mount it is on; RUN_PULSE_DIR is masked only then.
PulseDir == Mnt \o <<"pulse">>
PulseaudioInit(v) ==
  LET cfg == HomeDir(opts) \o <<".config", "pulse">>
      made == MkDir(FsMkdir(v, cfg), PulseDir, "user")
      ready == IF Realpath(made, cfg) = cfg /\ IsDir(made, cfg) /\ made[cfg].c[1] # "ro" THEN {cfg} ELSE {}
  IN IF ~Present(v, Etc("pulse")) THEN v
     ELSE IF ready = {} THEN made
     ELSE Tmpfs([Bind(made, made, PulseDir, cfg) EXCEPT ![cfg].ro = made[cfg].ro], PulseDir, "root")
Sound == Gives("sound", IF Has("nosound") THEN DisableFileOrDir(view, PulseFiles)
                        ELSE IF Has("keep-config-pulse") THEN view ELSE PulseaudioInit(view))
Devices == Gives("devices", FsDevDisable(view, opts))

\* fs_resolvconf: the mount fails if the file is not there.
FsResolvconf == LET wanted == Has("dns") /\ ~Has("nonetwork")
                IN IF wanted /\ ~Present(view, Etc("resolv.conf")) THEN Fails("dns")
                   ELSE Gives("dns", IF wanted THEN OverEtc(view, {Etc("resolv.conf")}) ELSE view)

\* The working directory: --private-cwd must be there, and be no link.
Cwd == <<"home", "u", "b">>
Chdir == IF Has("private-cwd") /\ (IsLink(view, Cwd) \/ ~IsDir(view, Realpath(view, Cwd)) \/ view[Realpath(view, Cwd)].c[1] = "ro")
         THEN Fails("cwd") ELSE Gives("cwd", view)

\* fs_x11: only the socket of the display stays.
Display == X11Unix \o <<"X1">>
FsX11 == Gives("x11",
  IF ~Has("display") \/ ~Present(view, X11Unix) \/ OwnerOf(view[X11Unix].c) # "root" \/ ~Present(view, Display) \/ view[Display].c[1] = "ro" THEN view
  ELSE LET empty == Tmpfs(view, X11Unix, "root") IN Bind(empty, view, Display, Display))

Ended == at \in {"exec", "exit"} /\ UNCHANGED vars

Next == \/ FsStoreHostsFile \/ BaseFs \/ AppimageMount \/ Private \/ PrivateDev \/ PrivateOpt \/ Bwrap \/ PrivateBin
        \/ PrivateCache \/ PrivateTmp \/ DbusApplyPolicy \/ FsHostname \/ NetnsMounts \/ FsProcSysDevBoot \/ FsMnt
        \/ PrivateEtc \/ FsWhitelist \/ BlacklistStep \/ Sound \/ Devices \/ FsResolvconf \/ Chdir \/ FsX11 \/ Ended

Spec == FsInit /\ [][Next]_vars

-----------------------------------------------------------------------------
Runs == at = "exec"
Commands(cmd) == {prof[i].arg : i \in {k \in DOMAIN prof : prof[k].cmd = cmd}}
HostFiles(p) == {between[q].c : q \in {r \in Paths : Under(p, r) /\ Original(between[r].c)}}
\* What a later line of the profile binds somewhere else is asked for.
Plain == Commands("bind") = {}

\* A blacklist command takes effect whatever else was configured: once the program
\* runs, no path leads to the file it names (through links too), or to anything
\* below it, unless a noblacklist command stands before it in the profile
\* (fs_blacklist, disable_file).
BlacklistHolds ==
  Runs /\ Plain =>
    \A i \in DOMAIN prof : prof[i].cmd = "blacklist" =>
      LET no == {prof[k].arg : k \in {j \in 1..(i - 1) : prof[j].cmd = "noblacklist"}}
          gone == UNION {Disabled(between, p) : p \in Blacklisted(between, no, prof[i].arg)}
          hidden == UNION {HostFiles(r) : r \in gone}
      IN \A p \in Paths : view[p].c \notin hidden

Restored(o) == {HomeDir(o), RunUser, <<"run", "firejail">>}
WhitelistHides ==
  Runs /\ Plain =>
    LET named == {k.file : k \in ToSet(work.work)}
    IN \A p \in Paths : Original(view[p].c) /\ p # Xauthority(opts) =>
         \A t \in ToSet(work.tops) : Below(t, p) =>
           \/ \E f \in named : Under(f, p)
           \/ \E d \in Restored(opts) : Below(t, d) /\ Under(d, p)

WhitelistKeeps ==
  at = "blacklist" =>
    LET kept == {k.file : k \in {x \in ToSet(work.work) : Below(x.top, x.file)}}
    IN \A f \in kept : \A p \in Paths : Under(f, p) => view[p].c = before[p].c

\* In a directory the whitelist commands have replaced, no file is left that was
\* neither named by one, nor restored by firejail itself (the nested home and
\* runtime directories and the X authority file).  And every whitelisted file
\* shows, right after the whitelist was applied, what it showed before, whatever
\* the order and the nesting of the commands (fs_whitelist).
WhitelistExact == WhitelistHides /\ WhitelistKeeps

Secret(c) ==
  \/ c[1] = "host" /\ Has("chroot") /\ ~FromHost(c[2]) /\ ~Under(<<"run", "firejail">>, c[2])
  \/ c[1] # "new" /\ Len(c[2]) > 0 /\ c[2] \in DOMAIN DevType /\ ~ShouldMount(DevType[c[2]], opts)
  \/ Has("nosound") /\ c[2] \in {Shm \o <<"jack">>, RunUser \o <<"pulse">>}
  \/ (Has("dbus-none") \/ Has("dbus-filter")) /\ c[2] = Bus
  \/ ~Has("allusers") /\ ~Has("uid0") /\ (Under(<<"home", "v">>, c[2]) \/ c[2] \in {Etc("passwd"), Etc("group")})
  \/ Has("private") /\ ~Has("private=") /\ Below(HomeDir(opts), c[2]) /\ c[2] # Xauthority(opts)
  \/ ~Has("writable-var-log") /\ c[2] = <<"var", "log", "syslog">>
  \/ ~Has("keep-var-tmp") /\ c[2] = <<"var", "tmp", "z">>
  \/ c[2] \in {<<"var", "lib", "sudo", "ts">>, Utmp}
  \/ Has("private-dev") /\ c[2] = <<"dev", "disk">>
\* What an option takes away is reachable by no path at all: neither where it was,
\* nor where firejail kept it while it built the new directory, nor through a
\* whitelist command (restrict_users, fs_private_dev, fs_dev_disable_*,
\* pulseaudio_disable, dbus_apply_policy, fs_private, fs_var_*, the private /etc).
NothingLeaks == Runs /\ Plain => \A p \in Paths : Original(view[p].c) => ~Secret(view[p].c)

SystemReadOnly ==
  Runs /\ Plain /\ ~Has("uid0") =>
    \A p \in Paths :
      view[p].c # <<>> /\ view[p].c[1] = "host" /\ KindOf(view[p].c) # "link" /\ (\E d \in ReadOnlyDirs : Under(d, view[p].c[2]))
      /\ ~(Has("writable-var-log") /\ Under(<<"var", "log">>, p)) => view[p].ro

Overridden == {Etc("hosts"), Etc("hostname")} \cup (IF Has("machine-id") THEN {Etc("machine-id")} ELSE {})
              \cup (IF Has("dns") /\ ~Has("nonetwork") THEN {Etc("resolv.conf")} ELSE {})
              \cup (IF Has("allow-bwrap") THEN {} ELSE {UsrBin \o <<"bwrap">>})
OverridesSurvive == Runs => \A p \in Overridden : ~Original(view[p].c)

\* Files of the host's system directories are on read-only mounts, also where a
\* whitelist or a private directory brought them back, unless an option or root
\* asked for write access (fs_basic_fs, fs_remount).  The files firejail replaces
\* (hosts, hostname, machine-id, resolv.conf, bwrap) are never the host's again,
\* although /etc and the program directories are rebuilt and whitelisted after
\* they were replaced.
SystemProtected == SystemReadOnly /\ OverridesSurvive
=============================================================================
