----------------------------- MODULE MCFsBuild -----------------------------
(***************************************************************************)
(* A small host for FsBuild: a user u with a home, another user v, devices *)
(* of three kinds, links between the directories; every pair of options    *)
(* with a short profile, and every pair of commands with a few options.    *)
(***************************************************************************)
EXTENDS FsBuild

H == <<"home", "u">>
Dirs == {<<"etc">>, <<"etc", "pulse">>, <<"usr">>, <<"usr", "bin">>, <<"usr", "share">>, <<"home">>, <<"home", "v">>,
         <<"root">>, <<"tmp">>, X11Unix, <<"dev">>, <<"dev", "snd">>, Shm, <<"run">>, <<"run", "user">>,
         <<"run", "firejail">>, Mnt, DbusDir, <<"run", "firejail", "name">>, <<"opt">>, <<"opt", "o1">>,
         <<"var">>, <<"var", "log">>, <<"var", "lib">>, <<"var", "lib", "sudo">>, <<"var", "tmp">>, <<"proc">>, <<"sys">>, <<"sys", "module">>,
         <<"sys", "module", "nvidia">>, <<"sys", "module", "other">>, <<"mnt">>, <<"media">>, <<"boot">>}
UserDirs == {H, H \o <<"a">>, H \o <<"b">>, H \o <<".cache">>, H \o <<".config">>, H \o <<".config", "pulse">>,
             H \o <<".dbus">>, RunUser, RunUser \o <<"pulse">>, RunUser \o <<"gnupg">>}
RootFiles == {Etc("passwd"), Etc("group"), Etc("hosts"), Etc("hostname"), Etc("machine-id"), Etc("resolv.conf"),
              UsrBin \o <<"prog">>, UsrBin \o <<"tool">>, UsrBin \o <<"bwrap">>, UsrBin \o <<"firejail">>,
              <<"usr", "share", "s">>, <<"dev", "null">>, <<"dev", "port">>, <<"dev", "tpm0">>, <<"dev", "nvidiactl">>,
              <<"dev", "disk">>, <<"dev", "log">>, DbusDir \o <<"u">>, <<"opt", "o2">>, <<"proc", "kcore">>,
              <<"var", "log", "syslog">>, <<"var", "lib", "sudo", "ts">>, Utmp, X11Unix \o <<"X0">>, Display}
UserFiles == {<<"var", "tmp", "z">>, H \o <<"a", "x">>, H \o <<"b", "y">>, H \o <<".Xauthority">>, H \o <<".config", "pulse", "c">>,
              <<"tmp", "f">>, <<"tmp", "pulse-1">>, Bus, Shm \o <<"jack">>, <<"home", "v", "w">>}
Links == (<<"bin">> :> UsrBin) @@ (H \o <<"l">> :> H \o <<"a", "x">>) @@ (H \o <<"t">> :> <<"tmp", "f">>)
         @@ (H \o <<"n">> :> <<"dev", "null">>)
File(kind, owner, to) == [kind |-> kind, owner |-> owner, to |-> to]
MCHost == [p \in Dirs |-> File("dir", "root", <<>>)] @@ [p \in UserDirs |-> File("dir", "user", <<>>)]
          @@ [p \in RootFiles |-> File("file", "root", <<>>)] @@ [p \in UserFiles |-> File("file", "user", <<>>)]
          @@ [p \in DOMAIN Links |-> File("link", "root", Links[p])]
MCCreated == {Mnt \o <<f>> : f \in {"hosts", "passwd", "group", "utmp", "bus", "pulse", "etc", "bin", "opt", "dev"}}
             \cup {Mnt \o <<"pulse", "c">>, Mnt \o <<"dev", "shm", "jack">>, H \o <<".config", "firejail">>,
                   <<"run", "firejail", "appimage">>, <<"root", ".Xauthority">>, H \o <<"m">>, H \o <<"m", "k">>,
                   <<"root", ".config">>, <<"root", ".config", "pulse">>, <<"root", ".config", "firejail">>,
                   <<"root", ".cache">>, <<"root", ".dbus">>, H \o <<"x">>}
             \cup {Mnt \o p : p \in {q \in Dirs \cup RootFiles : q[1] \in {"etc", "dev", "opt"}}}
             \cup {Mnt \o <<"bin", f>> : f \in {"prog", "tool", "bwrap"}}
MCGlobs == (NvidiaPattern :> {<<"sys", "module", "nvidia">>}) @@ (H \o <<"[ab]">> :> {H \o <<"a">>, H \o <<"b">>})
MCDevType == (<<"dev", "snd">> :> "sound") @@ (<<"dev", "nvidiactl">> :> "3d") @@ (<<"dev", "tpm0">> :> "tpm")
MCKeep == (<<"etc">> :> {"passwd", "group", "hosts", "hostname", "machine-id", "pulse"})
          @@ (<<"opt">> :> {"o2"}) @@ (UsrBin :> {"prog", "bwrap"})
MCRejectTopdirs == {<<"media">>}

Options == {"uid0", "allusers", "chroot", "private", "private=", "private-dev", "private-opt", "allow-bwrap",
            "private-bin", "appimage", "private-cache", "private-tmp", "dbus-none", "dbus-filter", "netns",
            "disable-mnt", "cfg-disable-mnt", "private-etc", "nosound", "no3d", "keep-dev-tpm", "keep-dev-shm",
            "keep-config-pulse", "dns", "nonetwork", "x11-none", "display", "writable-etc", "writable-var",
            "writable-var-log", "writable-run-user", "keep-var-tmp", "machine-id", "allow-debuggers", "private-cwd"}
Pairs == {{}} \cup {{x, y} : x, y \in Options}
W(p) == Entry("whitelist", p)
B(p) == Entry("blacklist", p)
Short == <<W(H \o <<"a">>), B(H \o <<"l">>), W(Etc("passwd")), W(<<"dev", "snd">>), W(<<"run", "user">>)>>
Empty == <<B(<<"home", "u", "b">>)>>

Lines == {Entry(c, H \o <<f>>) : c \in {"whitelist", "blacklist"}, f \in {"a", "l", "t", "n", "[ab]"}}
         \cup {W(p) : p \in {H \o <<"a", "x">>, Etc("passwd"), <<"tmp">>, <<"tmp", "f">>, Bus, <<"run", "user">>, <<"home", "v", "w">>,
                             <<"usr", "share", "s">>, <<"bin", "prog">>, <<"proc", "kcore">>, <<"media", "m">>, Macro,
                             <<"run", "firejail", "mnt">>}}
         \cup {B(p) : p \in {H \o <<"a", "x">>, <<"bin">>, <<"bin", "prog">>, H \o <<".config">>, X11Unix, <<"usr", "bin", "firejail">>}}
         \cup {Entry("nowhitelist", H \o <<"a", "x">>), Entry("noblacklist", H \o <<"a">>), Entry("noblacklist", H \o <<"[ab]">>),
               Entry("read-only", H), Entry("read-write", H \o <<"a">>), Entry("read-write", <<"etc">>), Entry("noexec", H),
               Entry("tmpfs", H \o <<"b">>), Entry("tmpfs", <<"var", "log">>), Entry("mkdir", H \o <<"m", "k">>),
               Entry("mkfile", H \o <<"m">>), [cmd |-> "bind", arg |-> H \o <<"a">>, on |-> H \o <<"b">>]}
\* bind is an option of root.
PairsOfLines == {<<a, b>> : a, b \in Lines} \cup {<<a>> : a \in Lines}
Sets1 == {{}, {"private-tmp", "display"}, {"private-cache", "keep-dev-tpm"}}
Case(os, ps) == {[opts |-> o, prof |-> p] : o \in os, p \in ps}
IsBind(p) == \E i \in DOMAIN p : p[i].cmd = "bind"
MCCases == Case(Pairs, {Short, Empty})
           \cup Case(Sets1, {p \in PairsOfLines : ~IsBind(p)})
           \cup Case({{"uid0"}}, {p \in PairsOfLines : IsBind(p)})
=============================================================================
