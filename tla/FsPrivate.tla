------------------------------ MODULE FsPrivate ------------------------------
(***************************************************************************)
(* The private directories: the user's home (fs_home.c), /dev (fs_dev.c),  *)
(* the directories rebuilt from copies of listed files (fs_etc.c,          *)
(* fs_bin.c), the other users' files (restrict_users.c) and /var           *)
(* (fs_var.c).  Every operator takes the view and the set of options o and *)
(* returns the new view.                                                   *)
(***************************************************************************)
EXTENDS FsTree

CONSTANTS DevType,    \* the devices of the table in fs_dev.c: [path -> type]
          Keep        \* the files the private-* options list: [directory -> names]

User(o) == IF "uid0" \in o THEN "root" ELSE "user"
HomeDir(o) == IF "uid0" \in o THEN <<"root">> ELSE <<"home", "u">>
RunUser == <<"run", "user", "u">>

Copy(c) == IF Original(c) THEN <<"copy", c[2]>> ELSE c
\* fcopy: the file itself, with links followed.
CopyTo(v, s, d) == LET r == Realpath(v, s) IN IF r = <<>> THEN v ELSE Put(v, d, Copy(v[r].c))

-----------------------------------------------------------------------------
Xauthority(o) == HomeDir(o) \o <<".Xauthority">>
\* store_xauthority and copy_xauthority around the mounts that hide the home.
\* store_asoundrc and copy_asoundrc do the same with .asoundrc.
KeepXauthority(v, w, o) ==
  IF "x11-none" \notin o /\ Present(v, Xauthority(o)) /\ ~IsLink(v, Xauthority(o)) /\ Present(w, HomeDir(o))
  THEN Put(w, Xauthority(o), <<"copy", Xauthority(o)>>) ELSE w

FsPrivateHome(v, o) ==
  LET root == Tmpfs(v, <<"root">>, "root")
      home == IF "allusers" \in o THEN root ELSE Tmpfs(root, <<"home">>, "root")
      mine == IF "uid0" \in o THEN home
              ELSE IF "allusers" \in o THEN FsTmpfs(home, HomeDir(o)) ELSE MkDir(home, HomeDir(o), "user")
  IN KeepXauthority(v, mine, o)

\* fs_private_homedir, with the directory given to --private=
PrivateDir == <<"home", "u", "a">>
FsPrivateHomedir(v, o) ==
  LET bound == Bind(v, v, PrivateDir, HomeDir(o))
      root == IF "uid0" \in o THEN bound ELSE Tmpfs(bound, <<"root">>, "root")
  IN KeepXauthority(v, IF "uid0" \in o /\ "allusers" \notin o THEN Tmpfs(root, <<"home">>, "root") ELSE root, o)

-----------------------------------------------------------------------------
\* restrict_users
Sanitize(v, top, own) == Bind(MkDir(Tmpfs(v, top, "root"), own, "user"), v, own, own)
SanitizeHome(v, o) == IF IsDir(v, HomeDir(o)) THEN Sanitize(v, <<"home">>, HomeDir(o)) ELSE v
SanitizeRun(v) == IF IsDir(v, RunUser) THEN Sanitize(v, <<"run", "user">>, RunUser) ELSE v
\* The filtered passwd and group files; the copies below Mnt are disabled.
SanitizeFiles(v) == LET kept == {f \in {"passwd", "group"} : Present(v, <<"etc", f>>)}
                    IN Hide([p \in Paths |-> IF \E f \in kept : p = <<"etc", f>>
                                             THEN [c |-> New("file", "root"), ro |-> FALSE, nx |-> FALSE, m |-> p]
                                             ELSE IF \E f \in kept : p = Mnt \o <<f>> THEN [v[Mnt] EXCEPT !.c = New("file", "root")]
                                             ELSE v[p]], {Mnt \o <<f>> : f \in kept})
RestrictUsers(v, o) == IF o \cap {"allusers", "uid0"} # {} THEN v ELSE SanitizeFiles(SanitizeRun(SanitizeHome(v, o)))

\* fs_var.c: empty directories for what sandboxes must not share, where the host has them.
VarTmpfs(v, d) == IF IsDir(v, d) THEN Tmpfs(v, d, "root") ELSE v
VarTmp(v, o) == IF "keep-var-tmp" \in o THEN v ELSE VarTmpfs(v, <<"var", "tmp">>)
VarLog(v, o) == IF "writable-var-log" \notin o THEN VarTmpfs(v, <<"var", "log">>)
                ELSE IF "chroot" \in o THEN v ELSE Remount(v, <<"var", "log">>, "read-write-nocheck", User(o), FALSE)
VarLib(v) == FoldSet(LAMBDA f, x : VarTmpfs(x, <<"var", "lib", f>>), v, {"nginx", "snmp", "sudo"})
VarCache(v) == FoldSet(LAMBDA f, x : VarTmpfs(x, <<"var", "cache", f>>), v, {"apache2", "lighttpd"})
\* fs_var_utmp: a record of the boot only; the copy below Mnt is disabled.
Utmp == <<"run", "utmp">>
VarUtmp(v) == IF ~Present(v, Utmp) THEN v
              ELSE Hide(Put(BindNew(v, Utmp), Mnt \o <<"utmp">>, New("file", "root")), {Mnt \o <<"utmp">>})
FsVar(v, o) == VarUtmp(VarCache(VarLib(VarLog(VarTmp(VarTmpfs(v, <<"var", "lock">>), o), o))))
FsMachineid(v, o) == IF "machine-id" \in o /\ Present(v, <<"etc", "machine-id">>) THEN BindNew(v, <<"etc", "machine-id">>) ELSE v

-----------------------------------------------------------------------------
\* should_mount: the devices of type t are wanted.
ShouldMount(t, o) ==
  CASE t = "sound" -> "nosound" \notin o [] t = "3d" -> "no3d" \notin o [] t = "tpm" -> "keep-dev-tpm" \in o
Wanted(o) == {d \in DOMAIN DevType : ShouldMount(DevType[d], o)}

RunDev == Mnt \o <<"dev">>
Shm == <<"dev", "shm">>
\* fs_private_dev: /dev is kept at RUN_DEV_DIR while /dev/log and the wanted devices are
\* brought back, and the old /dev/shm when jack has a socket there.
Jack(v, o) == Present(v, Shm \o <<"jack">>) \/ "keep-dev-shm" \in o
Kept(v, o) == {p \in Paths : p \in Wanted(o) \cup {<<"dev", "log">>} \/ (Under(Shm, p) /\ Jack(v, o))}
DevMounted(v, kept, o) ==
  Eager([p \in Paths |-> IF p \in Kept(kept, o) /\ Present(kept, RunDev \o Tail(p))
                         THEN [kept[RunDev \o Tail(p)] EXCEPT !.m = IF Under(Shm, p) THEN Shm ELSE p] ELSE v[p]])
FsPrivateDev(v, o) ==
  LET kept == Bind(MkDir(v, RunDev, "root"), v, <<"dev">>, RunDev)
      fresh == DevMounted(Tmpfs(kept, <<"dev">>, "root"), kept, o)
  IN Put(MkDir(Hide(fresh, {RunDev}), Shm, "root"), <<"dev", "null">>, New("file", "root"))

\* fs_dev_disable_*: what an option turns off, private-dev or not.
FsDevDisable(v, o) == DisableFileOrDir(v, {d \in DOMAIN DevType : ~ShouldMount(DevType[d], o)}
                                           \cup (IF "nosound" \in o THEN {Shm \o <<"jack">>} ELSE {}))

-----------------------------------------------------------------------------
\* fs_private_dir_copy: the listed files of d are copied to its directory below Mnt.
RunDirOf(d) == Mnt \o <<d[Len(d)]>>
DirCopy(v, d) ==
  IF ~Present(v, d) THEN v
  ELSE LET made == MkDir(v, RunDirOf(d), "root")
       IN Eager([p \in Paths |-> IF \E f \in Keep[d] : p = RunDirOf(d) \o <<f>> /\ Realpath(v, d \o <<f>>) # <<>>
                                 THEN [made[RunDirOf(d)] EXCEPT !.c = Copy(v[Realpath(v, d \o <<p[Len(p)]>>)].c)]
                                 ELSE made[p]])
\* fs_private_dir_mount: mounted over d, and masked below Mnt.
DirMount(v, d) == IF ~Present(v, d) THEN v ELSE Tmpfs(Bind(v, v, RunDirOf(d), d), RunDirOf(d), "root")
FsPrivateDirList(v, d) == DirMount(DirCopy(v, d), d)

\* fs_private_bin_list: mounted over every program directory, and not masked.
UsrBin == <<"usr", "bin">>
BinCopy(v, o) ==
  LET made == MkDir(v, Mnt \o <<"bin">>, "root")
      kept == Keep[UsrBin] \cup (IF "allow-bwrap" \in o THEN {} ELSE {"bwrap"})
  IN Eager([p \in Paths |-> IF \E f \in kept : p = Mnt \o <<"bin", f>> /\ Present(v, UsrBin \o <<f>>)
                            THEN [made[Mnt \o <<"bin">>] EXCEPT !.c = Copy(v[UsrBin \o <<p[Len(p)]>>].c)] ELSE made[p]])
FsPrivateBinList(v, o) == LET w == BinCopy(v, o) IN Bind(w, w, Mnt \o <<"bin">>, UsrBin)
FsBwrap(v) == IF Present(v, UsrBin \o <<"bwrap">>) THEN BindNew(v, UsrBin \o <<"bwrap">>) ELSE v

\* umount2("/etc/passwd") and umount2("/etc/group"): what lies under the filtered files.
UmountUsers(v, o) == [p \in Paths |-> IF p \in {<<"etc", "passwd">>, <<"etc", "group">>} /\ v[p].m = p
                                      THEN [v[<<"etc">>] EXCEPT !.c = <<"host", p>>] ELSE v[p]]
UmountEtc(v) == [p \in Paths |-> IF Below(<<"etc">>, p) /\ v[p].m = p THEN [v[<<"etc">>] EXCEPT !.c = <<"host", p>>] ELSE v[p]]
UmountThenCopy(v, o) == DirMount(DirCopy(UmountUsers(v, o), <<"etc">>), <<"etc">>)
UmountAllThenCopy(v, o) == DirMount(DirCopy(UmountEtc(v), <<"etc">>), <<"etc">>)
\* The private /etc of sandbox(): copied, then the mounts below it removed, then mounted.
FsPrivateEtc(v, o) == DirMount(UmountUsers(DirCopy(v, <<"etc">>), o), <<"etc">>)
=============================================================================
