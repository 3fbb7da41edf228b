------------------------------ MODULE FsProfile ------------------------------
(***************************************************************************)
(* The file-system commands of the profile: fs_whitelist() of              *)
(* fs_whitelist.c and then fs_blacklist() of fs.c, each a pass over the    *)
(* list cfg.profile in its order.  An entry is [cmd, arg]; arg is a path,  *)
(* a pattern of Globs, or the macro of a directory that is not there.      *)
(***************************************************************************)
EXTENDS FsPrivate

CONSTANT RejectTopdirs     \* whitelist-disable-topdir of firejail.config
Macro == <<"${DOWNLOADS}">>
Entry(cmd, arg) == [cmd |-> cmd, arg |-> arg]

\* glob(): the files of the view that match; a path matches itself.
Glob(v, a) == {p \in (IF a \in DOMAIN Globs THEN Globs[a] ELSE {a}) : Present(v, p)}
Fnmatch(pat, p) == pat = p \/ (pat \in DOMAIN Globs /\ p \in Globs[pat])

-----------------------------------------------------------------------------
\* extract_topdir; <<>> when the path is a top level directory itself.
Inside(d, p) == Below(d, p)
ExtractTopdir(p, o) ==
  CASE Inside(HomeDir(o), p) -> HomeDir(o)
    [] ~Inside(HomeDir(o), p) /\ Inside(RunUser, p) -> RunUser
    [] OTHER -> IF Inside(<<"sys", "module">>, p) THEN <<"sys", "module">>
                ELSE IF p[1] = "usr" /\ Len(p) > 1 THEN (IF Len(p) > 2 THEN <<"usr", p[2]>> ELSE <<>>)
                ELSE IF Len(p) > 1 THEN <<p[1]>> ELSE <<>>

\* have_topdir and add_topdir: "bad" ends the sandbox, "skip" the command.
TopDirOf(v, o, dir) ==
  IF dir \in {<<>>, <<"proc">>, <<"sys">>} THEN "bad"
  ELSE IF o \cap {"private", "private="} # {} /\ dir = HomeDir(o) THEN "skip"
  ELSE IF ~Present(v, dir) \/ IsLink(v, dir) \/ dir \in RejectTopdirs THEN "skip"
  ELSE IF ~IsDir(v, dir) THEN "bad" ELSE "top"

\* One command of the first pass.  acc: the top level directories, the paths of
\* nowhitelist commands, what to whitelist, the entries globbing adds, and whether
\* the sandbox ends.
NoWork == [tops |-> <<>>, no |-> {}, work |-> <<>>, more |-> <<>>, bad |-> FALSE]
Checked(v, o, acc, a) ==
  LET dir == IF a = Macro THEN HomeDir(o) ELSE ExtractTopdir(a, o)
      known == \E i \in DOMAIN acc.tops : acc.tops[i] = dir
      verdict == IF known THEN "top" ELSE TopDirOf(v, o, dir)
      acc2 == IF verdict = "top" /\ ~known THEN [acc EXCEPT !.tops = Append(@, dir)] ELSE acc
      file == Realpath(v, a)
  IN IF verdict = "bad" THEN [acc EXCEPT !.bad = TRUE]
     ELSE IF verdict = "skip" \/ a = Macro \/ Under(<<"run", "firejail">>, a) THEN acc2
     ELSE IF file = <<>> THEN [acc2 EXCEPT !.more = @ \o SetToSeq({Entry("whitelist", p) : p \in Glob(v, a)})]
     ELSE IF Under(<<"run", "firejail">>, file) \/ file \in acc2.no THEN acc2
     ELSE [acc2 EXCEPT !.work = Append(@, [top |-> dir, file |-> file, link |-> IF IsLink(v, a) THEN a ELSE <<>>])]
NoWhitelist(v, acc, a) == IF Realpath(v, a) = <<>> THEN acc ELSE [acc EXCEPT !.no = @ \cup {Realpath(v, a)}]
Verify(v, o, acc, e) ==
  IF acc.bad THEN acc
  ELSE CASE e.cmd = "whitelist" -> Checked(v, o, acc, e.arg)
         [] e.cmd = "nowhitelist" -> NoWhitelist(v, acc, e.arg)
         [] OTHER -> acc
\* The first pass; the entries globbing adds are at the end of the list and are processed too.
VerifyAll(v, o, prof) ==
  LET acc == FoldLeft(LAMBDA x, e : Verify(v, o, x, e), NoWork, prof)
  IN FoldLeft(LAMBDA x, e : Verify(v, o, x, e), acc, acc.more)

-----------------------------------------------------------------------------
\* whitelist_mkpath: -1 where an earlier whitelist mount, a file or a link is in the way.
Between(top, file) == {SubSeq(file, 1, i) : i \in (Len(top) + 1)..(Len(file) - 1)}
MkpathFails(x, top, file) == \E d \in Between(top, file) : Present(x, d) /\ (~IsDir(x, d) \/ x[d].m # x[top].m)
Mkpath(x, top, file) == IF Between(top, file) = {} THEN x ELSE MkDirs(x, Front(file), "root")

\* whitelist_file: mounts what the directory showed before its tmpfs (w) on the path.
WhitelistFile(x, w, top, file) ==
  IF \/ ~Below(top, file) \/ ~Present(w, file) \/ IsLink(w, file) \/ MkpathFails(x, top, file)
     \/ (IF IsDir(w, file) THEN Present(x, file) /\ ~IsDir(x, file) ELSE Present(x, file))
  THEN x
  ELSE Bind(MkDir(Mkpath(x, top, file), file, "user"), w, file, file)

\* whitelist_symlink: symlinkat fails if the name is there.
WhitelistSymlink(x, top, link, file) ==
  IF link = <<>> \/ MkpathFails(x, top, link) \/ Present(x, link) THEN x
  ELSE Put(Mkpath(x, top, link), link, <<"new", "link", "root", file>>)

\* tmpfs_topdirs: the home and /run/user/$UID last; /run/firejail and they are restored.
Nested(o) == {HomeDir(o), RunUser}
TmpfsTop(x, w, top, o) ==
  LET empty == FsTmpfs(x, top)
      run == IF top # <<"run">> THEN empty
             ELSE WhitelistFile(Bind(empty, w, <<"run", "firejail">>, <<"run", "firejail">>), w, top, RunUser)
  IN IF top \in Nested(o) THEN x ELSE WhitelistFile(run, w, top, HomeDir(o))
TmpfsInOrder(v, tops, o) ==
  FoldLeft(LAMBDA x, t : IF t = HomeDir(o) THEN FsPrivateHome(x, o) ELSE IF t = RunUser THEN FsTmpfs(x, t) ELSE TmpfsTop(x, v, t, o), v, tops)
TmpfsTopdirs(v, tops, o) ==
  LET outer == FoldLeft(LAMBDA x, t : TmpfsTop(x, v, t, o), v, tops)
      home == IF Contains(tops, HomeDir(o)) THEN FsPrivateHome(outer, o) ELSE outer
  IN IF Contains(tops, RunUser) THEN FsTmpfs(home, RunUser) ELSE home

\* The second pass.
WhitelistAll(v, o, acc) ==
  FoldLeft(LAMBDA x, k : WhitelistSymlink(WhitelistFile(x, v, k.top, k.file), k.top, k.link, k.file),
           TmpfsTopdirs(v, acc.tops, o), acc.work)

-----------------------------------------------------------------------------
\* One entry of fs_blacklist(); acc: the view, and the noblacklist entries so far.
InHome(p, o) == Below(HomeDir(o), p)
MayTmpfs(v, p, o) == IsDir(v, p) /\ ("uid0" \in o \/ (OwnerOf(v[p].c) = "user" /\ InHome(p, o)))
Blacklisted(v, no, a) == {p \in (IF a \in DOMAIN Globs THEN Globs[a] ELSE {a}) : \A n \in no : ~Fnmatch(n, p)}
Command(v, no, e, o) ==
  LET rs == {Target(v, p) : p \in Glob(v, e.arg)} \ {<<>>}
  IN CASE e.cmd = "blacklist" -> DisableFile(v, Blacklisted(v, no, e.arg))
       [] e.cmd \in {"read-only", "read-write", "noexec"} -> FoldSet(LAMBDA p, x : RemountRec(x, p, e.cmd, User(o), TRUE), v, rs)
       [] e.cmd = "tmpfs" -> FoldSet(LAMBDA p, x : IF MayTmpfs(v, p, o) THEN FsTmpfs(x, p) ELSE x, v, rs)
       [] e.cmd = "mkdir" -> FsMkdir(v, e.arg)
       [] e.cmd = "mkfile" -> FsMkfile(v, e.arg)
       [] e.cmd = "bind" -> IF Present(v, e.arg) /\ Present(v, e.on) THEN Bind(v, v, e.arg, e.on) ELSE v
       [] OTHER -> v
BlacklistEntry(acc, e, o) ==
  IF e.cmd = "noblacklist" THEN [acc EXCEPT !.no = @ \cup {e.arg}]
  ELSE [acc EXCEPT !.v = Eager(Command(acc.v, acc.no, e, o))]
NoblacklistFirst(v, prof, o) ==
  FoldLeft(LAMBDA acc, e : BlacklistEntry(acc, e, o),
           [v |-> v, no |-> {e.arg : e \in {x \in ToSet(prof) : x.cmd = "noblacklist"}}], prof).v
FsBlacklist(v, prof, o) == FoldLeft(LAMBDA acc, e : BlacklistEntry(acc, e, o), [v |-> v, no |-> {}], prof).v
=============================================================================
