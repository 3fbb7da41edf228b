------------------------------- MODULE FsTree -------------------------------
(***************************************************************************)
(* What the processes of the sandbox see of the file system, and the mount *)
(* operations firejail builds it with (fs.c, util.c, mountinfo.c).  A view *)
(* gives every path its content and the flags and the mount point of the   *)
(* mount it is on.  A mount changes the view of a whole subtree: what was  *)
(* below the mount point, earlier mounts included, is hidden.              *)
(*                                                                         *)
(* A path is a sequence of names.  The content of a file of the host is    *)
(* <<"host", path>>, of the chroot directory <<"chroot", path>>, of a copy *)
(* <<"copy", path>>; <<"new", kind, owner>> is created by firejail and     *)
(* <<"ro", kind, "root">> is the empty file or directory, readable only by *)
(* root, that is mounted over what is disabled.                            *)
(***************************************************************************)
EXTENDS Integers, Sequences, SequencesExt, FiniteSets

CONSTANTS Host,      \* the files of the host: [path -> [kind, owner, to]]
          Created,   \* the paths the set-up may create
          Globs      \* the patterns: [pattern -> the paths that match it]

Paths == DOMAIN Host \cup Created
Below(d, p) == IsStrictPrefix(d, p)
Under(d, p) == IsPrefix(d, p)
Rest(d, p) == SubSeq(p, Len(d) + 1, Len(p))

Mnt == <<"run", "firejail", "mnt">>

Nothing == [c |-> <<>>, ro |-> FALSE, nx |-> FALSE, m |-> <<>>]
New(kind, owner) == <<"new", kind, owner>>
Original(c) == c # <<>> /\ c[1] \in {"host", "chroot", "copy"}
KindOf(c) == IF c = <<>> THEN "none" ELSE IF Original(c) THEN Host[c[2]].kind ELSE c[2]
OwnerOf(c) == IF Original(c) /\ c[1] # "copy" THEN Host[c[2]].owner ELSE IF Original(c) THEN "root" ELSE c[3]
LinkTo(c) == IF Original(c) THEN Host[c[2]].to ELSE c[4]

Present(v, p) == p \in Paths /\ v[p].c # <<>>
IsDir(v, p) == p \in Paths /\ KindOf(v[p].c) = "dir"
IsLink(v, p) == p \in Paths /\ KindOf(v[p].c) = "link"
HostView == [p \in Paths |-> IF p \in DOMAIN Host THEN [Nothing EXCEPT !.c = <<"host", p>>] ELSE Nothing]

\* v itself; TLC evaluates its entries here instead of at every use.
Eager(v) == CHOOSE w \in {v} : w = w

-----------------------------------------------------------------------------
\* realpath(): <<>> stands for NULL.
RECURSIVE Realpath(_, _)
Realpath(v, p) ==
  LET links == {i \in 1..Len(p) : IsLink(v, SubSeq(p, 1, i))}
      i == CHOOSE n \in links : \A k \in links : n <= k
  IN IF links = {} THEN (IF Present(v, p) THEN p ELSE <<>>)
     ELSE Realpath(v, LinkTo(v[SubSeq(p, 1, i)].c) \o SubSeq(p, i + 1, Len(p)))

\* A file created on the mount of its directory.
Put(v, p, c) == [v EXCEPT ![p] = [v[Front(p)] EXCEPT !.c = c]]
MkDir(v, p, owner) == IF Present(v, p) THEN v ELSE Put(v, p, New("dir", owner))
Nearest(v, p) == SubSeq(p, 1, CHOOSE i \in 0..Len(p) :
                   /\ i = 0 \/ Present(v, SubSeq(p, 1, i))
                   /\ \A k \in (i + 1)..Len(p) : ~Present(v, SubSeq(p, 1, k)))
MkDirs(v, p, owner) == Eager([q \in Paths |-> IF Below(Nearest(v, p), q) /\ Under(q, p)
                                              THEN [v[Nearest(v, p)] EXCEPT !.c = New("dir", owner)] ELSE v[q]])

\* mount("tmpfs", d, ...)
Tmpfs(v, d, owner) ==
  Eager([p \in Paths |-> IF p = d THEN [c |-> New("dir", owner), ro |-> FALSE, nx |-> v[d].nx, m |-> d]
                         ELSE IF Below(d, p) THEN Nothing ELSE v[p]])
\* fs_tmpfs: the owner of the directory is kept.
FsTmpfs(v, d) == Tmpfs(v, d, OwnerOf(v[d].c))

\* mount(s, d, NULL, MS_BIND|MS_REC, NULL) of what w shows below s.
Moved(w, s, d, q) == [w[q] EXCEPT !.m = IF Below(s, w[q].m) THEN d \o Rest(s, w[q].m) ELSE d]
Bind(v, w, s, d) ==
  Eager([p \in Paths |-> IF ~Under(d, p) THEN v[p]
                         ELSE IF s \o Rest(d, p) \in Paths /\ Present(w, s \o Rest(d, p))
                              THEN Moved(w, s, d, s \o Rest(d, p)) ELSE Nothing])
\* A file firejail wrote, mounted over p.
BindNew(v, p) == [v EXCEPT ![p] = [c |-> New("file", "root"), ro |-> FALSE, nx |-> FALSE, m |-> p]]

\* RUN_RO_DIR or RUN_RO_FILE mounted over each path of ps.
Hide(v, ps) ==
  Eager([q \in Paths |-> IF \E p \in ps : Below(p, q) THEN Nothing
                         ELSE IF q \in ps THEN [c |-> <<"ro", IF IsDir(v, q) THEN "dir" ELSE "file", "root">>, ro |-> TRUE, nx |-> FALSE, m |-> q]
                         ELSE v[q]])
DisableFileOrDir(v, ps) == Hide(v, {Realpath(v, p) : p \in ps} \ {<<>>})
\* What disable_file works on: never the firejail program; a link to /dev/null itself.
Target(v, p) ==
  LET r == Realpath(v, p)
  IN IF r = <<"usr", "bin", "firejail">> THEN <<>> ELSE IF r = <<"dev", "null">> /\ IsLink(v, p) THEN p ELSE r
\* disable_file(BLACKLIST_FILE, p): the program directories are not hidden through a link.
Disabled(v, p) == LET f == Target(v, p)
                  IN IF f = <<>> \/ (f \in {<<"bin">>, <<"usr", "bin">>} /\ IsLink(v, p) /\ IsDir(v, f)) THEN {} ELSE {f}
DisableFile(v, ps) == Hide(v, UNION {Disabled(v, p) : p \in ps})

-----------------------------------------------------------------------------
\* fs_remount_simple: the mount point mp may be changed by user u.
MayRemount(v, mp, op, u) ==
  /\ Present(v, mp)
  /\ op \in {"read-write", "read-write-nocheck"} => v[mp].ro
  /\ op = "read-write" => u = "root" \/ OwnerOf(v[mp].c) = u
Flag(n, op) == CASE op = "read-only" -> [n EXCEPT !.ro = TRUE]
                 [] op = "noexec" -> [n EXCEPT !.nx = TRUE]
                 [] OTHER -> [n EXCEPT !.ro = FALSE]
\* fs_remount_rec: d and the mounts below it (build_mount_array), each on its own.
RemountRec(v, d, op, u, rec) ==
  Eager([p \in Paths |->
    LET mp == IF Below(d, v[p].m) THEN v[p].m ELSE d
    IN IF Under(d, p) /\ Present(v, p) /\ (rec \/ mp = d) /\ MayRemount(v, mp, op, u) /\ Flag(v[p], op) # v[p]
       THEN [Flag(v[p], op) EXCEPT !.m = mp] ELSE v[p]])
\* fs_remount
Remount(v, p, op, u, rec) == IF Realpath(v, p) = <<>> THEN v ELSE RemountRec(v, Realpath(v, p), op, u, rec)

\* fs_mkdir and fs_mkfile, in the user's directories; nothing below a file or what is disabled or read-only.
MayCreate(v, p) == LET d == Nearest(v, p) IN d # p /\ IsDir(v, d) /\ v[d].c[1] # "ro" /\ ~v[d].ro
FsMkdir(v, p) == IF MayCreate(v, p) THEN MkDirs(v, p, "user") ELSE v
FsMkfile(v, p) == IF MayCreate(v, p) /\ Nearest(v, p) = Front(p) THEN Put(v, p, New("file", "user")) ELSE v
=============================================================================
