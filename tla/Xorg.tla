--------------------------------- MODULE Xorg ---------------------------------
(***************************************************************************)
(* x11_xorg (--x11=xorg): a new X11 cookie is made by xauth in a directory *)
(* of the sandbox and its file is mounted on ~/.Xauthority.  firejail does *)
(* the mount as root while other programs of the user rename, replace and  *)
(* remove what is in the home directory.                                   *)
(***************************************************************************)
EXTENDS Integers

CONSTANT MaxMoves      \* steps of the other programs

\* Files by their inode: two regular files of the user, a link of the user's
\* (to a file of root), and a file of root.
Inodes == {"mine", "mine2", "link", "roots"}
Names == {"dest", "other"}     \* ~/.Xauthority and another name
NoInode == "none"

VARIABLES jx,        \* where x11_xorg is
          home,      \* [Names -> inode], NoInode if there is none
          cookie,    \* the new file: "none", "empty" or "made"
          dst,       \* inode the descriptor of ~/.Xauthority leads to
          mounted,   \* inode the new file is mounted on
          masked,    \* what the application cannot see any more
          XAUTHORITY,\* the variable: a name, or "unset"
          moves

jvars == <<jx, home, cookie, dst, mounted, masked, XAUTHORITY, moves>>

At(from, to) == jx = from /\ jx' = to

\* An error of a call ends the sandbox, in every step.
XorgFails ==
  /\ jx \notin {"done", "exit"} /\ jx' = "exit"
  /\ UNCHANGED <<home, cookie, dst, mounted, masked, XAUTHORITY, moves>>

\* The checks on DISPLAY and on xauth, whose copy is run.
CopyXauth ==
  /\ At("xauth", "mkstemp")
  /\ UNCHANGED <<home, cookie, dst, mounted, masked, XAUTHORITY, moves>>

MakeFile ==
  /\ At("mkstemp", "generate")
  /\ cookie' = "empty"
  /\ UNCHANGED <<home, dst, mounted, masked, XAUTHORITY, moves>>

\* sbox_run returns only if xauth succeeded; else it ends the sandbox.
Generate ==
  /\ At("generate", "touch")
  /\ cookie' = "made"
  /\ UNCHANGED <<home, dst, mounted, masked, XAUTHORITY, moves>>

\* A file is created if there is none; a dangling link counts as none.
Touch ==
  /\ At("touch", "open")
  /\ home' = IF home["dest"] = NoInode THEN [home EXCEPT !["dest"] = "mine2"] ELSE home
  /\ UNCHANGED <<cookie, dst, mounted, masked, XAUTHORITY, moves>>

\* O_NOFOLLOW: the descriptor is of what has the name now.
OpenDest ==
  /\ At("open", "fstat") /\ home["dest"] # NoInode
  /\ dst' = home["dest"]
  /\ UNCHANGED <<home, cookie, mounted, masked, XAUTHORITY, moves>>

IsUserFile(inode) == inode \in {"mine", "mine2"}

CheckDest ==
  /\ At("fstat", "mount") /\ IsUserFile(dst)
  /\ UNCHANGED <<home, cookie, dst, mounted, masked, XAUTHORITY, moves>>

\* mutant: the file is mounted on the name instead of the descriptor
Followed == IF home["dest"] = "link" THEN "roots" ELSE home["dest"]

MountTarget == dst

BindMountByFd ==
  /\ At("mount", "mountinfo")
  /\ mounted' = MountTarget
  /\ UNCHANGED <<home, cookie, dst, masked, XAUTHORITY, moves>>

\* The last line of /proc/self/mountinfo has the name the inode has now.
CheckMount ==
  /\ At("mountinfo", "blacklist")
  /\ mounted = home["dest"]
  /\ UNCHANGED <<home, cookie, dst, mounted, masked, XAUTHORITY, moves>>

\* The user's own file, if XAUTHORITY names another one.
BlacklistOld ==
  /\ At("blacklist", "setenv")
  /\ masked' = IF XAUTHORITY = "other" /\ home["other"] # NoInode
               THEN masked \cup {home["other"]} ELSE masked
  /\ UNCHANGED <<home, cookie, dst, mounted, XAUTHORITY, moves>>

SetXauthority ==
  /\ At("setenv", "mask")
  /\ XAUTHORITY' = "dest"
  /\ UNCHANGED <<home, cookie, dst, mounted, masked, moves>>

MaskDirectory ==
  /\ At("mask", "done")
  /\ masked' = masked \cup {"secdir"}
  /\ UNCHANGED <<home, cookie, dst, mounted, XAUTHORITY, moves>>

\* External: other programs of the user, until x11_xorg has looked at the mount;
\* later changes of the name are not followed.
Others ==
  /\ moves < MaxMoves /\ moves' = moves + 1
  /\ jx \in {"xauth", "mkstemp", "generate", "touch", "open", "fstat", "mount", "mountinfo"}
  /\ \/ home' = [home EXCEPT !["dest"] = home["other"], !["other"] = home["dest"]]
     \/ \E inode \in {"mine", "link", NoInode} :
          /\ inode \notin {home[n] : n \in Names} \ {NoInode}
          /\ home' = [home EXCEPT !["dest"] = inode]
  /\ UNCHANGED <<jx, cookie, dst, mounted, masked, XAUTHORITY>>

JInit ==
  /\ jx = "xauth"
  /\ home \in {h \in [Names -> {"mine", "link", NoInode}] :
                 h["dest"] # h["other"] \/ h["dest"] = NoInode}
  /\ XAUTHORITY \in Names \cup {"unset"}
  /\ cookie = "none" /\ dst = NoInode /\ mounted = NoInode /\ masked = {} /\ moves = 0

JNext ==
  \/ XorgFails \/ CopyXauth \/ MakeFile \/ Generate \/ Touch \/ OpenDest \/ CheckDest
  \/ BindMountByFd \/ CheckMount \/ BlacklistOld \/ SetXauthority \/ MaskDirectory
  \/ Others

-----------------------------------------------------------------------------
\* Whatever the user's other programs do to the home directory between any two
\* steps, root mounts the new file only over a regular file of the user; and
\* when x11_xorg goes on, ~/.Xauthority, the file XAUTHORITY names, was the one
\* that was mounted over (the descriptor and the look at mountinfo in x11_xorg).
CookieInPlace ==
  /\ mounted # NoInode => IsUserFile(mounted) /\ cookie = "made"
  /\ jx = "done" => home[XAUTHORITY] = mounted
==============================================================================
