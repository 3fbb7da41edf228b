-------------------------------- MODULE Fcopy --------------------------------
(***************************************************************************)
(* fcopy [--follow-link] SRC DEST: copies a file, a link or a directory    *)
(* into the directory DEST, for the private-* options of firejail.         *)
(* A directory is walked in preorder, every entry handled by fs_copydir,   *)
(* with a limit on the total size.  While it runs the source may change:   *)
(* entries disappear and files grow; and a write may fail.                 *)
(***************************************************************************)
EXTENDS Integers, Sequences, FiniteSets

CONSTANTS copy_limit,   \* FIREJAIL_FILE_COPY_LIMIT
          MaxSize,      \* sizes are 1..MaxSize
          MaxChanges    \* changes of the source by others during the copy

ASSUME CopyAssumption == copy_limit \in Nat /\ MaxSize \in Nat

(***************************************************************************)
(* The tree: the source directory itself, a file, a directory with a file, *)
(* and a link, in the order of nftw.                                       *)
(***************************************************************************)
Walk == <<"top", "file", "dir", "dir/file", "link">>
Entries == {Walk[i] : i \in DOMAIN Walk}
TypeOf(e) == IF e \in {"top", "dir"} THEN "dir" ELSE IF e = "link" THEN "link" ELSE "file"

VARIABLES src,        \* [Entries -> [size, there, to]]: to is where a link leads
          dest,       \* [Entries -> [what, len, to]]
          cp,         \* "start", "walk", "copying" or "end"
          srckind,    \* what SRC is: "dir", "file" or "link"
          at,         \* the entry nftw is at, a position in Walk
          size_cnt,
          size_limit_reached,
          changes,    \* changes of the source so far
          failed      \* something could not be copied (history)

cvars == <<src, dest, cp, srckind, at, size_cnt, size_limit_reached, changes, failed>>

Dest(what, len, to) == [what |-> what, len |-> len, to |-> to]
Nothing == Dest("none", 0, "nowhere")
Old == Dest("old", 0, "nowhere")

Cur == Walk[at]
Finish == cp' = "end"
More == srckind = "dir" /\ at < Len(Walk)
NextEntry ==
  /\ cp' = IF More THEN "walk" ELSE "end"
  /\ at' = IF More THEN at + 1 ELSE at

(***************************************************************************)
(* check, on the source and on the destination: the owner must be the      *)
(* caller, the type a directory, a link or a regular file.                 *)
(***************************************************************************)
CheckFails ==
  /\ cp = "start"
  /\ Finish /\ failed' = TRUE
  /\ UNCHANGED <<src, dest, srckind, at, size_cnt, size_limit_reached, changes>>

duplicate ==
  /\ cp = "start"
  /\ cp' = "walk"
  /\ at' = CASE srckind = "dir" -> 1 [] srckind = "file" -> 2 [] srckind = "link" -> 5
  /\ UNCHANGED <<src, dest, srckind, size_cnt, size_limit_reached, changes, failed>>

(***************************************************************************)
(* copy_link: the new link leads where the old one leads in the end; a     *)
(* path below /proc/PID of fcopy itself becomes one below /proc/self.      *)
(***************************************************************************)
proc_pid_to_self(to) == IF to = "proc-pid" THEN "proc-self" ELSE to

copy_link(e) ==
  IF src[e].to = "nowhere"
  THEN failed' = TRUE /\ UNCHANGED dest
  ELSE /\ dest' = [dest EXCEPT ![e] = Dest("link", 0, proc_pid_to_self(src[e].to))]
       /\ UNCHANGED failed

(***************************************************************************)
(* copy_file: open both files, copy until the end of the source, remove    *)
(* the copy when a read or a write fails.                                  *)
(***************************************************************************)
OpenFails ==
  /\ failed' = TRUE /\ NextEntry /\ UNCHANGED dest

OpenFiles(e) ==
  /\ src[e].there
  /\ dest' = [dest EXCEPT ![e] = Dest("partial", 0, "nowhere")]
  /\ cp' = "copying" /\ UNCHANGED <<at, failed>>

WriteSome ==
  /\ cp = "copying" /\ dest[Cur].len < src[Cur].size
  /\ dest' = [dest EXCEPT ![Cur].len = @ + 1]
  /\ UNCHANGED <<src, cp, srckind, at, size_cnt, size_limit_reached, changes, failed>>

EndOfFile ==
  /\ cp = "copying" /\ dest[Cur].len = src[Cur].size
  /\ dest' = [dest EXCEPT ![Cur].what = "copy"]
  /\ NextEntry
  /\ UNCHANGED <<src, srckind, size_cnt, size_limit_reached, changes, failed>>

Discarded(e) == [dest EXCEPT ![e] = Nothing]

WriteFails ==
  /\ cp = "copying"
  /\ dest' = Discarded(Cur)
  /\ failed' = TRUE /\ NextEntry
  /\ UNCHANGED <<src, srckind, size_cnt, size_limit_reached, changes>>

(***************************************************************************)
(* fs_copydir, for the entry nftw is at.                                   *)
(***************************************************************************)
Skip ==
  /\ size_limit_reached \/ dest[Cur].what # "none" \/ ~src[Cur].there
  /\ NextEntry
  /\ UNCHANGED <<dest, size_cnt, size_limit_reached, failed>>

\* mutant: the limit is tested without what was copied before
TooLargeAlone(e) == src[e].size > copy_limit

TooLarge(e) == src[e].size + size_cnt > copy_limit

LimitReached ==
  /\ TooLarge(Cur)
  /\ size_limit_reached' = TRUE
  /\ NextEntry
  /\ UNCHANGED <<dest, size_cnt, failed>>

CopyEntry ==
  /\ ~TooLarge(Cur)
  /\ size_cnt' = size_cnt + src[Cur].size
  /\ UNCHANGED size_limit_reached
  /\ \/ TypeOf(Cur) = "file" /\ (OpenFiles(Cur) \/ OpenFails)
     \/ /\ TypeOf(Cur) = "dir"             \* mkdir_attr: an error ends fcopy
        /\ \/ /\ dest' = [dest EXCEPT ![Cur] = Dest("dir", 0, "nowhere")]
              /\ NextEntry /\ UNCHANGED failed
           \/ Finish /\ failed' = TRUE /\ UNCHANGED <<dest, at>>
     \/ TypeOf(Cur) = "link" /\ copy_link(Cur) /\ NextEntry

fs_copydir ==
  /\ cp = "walk" /\ srckind = "dir"
  /\ \/ Skip
     \/ /\ ~size_limit_reached /\ dest[Cur].what = "none" /\ src[Cur].there
        /\ LimitReached \/ CopyEntry
  /\ UNCHANGED <<src, srckind, changes>>

(***************************************************************************)
(* duplicate_file and duplicate_link: one entry, without a limit.          *)
(***************************************************************************)
duplicate_file ==
  /\ cp = "walk" /\ srckind = "file"
  /\ \/ dest[Cur].what # "none" /\ NextEntry /\ UNCHANGED <<dest, failed>>
     \/ dest[Cur].what = "none" /\ (OpenFiles(Cur) \/ OpenFails)
  /\ UNCHANGED <<src, srckind, size_cnt, size_limit_reached, changes>>

duplicate_link ==
  /\ cp = "walk" /\ srckind = "link"
  /\ IF dest[Cur].what # "none" THEN UNCHANGED <<dest, failed>> ELSE copy_link(Cur)
  /\ NextEntry
  /\ UNCHANGED <<src, srckind, size_cnt, size_limit_reached, changes>>

\* External: others write to the source while it is copied.
SourceChanges ==
  /\ cp # "end" /\ changes < MaxChanges
  /\ changes' = changes + 1
  /\ \E e \in {"file", "dir/file"} :
       /\ src[e].there
       /\ \/ src' = [src EXCEPT ![e].size = @ + 1]
          \/ ~(cp = "copying" /\ e = Cur) /\ src' = [src EXCEPT ![e].there = FALSE]
  /\ UNCHANGED <<dest, cp, srckind, at, size_cnt, size_limit_reached, failed>>

\* Directories and links count with their own size.
SourceSizes == {f \in [Entries -> 0..MaxSize] :
                  \A e \in Entries : IF TypeOf(e) = "file" THEN f[e] > 0
                                     ELSE f[e] = IF TypeOf(e) = "dir" THEN 1 ELSE 0}

CInit ==
  /\ \E sizes \in SourceSizes, to \in {"target", "proc-pid", "nowhere"} :
       src = [e \in Entries |-> [size |-> sizes[e], there |-> TRUE, to |-> to]]
  /\ \E old \in SUBSET {"file", "dir", "link"} :
       dest = [e \in Entries |-> IF e \in old \cup {"top"} THEN Old ELSE Nothing]
  /\ srckind \in {"dir", "file", "link"}
  /\ cp = "start" /\ at = 1 /\ size_cnt = 0 /\ size_limit_reached = FALSE
  /\ changes = 0 /\ failed = FALSE

CNext ==
  \/ CheckFails \/ duplicate \/ fs_copydir \/ duplicate_file \/ duplicate_link
  \/ WriteSome \/ EndOfFile \/ WriteFails \/ SourceChanges

-----------------------------------------------------------------------------
\* Only files have a length.
BytesCopied == dest["file"].len + dest["dir/file"].len

CopiedAll == \A e \in Entries : dest[e].what # "none"

\* Whatever fails and whatever changes in the source while it is copied: what
\* was in the destination before is left alone, and in the end no file is there
\* in part and no link leads to the process that copied it.  A directory from
\* a source at rest is copied within the limit, and completely if the limit was
\* not reached and nothing failed (fs_copydir, copy_file, copy_link).
CopyFaithful ==
  [][/\ \A e \in Entries : dest[e] = Old => dest'[e] = Old
     /\ cp' = "end" => /\ \A e \in Entries : /\ dest'[e].what # "partial"
                                             /\ dest'[e].to # "proc-pid"
                       /\ srckind = "dir" /\ changes = 0 =>
                            /\ BytesCopied' <= copy_limit
                            /\ (failed \/ size_limit_reached \/ CopiedAll)']_cvars
==============================================================================
