----------------------------- MODULE ToolsProofs ----------------------------
(***************************************************************************)
(* Proofs about the programs firejail is made of: the privileges of        *)
(* applications and helpers, for all options and lists of capabilities;    *)
(* the X11 cookie, for any number of steps of the user's other programs;   *)
(* the X11 session, for any number of starters and displays; the copies    *)
(* fcopy makes, for all sizes and limits.                                  *)
(***************************************************************************)
EXTENDS Privileges, Xorg, X11Session, Fcopy, TLAPS

(***************************************************************************)
(* Privileges                                                              *)
(***************************************************************************)

AppSteps == {"caps", "userns", "recaps", "nnp", "drop", "exec", "run", "again", "died"}
HelperSteps == {"sbox", "sboxcaps", "sboxfilter", "sboxuser", "sboxprog", "run", "exited",
                "killed", "died"}

PType ==
  /\ job \in {"app", "helper"} /\ rootuser \in BOOLEAN
  /\ cap \in [eff : SUBSET Caps, bset : SUBSET Caps]
  /\ job = "app" => pp \in AppSteps /\ ~({"drop", "keep"} \subseteq arg)
  /\ job = "helper" => pp \in HelperSteps /\ mask \in Masks /\ prog \subseteq {"uid0", "gid0", "writable"}

\* The bounding set is what was asked for, from the first call of set_caps (or of
\* caps_set in a helper) on, but for the start of a user namespace.
BoundingSet ==
  /\ job = "app" /\ pp \in {"userns", "nnp", "drop", "exec", "run", "again"} => cap.bset \subseteq Asked
  /\ job = "app" /\ pp = "recaps" /\ "userns" \notin conf => cap.bset \subseteq Asked
  /\ job = "helper" /\ pp \in {"sboxfilter", "sboxuser", "sboxprog", "run"} => cap.bset \subseteq Asked
  /\ pp \in {"run", "again"} => cap.eff \subseteq cap.bset

\* What a helper has been given by the time it runs.
HelperSet ==
  job = "helper" =>
    /\ caller = "returns" => pp = "exited"
    /\ pp \in {"sboxcaps", "sboxfilter", "sboxuser", "sboxprog", "run", "exited"}
         => {"newenv", "fdsclosed"} \subseteq conf
    /\ pp \in {"sbox", "sboxcaps", "sboxfilter", "sboxuser"} => "user" \notin conf
    /\ pp \in {"sboxprog", "run", "exited"} => ("user" \in conf <=> "user" \in mask)
    /\ pp \in {"run", "exited"} => /\ "writable" \notin prog /\ prog # {}
                                   /\ "user" \in mask /\ ~rootuser => cap.eff = {}

PIInv == PType /\ BoundingSet /\ HelperSet

\* Nothing has been dropped or given yet.
LEMMA PInitIInv == PInit => PIInv
BY DEF PInit, PIInv, PType, BoundingSet, HelperSet, AppSteps, HelperSteps, Caps

\* set_caps leaves at most what was asked for.
LEMMA SetCaps ==
  ASSUME PType, job = "app"
  PROVE  /\ set_caps \in [eff : SUBSET Caps, bset : SUBSET Caps]
         /\ set_caps.bset \subseteq Asked
<1> DEFINE CapSets == [eff : SUBSET Caps, bset : SUBSET Caps]
<1>1. Selected \in CapSets /\ Selected.bset \subseteq Asked
  <2>1. ASSUME NEW S PROVE Keeps(S) \in CapSets /\ Keeps(S).bset = cap.bset \cap S
    BY DEF PType, Keeps
  <2>2. cap \in CapSets /\ cap.bset \subseteq Caps
    BY DEF PType
  <2> QED
    BY <2>1, <2>2 DEF PType, Selected, caps_drop_all, caps_drop_list, caps_keep_list,
       caps_default_filter, caps_set, Asked
<1>2. /\ caps_drop_dac_override(Selected) \in CapSets
      /\ caps_drop_dac_override(Selected).bset \subseteq Selected.bset
  BY <1>1 DEF caps_drop_dac_override
<1> QED
  BY <1>1, <1>2 DEF set_caps

\* Every step of the application and of the helper keeps the invariant.
LEMMA PStep ==
  ASSUME PIInv, PNext
  PROVE  PIInv'
<1> USE DEF PIInv, PType, BoundingSet, HelperSet, AppSteps, HelperSteps, Go, Rest
<1>1. CASE Fails
  BY <1>1 DEF Fails, Asked, MaskCaps
<1>2. CASE CapsRefused
  BY <1>2 DEF CapsRefused, Asked, MaskCaps
<1>3. CASE CapsFirst
  BY <1>3, SetCaps DEF CapsFirst, Asked
<1>4. CASE NewUserNamespace
  BY <1>4 DEF NewUserNamespace, Asked
<1>5. CASE CapsAgain
  BY <1>5, SetCaps DEF CapsAgain, CapsInUserns, Asked
<1>6. CASE NoNewPrivs
  BY <1>6 DEF NoNewPrivs, Asked
<1>7. CASE drop_privs
  BY <1>7 DEF drop_privs, AsUser, Asked
<1>8. CASE AppExec
  BY <1>8 DEF AppExec, Exec, Asked
<1>9. CASE SuidExec
  BY <1>9 DEF SuidExec, Exec, Asked
<1>10. CASE SboxEnvironment
  BY <1>10 DEF SboxEnvironment, Stdin
<1>11. CASE SboxCaps
  BY <1>11 DEF SboxCaps, caps_drop_all, caps_set, Keeps, Asked, MaskCaps, Caps
<1>12. CASE SboxFilter
  BY <1>12 DEF SboxFilter, Asked, MaskCaps
<1>13. CASE SboxUser
  BY <1>13 DEF SboxUser, AsUser, Asked, MaskCaps
<1>14. CASE SboxRefuses
  BY <1>14 DEF SboxRefuses, Asked, MaskCaps
<1>15. CASE SboxExec
  BY <1>15 DEF SboxExec, Exec, Trusted, Asked, MaskCaps, Masks
<1>16. CASE HelperEnds
  BY <1>16 DEF HelperEnds, Asked, MaskCaps
<1>17. CASE sbox_run_v
  BY <1>17 DEF sbox_run_v, Succeeded, Asked, MaskCaps
<1> QED
  BY Zenon, <1>1, <1>2, <1>3, <1>4, <1>5, <1>6, <1>7, <1>8, <1>9, <1>10, <1>11, <1>12, <1>13,
     <1>14, <1>15, <1>16, <1>17 DEF PNext

\* What programs get from firejail is bounded by the options and by the masks of
\* the helpers, for every list of capabilities (set_caps, sbox_do_exec_v).
THEOREM PrivilegesAreBounded == PInit /\ [][PNext]_pvars => []PrivilegesBounded
<1>1. PIInv /\ [PNext]_pvars => PIInv'
  <2> SUFFICES ASSUME PIInv, [PNext]_pvars PROVE PIInv'
    OBVIOUS
  <2>1. CASE PNext
    BY <2>1, PStep
  <2>2. CASE UNCHANGED pvars
    BY <2>2 DEF pvars, PIInv, PType, BoundingSet, HelperSet, Asked, MaskCaps
  <2> QED
    BY <2>1, <2>2
<1>2. PIInv => PrivilegesBounded
  BY DEF PIInv, PType, BoundingSet, HelperSet, PrivilegesBounded, CapsBounded, HelperAsAsked,
     AppSteps, HelperSteps
<1> QED
  BY <1>1, <1>2, PInitIInv, PTL

(***************************************************************************)
(* The X11 cookie                                                          *)
(***************************************************************************)

\* What x11_xorg has done when it gets to each of its steps.
Early == {"xauth", "mkstemp", "generate"}
Before == Early \cup {"touch", "open", "fstat", "mount"}
Looked == {"blacklist", "setenv", "mask", "done"}

JIInv ==
  /\ jx \in Before \cup Looked \cup {"mountinfo", "exit"}
  /\ jx \notin Early \cup {"exit"} => cookie = "made"
  /\ jx \in Before => mounted = NoInode
  /\ jx = "mount" => IsUserFile(dst)
  /\ mounted # NoInode => IsUserFile(mounted) /\ cookie = "made"
  /\ jx \in Looked => home["dest"] = mounted
  /\ jx \in {"mask", "done"} => XAUTHORITY = "dest"

\* The new cookie is mounted over a file of the user only, and where the
\* application looks for it, whatever other programs do to the home directory
\* and however often (x11_xorg).
THEOREM CookieIsInPlace == JInit /\ [][JNext]_jvars => []CookieInPlace
<1>1. JInit => JIInv
  BY DEF JInit, JIInv, Early, Before, Looked
<1>2. JIInv /\ [JNext]_jvars => JIInv'
  <2> SUFFICES ASSUME JIInv, [JNext]_jvars PROVE JIInv'
    OBVIOUS
  <2> USE DEF JIInv, Early, Before, Looked, At, IsUserFile, NoInode
  <2>1. CASE XorgFails \/ CopyXauth \/ MakeFile \/ Generate \/ Touch \/ OpenDest
    BY <2>1 DEF XorgFails, CopyXauth, MakeFile, Generate, Touch, OpenDest
  <2>2. CASE CheckDest \/ BindMountByFd \/ CheckMount
    BY <2>2 DEF CheckDest, BindMountByFd, MountTarget, CheckMount
  <2>3. CASE BlacklistOld \/ SetXauthority \/ MaskDirectory
    BY <2>3 DEF BlacklistOld, SetXauthority, MaskDirectory
  <2>4. CASE Others
    BY <2>4 DEF Others
  <2>5. CASE UNCHANGED jvars
    BY <2>5 DEF jvars
  <2> QED
    BY <2>1, <2>2, <2>3, <2>4, <2>5 DEF JNext
<1>3. JIInv => CookieInPlace
  BY DEF JIInv, CookieInPlace, Looked
<1> QED
  BY <1>1, <1>2, <1>3, PTL

(***************************************************************************)
(* The X11 session                                                         *)
(***************************************************************************)

\* Before AttachJail there is no sandbox; a starter that had one and has ended
\* leaves nothing running.
XIInv ==
  /\ x \in [Starters -> {"start", "pick", "abstract", "params", "fork", "wait", "attach",
                         "first", "funeral", "end"}]
  /\ xsrv \in [Starters -> {"none", "starts", "up", "dead"}]
  /\ jail \in [Starters -> {"none", "up", "dead"}]
  /\ \A s \in Starters : x[s] \notin {"first", "funeral", "end"} => jail[s] = "none"
  /\ \A s \in Starters : x[s] = "end" /\ jail[s] # "none" => jail[s] = "dead" /\ xsrv[s] = "dead"

\* Every step keeps the invariant: only AttachJail makes a sandbox, and only the
\* second wait ends a starter that has one.
LEMMA XStep == XIInv /\ [XNext]_xvars => XIInv'
<1> SUFFICES ASSUME XIInv, [XNext]_xvars PROVE XIInv'
  OBVIOUS
<1> USE DEF XIInv
<1>1. ASSUME NEW s \in Starters, StarterStep(s) PROVE XIInv'
  <2>1. CASE Refused(s) \/ Begin(s) \/ NoNumber(s)
    BY <2>1 DEF Refused, Begin, NoNumber
  <2>2. CASE PickNumber(s) \/ TryAbstract(s)
    BY <2>2 DEF PickNumber, TryAbstract
  <2>3. CASE XvfbParams(s) \/ XephyrParams(s)
    BY <2>3 DEF XvfbParams, XephyrParams, ParamsRead
  <2>4. CASE ForkServer(s)
    BY <2>4 DEF ForkServer
  <2>5. CASE WaitForSocket(s)
    BY <2>5 DEF WaitForSocket
  <2>6. CASE AttachJail(s)
    BY <2>6 DEF AttachJail
  <2>7. CASE WaitFirst(s) \/ Funeral(s)
    BY <2>7 DEF WaitFirst, Funeral, FuneralOver
  <2> QED
    BY <1>1, <2>1, <2>2, <2>3, <2>4, <2>5, <2>6, <2>7
    DEF StarterStep, x11_start_xvfb, x11_start_xephyr, SessionSteps
<1>2. ASSUME NEW s \in Starters, ServerUp(s) \/ ServerFails(s) \/ ServerEnds(s)
      PROVE  XIInv'
  BY <1>2 DEF ServerUp, ServerFails, ServerEnds
<1>3. ASSUME NEW s \in Starters, JailEnds(s) PROVE XIInv'
  BY <1>3 DEF JailEnds
<1>4. CASE HostServer \/ UNCHANGED xvars
  BY <1>4 DEF HostServer, xvars
<1> QED
  BY <1>1, <1>2, <1>3, <1>4 DEF XNext

\* However many starters and displays there are: when a starter that got as far
\* as its sandbox ends, neither the sandbox nor the X server is alive (the two
\* waits of x11_start_xephyr and x11_start_xvfb).  It is the safety half of
\* DisplayIsOwn.
THEOREM StarterDoesEndLast == XInit /\ [][XNext]_xvars => []StarterEndsLast
<1>1. XInit => XIInv
  BY DEF XInit, XIInv
<1>2. XIInv => StarterEndsLast
  BY DEF XIInv, StarterEndsLast, Alive
<1> QED
  BY <1>1, <1>2, XStep, PTL

(***************************************************************************)
(* Copying                                                                 *)
(***************************************************************************)

Targets == {"target", "proc-pid", "nowhere"}
DestKinds == {"none", "old", "dir", "link", "partial", "copy"}

CType ==
  /\ src \in [Entries -> [size : Nat, there : BOOLEAN, to : Targets]]
  /\ dest \in [Entries -> [what : DestKinds, len : Nat, to : {"target", "proc-self", "nowhere"}]]
  /\ cp \in {"start", "walk", "copying", "end"} /\ srckind \in {"dir", "file", "link"}
  /\ at \in 1..5 /\ size_cnt \in Nat /\ changes \in Nat
  /\ size_limit_reached \in BOOLEAN /\ failed \in BOOLEAN
  /\ \/ srckind = "dir" \/ cp \in {"start", "end"}
     \/ srckind = "file" /\ at = 2
     \/ srckind = "link" /\ at = 5

\* A file is there in part only while it is copied, and is then the one at
\* hand; nothing else has a length, and no copy is longer than its source.
CopiesWhole ==
  /\ cp = "copying" => at \in {2, 4}
  /\ \A e \in Entries : dest[e].what = "partial" <=> cp = "copying" /\ e = Cur
  /\ \A e \in Entries : /\ dest[e].len <= src[e].size
                        /\ dest[e].what \notin {"partial", "copy"} => dest[e].len = 0
                        /\ dest[e].what \in {"partial", "copy"} => e \in {"file", "dir/file"}

\* The size of a file that is or will be in the destination.
Share(e) == IF dest[e].what \in {"partial", "copy"} THEN src[e].size ELSE 0

\* What has been counted, and what has been copied, of a source at rest.
CopiesCounted ==
  srckind = "dir" /\ changes = 0 =>
    /\ \A e \in Entries : src[e].there
    /\ Share("file") + Share("dir/file") <= size_cnt /\ size_cnt <= copy_limit
    /\ ~failed /\ ~size_limit_reached =>
         \A i \in 1..5 : i < at \/ cp = "end" => dest[Walk[i]].what # "none"
    /\ cp = "start" => at = 1

CIInv == CType /\ CopiesWhole /\ CopiesCounted

\* The five entries of the tree.
LEMMA WalkEntries ==
  /\ Walk[1] = "top" /\ Walk[2] = "file" /\ Walk[3] = "dir" /\ Walk[4] = "dir/file"
  /\ Walk[5] = "link" /\ Len(Walk) = 5
  /\ Entries = {"top", "file", "dir", "dir/file", "link"}
<1>1. /\ Walk[1] = "top" /\ Walk[2] = "file" /\ Walk[3] = "dir" /\ Walk[4] = "dir/file"
      /\ Walk[5] = "link" /\ Len(Walk) = 5
  BY DEF Walk
<1>2. DOMAIN Walk = 1..5
  BY DEF Walk
<1> QED
  BY <1>1, <1>2 DEF Entries

\* The entry nftw is at, by its position.
LEMMA CurrentEntry ==
  ASSUME at \in 1..5
  PROVE  /\ Cur \in Entries
         /\ TypeOf(Cur) = "file" <=> at \in {2, 4}
         /\ TypeOf(Cur) = "file" => Cur \in {"file", "dir/file"}
         /\ \A i \in 1..5 : Walk[i] = Cur <=> i = at
<1>1. at = 1 \/ at = 2 \/ at = 3 \/ at = 4 \/ at = 5
  OBVIOUS
<1>2. \A i \in 1..5 : i = 1 \/ i = 2 \/ i = 3 \/ i = 4 \/ i = 5
  OBVIOUS
<1> QED
  BY <1>1, <1>2, WalkEntries DEF Cur, TypeOf

\* nftw goes on to the entry that follows, and ends after the last.
LEMMA NextEntryIs ==
  ASSUME CType, cp = "walk" \/ cp = "copying", NextEntry
  PROVE  /\ at' \in 1..5 /\ cp' \in {"walk", "end"}
         /\ cp' = "walk" => srckind = "dir" /\ at' = at + 1
         /\ cp' = "end" /\ srckind = "dir" => at = 5
         /\ srckind = "dir" /\ (\A i \in 1..5 : i <= at => dest'[Walk[i]].what # "none")
              => \A i \in 1..5 : i < at' \/ cp' = "end" => dest'[Walk[i]].what # "none"
BY WalkEntries DEF CType, NextEntry, More

\* What an entry of the destination may become, if it was not there or is being
\* written: nothing, a part that is being written, or a whole.
MayBecome(d, e) ==
  /\ d \in [what : DestKinds, len : Nat, to : {"target", "proc-self", "nowhere"}]
  /\ d.len <= src[e].size
  /\ d.what \notin {"partial", "copy"} => d.len = 0
  /\ d.what \in {"partial", "copy"} => e \in {"file", "dir/file"}

\* What a step does that settles the current entry and goes on.  Unless it
\* reports an error or the limit, the entry is there afterwards.
Settles(d) ==
  /\ cp = "walk" \/ cp = "copying"
  /\ NextEntry /\ MayBecome(d, Cur)
  /\ d.what # "partial" /\ dest' = [dest EXCEPT ![Cur] = d]
  /\ d.what = "copy" => dest[Cur].what \in {"partial", "copy"}
  /\ srckind = "dir" /\ changes = 0 => d.what # "none" \/ failed' \/ size_limit_reached'
  /\ size_cnt' \in Nat /\ size_cnt <= size_cnt'
  /\ srckind = "dir" /\ changes = 0 => size_cnt' <= copy_limit
  /\ failed' \in BOOLEAN /\ size_limit_reached' \in BOOLEAN
  /\ (failed => failed') /\ (size_limit_reached => size_limit_reached')
  /\ UNCHANGED <<src, srckind, changes>>

\* Such a step keeps the invariant.
LEMMA EntrySettled ==
  ASSUME CIInv, NEW d, Settles(d)
  PROVE  CIInv'
<1> USE DEF Settles
<1>1. at \in 1..5 /\ Cur \in Entries /\ dest \in [Entries -> [what : DestKinds, len : Nat, to : {"target", "proc-self", "nowhere"}]]
  BY CurrentEntry DEF CIInv, CType
<1>2. dest'[Cur] = d /\ \A e \in Entries \ {Cur} : dest'[e] = dest[e]
  BY <1>1
<1>3. /\ at' \in 1..5 /\ cp' \in {"walk", "end"} /\ (cp' = "walk" => srckind = "dir")
  BY NextEntryIs DEF CIInv
<1>4. CType'
  BY <1>1, <1>3 DEF CIInv, CType, MayBecome
<1>5. CopiesWhole'
  BY <1>1, <1>2, <1>3 DEF CIInv, CopiesWhole, MayBecome
<1>6. CopiesCounted'
  <2> SUFFICES ASSUME srckind = "dir", changes = 0
               PROVE  CopiesCounted'
    BY DEF CopiesCounted
  <2>1. \A e \in {"file", "dir/file"} : Share(e)' <= Share(e) /\ Share(e) \in Nat /\ Share(e)' \in Nat
    <3> SUFFICES ASSUME NEW e \in {"file", "dir/file"}
                 PROVE  Share(e)' <= Share(e) /\ Share(e) \in Nat /\ Share(e)' \in Nat
      OBVIOUS
    <3>1. e \in Entries /\ src[e].size \in Nat
      BY WalkEntries DEF CIInv, CType
    <3>2. CASE e = Cur
      BY <1>1, <1>2, <3>1, <3>2 DEF Share, CIInv, CopiesWhole
    <3>3. CASE e # Cur
      BY <1>2, <3>1, <3>3 DEF Share
    <3> QED
      BY <3>2, <3>3
  <2>2. Share("file")' + Share("dir/file")' <= size_cnt'
    BY <2>1 DEF CIInv, CopiesCounted, CType
  <2>3. ASSUME ~failed', ~size_limit_reached'
        PROVE  \A i \in 1..5 : i < at' \/ cp' = "end" => dest'[Walk[i]].what # "none"
    <3>1. \A i \in 1..5 : i < at => dest[Walk[i]].what # "none"
      BY <2>3 DEF CIInv, CopiesCounted, CType
    <3>2. \A i \in 1..5 : i <= at => dest'[Walk[i]].what # "none"
      <4> SUFFICES ASSUME NEW i \in 1..5, i <= at PROVE dest'[Walk[i]].what # "none"
        OBVIOUS
      <4>1. CASE i = at
        BY <1>2, <2>3, <4>1 DEF Cur
      <4>2. CASE i < at
        <5>1. Walk[i] \in Entries \ {Cur}
          BY <1>1, <4>2, CurrentEntry DEF Entries, Walk
        <5> QED
          BY <1>2, <3>1, <4>2, <5>1
      <4> QED
        BY <1>1, <4>1, <4>2
    <3> QED
      BY <3>2, NextEntryIs DEF CIInv
  <2> QED
    BY <1>3, <2>2, <2>3 DEF CIInv, CopiesCounted
<1> QED
  BY <1>4, <1>5, <1>6 DEF CIInv

\* An entry is left as it is.
LEMMA EntryLeft ==
  ASSUME CIInv, cp = "walk", NextEntry, UNCHANGED dest,
         srckind = "dir" /\ changes = 0 => dest[Cur].what # "none" \/ failed' \/ size_limit_reached',
         size_cnt' \in Nat, size_cnt <= size_cnt',
         srckind = "dir" /\ changes = 0 => size_cnt' <= copy_limit,
         failed' \in BOOLEAN, size_limit_reached' \in BOOLEAN, failed => failed',
         size_limit_reached => size_limit_reached',
         UNCHANGED <<src, srckind, changes>>
  PROVE  CIInv'
<1>1. Cur \in Entries
  BY CurrentEntry DEF CIInv, CType
<1>2. MayBecome(dest[Cur], Cur) /\ dest[Cur].what # "partial"
  BY <1>1 DEF MayBecome, CIInv, CType, CopiesWhole
<1>3. dest' = [dest EXCEPT ![Cur] = dest[Cur]]
  BY <1>1 DEF CIInv, CType
<1>4. Settles(dest[Cur])
  BY Zenon, <1>2, <1>3 DEF Settles
<1> QED
  BY <1>4, EntrySettled

\* fcopy gives up with an error.
LEMMA CopyGivesUp ==
  ASSUME CIInv, cp # "copying", cp' = "end", failed' = TRUE, at' = at,
         size_cnt' \in Nat, size_cnt <= size_cnt',
         srckind = "dir" /\ changes = 0 => size_cnt' <= copy_limit,
         UNCHANGED <<src, dest, srckind, size_limit_reached, changes>>
  PROVE  CIInv'
<1>1. CType'
  BY DEF CIInv, CType
<1>2. CopiesWhole'
  BY DEF CIInv, CopiesWhole, Cur
<1>3. CopiesCounted'
  <2>1. \A e \in {"file", "dir/file"} : Share(e)' = Share(e) /\ Share(e) \in Nat
    BY WalkEntries DEF Share, CIInv, CType
  <2> QED
    BY <2>1 DEF CIInv, CType, CopiesCounted
<1> QED
  BY <1>1, <1>2, <1>3 DEF CIInv

\* A file is opened and created.
LEMMA FileOpened ==
  ASSUME CIInv, cp = "walk", at \in {2, 4}, OpenFiles(Cur), dest[Cur].what = "none",
         srckind = "dir" /\ changes = 0 =>
           size_cnt' = size_cnt + src[Cur].size /\ size_cnt' <= copy_limit,
         size_cnt' \in Nat,
         UNCHANGED <<src, srckind, size_limit_reached, changes>>
  PROVE  CIInv'
<1>1. at \in 1..5 /\ Cur \in Entries /\ Cur \in {"file", "dir/file"} /\ Cur' = Cur
  BY CurrentEntry DEF CIInv, CType, OpenFiles, Cur
<1>2. /\ dest'[Cur] = Dest("partial", 0, "nowhere")
      /\ \A e \in Entries \ {Cur} : dest'[e] = dest[e]
  BY <1>1 DEF OpenFiles, CIInv, CType
<1>3. CType'
  BY <1>1 DEF CIInv, CType, OpenFiles, Dest, DestKinds
<1>4. CopiesWhole'
  BY <1>1, <1>2 DEF CIInv, CType, CopiesWhole, OpenFiles, Dest
<1>5. CopiesCounted'
  <2> SUFFICES ASSUME srckind = "dir", changes = 0
               PROVE  CopiesCounted'
    BY DEF CopiesCounted
  <2>1. \A e \in {"file", "dir/file"} : Share(e) \in Nat /\ src[e].size \in Nat
    BY WalkEntries DEF Share, CIInv, CType
  <2>2. Share(Cur) = 0 /\ Share(Cur)' = src[Cur].size
    BY <1>1, <1>2 DEF Share, Dest
  <2>3. \A e \in {"file", "dir/file"} \ {Cur} : Share(e)' = Share(e)
    BY <1>2, WalkEntries DEF Share
  <2>4. Share("file")' + Share("dir/file")' = Share("file") + Share("dir/file") + src[Cur].size
    <3>1. CASE Cur = "file"
      <4>1. Share("file") = 0 /\ Share("file")' = src[Cur].size
        BY <2>2, <3>1, <1>1
      <4> QED
        BY <2>1, <2>3, <3>1, <4>1
    <3>2. CASE Cur = "dir/file"
      <4>1. Share("dir/file") = 0 /\ Share("dir/file")' = src[Cur].size
        BY <2>2, <3>2, <1>1
      <4> QED
        BY <2>1, <2>3, <3>2, <4>1
    <3> QED
      BY <1>1, <3>1, <3>2
  <2>5. Share("file")' + Share("dir/file")' <= size_cnt'
    BY <2>1, <2>4, <1>1 DEF CIInv, CopiesCounted, CType
  <2>6. ASSUME ~failed', ~size_limit_reached', NEW i \in 1..5, i < at'
        PROVE  dest'[Walk[i]].what # "none"
    <3>1. i < at /\ dest[Walk[i]].what # "none"
      BY <2>6 DEF CIInv, CopiesCounted, OpenFiles
    <3>2. Walk[i] \in Entries \ {Cur}
      BY <1>1, <3>1, CurrentEntry DEF Entries, Walk
    <3> QED
      BY <1>2, <3>1, <3>2
  <2> QED
    BY <2>5, <2>6 DEF CIInv, CopiesCounted, OpenFiles
<1> QED
  BY <1>3, <1>4, <1>5 DEF CIInv

\* A step of fs_copydir, for each thing that can become of an entry.
LEMMA CopydirStep ==
  ASSUME CIInv, fs_copydir
  PROVE  CIInv'
<1>1. /\ cp = "walk" /\ srckind = "dir" /\ at \in 1..5 /\ Cur \in Entries
      /\ size_cnt \in Nat /\ src[Cur].size \in Nat
      /\ failed \in BOOLEAN /\ size_limit_reached \in BOOLEAN
      /\ changes = 0 => size_cnt <= copy_limit /\ src[Cur].there
      /\ UNCHANGED <<src, srckind, changes>>
  BY CurrentEntry DEF fs_copydir, CIInv, CType, CopiesCounted
<1>2. CASE Skip
  BY <1>1, <1>2, EntryLeft DEF Skip
<1>3. CASE LimitReached
  BY <1>1, <1>3, EntryLeft DEF LimitReached
<1>4. CASE CopyEntry /\ dest[Cur].what = "none"
  <2>1. /\ size_cnt' = size_cnt + src[Cur].size /\ size_cnt' <= copy_limit
        /\ UNCHANGED size_limit_reached
    BY <1>1, <1>4, CopyAssumption DEF CopyEntry, TooLarge
  <2>2. CASE TypeOf(Cur) = "file" /\ OpenFiles(Cur)
    <3>1. at \in {2, 4}
      BY <1>1, <2>2, CurrentEntry
    <3> QED
      BY <1>1, <1>4, <2>1, <2>2, <3>1, FileOpened
  <2>3. CASE OpenFails
    BY <1>1, <2>1, <2>3, EntryLeft DEF OpenFails
  <2>4. CASE /\ dest' = [dest EXCEPT ![Cur] = Dest("dir", 0, "nowhere")]
             /\ NextEntry /\ UNCHANGED failed
    <3>1. MayBecome(Dest("dir", 0, "nowhere"), Cur) /\ Dest("dir", 0, "nowhere").what = "dir"
      BY <1>1 DEF MayBecome, Dest, DestKinds
    <3>5. Settles(Dest("dir", 0, "nowhere"))
      BY <1>1, <2>1, <2>4, <3>1 DEF Settles
    <3> QED
      BY <3>5, EntrySettled
  <2>5. CASE Finish /\ failed' = TRUE /\ UNCHANGED <<dest, at>>
    BY <1>1, <2>1, <2>5, CopyGivesUp DEF Finish
  <2>6. CASE copy_link(Cur) /\ NextEntry
    <3>1. CASE src[Cur].to = "nowhere"
      BY <1>1, <2>1, <2>6, <3>1, EntryLeft DEF copy_link
    <3>2. CASE src[Cur].to # "nowhere"
      <4> DEFINE d == Dest("link", 0, proc_pid_to_self(src[Cur].to))
      <4>1. MayBecome(d, Cur) /\ d.what = "link"
        BY <1>1, <3>2 DEF MayBecome, Dest, DestKinds, proc_pid_to_self, CIInv, CType, Targets
      <4>2. dest' = [dest EXCEPT ![Cur] = d] /\ UNCHANGED failed
        BY <2>6, <3>2 DEF copy_link
      <4>5. Settles(d)
        BY <1>1, <2>1, <2>6, <4>1, <4>2 DEF Settles
      <4> QED
        BY <4>5, EntrySettled
    <3> QED
      BY <3>1, <3>2
  <2> QED
    BY Zenon, <1>4, <2>2, <2>3, <2>4, <2>5, <2>6 DEF CopyEntry
<1> QED
  BY <1>2, <1>3, <1>4 DEF fs_copydir

\* A step of duplicate_file or duplicate_link.
LEMMA DuplicateStep ==
  ASSUME CIInv, duplicate_file \/ duplicate_link
  PROVE  CIInv'
<1>1. /\ cp = "walk" /\ srckind # "dir" /\ at \in 1..5 /\ Cur \in Entries
      /\ size_cnt \in Nat /\ src[Cur].size \in Nat
      /\ failed \in BOOLEAN /\ size_limit_reached \in BOOLEAN
      /\ UNCHANGED <<src, srckind, changes, size_cnt, size_limit_reached>>
  BY CurrentEntry DEF duplicate_file, duplicate_link, CIInv, CType
<1>2. CASE UNCHANGED <<dest, failed>> /\ NextEntry
  BY <1>1, <1>2, EntryLeft
<1>3. CASE srckind = "file" /\ OpenFiles(Cur) /\ dest[Cur].what = "none"
  <2>1. at \in {2, 4}
    BY <1>1, <1>3 DEF CIInv, CType
  <2> QED
    BY <1>1, <1>3, <2>1, FileOpened
<1>4. CASE OpenFails
  BY <1>1, <1>4, EntryLeft DEF OpenFails
<1>5. CASE copy_link(Cur) /\ NextEntry
  <2>1. CASE src[Cur].to = "nowhere"
    BY <1>1, <1>5, <2>1, EntryLeft DEF copy_link
  <2>2. CASE src[Cur].to # "nowhere"
    <3> DEFINE d == Dest("link", 0, proc_pid_to_self(src[Cur].to))
    <3>1. MayBecome(d, Cur) /\ d.what = "link"
      BY <1>1, <2>2 DEF MayBecome, Dest, DestKinds, proc_pid_to_self, CIInv, CType, Targets
    <3>2. dest' = [dest EXCEPT ![Cur] = d] /\ UNCHANGED failed
      BY <1>5, <2>2 DEF copy_link
    <3>5. Settles(d)
      BY <1>1, <1>5, <3>1, <3>2 DEF Settles
    <3> QED
      BY <3>5, EntrySettled
  <2> QED
    BY <2>1, <2>2
<1> QED
  BY <1>2, <1>3, <1>4, <1>5 DEF duplicate_file, duplicate_link

\* A step of copy_file.
LEMMA CopyFileStep ==
  ASSUME CIInv, WriteSome \/ EndOfFile \/ WriteFails
  PROVE  CIInv'
<1>1. /\ cp = "copying" /\ at \in 1..5 /\ Cur \in Entries /\ Cur \in {"file", "dir/file"}
      /\ dest[Cur].what = "partial" /\ size_cnt \in Nat /\ src[Cur].size \in Nat
      /\ dest[Cur] \in [what : DestKinds, len : Nat, to : {"target", "proc-self", "nowhere"}]
      /\ failed \in BOOLEAN /\ size_limit_reached \in BOOLEAN
      /\ srckind = "dir" /\ changes = 0 => size_cnt <= copy_limit
      /\ UNCHANGED <<src, srckind, changes, size_cnt, size_limit_reached>>
  <2>1. cp = "copying" /\ at \in 1..5 /\ at \in {2, 4}
    BY DEF WriteSome, EndOfFile, WriteFails, CIInv, CType, CopiesWhole
  <2>2. Cur \in Entries /\ Cur \in {"file", "dir/file"}
    BY <2>1, CurrentEntry
  <2> QED
    BY <2>1, <2>2 DEF WriteSome, EndOfFile, WriteFails, CIInv, CType, CopiesWhole, CopiesCounted
<1>2. CASE WriteSome
  <2>1. /\ dest[Cur].len < src[Cur].size /\ Cur' = Cur
        /\ dest' = [dest EXCEPT ![Cur].len = @ + 1]
        /\ UNCHANGED <<cp, at, failed>>
    BY <1>2 DEF WriteSome, Cur
  <2>2. /\ dest'[Cur] = [dest[Cur] EXCEPT !.len = @ + 1]
        /\ \A e \in Entries \ {Cur} : dest'[e] = dest[e]
        /\ \A e \in Entries : dest'[e].what = dest[e].what
    BY <1>1, <2>1 DEF CIInv, CType
  <2>3. CType'
    BY <1>1, <2>1 DEF CIInv, CType
  <2>4. CopiesWhole'
    BY <1>1, <2>1, <2>2 DEF CIInv, CType, CopiesWhole
  <2>5. CopiesCounted'
    <3>1. \A e \in {"file", "dir/file"} : Share(e)' = Share(e)
      BY <1>1, <2>2, WalkEntries DEF Share
    <3>2. \A i \in 1..5 : Walk[i] \in Entries
      BY DEF Entries, Walk
    <3> QED
      BY <1>1, <2>1, <2>2, <3>1, <3>2 DEF CIInv, CopiesCounted
  <2> QED
    BY <2>3, <2>4, <2>5 DEF CIInv
<1>3. CASE EndOfFile
  <2> DEFINE d == [dest[Cur] EXCEPT !.what = "copy"]
  <2>1. MayBecome(d, Cur) /\ d.what = "copy"
    BY <1>1, <1>3 DEF MayBecome, DestKinds, EndOfFile
  <2>2. dest' = [dest EXCEPT ![Cur] = d] /\ NextEntry /\ UNCHANGED failed
    BY <1>3 DEF EndOfFile
  <2>5. Settles(d)
    BY <1>1, <2>1, <2>2 DEF Settles
  <2> QED
    BY <2>5, EntrySettled
<1>4. CASE WriteFails
  <2>1. MayBecome(Nothing, Cur) /\ Nothing.what = "none"
    BY <1>1 DEF MayBecome, Nothing, Dest, DestKinds
  <2>2. dest' = [dest EXCEPT ![Cur] = Nothing] /\ NextEntry /\ failed' = TRUE
    BY <1>4 DEF WriteFails, Discarded
  <2>5. Settles(Nothing)
    BY <1>1, <2>1, <2>2 DEF Settles
  <2> QED
    BY <2>5, EntrySettled
<1> QED
  BY <1>2, <1>3, <1>4

\* The source grows, or loses a file that is not open.
LEMMA SourceStep ==
  ASSUME CIInv, SourceChanges
  PROVE  CIInv'
<1>1. /\ changes' = changes + 1 /\ changes' # 0
      /\ UNCHANGED <<dest, cp, srckind, at, size_cnt, size_limit_reached, failed>>
  BY DEF SourceChanges, CIInv, CType
<1>2. PICK e \in {"file", "dir/file"} :
        \/ src' = [src EXCEPT ![e].size = @ + 1]
        \/ src' = [src EXCEPT ![e].there = FALSE]
  BY DEF SourceChanges
<1>3. /\ src' \in [Entries -> [size : Nat, there : BOOLEAN, to : Targets]]
      /\ \A f \in Entries : src[f].size <= src'[f].size
  <2> DEFINE S == [size : Nat, there : BOOLEAN, to : Targets]
  <2>1. src \in [Entries -> S] /\ src[e] \in S /\ e \in Entries
    BY WalkEntries DEF CIInv, CType
  <2>2. ASSUME NEW r \in S, src' = [src EXCEPT ![e] = r], src[e].size <= r.size
        PROVE  src' \in [Entries -> S] /\ \A f \in Entries : src[f].size <= src'[f].size
    BY <2>1, <2>2
  <2>3. CASE src' = [src EXCEPT ![e].size = @ + 1]
    <3> DEFINE r == [src[e] EXCEPT !.size = @ + 1]
    <3>1. r \in S /\ src[e].size <= r.size
      BY <2>1
    <3>2. src' = [src EXCEPT ![e] = r]
      BY <2>3
    <3> HIDE DEF r
    <3> QED
      BY Zenon, <2>2, <3>1, <3>2
  <2>4. CASE src' = [src EXCEPT ![e].there = FALSE]
    <3> DEFINE r == [src[e] EXCEPT !.there = FALSE]
    <3>3. r \in S /\ r.size = src[e].size
      BY Zenon, <2>1
    <3>4. src[e].size \in Nat
      BY <2>1
    <3>1. r \in S /\ src[e].size <= r.size
      BY <3>3, <3>4
    <3>2. src' = [src EXCEPT ![e] = r]
      BY <2>4
    <3> HIDE DEF r
    <3> QED
      BY <2>2, <3>1, <3>2
  <2> QED
    BY <1>2, <2>3, <2>4
<1>4. CType'
  BY <1>1, <1>3 DEF CIInv, CType
<1>5. CopiesWhole'
  <2>1. Cur' = Cur
    BY <1>1 DEF Cur
  <2>2. \A f \in Entries : dest[f].len \in Nat /\ src[f].size \in Nat /\ src'[f].size \in Nat
    BY <1>3 DEF CIInv, CType
  <2> QED
    BY <1>1, <1>3, <2>1, <2>2 DEF CIInv, CopiesWhole
<1>6. CopiesCounted'
  BY <1>1 DEF CopiesCounted
<1> QED
  BY <1>4, <1>5, <1>6 DEF CIInv

\* Every step of fcopy, and of those who write to the source, keeps CIInv.
LEMMA CStep ==
  ASSUME CIInv, [CNext]_cvars
  PROVE  CIInv'
<1>1. CASE CheckFails
  BY <1>1, CopyGivesUp DEF CheckFails, Finish, CIInv, CType, CopiesCounted
<1>2. CASE duplicate
  <2>0. srckind \in {"dir", "file", "link"}
    BY DEF CIInv, CType
  <2>1. /\ cp = "start" /\ cp' = "walk"
        /\ UNCHANGED <<src, dest, srckind, size_cnt, size_limit_reached, changes, failed>>
        /\ \/ srckind = "dir" /\ at' = 1
           \/ srckind = "file" /\ at' = 2
           \/ srckind = "link" /\ at' = 5
    BY <1>2, <2>0 DEF duplicate
  <2>2. CType'
    BY <2>1 DEF CIInv, CType
  <2>5. CopiesWhole'
    BY <2>1 DEF CIInv, CopiesWhole
  <2>3. \A e : Share(e)' = Share(e)
    BY <2>1 DEF Share
  <2>4. CopiesCounted'
    BY <2>1, <2>3 DEF CIInv, CopiesCounted
  <2> QED
    BY <2>2, <2>4, <2>5 DEF CIInv
<1>3. CASE UNCHANGED cvars
  <2>1. \A e : Share(e)' = Share(e)
    BY <1>3 DEF Share, cvars
  <2> QED
    BY <1>3, <2>1 DEF cvars, CIInv, CType, CopiesWhole, CopiesCounted, Cur
<1> QED
  BY <1>1, <1>2, <1>3, CopydirStep, DuplicateStep, CopyFileStep, SourceStep DEF CNext

\* Nothing has been copied yet.
LEMMA CInitIInv == CInit => CIInv
<1> SUFFICES ASSUME CInit PROVE CIInv
  OBVIOUS
<1>1. PICK sizes \in SourceSizes, to \in Targets :
        src = [e \in Entries |-> [size |-> sizes[e], there |-> TRUE, to |-> to]]
  BY Zenon DEF CInit, Targets
<1>2. PICK old \in SUBSET {"file", "dir", "link"} :
        dest = [e \in Entries |-> IF e \in old \cup {"top"} THEN Old ELSE Nothing]
  BY DEF CInit
<1>3. sizes \in [Entries -> Nat]
  BY CopyAssumption DEF SourceSizes
<1>4. /\ src \in [Entries -> [size : Nat, there : BOOLEAN, to : Targets]]
      /\ \A e \in Entries : src[e].there
  BY <1>1, <1>3
<1>5. /\ dest \in [Entries -> [what : DestKinds, len : Nat, to : {"target", "proc-self", "nowhere"}]]
      /\ \A e \in Entries : dest[e].what \in {"old", "none"} /\ dest[e].len = 0
  BY <1>2 DEF Old, Nothing, Dest, DestKinds
<1>6. CType
  <2>1. /\ cp = "start" /\ srckind \in {"dir", "file", "link"} /\ at = 1 /\ size_cnt = 0
        /\ changes = 0
    BY DEF CInit
  <2>2. size_limit_reached \in BOOLEAN /\ failed \in BOOLEAN
    BY Zenon DEF CInit
  <2> QED
    BY <1>4, <1>5, <2>1, <2>2 DEF CType
<1>7. CopiesWhole
  BY <1>4, <1>5 DEF CInit, CopiesWhole
<1>8. Share("file") = 0 /\ Share("dir/file") = 0
  BY <1>5, WalkEntries DEF Share
<1>9. CopiesCounted
  <2>1. size_cnt = 0 /\ at = 1 /\ cp = "start"
    BY DEF CInit
  <2>2. Share("file") + Share("dir/file") <= size_cnt /\ size_cnt <= copy_limit
    BY <1>8, <2>1, CopyAssumption
  <2>3. \A i \in 1..5 : ~(i < at \/ cp = "end")
    BY <2>1
  <2> QED
    BY <1>4, <2>1, <2>2, <2>3 DEF CopiesCounted
<1> QED
  BY <1>6, <1>7, <1>9 DEF CIInv

\* What was in the destination before fcopy is left alone.
LEMMA OldIsKept ==
  ASSUME CIInv, [CNext]_cvars, NEW e \in Entries, dest[e] = Old
  PROVE  dest'[e] = Old
<1>1. dest[e].what = "old" /\ dest \in [Entries -> [what : DestKinds, len : Nat, to : {"target", "proc-self", "nowhere"}]]
  BY DEF Old, Dest, CIInv, CType
<1>2. CASE UNCHANGED dest
  BY <1>2
<1>3. CASE dest[Cur].what \in {"none", "partial"} /\ \A f \in Entries \ {Cur} : dest'[f] = dest[f]
  BY <1>1, <1>3
<1>4. CASE fs_copydir \/ duplicate_file \/ duplicate_link
  BY <1>1, <1>2, <1>3, <1>4 DEF fs_copydir, Skip, LimitReached, CopyEntry, duplicate_file,
     duplicate_link, OpenFiles, OpenFails, copy_link
<1>5. CASE WriteSome \/ EndOfFile \/ WriteFails
  <2>1. cp = "copying" /\ Cur \in Entries /\ dest[Cur].what = "partial"
    BY <1>5, CurrentEntry DEF WriteSome, EndOfFile, WriteFails, CIInv, CType, CopiesWhole
  <2> QED
    BY <1>1, <1>3, <1>5, <2>1 DEF WriteSome, EndOfFile, WriteFails, Discarded
<1> QED
  BY <1>2, <1>4, <1>5 DEF CNext, CheckFails, duplicate, SourceChanges, cvars

\* A copy is faithful whatever fails and whatever changes in the source, for
\* every limit and all sizes (fs_copydir, copy_file, copy_link).
THEOREM CopyIsFaithful == CInit /\ [][CNext]_cvars => CopyFaithful
<1>1. CIInv /\ CIInv' /\ [CNext]_cvars =>
        [/\ \A e \in Entries : dest[e] = Old => dest'[e] = Old
         /\ cp' = "end" => /\ \A e \in Entries : /\ dest'[e].what # "partial"
                                                 /\ dest'[e].to # "proc-pid"
                           /\ srckind = "dir" /\ changes = 0 =>
                                /\ BytesCopied' <= copy_limit
                                /\ (failed \/ size_limit_reached \/ CopiedAll)']_cvars
  <2> SUFFICES ASSUME CIInv, CIInv', CNext
               PROVE  /\ \A e \in Entries : dest[e] = Old => dest'[e] = Old
                      /\ cp' = "end" =>
                           /\ \A e \in Entries : /\ dest'[e].what # "partial"
                                                 /\ dest'[e].to # "proc-pid"
                           /\ srckind = "dir" /\ changes = 0 =>
                                /\ BytesCopied' <= copy_limit
                                /\ (failed \/ size_limit_reached \/ CopiedAll)'
    OBVIOUS
  <2>1. \A e \in Entries : dest[e] = Old => dest'[e] = Old
    BY OldIsKept
  <2>2. ASSUME cp' = "end"
        PROVE  \A e \in Entries : dest'[e].what # "partial" /\ dest'[e].to # "proc-pid"
    BY <2>2 DEF CIInv, CType, CopiesWhole
  <2>3. ASSUME cp' = "end", srckind = "dir", changes = 0
        PROVE  BytesCopied' <= copy_limit /\ (failed \/ size_limit_reached \/ CopiedAll)'
    <3>1. srckind' = "dir" /\ changes' = 0
      BY <2>3 DEF CNext, CheckFails, duplicate, fs_copydir, duplicate_file, duplicate_link,
         WriteSome, EndOfFile, WriteFails, SourceChanges
    <3>2. \A e \in {"file", "dir/file"} : /\ dest'[e].len \in Nat /\ Share(e)' \in Nat
                                          /\ dest'[e].len <= Share(e)'
      BY WalkEntries DEF CIInv, CType, CopiesWhole, Share
    <3>3. BytesCopied' <= copy_limit
      BY <3>1, <3>2, CopyAssumption DEF BytesCopied, CIInv, CType, CopiesCounted
    <3>4. ASSUME ~failed', ~size_limit_reached' PROVE CopiedAll'
      <4>1. \A i \in 1..5 : dest'[Walk[i]].what # "none"
        BY <2>3, <3>1, <3>4 DEF CIInv, CopiesCounted
      <4> QED
        BY <4>1, WalkEntries DEF CopiedAll
    <3> QED
      BY <3>3, <3>4
  <2> QED
    BY <2>1, <2>2, <2>3
<1> QED
  BY <1>1, CStep, CInitIInv, PTL DEF CopyFaithful
=============================================================================
