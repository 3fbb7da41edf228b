------------------------------- MODULE MCTools -------------------------------
(***************************************************************************)
(* One at a time: the output log, the copying of files, the network trace, *)
(* the privileges of applications and helper programs, the X11 cookie, and *)
(* firecfg.  They share no state; the ones that do not run stay in a fixed *)
(* initial state.                                                          *)
(***************************************************************************)
EXTENDS Ftee, Fcopy, Traffic, Privileges, Xorg, Firecfg

VARIABLE tool

vars == <<tool, lvars, cvars, tvars, pvars, jvars, gvars>>

MCMaxLines == [squash |-> 3, trace |-> 1]
MCSources == {<<0, 0, 0>>, <<0, 1, 1>>}
MCLines ==
  [squash |-> [net : NodesOfTree \ {<<>>}, name : {"A", "B"}],
   trace |-> [net : {<<0>>, <<0, 1>>, <<0, 1, 1>>, <<1>>}, name : {"A"}]]

\* Lists with a program after and before it is ignored, ignored twice, or after
\* a name that is refused; programs with and without a profile of the user; one
\* installed as a snap.
N(p) == Line("name", p)
I(p) == Line("ignore", p)
MCConfigs ==
  {<<N("a"), N("b")>>, <<I("a"), I("b"), N("a")>>, <<N("a"), I("a"), I("b"), N("b")>>,
   <<I("b"), I("a"), I("a"), N("a")>>, <<N("b"), Line("invalid", "a")>>}
MCMachines ==
  [installed : {{"a", "b"}}, snap : {{}}, profiles : {{}, {"a"}}, config : MCConfigs,
   desktop : {[p \in Progs |-> "fixable"]}]
  \cup [installed : {{"a"}}, snap : {{}, {"a"}}, profiles : {{"a"}}, config : {<<N("b")>>},
       desktop : {[p \in Progs |-> IF p = "a" THEN "bare" ELSE "noprofile"]}]

CIdle ==
  /\ CInit /\ srckind = "dir" /\ src["link"].to = "target"
  /\ \A e \in Entries : dest[e] = Old <=> e = "top"
  /\ \A e \in {"file", "dir/file"} : src[e].size = 1
NIdle == NInit /\ mode = "trace"

PIdle ==
  PInit /\ job = "helper" /\ mask = {"root", "seccomp"} /\ prog = {"uid0"} /\ ~rootuser
JIdle ==
  JInit /\ XAUTHORITY = "unset" /\ \A n \in Names : home[n] = NoInode
GIdle ==
  /\ GInit /\ users = NoDatabase /\ host.config = <<N("b")>> /\ host.snap = {}
  /\ \A p \in Progs : bin[p] = "none" /\ apps[p] = "none"

Init ==
  \/ tool = "ftee" /\ TInit /\ CIdle /\ NIdle /\ PIdle /\ JIdle /\ GIdle
  \/ tool = "fcopy" /\ CInit /\ TInit /\ NIdle /\ PIdle /\ JIdle /\ GIdle
  \/ tool = "fnettrace" /\ NInit /\ TInit /\ CIdle /\ PIdle /\ JIdle /\ GIdle
  \/ tool = "privileges" /\ PInit /\ TInit /\ CIdle /\ NIdle /\ JIdle /\ GIdle
  \/ tool = "xorg" /\ JInit /\ TInit /\ CIdle /\ NIdle /\ PIdle /\ GIdle
  \/ tool = "firecfg" /\ GInit /\ TInit /\ CIdle /\ NIdle /\ PIdle /\ JIdle

Next ==
  /\ UNCHANGED tool
  /\ \/ tool = "ftee" /\ TNext /\ UNCHANGED <<cvars, tvars, pvars, jvars, gvars>>
     \/ tool = "fcopy" /\ CNext /\ UNCHANGED <<lvars, tvars, pvars, jvars, gvars>>
     \/ tool = "fnettrace" /\ NNext /\ UNCHANGED <<lvars, cvars, pvars, jvars, gvars>>
     \/ tool = "privileges" /\ PNext /\ UNCHANGED <<lvars, cvars, tvars, jvars, gvars>>
     \/ tool = "xorg" /\ JNext /\ UNCHANGED <<lvars, cvars, tvars, pvars, gvars>>
     \/ tool = "firecfg" /\ GNext /\ UNCHANGED <<lvars, cvars, tvars, pvars, jvars>>

Spec == Init /\ [][Next]_vars
==============================================================================
