------------------------------ MODULE Privileges ------------------------------
(***************************************************************************)
(* The privileges programs get from firejail: the application, through     *)
(* set_caps, the user namespace and drop_privs at the end of sandbox(),    *)
(* and the helper programs firejail runs, through sbox_run.  Capabilities  *)
(* are a small set of names.  External: the kernel's rules for the         *)
(* capabilities at an exec, a change of uid and a new user namespace.      *)
(***************************************************************************)
EXTENDS Integers, FiniteSets

Caps == {"net_admin", "net_service", "sys_ptrace", "dac_override", "sys_admin", "chown"}

CONSTANT CapLists      \* lists given to caps.drop and caps.keep; {} is refused

\* The masks of the calls of sbox_run in firejail.
Masks ==
  {{"user", "caps_none", "seccomp"}, {"user", "caps_none", "seccomp", "allow_stdin"},
   {"root", "seccomp"}, {"root", "caps_network", "seccomp"},
   {"root", "caps_network", "caps_net_service", "seccomp"},
   {"root", "caps_hidepid", "seccomp", "allow_stdin"}, {"root", "stdin_from_file"}}

VARIABLES job,      \* "app" or "helper"
          arg,      \* the caps, noroot and nonewprivs options of the sandbox
          list,     \* arg_caps_list
          rootuser, \* getuid() is 0
          mask,     \* filtermask of sbox_run
          prog,     \* the helper's file: which of uid 0, gid 0, world writable
          pp,       \* where the process is
          cap,      \* its capabilities: effective and bounding set
          conf,     \* what else was done to it
          caller    \* firejail in sbox_run_v: "waits", "returns" or "exits"

pvars == <<job, arg, list, rootuser, mask, prog, pp, cap, conf, caller>>

Keeps(S) == [cap EXCEPT !.bset = @ \cap S]

-----------------------------------------------------------------------------
(***************************************************************************)
(* caps.c: all of it works on the bounding set.                            *)
(***************************************************************************)
caps_drop_all == Keeps({})
caps_set(filter) == Keeps(filter)
caps_drop_list(l) == caps_set(Caps \ l)
caps_keep_list(l) == caps_set(l)
caps_default_filter == Keeps(Caps \ {"sys_admin"})

Selected ==
  IF "drop_all" \in arg THEN caps_drop_all
  ELSE IF "drop" \in arg THEN caps_drop_list(list)
  ELSE IF "keep" \in arg THEN caps_keep_list(list)
  ELSE IF "default" \in arg THEN caps_default_filter
  ELSE cap

caps_drop_dac_override(c) ==
  IF rootuser /\ "noprofile" \notin arg
  THEN [c EXCEPT !.bset = @ \ {"dac_override"}] ELSE c

set_caps == IF "keep" \in arg THEN Selected ELSE caps_drop_dac_override(Selected)

Go(from, to) == pp = from /\ pp' = to
Rest == UNCHANGED <<job, arg, list, rootuser, mask, prog>>

\* A system call fails: the process exits, and firejail with it.
Fails ==
  /\ pp \notin {"run", "again", "exited", "killed", "died"} /\ pp' = "died"
  /\ UNCHANGED <<cap, conf, caller>> /\ Rest

\* caps_check_list: an empty list, or an unknown name, ends the sandbox.
CapsRefused ==
  /\ Go("caps", "died")
  /\ arg \cap {"drop", "keep"} # {} /\ list = {}
  /\ UNCHANGED <<cap, conf, caller>> /\ Rest

CapsFirst ==
  /\ Go("caps", "userns")
  /\ list # {} \/ arg \cap {"drop", "keep"} = {}
  /\ cap' = set_caps
  /\ UNCHANGED <<conf, caller>> /\ Rest

\* A new user namespace has all capabilities again, also in the bounding set.
NewUserNamespace ==
  /\ Go("userns", "recaps")
  /\ \/ /\ "noroot" \in arg
        /\ cap' = [eff |-> Caps, bset |-> Caps]
        /\ conf' = conf \cup {"userns"}
     \/ UNCHANGED <<cap, conf>>           \* not asked for, or it failed
  /\ UNCHANGED caller /\ Rest

\* mutant: the bounding set of the new user namespace is left as it is
CapsKept == cap

CapsInUserns == IF "userns" \in conf THEN set_caps ELSE cap

CapsAgain ==
  /\ Go("recaps", "nnp")
  /\ cap' = CapsInUserns
  /\ UNCHANGED <<conf, caller>> /\ Rest

NoNewPrivs ==
  /\ Go("nnp", "drop")
  /\ conf' = IF "nonewprivs" \in arg THEN conf \cup {"nnp"} ELSE conf
  /\ UNCHANGED <<cap, caller>> /\ Rest

\* setresuid clears the capabilities of a process that is root no more.
AsUser(c) == IF rootuser THEN c ELSE [c EXCEPT !.eff = {}]

drop_privs ==
  /\ Go("drop", "exec")
  /\ cap' = AsUser(cap)
  /\ conf' = conf \cup {"user"}
  /\ UNCHANGED caller /\ Rest

\* An exec by root gives the bounding set, by anybody else nothing.
Exec(root) ==
  /\ cap' = [cap EXCEPT !.eff = IF root THEN cap.bset ELSE {}]
  /\ UNCHANGED <<conf, caller>> /\ Rest

AppExec == job = "app" /\ Go("exec", "run") /\ Exec(rootuser)

\* The application runs a set-user-id root program.
SuidExec ==
  /\ job = "app" /\ Go("run", "again")
  /\ conf \cap {"nnp", "userns"} = {}
  /\ Exec(TRUE)

-----------------------------------------------------------------------------
(***************************************************************************)
(* sbox_do_exec_v, in the child of sbox_run_v.                             *)
(***************************************************************************)
Stdin ==
  IF "stdin_from_file" \in mask THEN {"stdin_file"}
  ELSE IF "allow_stdin" \in mask THEN {"stdin_inherited"} ELSE {"stdin_null"}

SboxEnvironment ==
  /\ Go("sbox", "sboxcaps")
  /\ conf' = conf \cup Stdin \cup {"newenv", "fdsclosed", "umask"}
  /\ UNCHANGED <<cap, caller>> /\ Rest

MaskCaps ==
  (IF "caps_network" \in mask THEN {"net_admin"} ELSE {})
  \cup (IF "caps_hidepid" \in mask THEN {"sys_ptrace"} ELSE {})
  \cup (IF "caps_net_service" \in mask THEN {"net_service"} ELSE {})

SboxCaps ==
  /\ Go("sboxcaps", "sboxfilter")
  /\ cap' = IF "caps_none" \in mask THEN caps_drop_all
            ELSE IF MaskCaps # {} THEN caps_set(MaskCaps) ELSE cap
  /\ UNCHANGED <<conf, caller>> /\ Rest

\* An error of prctl is printed and nothing else; without NO_NEW_PRIVS the
\* filter takes CAP_SYS_ADMIN, which the process still has.
SboxFilter ==
  /\ Go("sboxfilter", "sboxuser")
  /\ \E done \in SUBSET {"nnp", "filter"} :
       conf' = IF "seccomp" \in mask THEN conf \cup done ELSE conf
  /\ UNCHANGED <<cap, caller>> /\ Rest

SboxUser ==
  /\ Go("sboxuser", "sboxprog")
  /\ IF "user" \in mask
     THEN cap' = AsUser(cap) /\ conf' = conf \cup {"user"}
     ELSE UNCHANGED cap /\ conf' = conf \cup {"nocore"}
  /\ UNCHANGED caller /\ Rest

Trusted == {"uid0", "gid0"} \cap prog # {} /\ "writable" \notin prog

SboxRefuses ==
  /\ Go("sboxprog", "died") /\ ~Trusted
  /\ UNCHANGED <<cap, conf, caller>> /\ Rest

SboxExec ==
  /\ Go("sboxprog", "run") /\ Trusted
  /\ Exec("root" \in mask \/ rootuser)

\* External: the helper ends.
HelperEnds ==
  /\ job = "helper" /\ pp = "run"
  /\ pp' \in {"exited", "killed", "died"}          \* status 0, a signal, not 0
  /\ UNCHANGED <<cap, conf, caller>> /\ Rest

Succeeded == pp = "exited"

sbox_run_v ==
  /\ job = "helper" /\ caller = "waits" /\ pp \in {"exited", "killed", "died"}
  /\ caller' = IF Succeeded THEN "returns" ELSE "exits"
  /\ UNCHANGED <<pp, cap, conf>> /\ Rest

-----------------------------------------------------------------------------
\* caps.drop and caps.keep share arg_caps_list; they are given one at a time.
\* noroot is not available to root.
PInit ==
  /\ job \in {"app", "helper"}
  /\ rootuser \in BOOLEAN
  /\ cap = [eff |-> Caps, bset |-> Caps] /\ conf = {} /\ caller = "waits"
  /\ IF job = "app"
     THEN /\ arg \in SUBSET {"drop_all", "drop", "keep", "default", "noprofile",
                             "noroot", "nonewprivs"}
          /\ ~({"drop", "keep"} \subseteq arg) /\ ~("noroot" \in arg /\ rootuser)
          /\ list \in CapLists
          /\ mask = {} /\ prog = {} /\ pp = "caps"
     ELSE /\ arg = {} /\ list = {} /\ pp = "sbox"
          /\ mask \in Masks /\ prog \in SUBSET {"uid0", "gid0", "writable"}

PNext ==
  \/ Fails \/ CapsRefused \/ CapsFirst \/ NewUserNamespace \/ CapsAgain \/ NoNewPrivs
  \/ drop_privs \/ AppExec \/ SuidExec
  \/ SboxEnvironment \/ SboxCaps \/ SboxFilter \/ SboxUser \/ SboxRefuses \/ SboxExec
  \/ HelperEnds \/ sbox_run_v

-----------------------------------------------------------------------------
\* What the options, or the caller of sbox_run, leave to the program.
Asked ==
  IF job = "app"
  THEN (IF "drop_all" \in arg THEN {} ELSE Caps)
       \cap (IF "drop" \in arg THEN Caps \ list ELSE Caps)
       \cap (IF "keep" \in arg THEN list ELSE Caps)
  ELSE IF "caps_none" \in mask THEN {} ELSE IF MaskCaps # {} THEN MaskCaps ELSE Caps

CapsBounded ==
  pp \in {"run", "again"} => cap.eff \cup cap.bset \subseteq Asked

HelperAsAsked ==
  job = "helper" =>
    /\ caller = "returns" => pp = "exited"
    /\ pp \in {"run", "exited"} =>
         /\ "writable" \notin prog /\ prog # {}
         /\ {"newenv", "fdsclosed"} \subseteq conf
         /\ "user" \in conf <=> "user" \in mask
         /\ "user" \in mask /\ ~rootuser => cap.eff = {}

\* No program has more capabilities, nor can it get more from a file it runs or
\* hand more to a process that joins, than the options or the caller of
\* sbox_run leave it; through a new user namespace, which starts with all of
\* them, and a set-user-id program too (the two calls of set_caps in sandbox(),
\* sbox_do_exec_v).  firejail goes on after sbox_run only if the helper ran and
\* ended with status 0, whatever call failed on the way; and a helper that runs
\* is a file root owns and not everybody writes, without firejail's descriptors
\* and environment, as the user it was asked to run as (sbox_run_v).
PrivilegesBounded == CapsBounded /\ HelperAsAsked
==============================================================================
