---------------------------- MODULE FilterBuild ----------------------------
(***************************************************************************)
(* fseccomp: from a list of system calls, protocols or namespaces to a     *)
(* seccomp program.                                                        *)
(*                                                                         *)
(* A list is a sequence of entries [kind, id, nr, neg, err]: a group       *)
(* (@group), a name or a number ($nr), possibly excluded (!name), possibly *)
(* with an action of its own (name:errno, name:kill, name:log).            *)
(***************************************************************************)
EXTENDS Bpf

CONSTANTS SysList,      \* syslist[]: name -> number, native
          SysList32,    \* syslist32[]: name -> number, i386
          SysGroups     \* sysgroups[]: group -> list

Call(n) == [kind |-> "name", id |-> n, nr |-> 0, neg |-> FALSE, err |-> "none"]
Except(n) == [Call(n) EXCEPT !.neg = TRUE]
CallErr(n, e) == [Call(n) EXCEPT !.err = e]
Number(n) == [Call("$") EXCEPT !.kind = "number", !.nr = n]
Group(g) == [Call(g) EXCEPT !.kind = "group"]

-----------------------------------------------------------------------------
(* src/lib/syscall.c                                                        *)

SYSCALL_ERROR == -1000

\* The number of an entry; a name that is not in the table has none.
Nr(e, native) ==
  LET table == IF native THEN SysList ELSE SysList32
  IN IF e.kind = "number" THEN e.nr
     ELSE IF e.id \in DOMAIN table THEN table[e.id] ELSE SYSCALL_ERROR

\* ~nr: how an excluded call is handed on.
Complement(nr) == -1 - nr

\* The callbacks of syscall_check_list (src/fseccomp/seccomp_file.c).
filter_add_whitelist(nr) == IF nr >= 0 THEN WHITELIST(nr) ELSE <<>>
filter_add_whitelist_for_excluded(nr) == IF nr < 0 THEN WHITELIST(Complement(nr)) ELSE <<>>
filter_add_blacklist(nr, action) == IF nr >= 0 THEN BLACKLIST(nr, action) ELSE <<>>
filter_add_blacklist_for_excluded(nr, action) ==
  IF nr < 0 THEN BLACKLIST(Complement(nr), action) ELSE <<>>
Callback(name, nr, action) ==
  CASE name = "whitelist" -> filter_add_whitelist(nr)
    [] name = "whitelist_for_excluded" -> filter_add_whitelist_for_excluded(nr)
    [] name = "blacklist" -> filter_add_blacklist(nr, action)
    [] name = "blacklist_for_excluded" -> filter_add_blacklist_for_excluded(nr, action)

\* The entries of a list with its groups expanded, in order.
RECURSIVE Expand(_)
Expand(list) ==
  FlattenSeq([i \in 1..Len(list) |->
    IF list[i].kind = "group" THEN Expand(SysGroups[list[i].id]) ELSE <<list[i]>>])

\* syscall_check_list() writing to a file: an entry with an action of its own
\* is written as such, the others are left to the callback.
CheckList(list, native, callback, action) ==
  LET es == Expand(list)
      Emit(e) ==
        LET nr == IF e.neg THEN Complement(Nr(e, native)) ELSE Nr(e, native)
        IN CASE Nr(e, native) = SYSCALL_ERROR -> <<>>
             [] Nr(e, native) # SYSCALL_ERROR /\ e.err \in {"kill", "log"} ->
                  IF nr >= 0 THEN BLACKLIST(nr, e.err) ELSE <<>>
             [] Nr(e, native) # SYSCALL_ERROR /\ e.err \notin {"kill", "log", "none"} ->
                  BLACKLIST(nr, e.err)
             [] OTHER -> Callback(callback, nr, action)
  IN IF es = <<>> THEN <<>> ELSE FlattenSeq([i \in 1..Len(es) |-> Emit(es[i])])

\* syscall_find_nr() and syscall_find_nr_32(), through which a number becomes
\* a name again.
FindNr(nr, native) ==
  LET table == IF native THEN SysList ELSE SysList32
      names == {n \in DOMAIN table : table[n] = nr}
  IN IF names = {} THEN "unknown" ELSE CHOOSE n \in names : TRUE

\* find_syscall(): the numbers of a list, excluded ones included.
NumbersOf(list, native) ==
  {Nr(Expand(list)[i], native) : i \in 1..Len(Expand(list))} \ {SYSCALL_ERROR}

\* syscall_in_list() and syscalls_in_list(): the calls of the list that
\* firejail still needs are put off until after execve; the others keep their
\* errno, if it is one.
InList(list, native, found) ==
  LET keep == NumbersOf(<<Group("@default-keep")>>, native)
      Plain(e) == ~e.neg /\ Nr(e, native) # SYSCALL_ERROR
      chosen == SelectSeq(Expand(list), LAMBDA e : Plain(e) /\ (Nr(e, native) \in keep) = found)
  IN [i \in 1..Len(chosen) |->
        LET e == chosen[i]
        IN CallErr(FindNr(Nr(e, native), native),
                   IF found \/ e.err \in {"kill", "log"} THEN "none" ELSE e.err)]
\* Mutant: nothing is put off.
WholeList(list, native) == Expand(list)
Prelist(list, native) == InList(list, native, FALSE)
Postlist(list, native) == InList(list, native, TRUE)

-----------------------------------------------------------------------------
(* src/fseccomp/seccomp_file.c                                              *)

filter_init(native, action) ==
  IF native THEN VALIDATE("ARCH_64", "allow") \o <<EXAMINE_SYSCALL>> \o HANDLE_X32(action)
  ELSE VALIDATE("ARCH_32", "allow") \o <<EXAMINE_SYSCALL>>

-----------------------------------------------------------------------------
(* src/fseccomp/seccomp.c                                                   *)

add_default_list(debuggers, native, action) ==
  CheckList(<<Group(IF debuggers THEN "@default" ELSE "@default-nodebuggers")>>, native, "blacklist", action)

Blacklist(list, native, action) ==
  IF list = <<>> THEN <<>> ELSE CheckList(list, native, "blacklist", action)

seccomp_default(debuggers, native, action) ==
  filter_init(native, action) \o add_default_list(debuggers, native, action) \o <<RETURN_ALLOW>>

\* The filter that is loaded before execve.
seccomp_drop(list, native, action) ==
  filter_init(native, action)
  \o CheckList(list, native, "whitelist_for_excluded", action)
  \o Blacklist(Prelist(list, native), native, action)
  \o <<RETURN_ALLOW>>

\* Mutant: the exceptions come after the default list.
ExceptionsLast(list, debuggers, native, action) ==
  filter_init(native, action)
  \o add_default_list(debuggers, native, action)
  \o CheckList(list, native, "whitelist_for_excluded", action)
  \o Blacklist(Prelist(list, native), native, action)
  \o <<RETURN_ALLOW>>

seccomp_default_drop(list, debuggers, native, action) ==
  filter_init(native, action)
  \o CheckList(list, native, "whitelist_for_excluded", action)
  \o add_default_list(debuggers, native, action)
  \o Blacklist(Prelist(list, native), native, action)
  \o <<RETURN_ALLOW>>

\* The filter the preloaded library installs after execve; none when nothing
\* was put off.
PostExec(list, native, action) ==
  IF Postlist(list, native) = <<>> THEN <<>>
  ELSE filter_init(native, action)
       \o Blacklist(Postlist(list, native), native, action)
       \o <<RETURN_ALLOW>>

seccomp_keep(list, native, action) ==
  filter_init(native, action)
  \o CheckList(list, native, "blacklist_for_excluded", action)
  \o CheckList(<<Group("@default-keep")>>, native, "whitelist", action)
  \o CheckList(list, native, "whitelist", action)
  \o <<RETURN(action)>>

\* Deny the call nr when all the flags of the mask are set in argument 2.
DenyFlags(nr, mask, action) ==
  <<BPF_JUMP("jeq", nr, 0, 5), EXAMINE_ARGUMENT(2), BPF_STMT("and", mask),
    BPF_JUMP("jeq", mask, 0, 1), RETURN(action), RETURN_ALLOW>>

memory_deny_write_execute(action) ==
  filter_init(TRUE, action)
  \o DenyFlags(SysList["mmap"], {"PROT_WRITE", "PROT_EXEC"}, action)
  \o DenyFlags(SysList["mprotect"], {"PROT_EXEC"}, action)
  \o DenyFlags(SysList["pkey_mprotect"], {"PROT_EXEC"}, action)
  \o DenyFlags(SysList["shmat"], {"SHM_EXEC"}, action)
  \o BLACKLIST(SysList["memfd_create"], action)
  \o <<RETURN_ALLOW, RETURN_ALLOW>>

memory_deny_write_execute_32(action) ==
  filter_init(FALSE, action)
  \o BLACKLIST(90, action)                                          \* block_syscall_32
  \o DenyFlags(192, {"PROT_WRITE", "PROT_EXEC"}, action)            \* filter_syscall_32
  \o DenyFlags(125, {"PROT_EXEC"}, action)                          \* mprotect_32
  \o DenyFlags(380, {"PROT_EXEC"}, action)                          \* pkey_mprotect_32
  \o DenyFlags(397, {"SHM_EXEC"}, action)                           \* shmat_32
  \o BLACKLIST(356, action)                                         \* memfd_create_32
  \o <<RETURN_ALLOW, RETURN_ALLOW>>

-----------------------------------------------------------------------------
(* src/fseccomp/seccomp_secondary.c                                         *)

secondary_32_calls ==
  <<21, 52, 26, 283, 341, 342, 127, 128, 350, 129, 110, 101, 289, 87, 115, 103, 347, 348, 135,
    149, 124, 343, 253, 336, 338, 349, 286, 287, 288, 86, 51, 123, 217, 245, 246, 247, 248, 249,
    257, 274, 276, 294, 317, 316, 61, 88, 169, 130>>

seccomp_secondary_32(action) ==
  VALIDATE("ARCH_32", "allow") \o <<EXAMINE_SYSCALL>>
  \o FlattenSeq([i \in 1..Len(secondary_32_calls) |-> BLACKLIST(secondary_32_calls[i], action)])
  \o <<RETURN_ALLOW>>

\* personality(2) is allowed for PER_LINUX and to ask for the current one.
PER_LINUX == 0
QUERY == 65535                     \* stands for 0xffffffff
seccomp_secondary_block(action) ==
  VALIDATE("ARCH_64", action) \o <<EXAMINE_SYSCALL>> \o HANDLE_X32(action)
  \o <<BPF_JUMP("jeq", SysList["personality"], 0, 6),
       BPF_STMT("ld", "arg0"),
       BPF_JUMP("jeq", PER_LINUX, 1, 0),
       BPF_JUMP("jeq", QUERY, 0, 2),
       BPF_STMT("ld", "arg0high"),
       BPF_JUMP("jeq", 0, 1, 0),
       RETURN(action),
       RETURN_ALLOW>>

-----------------------------------------------------------------------------
(* src/fseccomp/protocol.c: the numbers before the jumps count the          *)
(* instructions they skip.                                                  *)

protocols == {"unix", "inet", "inet6", "netlink", "packet", "bluetooth"}

protocol_build_filter(list, action) ==
  <<BPF_STMT("ld", "arch"), BPF_JUMP("jeq", "ARCH_64", 1 + 2 + 1, 0), EXAMINE_SYSCALL>>
  \o ONLY_NR(359)
  \o <<BPF_STMT("ja", 3 + 1 + 3 + 2)>>
  \o VALIDATE("ARCH_64", "allow") \o <<EXAMINE_SYSCALL>> \o HANDLE_X32(action)
  \o ONLY_NR(SysList["socket"])
  \o <<EXAMINE_ARGUMENT(0)>>
  \o FlattenSeq([i \in 1..Len(list) |-> WHITELIST(list[i])])
  \o <<RETURN("ENOTSUP")>>

-----------------------------------------------------------------------------
(* src/fseccomp/namespaces.c                                                *)

namespaces == {"cgroup", "ipc", "net", "mnt", "pid", "time", "user", "uts"}

\* Deny the call nr when any flag of the mask is set in the argument.
DenyAny(nr, arg, mask, action) ==
  <<BPF_JUMP("jeq", nr, 0, 4), EXAMINE_ARGUMENT(arg), BPF_JUMP("jset", mask, 0, 1),
    RETURN(action), RETURN_ALLOW>>

\* CLONE_NEWTIME means something else to clone(), so its mask leaves it out;
\* the argument of clone3() cannot be seen; setns() with type 0 takes any.
NsFilter(mask, clone, clone3, unshare, setns, action) ==
  DenyAny(clone, 0, mask \ {"time"}, action)
  \o BLACKLIST(clone3, "ENOSYS")
  \o DenyAny(unshare, 0, mask, action)
  \o <<BPF_JUMP("jeq", setns, 0, 4), EXAMINE_ARGUMENT(1), BPF_JUMP("jeq", {}, 1, 0),
       BPF_JUMP("jset", mask, 0, 1), RETURN(action), RETURN_ALLOW>>
  \o <<RETURN_ALLOW>>

deny_ns(mask, action) ==
  filter_init(TRUE, action)
  \o NsFilter(mask, SysList["clone"], SysList["clone3"], SysList["unshare"], SysList["setns"], action)

deny_ns_32(mask, action) ==
  filter_init(FALSE, action) \o NsFilter(mask, 120, 435, 310, 346, action)
=============================================================================
