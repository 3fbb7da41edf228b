----------------------------- MODULE MCFilters -----------------------------
(* Filters with a few calls of the x86_64 and i386 tables, under their real *)
(* numbers, and small groups that nest as the real ones do.                 *)
EXTENDS Filters, TLC

MCSysList ==
  [n \in {"execve", "execveat", "prctl", "mount", "umount2", "ptrace", "swapon", "reboot",
          "settimeofday", "personality", "chmod", "chown", "mmap", "mprotect", "pkey_mprotect",
          "shmat", "memfd_create", "socket", "clone", "clone3", "unshare", "setns"} |->
     CASE n = "execve" -> 59 [] n = "execveat" -> 322 [] n = "prctl" -> 157 [] n = "mount" -> 165
       [] n = "umount2" -> 166 [] n = "ptrace" -> 101 [] n = "swapon" -> 167 [] n = "reboot" -> 169
       [] n = "settimeofday" -> 164 [] n = "personality" -> 135 [] n = "chmod" -> 90
       [] n = "chown" -> 92 [] n = "mmap" -> 9 [] n = "mprotect" -> 10 [] n = "pkey_mprotect" -> 329
       [] n = "shmat" -> 30 [] n = "memfd_create" -> 319 [] n = "socket" -> 41 [] n = "clone" -> 56
       [] n = "clone3" -> 435 [] n = "unshare" -> 272 [] n = "setns" -> 308]

MCSysList32 ==
  [n \in {"execve", "prctl", "mount", "umount2", "ptrace", "swapon", "reboot", "settimeofday",
          "personality", "chmod", "chown"} |->
     CASE n = "execve" -> 11 [] n = "prctl" -> 172 [] n = "mount" -> 21 [] n = "umount2" -> 52
       [] n = "ptrace" -> 26 [] n = "swapon" -> 87 [] n = "reboot" -> 88 [] n = "settimeofday" -> 79
       [] n = "personality" -> 136 [] n = "chmod" -> 15 [] n = "chown" -> 182]

MCSysGroups ==
  [g \in {"@default", "@default-nodebuggers", "@default-keep", "@clock", "@mount"} |->
     CASE g = "@clock" -> <<Call("settimeofday"), Call("__dummy_syscall__")>>
       [] g = "@mount" -> <<Call("mount"), Call("umount2"), Call("__dummy_syscall__")>>
       [] g = "@default" -> <<Group("@clock"), Group("@mount"), Call("swapon"), Call("reboot")>>
       [] g = "@default-nodebuggers" -> <<Group("@default"), Call("personality"), Call("ptrace")>>
       [] g = "@default-keep" -> <<Call("execve"), Call("execveat"), Call("prctl")>>]

Base ==
  [seccomp |-> FALSE, seccomp32 |-> FALSE, list |-> <<>>, drop |-> <<>>, keep |-> <<>>,
   list32 |-> <<>>, drop32 |-> <<>>, keep32 |-> <<>>, block |-> FALSE, debuggers |-> FALSE,
   action |-> "EPERM", protocol |-> <<>>, mdwx |-> FALSE, ns |-> {}, nsall |-> FALSE, kseccomp |-> TRUE]

Actions == {"EPERM", "kill", "log", "ENOSYS"}

\* Entries of a list; two of them in either order, and a longer list that
\* makes the optimizer work.
Entries ==
  {Call("chmod"), Call("mount"), Call("execve"), Except("mount"), Except("ptrace"), CallErr("chown", "ENOENT"),
   CallErr("swapon", "kill"), CallErr("chmod", "log"), Number(90), Group("@mount"), Call("nonexistent")}
Clash(a, b) == a.id = b.id \/ (a.kind = "number" /\ b.id = "chmod") \/ (b.kind = "number" /\ a.id = "chmod")
Long == <<Call("chmod"), Group("@mount"), Call("prctl"), Except("reboot"), CallErr("ptrace", "ENOENT"),
          Call("swapon"), Call("chown"), Call("clone3"), Call("setns"), Call("shmat")>>
Lists == {<<e>> : e \in Entries} \cup {<<p[1], p[2]>> : p \in {q \in Entries \X Entries : ~Clash(q[1], q[2])}} \cup {Long}

MCCases ==
  \* one list, every action
       {[Base EXCEPT !.seccomp = TRUE, !.list = l, !.action = a] : l \in Lists, a \in Actions}
  \cup {[Base EXCEPT !.seccomp = TRUE, !.drop = l, !.action = a] : l \in Lists, a \in {"EPERM", "kill"}}
  \cup {[Base EXCEPT !.seccomp = TRUE, !.keep = l, !.action = a] : l \in Lists, a \in {"EPERM", "log"}}
  \* no list
  \cup {[Base EXCEPT !.seccomp = TRUE, !.block = b, !.debuggers = d, !.action = a, !.kseccomp = k] :
          b \in BOOLEAN, d \in BOOLEAN, a \in Actions, k \in BOOLEAN}
  \* secondary filters with and without native lists
  \cup {[Base EXCEPT !.seccomp = s, !.seccomp32 = TRUE, !.list = l, !.list32 = m, !.block = b, !.action = a] :
          s \in BOOLEAN, l \in {<<>>, Long}, m \in {<<>>, <<Call("chmod")>>, Long}, b \in BOOLEAN, a \in {"EPERM", "kill"}}
  \cup {[Base EXCEPT !.seccomp = TRUE, !.seccomp32 = TRUE, !.drop = l, !.drop32 = m, !.keep32 = k, !.block = b] :
          l \in {<<>>, Long}, m \in {<<>>, <<Call("chmod")>>}, k \in {<<>>, <<Call("chown")>>}, b \in BOOLEAN}
  \* filters that look at arguments
  \cup {[Base EXCEPT !.protocol = p, !.mdwx = w, !.ns = n, !.nsall = (n = namespaces), !.action = a] :
          p \in {<<>>, <<"unix">>, <<"inet", "netlink">>, <<"unix", "bogus">>}, w \in BOOLEAN,
          n \in {{}, {"user"}, {"net", "time"}, namespaces}, a \in Actions}
=============================================================================
