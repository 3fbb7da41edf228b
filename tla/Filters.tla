------------------------------ MODULE Filters ------------------------------
(***************************************************************************)
(* The seccomp filters of a sandbox: which files are prepared, rebuilt,    *)
(* optimized, loaded and installed, in the order of sandbox(), the         *)
(* preloaded library that installs one more filter after execve, and a     *)
(* process that joins (src/firejail/seccomp.c, sandbox.c, preproc.c,       *)
(* libpostexecseccomp).                                                    *)
(*                                                                         *)
(* Every file holds a program; a file that does not exist has none.        *)
(***************************************************************************)
EXTENDS FilterBuild, FiniteSetsExt

CONSTANT Cases          \* the option records to start from

VARIABLES
  opts,                 \* the options, the error action and the kernel
  files,                \* contents of /run/firejail/mnt/seccomp
  raw,                  \* what fseccomp wrote before fsec-optimize, by file
  queue,                \* filter_list_head: mapped files to install, in order
  saved,                \* RUN_SECCOMP_LIST
  kernel,               \* filters installed in the first program
  joined,               \* filters installed in a process that joins
  warned,               \* err_printed
  pc

vars == <<opts, files, raw, queue, saved, kernel, joined, warned, pc>>

Files == {"cfg", "32", "block", "protocol", "mdwx", "mdwx32", "ns", "ns32", "postexec", "postexec32"}
NoFile == <<BPF_STMT("missing", 0)>>
DEFAULT_ACTION == "EPERM"
Default == opts.action = DEFAULT_ACTION

-----------------------------------------------------------------------------
(* seccomp.c                                                                *)

\* seccomp_load(): the file is mapped, not read, so a later rewrite of it is
\* seen through the mapping; only the number of instructions, computed in 16
\* bits, is kept.  The new entry goes to the head of the list and the name of
\* the file to the end of the saved one.  A file that is missing or empty ends
\* the sandbox.
Readable(p) == p # NoFile /\ p # <<>>
Mapping(f, fs) == [file |-> f, len |-> ((8 * Len(fs[f])) % 65536) \div 8]
Zero == BPF_STMT("zero", 0)
Program(m) == [i \in 1..m.len |-> IF i <= Len(files[m.file]) THEN files[m.file][i] ELSE Zero]

\* Mutant: the name of the file is not saved for processes that join.
LoadUnsaved(fs, names, next) ==
  /\ files' = fs
  /\ IF \A i \in 1..Len(names) : Readable(fs[names[i]])
     THEN /\ queue' = Reverse([i \in 1..Len(names) |-> Mapping(names[i], fs)]) \o queue
          /\ saved' = saved \o Tail(names)
          /\ pc' = next
     ELSE pc' = "exit" /\ UNCHANGED queue /\ UNCHANGED saved

\* Load the files one after the other; fs is what they hold by then.
Load(fs, names, next) ==
  /\ files' = fs
  /\ IF \A i \in 1..Len(names) : Readable(fs[names[i]])
     THEN /\ queue' = Reverse([i \in 1..Len(names) |-> Mapping(names[i], fs)]) \o queue
          /\ saved' = saved \o names
          /\ pc' = next
     ELSE pc' = "exit" /\ UNCHANGED queue /\ UNCHANGED saved

\* The two files fseccomp and fsec-optimize are asked to write.
Target(native) == IF native THEN "cfg" ELSE "32"
PostTarget(native) == IF native THEN "postexec" ELSE "postexec32"
ListOf(native) == IF native THEN opts.list ELSE opts.list32
DropOf(native) == IF native THEN opts.drop ELSE opts.drop32
KeepOf(native) == IF native THEN opts.keep ELSE opts.keep32

\* The filters for the other architectures, rebuilt when the error action is
\* not the one they were built with.
SecondaryFile == IF opts.block THEN "block" ELSE "32"
Rebuilt ==
  [files EXCEPT ![SecondaryFile] =
     IF opts.block THEN seccomp_secondary_block(opts.action) ELSE seccomp_secondary_32(opts.action)]

\* seccomp_filter_drop(): which of the lists counts is decided by the native
\* ones, for both architectures.
FilterDrop(native, next) ==
  LET t == Target(native)
      Both(base, p, list) ==
        IF PostExec(list, native, opts.action) = <<>>
        THEN [base EXCEPT ![t] = Optimize(p, opts.action)]
        ELSE [base EXCEPT ![t] = Optimize(p, opts.action),
                          ![PostTarget(native)] = PostExec(list, native, opts.action)]
  IN \/ /\ opts.drop = <<>> /\ opts.list = <<>> /\ Default
        /\ Load(files, <<SecondaryFile, t>>, next)
        /\ UNCHANGED raw
     \/ /\ opts.drop = <<>> /\ ~(opts.list = <<>> /\ Default)
        /\ LET base == IF Default THEN files ELSE Rebuilt
               list == ListOf(native)
               p == IF list = <<>> THEN seccomp_default(opts.debuggers, native, opts.action)
                    ELSE seccomp_default_drop(list, opts.debuggers, native, opts.action)
               built == IF list = <<>> THEN [base EXCEPT ![t] = Optimize(p, opts.action)]
                        ELSE Both(base, p, list)
           IN \* the secondary filter is loaded before the main one is built
              /\ IF SecondaryFile = t
                 THEN /\ queue' = <<Mapping(t, built), Mapping(t, base)>> \o queue
                      /\ saved' = saved \o <<t, t>>
                      /\ files' = built /\ pc' = next
                 ELSE Load(built, <<SecondaryFile, t>>, next)
              /\ raw' = [[raw EXCEPT ![SecondaryFile] = IF Default THEN @ ELSE <<>>] EXCEPT ![t] = p]
     \/ /\ opts.drop # <<>> /\ DropOf(native) # <<>>
        /\ LET p == seccomp_drop(DropOf(native), native, opts.action)
           IN /\ Load(Both(files, p, DropOf(native)),
                      IF opts.block THEN <<"block", t>> ELSE <<t>>, next)
              /\ raw' = [raw EXCEPT ![t] = p]
     \* fseccomp is started without the list and refuses its arguments
     \/ /\ opts.drop # <<>> /\ DropOf(native) = <<>>
        /\ pc' = "exit"
        /\ UNCHANGED <<files, queue, saved, raw>>

\* seccomp_filter_keep(): the command is "keep" for both architectures.
FilterKeep(native, next) ==
  LET t == Target(native)
      built == [files EXCEPT ![t] = seccomp_keep(KeepOf(native), TRUE, opts.action)]
  IN /\ Load(built, IF opts.block THEN <<"block", t>> ELSE <<t>>, next)
     /\ raw' = [raw EXCEPT ![t] = <<>>]

-----------------------------------------------------------------------------
(* The steps of the sandbox.                                                *)

\* preproc_mount_mnt_dir(): copies of the filters made when firejail was
\* built, with the default error action, and empty files to be written later.
Installed ==
  [f \in Files |->
     CASE f = "32" /\ ~opts.block -> Optimize(seccomp_secondary_32(DEFAULT_ACTION), DEFAULT_ACTION)
       [] f = "block" /\ opts.block -> seccomp_secondary_block(DEFAULT_ACTION)
       [] f = "cfg" -> Optimize(seccomp_default(opts.debuggers, TRUE, DEFAULT_ACTION), DEFAULT_ACTION)
       [] f = "mdwx" /\ opts.mdwx -> memory_deny_write_execute(DEFAULT_ACTION)
       [] f = "mdwx32" /\ opts.mdwx -> memory_deny_write_execute_32(DEFAULT_ACTION)
       \* the Makefile builds seccomp.namespaces.32 with the native command
       [] f \in {"ns", "ns32"} /\ opts.ns # {} -> deny_ns(namespaces, DEFAULT_ACTION)
       [] f \in {"protocol", "postexec", "postexec32"} -> <<>>
       [] OTHER -> NoFile]

Preproc ==
  /\ pc = "preproc"
  /\ files' = Installed
  /\ raw' = [raw EXCEPT !["cfg"] = seccomp_default(opts.debuggers, TRUE, DEFAULT_ACTION),
                         !["32"] = IF opts.block THEN <<>> ELSE seccomp_secondary_32(DEFAULT_ACTION)]
  /\ pc' = "build_protocol"
  /\ UNCHANGED <<opts, queue, saved, kernel, joined, warned>>

BuildProtocol ==
  /\ pc = "build_protocol"
  /\ \/ /\ opts.protocol = <<>>
        /\ UNCHANGED files /\ pc' = "load_protocol"
     \/ /\ opts.protocol # <<>> /\ \A i \in 1..Len(opts.protocol) : opts.protocol[i] \in protocols
        /\ files' = [files EXCEPT !["protocol"] = protocol_build_filter(opts.protocol, opts.action)]
        /\ pc' = "load_protocol"
     \/ /\ \E i \in 1..Len(opts.protocol) : opts.protocol[i] \notin protocols
        /\ UNCHANGED files /\ pc' = "exit"
  /\ UNCHANGED <<opts, raw, queue, saved, kernel, joined, warned>>

LoadProtocol ==
  /\ pc = "load_protocol"
  /\ \/ /\ opts.protocol # <<>>
        /\ Load(files, <<"protocol">>, "native")
     \/ /\ opts.protocol = <<>>
        /\ files' = [files EXCEPT !["protocol"] = NoFile]
        /\ pc' = "native"
        /\ UNCHANGED queue /\ UNCHANGED saved
  /\ UNCHANGED <<opts, raw, kernel, joined, warned>>

\* A keep list takes precedence over the drop lists.
SeccompStep(native, on, here, next) ==
  /\ pc = here
  /\ \/ on /\ KeepOf(native) # <<>> /\ FilterKeep(native, next)
     \/ on /\ KeepOf(native) = <<>> /\ FilterDrop(native, next)
     \/ ~on /\ pc' = next /\ UNCHANGED <<files, raw, queue, saved>>
  /\ UNCHANGED <<opts, kernel, joined, warned>>

Native == SeccompStep(TRUE, opts.seccomp, "native", "secondary")
Secondary == SeccompStep(FALSE, opts.seccomp32, "secondary", "mdwx")

Mdwx ==
  /\ pc = "mdwx"
  /\ IF opts.mdwx
     THEN Load(IF Default THEN files
               ELSE [files EXCEPT !["mdwx"] = memory_deny_write_execute(opts.action),
                                  !["mdwx32"] = memory_deny_write_execute_32(opts.action)],
               <<"mdwx", "mdwx32">>, "ns")
     ELSE pc' = "ns" /\ UNCHANGED <<files, queue, saved>>
  /\ UNCHANGED <<opts, raw, kernel, joined, warned>>

\* --restrict-namespaces without a list uses the files as they were
\* installed, unless the error action is another one.
Namespaces ==
  /\ pc = "ns"
  /\ IF opts.ns # {}
     THEN Load(IF opts.nsall /\ Default THEN files
               ELSE [files EXCEPT !["ns"] = deny_ns(opts.ns, opts.action),
                                  !["ns32"] = deny_ns_32(opts.ns, opts.action)],
               <<"ns", "ns32">>, "install")
     ELSE pc' = "install" /\ UNCHANGED <<files, queue, saved>>
  /\ UNCHANGED <<opts, raw, kernel, joined, warned>>

\* seccomp_install_filters(): one filter; one the kernel refuses is skipped
\* with a single warning, and the program is started all the same.
Taken(p) == opts.kseccomp /\ Loadable(p)
Install ==
  /\ pc = "install" /\ queue # <<>>
  /\ LET p == Program(Head(queue))
     IN IF Taken(p) THEN kernel' = Append(kernel, p) /\ UNCHANGED warned
        ELSE warned' = TRUE /\ UNCHANGED kernel
  /\ queue' = Tail(queue)
  /\ UNCHANGED <<opts, files, raw, saved, joined, pc>>

Execve == [arch |-> "ARCH_64", nr |-> SysList["execve"], arg0 |-> 0, arg0high |-> 0, arg1 |-> 0, arg2 |-> 0]
Passes(stack, d) == StackVerdict(stack, d) \in {"allow", "log"}

\* start_application() executes the program; the dynamic linker runs the
\* constructor of libpostexecseccomp when --seccomp lists a call of
\* @default-keep (check_postexec()).
PostexecNeeded ==
  opts.seccomp /\ (Postlist(opts.list, TRUE) # <<>> \/ Postlist(opts.drop, TRUE) # <<>>)
load_seccomp ==
  LET p == files["postexec"]
  IN IF PostexecNeeded /\ Readable(p) /\ Taken(p) THEN <<p>> ELSE <<>>
StartApplication ==
  /\ pc = "install" /\ queue = <<>>
  /\ IF Passes(kernel, Execve)
     THEN pc' = "running" /\ kernel' = kernel \o load_seccomp
     ELSE pc' = "exit" /\ UNCHANGED kernel
  /\ UNCHANGED <<opts, files, raw, queue, saved, joined, warned>>

\* seccomp_load_file_list() in a process that joins the sandbox: the saved
\* names are loaded again, installed and followed by the program.
Reloaded == Reverse([i \in 1..Len(saved) |-> Program(Mapping(saved[i], files))])
Join ==
  /\ pc = "running"
  /\ joined' = SelectSeq(Reloaded, Taken) \o load_seccomp
  /\ pc' = "joined"
  /\ UNCHANGED <<opts, files, raw, queue, saved, kernel, warned>>

Done == pc \in {"exit", "joined"} /\ UNCHANGED vars

Init ==
  /\ opts \in Cases
  /\ files = [f \in Files |-> NoFile]
  /\ raw = [f \in Files |-> <<>>]
  /\ queue = <<>> /\ saved = <<>> /\ kernel = <<>> /\ joined = <<>>
  /\ warned = FALSE
  /\ pc = "preproc"

Next ==
  \/ Preproc \/ BuildProtocol \/ LoadProtocol \/ Native \/ Secondary \/ Mdwx \/ Namespaces
  \/ Install \/ StartApplication \/ Join \/ Done

Spec == Init /\ [][Next]_vars
-----------------------------------------------------------------------------
(* Properties.                                                              *)

\* System calls: the numbers of the tables, one that is in no table, and one of
\* the x32 interface.
Other == 999
ThisCall(a, n) ==
  LET Is(names, numbers) == IF a = "ARCH_64" THEN \E x \in names : SysList[x] = n ELSE n \in numbers
  IN [arch |-> a, nr |-> n, arg0high |-> 0,
      arg0 |-> IF Is({"socket"}, {359}) THEN "inet" ELSE IF Is({"clone", "unshare"}, {120, 310}) THEN {"user"} ELSE 0,
      arg1 |-> IF Is({"setns"}, {346}) THEN {"user"} ELSE 0,
      arg2 |-> IF Is({"mmap", "mprotect", "pkey_mprotect", "shmat"}, {192, 125, 380, 397}) THEN {"PROT_EXEC", "SHM_EXEC"} ELSE 0]
NativeCalls ==
  {ThisCall("ARCH_64", n) : n \in {SysList[x] : x \in DOMAIN SysList} \cup {Other, X32_SYSCALL_BIT + 1}}
Calls32 ==
  {ThisCall("ARCH_32", n) :
     n \in {SysList32[x] : x \in DOMAIN SysList32} \cup {secondary_32_calls[i] : i \in 1..Len(secondary_32_calls)}
           \cup {Other, 359, 120, 310, 346, 192, 125, 380, 397}}

\* An optimized filter decides every call as the one it was made from, as long
\* as no comparison is further from the shared return than a byte can say
\* (optimize_blacklists() moves returns that other jumps count over).
OptimizeKeepsMeaning ==
  pc = "install" =>
    \A f \in {"cfg", "32"} :
      Len(raw[f]) # Len(files[f]) /\ Readable(files[f]) /\ Readable(raw[f]) /\ Len(files[f]) < JumpRange =>
        \A d \in NativeCalls \cup Calls32 : Verdict(files[f], d) = Verdict(raw[f], d)

\* What a list says of the call nr, read as a set: its own action, excluded,
\* listed or nothing.
Says(list, nr) ==
  LET es == Expand(list)
      hits == {i \in 1..Len(es) : Nr(es[i], TRUE) = nr}
  IN IF \E i \in hits : es[i].err # "none" THEN es[Min({i \in hits : es[i].err # "none"})].err
     ELSE IF \E i \in hits : es[i].neg THEN "excluded"
     ELSE IF hits # {} THEN "listed" ELSE "nothing"
DefaultList == <<Group(IF opts.debuggers THEN "@default" ELSE "@default-nodebuggers")>>
Wanted(nr) ==
  LET Denied(list, word) == IF word = "listed" THEN opts.action ELSE IF word \in {"nothing", "excluded"} THEN "allow" ELSE word
  IN CASE nr >= X32_SYSCALL_BIT -> opts.action
       [] nr < X32_SYSCALL_BIT /\ opts.keep # <<>> ->
            LET w == Says(opts.keep, nr)
            IN IF w = "listed" \/ nr \in NumbersOf(<<Group("@default-keep")>>, TRUE) THEN "allow"
               ELSE IF w \in {"nothing", "excluded"} THEN opts.action ELSE w
       [] nr < X32_SYSCALL_BIT /\ opts.keep = <<>> /\ opts.drop # <<>> -> Denied(opts.drop, Says(opts.drop, nr))
       [] OTHER ->
            LET w == Says(opts.list, nr)
            IN IF w = "nothing" THEN Denied(DefaultList, Says(DefaultList, nr)) ELSE Denied(opts.list, w)

ListsExact ==
  pc = "running" /\ opts.seccomp /\ opts.kseccomp /\ opts.keep32 = <<>> /\ ~opts.mdwx /\ opts.ns = {} /\ opts.protocol = <<>> =>
    \A d \in NativeCalls : StackVerdict(kernel, d) = Wanted(d.nr)

SecondaryExact ==
  pc = "running" /\ opts.seccomp /\ ~opts.seccomp32 /\ opts.kseccomp /\ opts.keep = <<>> /\ opts.drop = <<>> =>
    IF opts.block
    THEN /\ \A d \in Calls32 : StackVerdict(kernel, d) = opts.action
         /\ \A lo \in {PER_LINUX, QUERY, 8}, hi \in {0, 1} :
              LET d == [Execve EXCEPT !.nr = SysList["personality"], !.arg0 = lo, !.arg0high = hi]
              IN (Verdict(files["block"], d) = "allow") <=> (lo \in {PER_LINUX, QUERY} /\ hi = 0)
    ELSE \A d \in Calls32 :
           opts.protocol # <<>> \/ opts.mdwx \/ opts.ns # {} \/
           StackVerdict(kernel, d) =
             IF \E i \in 1..Len(secondary_32_calls) : secondary_32_calls[i] = d.nr THEN opts.action ELSE "allow"

ProtocolExact ==
  files["protocol"] \notin {NoFile, <<>>} =>
    \A fam \in protocols \cup {"other"}, a \in {"ARCH_64", "ARCH_32"} :
      Verdict(files["protocol"],
              [Execve EXCEPT !.arch = a, !.arg0 = fam,
                             !.nr = IF a = "ARCH_64" THEN SysList["socket"] ELSE 359]) =
        IF \E i \in 1..Len(opts.protocol) : opts.protocol[i] = fam THEN "allow" ELSE "ENOTSUP"

Refused(nr, field, flags) ==
  ~Passes(kernel, [Execve EXCEPT !.nr = SysList[nr], ![field] = flags])
ArgumentsExact ==
  pc = "running" /\ opts.kseccomp /\ ~opts.seccomp /\ opts.action # "log" =>
    /\ opts.mdwx =>
         \A fl \in SUBSET {"PROT_READ", "PROT_WRITE", "PROT_EXEC"} :
           /\ Refused("mmap", "arg2", fl) <=> {"PROT_WRITE", "PROT_EXEC"} \subseteq fl
           /\ \A n \in {"mprotect", "pkey_mprotect"} : Refused(n, "arg2", fl) <=> "PROT_EXEC" \in fl
    /\ \A fl \in SUBSET {"net", "time", "user"} :
         /\ Refused("unshare", "arg0", fl) <=> fl \intersect opts.ns # {}
         /\ Refused("setns", "arg1", fl) <=> fl \intersect opts.ns # {} \/ (fl = {} /\ opts.ns # {})
         /\ Refused("clone", "arg0", fl) <=> (fl \ {"time"}) \intersect opts.ns # {}

\* The program sees every call decided as the list in force says, calls put
\* off until after execve included (seccomp_filter_drop(), seccomp_filter_keep(),
\* syscalls_in_list(), libpostexecseccomp; --seccomp.32.keep is left out, as its
\* filter is built for native calls).  Without lists of their own, 32-bit calls
\* are filtered by the secondary list, or not let through at all when they are
\* blocked, and personality() cannot switch to another execution domain then.
\* Sockets of the listed families and no others can be created, by the native
\* and the 32-bit call alike (protocol_build_filter()).  Writable memory never
\* becomes executable, and no listed namespace is created or entered, whatever
\* other flags a call has (memory_deny_write_execute(), deny_ns()).
FiltersExact == ListsExact /\ SecondaryExact /\ ProtocolExact /\ ArgumentsExact

\* The filters installed before the program never keep firejail from executing
\* it, whatever the user lists, unless the list gives execve an action of its
\* own (@default-keep; syscalls_in_list()).
StartsProgram ==
  pc = "install" /\ queue = <<>>
    /\ (\A l \in {opts.list, opts.drop, opts.keep} : Says(l, SysList["execve"]) \in {"listed", "nothing"})
    => Passes(kernel, Execve)

\* A process that joins has every call decided as the program does, although
\* filters were rebuilt after they had been loaded (seccomp_load_file_list()).
JoinedSame ==
  pc = "joined" =>
    \A d \in NativeCalls \cup Calls32 : StackVerdict(joined, d) = StackVerdict(kernel, d)
=============================================================================
