-------------------------------- MODULE Bpf --------------------------------
(***************************************************************************)
(* Seccomp programs: the instruction macros of src/include/seccomp.h, the  *)
(* kernel's evaluation of a program on a system call, and fsec-optimize.   *)
(*                                                                         *)
(* A program is a sequence of instructions [op, k, jt, jf].  The operand   *)
(* of a load names a field of the call; the operand of a comparison is an  *)
(* architecture, a number or a set of flags (a bit mask); the operand of a *)
(* return is an action: "allow", "log", "kill" or the name of an errno.    *)
(***************************************************************************)
EXTENDS Integers, Sequences, SequencesExt

JumpRange == 256                   \* jt and jf are __u8
MaxInsns == 4096                   \* BPF_MAXINSNS of the kernel
X32_SYSCALL_BIT == 1073741824
LIMIT_BLACKLISTS == 4

BPF_STMT(op, k) == [op |-> op, k |-> k, jt |-> 0, jf |-> 0]
BPF_JUMP(op, k, t, f) == [op |-> op, k |-> k, jt |-> t, jf |-> f]

\* The macros of seccomp.h, on x86_64.
RETURN(action) == BPF_STMT("ret", action)
RETURN_ALLOW == RETURN("allow")
VALIDATE(arch, other) ==
  <<BPF_STMT("ld", "arch"), BPF_JUMP("jeq", arch, 1, 0), RETURN(other)>>
EXAMINE_SYSCALL == BPF_STMT("ld", "nr")
EXAMINE_ARGUMENT(i) == BPF_STMT("ld", <<"arg0", "arg1", "arg2">>[i + 1])
HANDLE_X32(action) ==
  <<BPF_JUMP("jge", X32_SYSCALL_BIT, 1, 0), BPF_JUMP("jge", 0, 1, 0), RETURN(action)>>
ONLY_NR(nr) == <<BPF_JUMP("jeq", nr, 1, 0), RETURN_ALLOW>>
BLACKLIST(nr, action) == <<BPF_JUMP("jeq", nr, 0, 1), RETURN(action)>>
WHITELIST(nr) == BLACKLIST(nr, "allow")

-----------------------------------------------------------------------------
(* The kernel.                                                              *)

\* What one program returns for the call d, from instruction i with
\* accumulator a.
RECURSIVE Eval(_, _, _, _)
Eval(p, d, i, a) ==
  LET c == p[i]
      Jump(b) == Eval(p, d, i + 1 + (IF b THEN c.jt ELSE c.jf), a)
  IN CASE c.op = "ld"   -> Eval(p, d, i + 1, d[c.k])
       [] c.op = "and"  -> Eval(p, d, i + 1, a \intersect c.k)
       [] c.op = "ja"   -> Eval(p, d, i + 1 + c.k, a)
       [] c.op = "jeq"  -> Jump(a = c.k)
       [] c.op = "jge"  -> Jump(a >= c.k)
       [] c.op = "jset" -> Jump(a \intersect c.k # {})
       [] c.op = "ret"  -> c.k

Verdict(p, d) == Eval(p, d, 1, 0)

\* A program the kernel takes: not empty, not too long, every jump inside it
\* and a return at the end.
Loadable(p) ==
  /\ Len(p) \in 1..MaxInsns
  /\ p[Len(p)].op = "ret"
  /\ \A i \in 1..Len(p) :
       /\ p[i].op \in {"jeq", "jge", "jset"} => i + 1 + p[i].jt <= Len(p) /\ i + 1 + p[i].jf <= Len(p)
       /\ p[i].op = "ja" => i + 1 + p[i].k <= Len(p)

\* The most restrictive verdict of a stack of filters decides; between two
\* errnos the filter installed last does.  stack[1] was installed first.
Rank(v) == CASE v = "kill" -> 3 [] v = "log" -> 1 [] v = "allow" -> 0 [] OTHER -> 2
StackVerdict(stack, d) ==
  FoldLeft(LAMBDA v, p : LET w == Verdict(p, d) IN IF Rank(w) >= Rank(v) THEN w ELSE v,
           "allow", stack)

-----------------------------------------------------------------------------
(* fsec-optimize.                                                           *)

\* is_blacklist(): a comparison followed by a return of the error action.
IsBlacklist(p, i, action) ==
  /\ i < Len(p)
  /\ p[i].op = "jeq" /\ p[i + 1].op = "ret" /\ p[i + 1].k = action

\* Mutant: the offset is one too short.
OptimizeTooNear(p, action) ==
  LET fix == {i \in 1..Len(p) : IsBlacklist(p, i, action)}
      kept == SelectSeq([i \in 1..Len(p) |-> i], LAMBDA i : i - 1 \notin fix)
      entries == Len(kept) + 1
  IN [j \in 1..entries |->
        IF j = entries THEN RETURN(action)
        ELSE IF kept[j] \in fix
             THEN [p[kept[j]] EXCEPT !.jt = (entries - j - 2) % JumpRange, !.jf = 0]
             ELSE p[kept[j]]]

\* optimize_blacklists(): drop those returns, append one that they share, and
\* let the comparisons jump to it.  The offset is stored in one byte.
OptimizeBlacklists(p, action) ==
  LET fix == {i \in 1..Len(p) : IsBlacklist(p, i, action)}
      kept == SelectSeq([i \in 1..Len(p) |-> i], LAMBDA i : i - 1 \notin fix)
      entries == Len(kept) + 1
  IN [j \in 1..entries |->
        IF j = entries THEN RETURN(action)
        ELSE IF kept[j] \in fix
             THEN [p[kept[j]] EXCEPT !.jt = (entries - (j - 1) - 2) % JumpRange, !.jf = 0]
             ELSE p[kept[j]]]

\* optimize(): only when there is something to gain.
Optimize(p, action) ==
  IF Len(SelectSeq([i \in 1..Len(p) |-> IsBlacklist(p, i, action)], LAMBDA b : b)) > LIMIT_BLACKLISTS
  THEN OptimizeBlacklists(p, action) ELSE p
=============================================================================
