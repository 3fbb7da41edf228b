-------------------------- MODULE SandboxLifecycle --------------------------
(***************************************************************************)
(* The refinement mapping from Sandbox to Lifecycle.                       *)
(***************************************************************************)
EXTENDS SandboxInv

\* The parent before it locks the pid file.
Unlisted == BeforeClone \cup {"pidfile", "pidlock"}

\* What the mapping needs beyond IInv: the join byte is set before the program is
\* started, and no program outlives its pid namespace.
Order ==
  /\ apc \in {"exec", "running"} => "done" \in disk
  /\ ~ChildAlive => ~AppAlive

Firejail == IF ParentDead THEN "gone" ELSE "there"
Listing == IF pidlock # {} THEN "listed" ELSE IF ppc \in Unlisted THEN "not yet" ELSE "over"
Room == IF cpc = "none" THEN "none" ELSE IF ChildDead THEN "gone" ELSE "kept"
Ready == Promised(asked) \subseteq aforce
Mark == IF "done" \notin disk THEN "none" ELSE IF Ready THEN "ready" ELSE "early"
Program ==
  IF apc = "dead" THEN "over" ELSE IF apc # "running" THEN "none"
  ELSE IF Ready THEN "confined" ELSE "loose"

L == INSTANCE Lifecycle
       WITH firejail <- Firejail, listing <- Listing, room <- Room, mark <- Mark,
            program <- Program

\* The two processes, their pipes, signals and failures keep the promises of
\* Lifecycle: through every interleaving, also when either side fails or is
\* killed, the program starts once, confined, after the join mark, in a live
\* pid namespace; the mark is never early; and the pid file stays locked until
\* the namespace is gone or firejail is (main(), sandbox(), my_handler()).
KeepsLifecycle == L!Spec
=============================================================================
