----------------------------- MODULE Lifecycle ------------------------------
(***************************************************************************)
(* What firejail promises of a sandbox, without how it keeps the promise.  *)
(* Seen from outside, a sandbox is a firejail process, an entry in the     *)
(* list other firejails look at (its locked pid file), a room (the pid     *)
(* namespace), a mark that tells --join it may enter, and the user's       *)
(* program.                                                                *)
(***************************************************************************)

VARIABLES
  firejail,   \* "there" or "gone"
  listing,    \* "not yet", "listed" or "over"
  room,       \* "none", "kept" or "gone"
  mark,       \* "none" or "ready"; "early" would be one set too early
  program     \* "none", "confined" or "over"; "loose" would be one not confined

lvars == <<firejail, listing, room, mark, program>>

Init ==
  /\ firejail = "there" /\ listing = "not yet" /\ room = "none"
  /\ mark = "none" /\ program = "none"

\* The room is made once.
Build ==
  /\ firejail = "there" /\ room = "none" /\ room' = "kept"
  /\ UNCHANGED <<firejail, listing, mark, program>>

\* The sandbox is listed once it has a room, and at most once.
List ==
  /\ firejail = "there" /\ listing = "not yet" /\ room # "none" /\ listing' = "listed"
  /\ UNCHANGED <<firejail, room, mark, program>>

\* Nothing is admitted before the confinement is complete.
Admit ==
  /\ room = "kept" /\ mark = "none" /\ program = "none" /\ mark' = "ready"
  /\ UNCHANGED <<firejail, listing, room, program>>

\* The program starts confined, in a room that others may already enter.
Start ==
  /\ room = "kept" /\ mark = "ready" /\ program = "none" /\ program' = "confined"
  /\ UNCHANGED <<firejail, listing, room, mark>>

\* The program ends, or turns out not to start.
Finish ==
  /\ room = "kept" /\ program # "over" /\ program' = "over"
  /\ UNCHANGED <<firejail, listing, room, mark>>

\* The room goes, and whoever was in it.
Close ==
  /\ room = "kept" /\ room' = "gone"
  /\ program' \in IF program = "none" THEN {"none", "over"} ELSE {"over"}
  /\ UNCHANGED <<firejail, listing, mark>>

\* A listed sandbox is taken off the list when its room is gone; one that was
\* never listed can be given up any time.
Retire ==
  /\ firejail = "there" /\ listing' = "over"
  /\ listing = "not yet" \/ (listing = "listed" /\ room = "gone")
  /\ UNCHANGED <<firejail, room, mark, program>>

\* firejail ends or is killed, and its lock goes with it.
Leave ==
  /\ firejail = "there" /\ firejail' = "gone" /\ listing' = "over"
  /\ UNCHANGED <<room, mark, program>>

Next == Build \/ List \/ Admit \/ Start \/ Finish \/ Close \/ Retire \/ Leave

Spec == Init /\ [][Next]_lvars
=============================================================================
