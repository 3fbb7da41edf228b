------------------------------ MODULE X11Session ------------------------------
(***************************************************************************)
(* firejail --x11=xephyr and --x11=xvfb.  The starter picks a display      *)
(* number nobody listens on, starts an X server for it, waits for the      *)
(* socket file of the display, starts the sandbox (the jail: firejail      *)
(* again, without --x11) and waits for either of them to end; it then ends *)
(* the other.  Several users and starters do this at the same time, and    *)
(* between the test of a display number and its use anybody may take it.   *)
(***************************************************************************)
EXTENDS Integers, FiniteSets

CONSTANTS Starters,
          Displays,
          MaxTries,    \* display numbers tried (100 in the code)
          MaxWait      \* seconds a starter waits for the server (10 in the code)

VARIABLES x,         \* [Starters -> where the starter is]
          server,    \* [Starters -> "xephyr" or "xvfb"], what it was asked for
          display,   \* [Starters -> display number it chose]
          tries,     \* [Starters -> numbers tried, then seconds waited]
          xsrv,      \* [Starters -> its X server]: "none", "starts", "up", "dead"
          jail,      \* [Starters -> its sandbox]: "none", "up", "dead"
          term,      \* the processes a starter sent SIGTERM: <<"srv" or "jail", s>>
          file,      \* [Displays -> socket file]: "no", "stale" or "live"
          owner      \* [Displays -> who listens]: a starter, "host" or "nobody"

xvars == <<x, server, display, tries, xsrv, jail, term, file, owner>>

NoDisplay == "none"

(***************************************************************************)
(* x11_start: root is refused, and so is a system without the server.      *)
(***************************************************************************)
Refused(s) ==
  /\ x[s] = "start"
  /\ x' = [x EXCEPT ![s] = "end"]
  /\ UNCHANGED <<server, display, tries, xsrv, jail, term, file, owner>>

Begin(s) ==
  /\ x[s] = "start"
  /\ x' = [x EXCEPT ![s] = "pick"]
  /\ UNCHANGED <<server, display, tries, xsrv, jail, term, file, owner>>

(***************************************************************************)
(* random_display_number: connect to the socket of a random display, first *)
(* the file, then the abstract name; a refused connection, or none to      *)
(* connect to, means that the number is free.                              *)
(***************************************************************************)
PickNumber(s) ==
  /\ x[s] = "pick" /\ tries[s] < MaxTries
  /\ \E d \in Displays :
       IF file[d] = "live"
       THEN /\ tries' = [tries EXCEPT ![s] = @ + 1]
            /\ UNCHANGED <<x, display>>
       ELSE /\ display' = [display EXCEPT ![s] = d]
            /\ x' = [x EXCEPT ![s] = "abstract"]
            /\ UNCHANGED tries
  /\ UNCHANGED <<server, xsrv, jail, term, file, owner>>

TryAbstract(s) ==
  /\ x[s] = "abstract"
  /\ IF owner[display[s]] # "nobody"
     THEN /\ tries' = [tries EXCEPT ![s] = @ + 1]
          /\ x' = [x EXCEPT ![s] = "pick"]
     ELSE /\ tries' = [tries EXCEPT ![s] = 0]
          /\ x' = [x EXCEPT ![s] = "params"]
  /\ UNCHANGED <<server, display, xsrv, jail, term, file, owner>>

NoNumber(s) ==
  /\ x[s] = "pick" /\ tries[s] = MaxTries
  /\ x' = [x EXCEPT ![s] = "end"]
  /\ UNCHANGED <<server, display, tries, xsrv, jail, term, file, owner>>

(***************************************************************************)
(* The extra parameters of the server: mixed or unclosed quotes, or too    *)
(* many of them, end the starter; xvfb and xephyr have their own copy.     *)
(***************************************************************************)
ParamsRead(s) ==
  /\ x[s] = "params"
  /\ x' \in {[x EXCEPT ![s] = "fork"], [x EXCEPT ![s] = "end"]}
  /\ UNCHANGED <<server, display, tries, xsrv, jail, term, file, owner>>

XvfbParams(s) == server[s] = "xvfb" /\ ParamsRead(s)
XephyrParams(s) == server[s] = "xephyr" /\ ParamsRead(s)

(***************************************************************************)
(* The processes.                                                          *)
(***************************************************************************)
ForkServer(s) ==
  /\ x[s] = "fork"
  /\ xsrv' = [xsrv EXCEPT ![s] = "starts"]
  /\ x' = [x EXCEPT ![s] = "wait"]
  /\ UNCHANGED <<server, display, tries, jail, term, file, owner>>

\* The file of the display is there, whoever made it.
SocketFound(s) == file[display[s]] # "no"

WaitForSocket(s) ==
  /\ x[s] = "wait"
  /\ tries' = [tries EXCEPT ![s] = @ + 1]
  /\ x' = [x EXCEPT ![s] = IF tries[s] + 1 = MaxWait THEN "end"
                           ELSE IF SocketFound(s) THEN "attach" ELSE "wait"]
  /\ UNCHANGED <<server, display, xsrv, jail, term, file, owner>>

AttachJail(s) ==
  /\ x[s] = "attach"
  /\ jail' = [jail EXCEPT ![s] = "up"]
  /\ x' = [x EXCEPT ![s] = "first"]
  /\ UNCHANGED <<server, display, tries, xsrv, term, file, owner>>

\* mutant: the starter only ends the server after the jail
EndServer(s, child) == <<"srv", s>>

\* wait(NULL) returns one of the two; the other is sent SIGTERM.
EndOther(s, child) == IF child = "srv" THEN <<"jail", s>> ELSE <<"srv", s>>

Dead(s, child) == IF child = "srv" THEN xsrv[s] = "dead" ELSE jail[s] = "dead"

WaitFirst(s) ==
  /\ x[s] = "first"
  /\ \E child \in {"srv", "jail"} :
       /\ Dead(s, child)
       /\ term' = term \cup {EndOther(s, child)}
  /\ x' = [x EXCEPT ![s] = "funeral"]
  /\ UNCHANGED <<server, display, tries, xsrv, jail, file, owner>>

\* The second wait(NULL): until both are dead.
FuneralOver(s) == xsrv[s] = "dead" /\ jail[s] = "dead"

Funeral(s) ==
  /\ x[s] = "funeral" /\ FuneralOver(s)
  /\ x' = [x EXCEPT ![s] = "end"]
  /\ UNCHANGED <<server, display, tries, xsrv, jail, term, file, owner>>

SessionSteps(s) ==
  ForkServer(s) \/ WaitForSocket(s) \/ AttachJail(s) \/ WaitFirst(s) \/ Funeral(s)

x11_start_xvfb(s) == server[s] = "xvfb" /\ SessionSteps(s)
x11_start_xephyr(s) == server[s] = "xephyr" /\ SessionSteps(s)

(***************************************************************************)
(* External: X servers.  A server takes its display unless another listens *)
(* there (a stale file is replaced), or fails; it ends on its own or by    *)
(* SIGTERM, and a crash leaves the file behind.  Others on the host take   *)
(* and leave displays too, with the file or the abstract name alone.       *)
(***************************************************************************)
ServerUp(s) ==
  /\ xsrv[s] = "starts" /\ owner[display[s]] = "nobody"
  /\ xsrv' = [xsrv EXCEPT ![s] = "up"]
  /\ owner' = [owner EXCEPT ![display[s]] = s]
  /\ file' = [file EXCEPT ![display[s]] = "live"]
  /\ UNCHANGED <<x, server, display, tries, jail, term>>

ServerFails(s) ==
  /\ xsrv[s] = "starts"
  /\ xsrv' = [xsrv EXCEPT ![s] = "dead"]
  /\ UNCHANGED <<x, server, display, tries, jail, term, file, owner>>

ServerEnds(s) ==
  /\ xsrv[s] = "up"
  /\ xsrv' = [xsrv EXCEPT ![s] = "dead"]
  /\ owner' = [owner EXCEPT ![display[s]] = "nobody"]
  /\ \E left \in {"no", "stale"} : file' = [file EXCEPT ![display[s]] = left]
  /\ UNCHANGED <<x, server, display, tries, jail, term>>

JailEnds(s) ==
  /\ jail[s] = "up"
  /\ jail' = [jail EXCEPT ![s] = "dead"]
  /\ UNCHANGED <<x, server, display, tries, xsrv, term, file, owner>>

HostServer ==
  /\ \E d \in Displays :
       \/ /\ owner[d] = "nobody" /\ \E s \in Starters : x[s] \notin {"start", "end"}
          /\ owner' = [owner EXCEPT ![d] = "host"]
          /\ \E f \in {"live", file[d]} : file' = [file EXCEPT ![d] = f]
       \/ /\ owner[d] = "host"
          /\ owner' = [owner EXCEPT ![d] = "nobody"]
          /\ file' = [file EXCEPT ![d] = IF @ = "live" THEN "stale" ELSE @]
  /\ UNCHANGED <<x, server, display, tries, xsrv, jail, term>>

XInit ==
  /\ x = [s \in Starters |-> "start"]
  /\ server \in [Starters -> {"xephyr", "xvfb"}]
  /\ display = [s \in Starters |-> NoDisplay]
  /\ tries = [s \in Starters |-> 0]
  /\ xsrv = [s \in Starters |-> "none"] /\ jail = [s \in Starters |-> "none"]
  /\ term = {}
  /\ file \in [Displays -> {"no", "stale"}]
  /\ owner = [d \in Displays |-> "nobody"]

StarterStep(s) ==
  \/ Refused(s) \/ Begin(s) \/ PickNumber(s) \/ TryAbstract(s) \/ NoNumber(s)
  \/ XvfbParams(s) \/ XephyrParams(s)
  \/ x11_start_xvfb(s) \/ x11_start_xephyr(s)

XNext ==
  \/ \E s \in Starters :
       \/ StarterStep(s)
       \/ ServerUp(s) \/ ServerFails(s) \/ ServerEnds(s) \/ JailEnds(s)
  \/ HostServer

\* Weak fairness is assumed of StarterStep (a starter runs) and of the two
\* below: a server that was started comes up or fails, and a process that was
\* sent SIGTERM ends, as firejail and the X servers do.
ServerSettles(s) == ServerUp(s) \/ ServerFails(s)
Terminated(s) ==
  (<<"srv", s>> \in term /\ ServerEnds(s)) \/ (<<"jail", s>> \in term /\ JailEnds(s))

-----------------------------------------------------------------------------
OwnDisplay(s) == \E d \in Displays : display[s] = d /\ owner[d] = s

Alive(s) == xsrv[s] \in {"starts", "up"} \/ jail[s] = "up"

StarterEndsLast ==
  \A s \in Starters : x[s] = "end" /\ jail[s] # "none" => ~Alive(s)

ForeignDisplayLeft ==
  \A s \in Starters :
    (jail[s] = "up" /\ ~OwnDisplay(s)) ~> (jail[s] = "dead" \/ OwnDisplay(s))

\* A starter that got as far as its sandbox ends last: nothing it started is
\* alive when it ends, so the terminal is free again (the two waits of
\* x11_start_xephyr and x11_start_xvfb).  And a sandbox does not stay on a
\* display that its own server does not serve: it may find the socket of
\* somebody else who took the number after it was tested, or a stale file, but
\* then its own server fails and the sandbox is ended (the race
\* random_display_number describes).
DisplayIsOwn == []StarterEndsLast /\ ForeignDisplayLeft
==============================================================================
