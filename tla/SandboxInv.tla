----------------------------- MODULE SandboxInv -----------------------------
(***************************************************************************)
(* The inductive invariant behind the safety properties of Sandbox.  Each  *)
(* part says what is true at each point of the setup, which none of the    *)
(* properties does by itself.                                              *)
(***************************************************************************)
EXTENDS Sandbox

\* The parent before the child exists, and before its first notification.
BeforeClone == {"start", "runfiles", "proxy", "clone"}
BeforeNotify == BeforeClone \cup {"pidfile", "pidlock", "netfork", "netwait", "notify1"}
Mapping == {"uidmap", "gidmap", "notify2"}

\* The child between the two notifications, and after the second.
Middle == {"mount", "network", "enforce", "fs", "save", "seccomp", "caps", "joinfile",
           "userns", "notify"}
Prefork == {"recaps", "nnp", "drop", "pdeath", "fork"}
Postfork == {"handlers", "monitor", "handler", "broadcast"}
Late == Prefork \cup Postfork
Gone == {"zombie", "reaped"}

Agreed == "noroot" \in carg <=> "userns" \in force
Mapped == "userns" \in force => {"uidmap", "gidmap"} \subseteq force

\* Where parent and child can be at the same time, and what is in the pipes.
Handshake ==
  /\ p2c \in {<<>>, <<0>>, <<1>>} /\ c2p \in {<<>>, <<0>>, <<1>>}
  /\ ppc \in BeforeClone => cpc = "none"
  /\ ppc \in BeforeNotify => p2c = <<>> /\ cpc \in {"none", "wait1"} \cup Gone
  /\ ppc = "wait1" => cpc \in {"wait1", "wait2"} \cup Middle \cup Gone
  /\ ppc \in Mapping => p2c = <<>> /\ cpc \in {"wait2"} \cup Gone
  /\ ppc = "unlock" => cpc \in {"wait2"} \cup Late \cup Gone
  /\ cpc \in {"none"} \cup Middle \cup Late => p2c = <<>>
  /\ cpc \in {"none", "wait1"} \cup Middle => c2p = <<>>
  /\ cpc = "wait2" /\ ppc = "wait1" => p2c = <<>>
  /\ ppc = "wait1" /\ c2p # <<>> => p2c = <<>>
  /\ cpc = "none" => ppc \in BeforeClone \cup {"atexit", "exited", "killed"}

\* The user namespace, from unshare() to the last use of its maps.
UserNamespace ==
  /\ cpc = "none" => force = {}
  /\ cpc \in {"notify", "wait2"} \cup Prefork => Agreed
  /\ cpc \in {"wait1"} \cup (Middle \ {"notify"}) => "userns" \notin force
  /\ cpc = "wait2" /\ c2p # <<>> => (Head(c2p) = 1 <=> "userns" \in force)
  /\ cpc = "wait2" /\ p2c # <<>> => (Head(p2c) = 1 <=> "userns" \in force) /\ Mapped
  /\ ppc \in Mapping \cup {"unlock"} /\ cpc \notin Gone
       => ("noroot" \in parg <=> "userns" \in force)
  /\ cpc = "wait2" /\ ppc \in {"gidmap", "notify2"} /\ "noroot" \in parg => "uidmap" \in force
  /\ cpc = "wait2" /\ ppc = "notify2" /\ "noroot" \in parg => "gidmap" \in force
  /\ cpc \in Late => Mapped

\* The options of parent and child never stray from what was asked.
Enforced == {"nonewprivs", "caps", "nogroups"}
Options ==
  /\ parg \ {"noroot"} = asked \ {"noroot"}
  /\ cpc # "none" => carg \ (Enforced \cup {"noroot"}) = asked \ (Enforced \cup {"noroot"})
  /\ cpc # "none" => asked \ {"noroot"} \subseteq carg
  /\ cpc \in {"wait2"} \cup Late \cup (Middle \ {"mount", "network", "enforce"})
       => (Container(asked) => Enforced \subseteq carg)

\* What is in force for the child at each stage.
Stages ==
  /\ cpc \in {"wait2"} \cup Late \cup (Middle \ {"mount"}) => "mountns" \in force
  /\ cpc \in {"wait2"} \cup Late \cup (Middle \ {"mount", "network"}) => "net" \in force
  /\ cpc \in {"wait2"} \cup Late \cup {"save", "seccomp", "caps", "joinfile", "userns", "notify"}
       => "fs" \in force
  /\ cpc \in {"joinfile", "userns", "notify", "wait2", "recaps"} /\ "caps" \in carg
       => {"caps", "userns"} \cap force # {}
  /\ cpc \in Late \ {"recaps"} /\ "caps" \in carg => "caps" \in force
  /\ cpc \in Late \ {"recaps", "nnp"} /\ "nonewprivs" \in carg => "nnp" \in force
  /\ cpc \in Late \ {"recaps", "nnp", "drop"} => "dropped" \in force

\* What the child has written for --join.
Saved ==
  /\ cpc \in {"wait2"} \cup Late \cup {"seccomp", "caps", "joinfile", "userns", "notify"}
       => {"umask"} \cup (carg \cap {"nonewprivs"}) \subseteq disk
  /\ cpc \in {"wait2"} \cup Late \cup {"caps", "joinfile", "userns", "notify"}
       => carg \cap Filters \subseteq disk
  /\ cpc \in {"wait2"} \cup Late \cup {"userns", "notify"}
       => {"join"} \cup (carg \cap {"nogroups"}) \subseteq disk
  /\ "done" \in disk => apc \in {"exec", "running", "dead"}

\* What is in force for the app.
AppState ==
  /\ apc # "none" => cpc \in Postfork \cup Gone
  /\ cpc \in Postfork => apc # "none"
  /\ apc # "none" =>
       /\ {"mountns", "net", "fs", "dropped"} \cup (carg \cap {"caps"}) \subseteq aforce
       /\ "nonewprivs" \in carg => "nnp" \in aforce
       /\ "userns" \in aforce => {"uidmap", "gidmap"} \subseteq aforce
       /\ Container(asked) => Enforced \subseteq carg
       /\ {"join", "umask"} \cup (carg \cap (Filters \cup {"nonewprivs", "nogroups"})) \subseteq disk
  /\ apc \in {"mark", "exec", "running"} \/ "done" \in disk =>
       /\ carg \cap Filters # {} => "nnp" \in aforce
       /\ "kseccomp" \in carg => carg \cap Filters \subseteq aforce

\* The network lock and the lock on the pid file.
Locks ==
  /\ ppc \in {"runfiles", "proxy", "clone"} /\ "bridge" \in parg => "parent" \in netlock
  /\ cpc \in {"wait1"} \cup Middle /\ "bridge" \in carg => "child" \in netlock
  /\ ppc \in {"netfork", "netwait", "notify1", "wait1", "uidmap", "gidmap", "notify2",
             "unlock", "catchINT", "catchTERM", "wait", "dflTERM", "dflINT", "release",
             "hcheck", "hcgt", "hsig", "hkill", "hwait", "hrelease"} => pidlock # {}

\* Handlers are installed around the wait for the child only.
Handlers ==
  /\ hsig = "none" /\ pcaught # {}
       => ppc \in {"catchTERM", "wait", "dflTERM", "dflINT", "exited", "killed"}
  /\ ppc \in {"hcheck", "hcgt", "hsig", "hkill", "hwait", "hrelease"} => hsig # "none"
  /\ hsig # "none" => ppc \in {"hcheck", "hcgt", "hsig", "hkill", "hwait", "hrelease",
                               "proxystop", "proxywait", "delete", "exited", "killed"}
  /\ ppc \in {"dflINT"} => "TERM" \notin pcaught
  /\ ppc \in {"release", "dflTERM", "dflINT"} => cpc = "reaped"
  /\ ppc \in {"hrelease", "proxystop", "proxywait", "delete"} => cpc = "reaped"
  /\ ppc \in {"hcgt", "hsig", "hkill"} => cpc # "reaped"

\* Everything above at once: inductive, and strong enough for the safety
\* properties of Sandbox.
IInv ==
  /\ TypeOK /\ Handshake /\ UserNamespace /\ Options /\ Stages /\ Saved /\ AppState
  /\ Locks /\ Handlers
============================================================================
