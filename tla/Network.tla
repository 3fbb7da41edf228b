------------------------------ MODULE Network -------------------------------
(***************************************************************************)
(* IPv4 addresses of sandboxes that are attached to one network device     *)
(* (--net, --ip, --iprange, --netmask and --defaultgw): net_check_cfg() and *)
(* net_configure_sandbox_ip() in network_main.c, arp.c, and sandbox_if_up() *)
(* in sandbox.c.  The device is a bridge, where the parent chooses the     *)
(* address and the child configures it, or an Ethernet interface, where    *)
(* the child does both on a macvlan device.  All of this happens under the *)
(* network lock.  Addresses have W bits instead of 32.                     *)
(***************************************************************************)
EXTENDS Integers, FiniteSets

CONSTANTS
  W,          \* bits of an address
  Sandboxes,  \* sandboxes started on the device
  Devices,    \* possible devices, records [macvlan, ip, mask]
  Options,    \* possible options, records [ip, none, mask, start, end, gw]
  Neighbours, \* addresses of other hosts on the network
  HostGw,     \* default gateway of the host, 0 for none
  Probes,     \* arp-probes of firejail.config
  MaxMissed   \* replies to one arp_check() that are lost or slower than its timeout

Addr == 0..(2^W - 1)
Masks == {0} \cup {2^W - 2^k : k \in 0..(W - 1)}
Nobody == "nobody"

ASSUME NetworkAssumption ==
  /\ W \in Nat \ {0} /\ Nobody \notin Sandboxes /\ Neighbours \subseteq Addr
  /\ Devices \subseteq [macvlan : BOOLEAN, ip : Addr, mask : Masks]
  /\ Options \subseteq [ip : Addr, none : BOOLEAN, mask : Masks, start : Addr,
                        end : Addr, gw : Addr]
  /\ \A d \in Devices : d.ip = 0 <=> d.mask = 0
  /\ \A o \in Options : o.start < o.end \/ (o.start = 0 /\ o.end = 0)
  /\ HostGw \in Addr /\ Probes \in 2..30 /\ MaxMissed \in Nat

\* Arithmetic that holds for every W; the provers know nothing about powers.
ASSUME PowerAssumption == \A k \in 0..(W - 1) : 2^k \in 1..(2^W - 1)

VARIABLES
  dev,     \* the device
  pc,      \* where each sandbox's startup is
  opt,     \* its options
  br,      \* its Bridge structure and cfg.defaultgw
  chk,     \* the arp_check() it is in
  tries,   \* calls of arp_random() so far
  replied, \* addresses for which arp_check() returned -1 in arp_sequential()
  lock     \* who holds the network lock

vars == <<dev, pc, opt, br, chk, tries, replied, lock>>

NoOption == [ip |-> 0, none |-> FALSE, mask |-> 0, start |-> 0, end |-> 0, gw |-> 0]
\* The Bridge structure before the options are read
NoBridge == [ip |-> 0, mask |-> 0, none |-> FALSE, gw |-> 0, addr |-> 0]
NoCheck == [dest |-> 0, cnt |-> 0, fds |-> {}, missed |-> 0, by |-> "none"]

Init ==
  /\ dev \in Devices /\ lock = Nobody
  /\ pc = [s \in Sandboxes |-> "none"] /\ opt = [s \in Sandboxes |-> NoOption]
  /\ br = [s \in Sandboxes |-> NoBridge] /\ chk = [s \in Sandboxes |-> NoCheck]
  /\ tries = [s \in Sandboxes |-> 0] /\ replied = [s \in Sandboxes |-> {}]

Goto(s, l) == pc' = [pc EXCEPT ![s] = l]

\* A sandbox that has brought its interface up answers ARP requests.
HasAddress(s) == pc[s] \in {"unlock", "up"} /\ ~br[s].none
InUse(a) == a \in Neighbours \/ \E s \in Sandboxes : HasAddress(s) /\ br[s].addr = a

----------------------------------------------------------------------------
(* Addresses and masks *)

Size(m) == (2^W - m) % 2^W
NetOf(a, m) == IF m = 0 THEN 0 ELSE a - (a % Size(m))
Broadcast(a, m) == NetOf(a, m) + (2^W - 1 - m)

\* in_netrange()
InNetrange(a, ifip, m) ==
  NetOf(a, m) = NetOf(ifip, m) /\ a # NetOf(a, m) /\ a # Broadcast(a, m)

----------------------------------------------------------------------------
(* net_check_cfg() *)

\* The address and the mask of the interface override --netmask.
Mask(o) == IF dev.ip # 0 THEN dev.mask ELSE o.mask

\* br->ip, extracted from --ip or --defaultgw when the interface has none
BridgeIp(o) ==
  IF dev.ip # 0 \/ Mask(o) = 0 THEN dev.ip
  ELSE IF o.ip # 0 THEN NetOf(o.ip, Mask(o)) ELSE NetOf(o.gw, Mask(o))

\* err_no_ip
NotEnough(o) == Mask(o) = 0 \/ (dev.ip = 0 /\ o.ip = 0 /\ o.gw = 0)

\* net_configure_bridge() refuses /31 networks and ranges outside the network.
BridgeOK(o) ==
  /\ Mask(o) # 0 => Size(Mask(o)) >= 4
  /\ NotEnough(o) \/ \A a \in {o.start, o.end} \ {0} : InNetrange(a, BridgeIp(o), Mask(o))

\* check_default_gw()
GatewayOK(o) == o.gw # 0 => InNetrange(o.gw, BridgeIp(o), Mask(o))

Gateway(o) ==
  IF o.gw # 0 THEN o.gw
  ELSE IF o.none \/ NotEnough(o) THEN 0
  ELSE IF ~dev.macvlan THEN BridgeIp(o)
  ELSE IF InNetrange(HostGw, BridgeIp(o), Mask(o)) THEN HostGw ELSE 0

NewBridge(o) ==
  [ip |-> BridgeIp(o), mask |-> Mask(o), none |-> o.none \/ NotEnough(o),
   gw |-> Gateway(o), addr |-> o.ip]

\* The options have been read; a configuration that is refused ends firejail.
NetCheckCfg(s, o) ==
  /\ pc[s] = "none" /\ BridgeOK(o) /\ GatewayOK(o)
  /\ opt' = [opt EXCEPT ![s] = o]
  /\ br' = [br EXCEPT ![s] = NewBridge(o)]
  /\ Goto(s, "lock")
  /\ UNCHANGED <<dev, chk, tries, replied, lock>>

----------------------------------------------------------------------------
(* main(): the network lock and check_network() *)

\* The process ends, by exit() or by a signal, and with it its sandbox, its
\* address and its lock.
Ends(s) ==
  /\ pc[s] # "none" /\ Goto(s, "none")
  /\ opt' = [opt EXCEPT ![s] = NoOption] /\ br' = [br EXCEPT ![s] = NoBridge]
  /\ chk' = [chk EXCEPT ![s] = NoCheck]
  /\ tries' = [tries EXCEPT ![s] = 0] /\ replied' = [replied EXCEPT ![s] = {}]
  /\ lock' = IF lock = s THEN Nobody ELSE lock
  /\ UNCHANGED dev

\* preproc_lock_firejail_network_dir()
Lock(s) ==
  /\ pc[s] = "lock" /\ lock = Nobody /\ lock' = s /\ Goto(s, "check")
  /\ UNCHANGED <<dev, opt, br, chk, tries, replied>>

\* main() releases the lock once the child has configured the network.
Unlock(s) ==
  /\ pc[s] = "unlock" /\ lock' = Nobody /\ Goto(s, "up")
  /\ UNCHANGED <<dev, opt, br, chk, tries, replied>>

\* arp_check(): the first probe is sent.
ArpCheck(s, a, by) ==
  /\ chk' = [chk EXCEPT ![s] = [dest |-> a, cnt |-> Probes, fds |-> {"sock"},
                                missed |-> 0, by |-> by]]
  /\ Goto(s, "probe")

Given(s) == br[s].addr # 0
Fits(s) == InNetrange(br[s].addr, br[s].ip, br[s].mask)

\* No address is configured, or a macvlan device will choose it later.
CheckNetworkLater(s) ==
  /\ pc[s] = "check" /\ (br[s].none \/ (dev.macvlan /\ (Given(s) => Fits(s))))
  /\ Goto(s, "clone")
  /\ UNCHANGED <<dev, opt, br, chk, tries, replied, lock>>

\* net_configure_sandbox_ip() with --ip
CheckNetworkGiven(s) ==
  /\ pc[s] = "check" /\ ~br[s].none /\ ~dev.macvlan /\ Given(s) /\ Fits(s)
  /\ ArpCheck(s, br[s].addr, "given")
  /\ UNCHANGED <<dev, opt, br, tries, replied, lock>>

\* net_configure_sandbox_ip() without --ip
CheckNetworkAssign(s) ==
  /\ pc[s] = "check" /\ ~br[s].none /\ ~dev.macvlan /\ ~Given(s)
  /\ Goto(s, "random")
  /\ UNCHANGED <<dev, opt, br, chk, tries, replied, lock>>

----------------------------------------------------------------------------
(* arp_assign() *)

Ranged(s) == opt[s].start # 0 /\ opt[s].end # 0
Reserved(s) == {br[s].ip, br[s].gw}

\* start + rand() % range
Draws(s) ==
  LET start == IF Ranged(s) THEN opt[s].start ELSE NetOf(br[s].ip, br[s].mask) + 1
      range == IF Ranged(s) THEN opt[s].end - opt[s].start ELSE Size(br[s].mask) - 2
  IN  start..(start + range - 1)

\* arp_random(): one of ten draws is neither the interface nor the gateway.
ArpRandom(s) ==
  /\ pc[s] = "random" /\ tries[s] < 2 /\ br[s].ip # 0 /\ tries' = [tries EXCEPT ![s] = @ + 1]
  /\ \E a \in Draws(s) \ Reserved(s) : ArpCheck(s, a, "random")
  /\ UNCHANGED <<dev, opt, br, replied, lock>>

\* All ten are.
ArpRandomFails(s) ==
  /\ pc[s] = "random" /\ tries[s] < 2 /\ br[s].ip # 0 /\ tries' = [tries EXCEPT ![s] = @ + 1]
  /\ Draws(s) \cap Reserved(s) # {}
  /\ UNCHANGED <<dev, pc, opt, br, chk, replied, lock>>

First(s) == IF opt[s].start # 0 THEN opt[s].start ELSE NetOf(br[s].ip, br[s].mask) + 1

Last(s) == IF opt[s].end # 0 THEN opt[s].end ELSE First(s) + (Size(br[s].mask) - 2) - 1

\* The loop of arp_sequential() looks at dest next.
LookAt(s, dest) ==
  chk' = [chk EXCEPT ![s] = [NoCheck EXCEPT !.dest = dest]] /\ Goto(s, "next")

ArpSequential(s) ==
  /\ pc[s] = "random" /\ tries[s] = 2 /\ LookAt(s, First(s))
  /\ UNCHANGED <<dev, opt, br, tries, replied, lock>>

\* The interface address and the gateway are passed over.
SequentialSkip(s) ==
  /\ pc[s] = "next" /\ chk[s].dest <= Last(s) /\ chk[s].dest \in Reserved(s)
  /\ LookAt(s, chk[s].dest + 1)
  /\ UNCHANGED <<dev, opt, br, tries, replied, lock>>

SequentialTry(s) ==
  /\ pc[s] = "next" /\ chk[s].dest <= Last(s) /\ chk[s].dest \notin Reserved(s)
  /\ ArpCheck(s, chk[s].dest, "sequential")
  /\ UNCHANGED <<dev, opt, br, tries, replied, lock>>

\* "it looks like all of them are in use"
SequentialFails(s) ==
  /\ pc[s] = "next" /\ chk[s].dest > Last(s) /\ Goto(s, "full")
  /\ UNCHANGED <<dev, opt, br, chk, tries, replied, lock>>

----------------------------------------------------------------------------
(* The loop of arp_check() *)

\* The socket is in the set select() waits for.
Listens(s) == chk[s].fds # {}

\* A reply to this device: arp_check() returns -1.  Who sent it is not looked
\* at, so it may be a late one that was meant for an earlier call.
Reply(s) ==
  /\ pc[s] = "probe" /\ Listens(s)
  /\ \/ chk[s].by = "given" /\ Goto(s, "exit") /\ UNCHANGED chk /\ UNCHANGED replied
     \/ chk[s].by = "random" /\ Goto(s, "random") /\ UNCHANGED chk /\ UNCHANGED replied
     \/ /\ chk[s].by = "sequential" /\ LookAt(s, chk[s].dest + 1)
        /\ replied' = [replied EXCEPT ![s] = @ \cup {chk[s].dest}]
  /\ UNCHANGED <<dev, opt, br, tries, lock>>

\* Nobody answers in time.
Silent(s) == InUse(chk[s].dest) /\ Listens(s) => chk[s].missed < MaxMissed

Missed(s) == chk[s].missed + IF InUse(chk[s].dest) /\ Listens(s) THEN 1 ELSE 0

\* select() times out, which empties fds: nothing is received after the next
\* probe.
ProbeAgain(s) ==
  /\ pc[s] = "probe" /\ Silent(s) /\ chk[s].cnt > 1
  /\ chk' = [chk EXCEPT ![s].cnt = @ - 1, ![s].fds = {}, ![s].missed = Missed(s)]
  /\ UNCHANGED <<dev, pc, opt, br, tries, replied, lock>>

\* arp_check() returns 0 and the address is taken.
NotInUse(s) ==
  /\ pc[s] = "probe" /\ Silent(s) /\ chk[s].cnt = 1
  /\ br' = [br EXCEPT ![s].addr = chk[s].dest]
  /\ chk' = [chk EXCEPT ![s] = NoCheck]
  /\ Goto(s, IF dev.macvlan THEN "unlock" ELSE "clone")
  /\ UNCHANGED <<dev, opt, tries, replied, lock>>

----------------------------------------------------------------------------
(* The child: sandbox_if_up() *)

\* mutant: the lock is released as soon as the child has been started
CloneUnlocks(s) ==
  /\ pc[s] = "clone" /\ Goto(s, "ifup") /\ lock' = Nobody
  /\ UNCHANGED <<dev, opt, br, chk, tries, replied>>

\* The lock stays with the parent until the child has brought the interface up.
Clone(s) ==
  /\ pc[s] = "clone" /\ Goto(s, "ifup")
  /\ UNCHANGED <<dev, opt, br, chk, tries, replied, lock>>

\* mutant: the address of the interface is not refused
IfUpAny(s) ==
  /\ pc[s] = "ifup" /\ (br[s].none \/ ~dev.macvlan) /\ Goto(s, "unlock")
  /\ UNCHANGED <<dev, opt, br, chk, tries, replied, lock>>

\* No address, or the one the parent has found for the bridge
IfUp(s) ==
  /\ pc[s] = "ifup" /\ (br[s].none \/ (~dev.macvlan /\ br[s].addr # br[s].ip))
  /\ Goto(s, "unlock")
  /\ UNCHANGED <<dev, opt, br, chk, tries, replied, lock>>

IfUpAssign(s) ==
  /\ pc[s] = "ifup" /\ ~br[s].none /\ dev.macvlan /\ ~Given(s) /\ Goto(s, "random")
  /\ UNCHANGED <<dev, opt, br, chk, tries, replied, lock>>

IfUpGiven(s) ==
  /\ pc[s] = "ifup" /\ ~br[s].none /\ dev.macvlan /\ Given(s)
  /\ br[s].addr \notin Reserved(s) /\ ArpCheck(s, br[s].addr, "given")
  /\ UNCHANGED <<dev, opt, br, tries, replied, lock>>

----------------------------------------------------------------------------

Step(s) ==
  \/ \E o \in Options : NetCheckCfg(s, o)
  \/ Lock(s) \/ CheckNetworkLater(s) \/ CheckNetworkGiven(s) \/ CheckNetworkAssign(s)
  \/ ArpRandom(s) \/ ArpRandomFails(s) \/ ArpSequential(s)
  \/ SequentialSkip(s) \/ SequentialTry(s) \/ SequentialFails(s)
  \/ Reply(s) \/ ProbeAgain(s) \/ NotInUse(s)
  \/ Clone(s) \/ IfUp(s) \/ IfUpAssign(s) \/ IfUpGiven(s) \/ Unlock(s) \/ Ends(s)

Next == \E s \in Sandboxes : Step(s)

Spec == Init /\ [][Next]_vars

----------------------------------------------------------------------------
(* Properties *)

Distinct ==
  \A s \in Sandboxes : HasAddress(s) =>
    /\ br[s].addr \notin Neighbours
    /\ \A t \in Sandboxes \ {s} : HasAddress(t) => br[s].addr # br[t].addr

\* Two sandboxes never have one address, nor does one have a neighbour's,
\* however their startups interleave and whenever they end, as long as every
\* reply to a first probe comes in time.
AddressesDistinct == MaxMissed = 0 => Distinct

AddressUsable ==
  \A s \in Sandboxes : HasAddress(s) =>
    /\ InNetrange(br[s].addr, br[s].ip, br[s].mask) /\ br[s].addr # dev.ip
    /\ opt[s].ip = 0 \/ dev.macvlan => br[s].addr # br[s].gw
    /\ opt[s].ip = 0 /\ Ranged(s) => br[s].addr \in opt[s].start..opt[s].end

GivesUpWhenFull ==
  \A s \in Sandboxes : pc[s] = "full" =>
    \A a \in IF opt[s].end # 0 THEN opt[s].start..opt[s].end ELSE Addr :
      InNetrange(a, br[s].ip, br[s].mask) /\ a \notin Reserved(s) => a \in replied[s]

\* Whatever way an address was found, it is one of the network's and not the
\* host's own; an address firejail has chosen is in the range the user gave
\* (if it does not begin with 0.0.0.0) and is not the gateway, for which nobody
\* may answer: it can be the host itself, or down.  And when arp_assign() gives
\* up ("it looks like all of them are in use"), every address of the network and
\* the range has been tried and answered for.
AddressesFit == AddressUsable /\ GivesUpWhenFull

----------------------------------------------------------------------------
(* The inductive invariant behind AddressesDistinct *)

Busy == {"check", "random", "next", "full", "probe", "exit", "clone", "ifup", "unlock"}

\* The variables are functions on Sandboxes, and the records have their fields.
Shape ==
  /\ pc = [s \in Sandboxes |-> pc[s]] /\ br = [s \in Sandboxes |-> br[s]]
  /\ chk = [s \in Sandboxes |-> chk[s]]
  /\ \A s \in Sandboxes :
       /\ {"none", "addr"} \subseteq DOMAIN br[s]
       /\ {"dest", "cnt", "fds", "missed"} \subseteq DOMAIN chk[s]
       /\ chk[s].missed \in Nat

\* Whoever is between the choice of an address and its configuration holds
\* the network lock.
LockHeld == \A s \in Sandboxes : pc[s] \in Busy => lock = s

\* Once the first probe has timed out nobody has the address.
ProbeFree == \A s \in Sandboxes : pc[s] = "probe" /\ ~Listens(s) => ~InUse(chk[s].dest)

\* Nobody has taken the address that a bridge's parent has chosen before its
\* child configures it.
ChosenFree ==
  \A s \in Sandboxes : pc[s] \in {"clone", "ifup"} /\ ~dev.macvlan /\ ~br[s].none
                         => ~InUse(br[s].addr)

\* The lock makes a check and the use of its result one step: what was free
\* when it was probed is free when it is configured.
IInv == Shape /\ LockHeld /\ (MaxMissed = 0 => ProbeFree /\ ChosenFree /\ Distinct)
=============================================================================
