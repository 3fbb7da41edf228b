--------------------------- MODULE NetworkProofs ----------------------------
(***************************************************************************)
(* Proofs that sandboxes on one device never share an address when replies *)
(* to first probes come in time, and that an address always fits its       *)
(* network and range, for any number of sandboxes and hosts, any width of  *)
(* addresses, any options and any number of probes.                        *)
(***************************************************************************)
EXTENDS Network, TLAPS

\* At the beginning no sandbox has been started.
LEMMA InitIInv == Init => IInv
BY DEF Init, IInv, Shape, LockHeld, ProbeFree, ChosenFree, Distinct, Busy, HasAddress,
       NoBridge, NoCheck

(***************************************************************************)
(* Shape and the lock                                                      *)
(***************************************************************************)

USE DEF Goto

\* Every step keeps the variables functions of records.
LEMMA ShapeStep ==
  ASSUME Shape, NEW s \in Sandboxes, Step(s)
  PROVE  Shape'
<1>1. CASE \E o \in Options : NetCheckCfg(s, o)
  <2>1. PICK o \in Options : NetCheckCfg(s, o)
    BY <1>1
  <2>2. {"none", "addr"} \subseteq DOMAIN NewBridge(o)
    BY DEF NewBridge
  <2> QED
    BY Zenon, <2>1, <2>2 DEF Shape, NetCheckCfg
<1>2. CASE Lock(s) \/ CheckNetworkLater(s) \/ CheckNetworkAssign(s) \/ Clone(s) \/ IfUp(s)
           \/ IfUpAssign(s) \/ Unlock(s) \/ ArpRandomFails(s) \/ SequentialFails(s)
  BY <1>2 DEF Shape, Lock, CheckNetworkLater, CheckNetworkAssign, Clone, IfUp, IfUpAssign,
              Unlock, ArpRandomFails, SequentialFails
<1>3. CASE CheckNetworkGiven(s) \/ ArpRandom(s) \/ SequentialTry(s) \/ IfUpGiven(s)
  BY <1>3 DEF Shape, CheckNetworkGiven, ArpRandom, SequentialTry, IfUpGiven, ArpCheck
<1>4. CASE ArpSequential(s) \/ SequentialSkip(s)
  BY <1>4 DEF Shape, ArpSequential, SequentialSkip, LookAt, NoCheck
<1>5. CASE Reply(s)
  BY <1>5 DEF Shape, Reply, LookAt, NoCheck
<1>6. CASE ProbeAgain(s)
  <2>1. Missed(s) \in Nat
    BY DEF Shape, Missed
  <2> QED
    BY Zenon, <1>6, <2>1 DEF Shape, ProbeAgain
<1>7. CASE NotInUse(s)
  BY Zenon, <1>7 DEF Shape, NotInUse, NoCheck
<1>8. CASE Ends(s)
  BY Zenon, <1>8 DEF Shape, Ends, NoBridge, NoCheck
<1> QED
  BY <1>1, <1>2, <1>3, <1>4, <1>5, <1>6, <1>7, <1>8 DEF Step

\* Only the holder of the lock gets into the part that needs it, and it leaves
\* that part when it gives the lock back.
LEMMA LockStep ==
  ASSUME Shape, LockHeld, NEW s \in Sandboxes, Step(s)
  PROVE  LockHeld'
<1>1. CASE \E o \in Options : NetCheckCfg(s, o)
  BY <1>1 DEF Shape, LockHeld, Busy, NetCheckCfg
<1>2. CASE Lock(s)
  BY <1>2, NetworkAssumption DEF Shape, LockHeld, Busy, Lock
<1>3. CASE CheckNetworkLater(s) \/ CheckNetworkAssign(s) \/ Clone(s) \/ IfUp(s)
           \/ IfUpAssign(s) \/ ArpRandomFails(s) \/ SequentialFails(s)
  BY <1>3 DEF Shape, LockHeld, Busy, CheckNetworkLater, CheckNetworkAssign, Clone, IfUp,
              IfUpAssign, ArpRandomFails, SequentialFails
<1>4. CASE CheckNetworkGiven(s) \/ ArpRandom(s) \/ SequentialTry(s) \/ IfUpGiven(s)
  BY <1>4 DEF Shape, LockHeld, Busy, CheckNetworkGiven, ArpRandom, SequentialTry,
              IfUpGiven, ArpCheck
<1>5. CASE ArpSequential(s) \/ SequentialSkip(s) \/ Reply(s) \/ ProbeAgain(s)
  BY <1>5 DEF Shape, LockHeld, Busy, ArpSequential, SequentialSkip, LookAt, Reply,
              ProbeAgain
<1>6. CASE NotInUse(s)
  BY <1>6 DEF Shape, LockHeld, Busy, NotInUse
<1>7. CASE Unlock(s) \/ Ends(s)
  BY <1>7, NetworkAssumption DEF Shape, LockHeld, Busy, Unlock, Ends
<1> QED
  BY <1>1, <1>2, <1>3, <1>4, <1>5, <1>6, <1>7 DEF Step

(***************************************************************************)
(* Addresses                                                               *)
(***************************************************************************)

\* A step after which every address that is in use was in use before
LEMMA NobodyGains ==
  ASSUME \A t \in Sandboxes : HasAddress(t)' => HasAddress(t) /\ br'[t].addr = br[t].addr
  PROVE  /\ \A t \in Sandboxes : br'[t].addr = br[t].addr /\ ~InUse(br[t].addr)
                                   => ~InUse(br[t].addr)'
         /\ \A t \in Sandboxes : chk'[t].dest = chk[t].dest /\ ~InUse(chk[t].dest)
                                   => ~InUse(chk[t].dest)'
         /\ Distinct => Distinct'
BY DEF InUse, Distinct

\* Silence on a socket that is listened to means that nobody has the address.
LEMMA SilenceMeansFree ==
  ASSUME Shape, ProbeFree, MaxMissed = 0, NEW s \in Sandboxes, pc[s] = "probe", Silent(s)
  PROVE  ~InUse(chk[s].dest)
BY DEF Shape, ProbeFree, Silent

\* The part of IInv about addresses
Free == ProbeFree /\ ChosenFree /\ Distinct

\* A step of s that gives nobody an address and leaves s neither in a check nor
\* with a chosen one
LEMMA QuietStep ==
  ASSUME Shape, Free, NEW s \in Sandboxes, NEW l, pc' = [pc EXCEPT ![s] = l],
         UNCHANGED dev,
         \A t \in Sandboxes \ {s} : br'[t] = br[t] /\ chk'[t] = chk[t],
         l \notin {"unlock", "up"} \/ (pc[s] = "unlock" /\ br' = br),
         l = "probe" => Listens(s)' \/ (chk'[s].dest = chk[s].dest /\ ~InUse(chk[s].dest)),
         l \in {"clone", "ifup"} /\ ~dev.macvlan /\ ~br'[s].none => ~InUse(br'[s].addr)
  PROVE  Free'
<1>1. \A t \in Sandboxes \ {s} : pc'[t] = pc[t]
  BY DEF Shape
<1>2. pc'[s] = l
  BY DEF Shape
<1>3. \A t \in Sandboxes : HasAddress(t)' => HasAddress(t) /\ br'[t].addr = br[t].addr
  BY <1>1, <1>2 DEF HasAddress
<1>4. Distinct'
  BY <1>3, NobodyGains DEF Free
<1>5. ProbeFree'
  <2> SUFFICES ASSUME NEW t \in Sandboxes, pc'[t] = "probe", ~Listens(t)'
               PROVE  ~InUse(chk[t].dest)'
    BY DEF ProbeFree
  <2>1. chk'[t].dest = chk[t].dest /\ ~InUse(chk[t].dest)
    BY <1>1, <1>2 DEF Free, ProbeFree, Listens
  <2> QED
    BY <2>1, <1>3, NobodyGains
<1>6. ChosenFree'
  <2> SUFFICES ASSUME NEW t \in Sandboxes, pc'[t] \in {"clone", "ifup"}, ~dev.macvlan,
                      ~br'[t].none
               PROVE  ~InUse(br[t].addr)'
    BY DEF ChosenFree
  <2>1. ~InUse(br'[t].addr)
    BY <1>1, <1>2 DEF Free, ChosenFree
  <2> QED
    BY <2>1, <1>3 DEF InUse
<1> QED
  BY <1>4, <1>5, <1>6 DEF Free

\* The step with which s gets its address: nobody else is in a check or has
\* chosen one, since s holds the lock.
LEMMA ConfigureStep ==
  ASSUME Shape, LockHeld, Free, NEW s \in Sandboxes, pc[s] \in {"probe", "ifup"},
         pc' = [pc EXCEPT ![s] = "unlock"],
         \A t \in Sandboxes \ {s} : br'[t] = br[t],
         br'[s].none \/ ~InUse(br'[s].addr)
  PROVE  Free'
<1>1. \A t \in Sandboxes \ {s} : pc'[t] = pc[t] /\ pc[t] \notin Busy
  BY DEF Shape, LockHeld, Busy
<1>2. pc'[s] = "unlock" /\ ~HasAddress(s)
  BY DEF Shape, HasAddress
<1>3. ProbeFree' /\ ChosenFree'
  BY <1>1, <1>2 DEF ProbeFree, ChosenFree, Busy
<1>4. \A t \in Sandboxes \ {s} : HasAddress(t)' <=> HasAddress(t)
  BY <1>1 DEF HasAddress
<1>5. HasAddress(s)' => ~InUse(br'[s].addr)
  BY DEF HasAddress
<1>6. Distinct'
  BY <1>4, <1>5 DEF Free, Distinct, InUse
<1> QED
  BY <1>3, <1>6 DEF Free

\* Every step of one sandbox keeps probed, chosen and configured addresses apart.
LEMMA FreeStep ==
  ASSUME Shape, LockHeld, Free, MaxMissed = 0, NEW s \in Sandboxes, Step(s)
  PROVE  Free'
<1>1. CASE \E o \in Options : NetCheckCfg(s, o)
  <2>1. PICK o \in Options : NetCheckCfg(s, o)
    BY <1>1
  <2> QED
    BY Zenon, <2>1, QuietStep DEF Shape, NetCheckCfg
<1>2. CASE Lock(s) \/ CheckNetworkAssign(s) \/ SequentialFails(s) \/ IfUpAssign(s)
           \/ Unlock(s)
  BY <1>2, QuietStep DEF Shape, Lock, CheckNetworkAssign, SequentialFails, IfUpAssign, Unlock
<1>3. CASE CheckNetworkLater(s)
  BY <1>3, QuietStep DEF Shape, CheckNetworkLater
<1>4. CASE CheckNetworkGiven(s) \/ SequentialTry(s) \/ IfUpGiven(s) \/ ArpRandom(s)
  <2>1. PICK a, by : ArpCheck(s, a, by)
    BY <1>4 DEF CheckNetworkGiven, SequentialTry, IfUpGiven, ArpRandom
  <2>2. UNCHANGED <<dev, br>>
    BY <1>4 DEF CheckNetworkGiven, SequentialTry, IfUpGiven, ArpRandom
  <2>3. Listens(s)' /\ \A t \in Sandboxes \ {s} : chk'[t] = chk[t]
    BY Zenon, <2>1 DEF Shape, ArpCheck, Listens
  <2> QED
    BY <2>1, <2>2, <2>3, QuietStep DEF Shape, ArpCheck
<1>5. CASE ArpRandomFails(s)
  BY <1>5 DEF ArpRandomFails, Free, ProbeFree, ChosenFree, Distinct, HasAddress, InUse,
              Listens
<1>6. CASE ArpSequential(s) \/ SequentialSkip(s) \/ Reply(s)
  BY <1>6, QuietStep DEF Shape, ArpSequential, SequentialSkip, Reply, LookAt
<1>7. CASE ProbeAgain(s)
  <2>1. ~InUse(chk[s].dest)
    BY <1>7, SilenceMeansFree DEF ProbeAgain, Free
  <2>2. pc' = [pc EXCEPT ![s] = "probe"] /\ chk'[s].dest = chk[s].dest
    BY <1>7 DEF Shape, ProbeAgain
  <2> QED
    BY Zenon, <1>7, <2>1, <2>2, QuietStep DEF Shape, ProbeAgain
<1>8. CASE NotInUse(s)
  <2>1. ~InUse(chk[s].dest)
    BY <1>8, SilenceMeansFree DEF NotInUse, Free
  <2>2. br'[s].addr = chk[s].dest /\ \A t \in Sandboxes \ {s} : br'[t] = br[t]
    BY <1>8 DEF Shape, NotInUse
  <2>3. CASE dev.macvlan
    BY Zenon, <1>8, <2>1, <2>2, <2>3, ConfigureStep DEF NotInUse
  <2>4. CASE ~dev.macvlan
    BY Zenon, <1>8, <2>1, <2>2, <2>4, QuietStep DEF Shape, NotInUse
  <2> QED
    BY <2>3, <2>4
<1>9. CASE Clone(s)
  BY <1>9, QuietStep DEF Shape, Clone, Free, ChosenFree
<1>10. CASE IfUp(s)
  BY Zenon, <1>10, ConfigureStep DEF IfUp, Free, ChosenFree
<1>11. CASE Ends(s)
  BY Zenon, <1>11, QuietStep DEF Shape, Ends
<1> QED
  BY <1>1, <1>2, <1>3, <1>4, <1>5, <1>6, <1>7, <1>8, <1>9, <1>10, <1>11 DEF Step

\* IInv is inductive.
LEMMA NextIInv == IInv /\ [Next]_vars => IInv'
<1> SUFFICES ASSUME IInv, [Next]_vars
             PROVE  IInv'
  OBVIOUS
<1>1. CASE Next
  <2>1. PICK s \in Sandboxes : Step(s)
    BY <1>1 DEF Next
  <2>2. Shape' /\ LockHeld'
    BY <2>1, ShapeStep, LockStep DEF IInv
  <2>3. ASSUME MaxMissed = 0 PROVE Free'
    BY <2>1, <2>3, FreeStep DEF IInv, Free
  <2> QED
    BY <2>2, <2>3 DEF IInv, Free
<1>2. CASE UNCHANGED vars
  BY <1>2 DEF vars, IInv, Shape, LockHeld, ProbeFree, ChosenFree, Distinct, HasAddress,
              InUse, Listens
<1> QED
  BY <1>1, <1>2

\* What was free when it was probed is free when it is configured, since the
\* network lock is held from before the check until sandbox_if_up() is done.
THEOREM CheckedStaysFree == Spec => []IInv
BY InitIInv, NextIInv, PTL DEF Spec

\* Sandboxes on one device never share an address with each other or with a
\* neighbour, whatever device, options, number of probes and number of
\* sandboxes, if no reply to a first probe of arp_check() is missed.
THEOREM AddressesAreDistinct == Spec => []AddressesDistinct
<1>1. IInv => AddressesDistinct
  BY DEF IInv, AddressesDistinct
<1> QED
  BY <1>1, CheckedStaysFree, PTL
(***************************************************************************)
(* Where addresses come from                                               *)
(***************************************************************************)

\* An address in the configured network, and one that firejail may choose.
InNet(s, a) == InNetrange(a, br[s].ip, br[s].mask)
MayChoose(s, a) ==
  InNet(s, a) /\ a \notin Reserved(s) /\ (Ranged(s) => a \in opt[s].start..opt[s].end)

FType ==
  /\ dev \in Devices /\ pc = [s \in Sandboxes |-> pc[s]]
  /\ opt \in [Sandboxes -> Options \cup {NoOption}]
  /\ br \in [Sandboxes -> [ip : Nat, mask : Masks, none : BOOLEAN, gw : Nat, addr : Nat]]
  /\ chk \in [Sandboxes -> [dest : Nat, cnt : Int, fds : SUBSET {"sock"}, missed : Int,
                            by : {"none", "given", "random", "sequential"}]]
  /\ replied = [s \in Sandboxes |-> replied[s]]

\* The Bridge structure is what net_check_cfg() made of accepted options; only
\* the address changes.
Configured ==
  \A s \in Sandboxes : pc[s] # "none" =>
    /\ opt[s] \in Options /\ BridgeOK(opt[s])
    /\ [br[s] EXCEPT !.addr = opt[s].ip] = NewBridge(opt[s])

\* An address that is being checked, that has been chosen or that is in use is
\* the one the user gave or one firejail may choose.
OriginOf(s) ==
  /\ pc[s] \in {"lock", "check"} => br[s].addr = opt[s].ip
  /\ pc[s] \in {"random", "next", "full"} => ~br[s].none /\ opt[s].ip = 0
  /\ pc[s] = "probe" =>
       /\ ~br[s].none /\ chk[s].by # "none"
       /\ IF chk[s].by = "given"
            THEN /\ opt[s].ip # 0 /\ InNet(s, chk[s].dest)
                 /\ dev.macvlan => chk[s].dest \notin Reserved(s)
            ELSE opt[s].ip = 0 /\ MayChoose(s, chk[s].dest)
  /\ pc[s] \in {"clone", "ifup"} /\ ~br[s].none =>
       IF dev.macvlan THEN br[s].addr = opt[s].ip /\ (opt[s].ip # 0 => InNet(s, br[s].addr))
       ELSE IF opt[s].ip = 0 THEN MayChoose(s, br[s].addr) ELSE InNet(s, br[s].addr)
  /\ HasAddress(s) =>
       /\ InNet(s, br[s].addr) /\ br[s].addr # br[s].ip
       /\ opt[s].ip = 0 => MayChoose(s, br[s].addr)
       /\ dev.macvlan => br[s].addr # br[s].gw

Origin == \A s \in Sandboxes : OriginOf(s)

\* arp_sequential() has had a reply for every address before the one it is at.
TriedOf(s) ==
  /\ \/ pc[s] \in {"next", "full"}
     \/ pc[s] = "probe" /\ chk[s].by = "sequential"
     => /\ chk[s].dest >= First(s)
        /\ \A a \in First(s)..(chk[s].dest - 1) : a \in Reserved(s) \cup replied[s]
  /\ pc[s] = "full" => chk[s].dest > Last(s)

Tried == \A s \in Sandboxes : TriedOf(s)

FInv == FType /\ Configured /\ Origin /\ Tried

\* A mask other than 0 stands for a power of two of addresses.
LEMMA MaskSize ==
  ASSUME NEW m \in Masks, m # 0
  PROVE  /\ Size(m) \in Nat \ {0} /\ m \in Nat
         /\ 2^W - 1 - m = Size(m) - 1
<1>1. PICK k \in 0..(W - 1) : m = 2^W - 2^k
  BY DEF Masks
<1>2. 2^k \in 1..(2^W - 1) /\ 2^W \in Int
  BY PowerAssumption, NetworkAssumption
<1> DEFINE p == 2^k
           q == 2^W
<1>3. p \in 1..(q - 1) /\ q \in Int /\ m = q - p
  BY <1>1, <1>2
<1> HIDE DEF p, q
<1>4. (q - m) % q = p
  BY <1>3
<1> QED BY <1>3, <1>4 DEF Size, p, q

\* Addresses of one network differ in their remainders.
LEMMA Remainder ==
  ASSUME NEW z \in Nat \ {0}, NEW x \in Nat, NEW r \in 0..(z - 1)
  PROVE  (x - (x % z) + r) % z = r
<1> DEFINE k == x \div z
<1>1. k \in Nat
  OBVIOUS
<1>2. x - (x % z) = z * k
  OBVIOUS
<1> HIDE DEF k
<1>3. (z * k + r) % z = r
  BY <1>1
<1> QED BY <1>2, <1>3

\* in_netrange() accepts exactly the addresses strictly between the network's
\* own and its broadcast address.
LEMMA NetrangeIsInterval ==
  ASSUME NEW a \in Nat, NEW ip \in Nat, NEW m \in Masks, m # 0
  PROVE  /\ NetOf(ip, m) \in Nat
         /\ InNetrange(a, ip, m) <=> a \in (NetOf(ip, m) + 1)..(NetOf(ip, m) + Size(m) - 2)
<1> DEFINE z == Size(m)
<1>1. z \in Nat \ {0} /\ 2^W - 1 - m = z - 1
  BY MaskSize
<1>2. NetOf(a, m) = a - (a % z) /\ NetOf(ip, m) = ip - (ip % z)
      /\ Broadcast(a, m) = a - (a % z) + (z - 1)
  BY <1>1 DEF NetOf, Broadcast
<1> HIDE DEF z
<1>3. a % z \in 0..(z - 1) /\ ip % z \in 0..(z - 1)
  BY <1>1
<1>4. ip - (ip % z) \in Nat
  BY <1>1
<1>5. ASSUME a \in (NetOf(ip, m) + 1)..(NetOf(ip, m) + z - 2)
      PROVE  InNetrange(a, ip, m)
  <2>1. PICK r \in 0..(z - 1) : a = ip - (ip % z) + r /\ r # 0 /\ r # z - 1
    <3>1. a - (ip - (ip % z)) \in 0..(z - 1)
      BY <1>1, <1>2, <1>4, <1>5
    <3> QED BY <1>1, <1>2, <1>4, <1>5, <3>1
  <2>2. a % z = r
    BY Zenon, <1>1, <2>1, Remainder
  <2> QED BY <1>1, <1>2, <1>4, <2>1, <2>2 DEF InNetrange
<1>6. ASSUME InNetrange(a, ip, m)
      PROVE  a \in (NetOf(ip, m) + 1)..(NetOf(ip, m) + z - 2)
  <2>1. a - (a % z) = ip - (ip % z) /\ a % z # 0 /\ a % z # z - 1
    BY <1>1, <1>2, <1>3, <1>6 DEF InNetrange
  <2> QED BY <1>1, <1>2, <1>3, <1>4, <2>1
<1> QED BY <1>2, <1>4, <1>5, <1>6 DEF z

\* What net_check_cfg() has accepted: a network of at least four addresses, and
\* a range inside it.
LEMMA RangeFits ==
  ASSUME FInv, NEW s \in Sandboxes, pc[s] # "none", ~br[s].none
  PROVE  /\ br[s].ip \in Nat /\ br[s].mask \in Masks \ {0} /\ Size(br[s].mask) \in Nat
         /\ Size(br[s].mask) >= 4
         /\ opt[s].start \in Nat /\ opt[s].end \in Nat
         /\ opt[s].start < opt[s].end \/ (opt[s].start = 0 /\ opt[s].end = 0)
         /\ opt[s].start # 0 => InNet(s, opt[s].start)
         /\ opt[s].end # 0 => InNet(s, opt[s].end)
<1> USE DEF FInv
<1>1. opt[s] \in Options /\ BridgeOK(opt[s])
  BY Zenon DEF Configured
<1>2. opt[s] \in [ip : Addr, none : BOOLEAN, mask : Masks, start : Addr, end : Addr, gw : Addr]
  BY <1>1, NetworkAssumption
<1>3. 2^W \in Int
  BY NetworkAssumption
<1>4. opt[s].start \in Nat /\ opt[s].end \in Nat
  BY <1>2, <1>3 DEF Addr
<1>5. opt[s].start < opt[s].end \/ (opt[s].start = 0 /\ opt[s].end = 0)
  BY <1>1, NetworkAssumption
<1>6. br[s] \in [ip : Nat, mask : Masks, none : BOOLEAN, gw : Nat, addr : Nat]
  BY DEF FType
<1>7. /\ br[s].ip = BridgeIp(opt[s]) /\ br[s].mask = Mask(opt[s])
      /\ br[s].none = (opt[s].none \/ NotEnough(opt[s]))
  <2>1. [br[s] EXCEPT !.addr = opt[s].ip] = NewBridge(opt[s])
    BY DEF Configured
  <2> DEFINE b == [br[s] EXCEPT !.addr = opt[s].ip]
  <2>2. b.ip = br[s].ip /\ b.mask = br[s].mask /\ b.none = br[s].none
    BY <1>6
  <2> QED BY <2>1, <2>2 DEF NewBridge
<1>8. ~NotEnough(opt[s])
  BY Zenon, <1>7
<1>9. br[s].mask # 0
  BY <1>7, <1>8 DEF NotEnough
<1>10. Size(br[s].mask) >= 4 /\ Size(br[s].mask) \in Nat
  BY <1>1, <1>6, <1>7, <1>9, MaskSize DEF BridgeOK
<1>11. \A a \in {opt[s].start, opt[s].end} \ {0} : InNet(s, a)
  BY <1>1, <1>7, <1>8 DEF BridgeOK, InNet
<1> QED BY <1>4, <1>5, <1>6, <1>9, <1>10, <1>11

\* The numbers arp_random() draws and arp_sequential() goes through.
LEMMA Candidates ==
  ASSUME FInv, NEW s \in Sandboxes, pc[s] # "none", ~br[s].none
  PROVE  /\ Draws(s) \subseteq Nat /\ First(s) \in Nat /\ Last(s) \in Int
         /\ \A a \in Draws(s) \ Reserved(s) : MayChoose(s, a)
         /\ \A a \in (First(s)..Last(s)) \ Reserved(s) : MayChoose(s, a)
         /\ \A a \in IF opt[s].end # 0 THEN opt[s].start..opt[s].end ELSE Addr :
              InNet(s, a) => a \in First(s)..Last(s)
<1> DEFINE N == NetOf(br[s].ip, br[s].mask)
           z == Size(br[s].mask)
<1>1. N \in Nat /\ \A a \in Nat : InNet(s, a) <=> a \in (N + 1)..(N + z - 2)
  BY RangeFits, NetrangeIsInterval DEF InNet
<1>2. z \in Nat /\ z >= 4 /\ opt[s].start \in Nat /\ opt[s].end \in Nat
  BY RangeFits
<1>3. /\ opt[s].start < opt[s].end \/ (opt[s].start = 0 /\ opt[s].end = 0)
      /\ opt[s].start # 0 => opt[s].start \in (N + 1)..(N + z - 2)
      /\ opt[s].end # 0 => opt[s].end \in (N + 1)..(N + z - 2)
  BY <1>1, <1>2, RangeFits
<1>4. Addr \subseteq Nat
  BY NetworkAssumption DEF Addr
<1>5. /\ First(s) = IF opt[s].start # 0 THEN opt[s].start ELSE N + 1
      /\ Last(s) = IF opt[s].end # 0 THEN opt[s].end ELSE First(s) + (z - 2) - 1
  BY DEF First, Last
<1>6. Draws(s) = IF Ranged(s) THEN opt[s].start..(opt[s].end - 1) ELSE (N + 1)..(N + z - 2)
  BY <1>1, <1>2 DEF Draws, Ranged
<1> HIDE DEF N, z
<1>7. First(s) \in Nat /\ Last(s) \in Int /\ First(s) >= N + 1 /\ Last(s) <= N + z - 2
  BY <1>1, <1>2, <1>3, <1>5
<1>8. Draws(s) \subseteq Nat /\ \A a \in Draws(s) \ Reserved(s) : MayChoose(s, a)
  BY <1>1, <1>2, <1>3, <1>6 DEF MayChoose, Ranged
<1>9. ASSUME NEW a \in (First(s)..Last(s)) \ Reserved(s)
      PROVE  MayChoose(s, a)
  BY <1>1, <1>2, <1>5, <1>7 DEF MayChoose, Ranged
<1>10. ASSUME NEW a \in IF opt[s].end # 0 THEN opt[s].start..opt[s].end ELSE Addr, InNet(s, a)
       PROVE  a \in First(s)..Last(s)
  BY <1>1, <1>2, <1>3, <1>4, <1>5, <1>7, <1>10
<1> QED BY <1>7, <1>8, <1>9, <1>10

\* net_check_cfg() fills the Bridge structure with addresses and a mask.
LEMMA NewBridgeType ==
  ASSUME dev \in Devices, NEW o \in Options
  PROVE  NewBridge(o) \in [ip : Nat, mask : Masks, none : BOOLEAN, gw : Nat, addr : Nat]
<1>1. o \in [ip : Addr, none : BOOLEAN, mask : Masks, start : Addr, end : Addr, gw : Addr]
  BY NetworkAssumption
<1>2. dev \in [macvlan : BOOLEAN, ip : Addr, mask : Masks]
  BY NetworkAssumption
<1>3. Addr \subseteq Nat /\ HostGw \in Nat
  BY NetworkAssumption DEF Addr
<1>4. \A a \in Addr, m \in Masks : NetOf(a, m) \in Nat
  BY <1>3, NetrangeIsInterval DEF NetOf
<1>5. Mask(o) \in Masks
  BY <1>1, <1>2 DEF Mask
<1>6. BridgeIp(o) \in Nat
  BY Zenon, <1>1, <1>2, <1>3, <1>4, <1>5 DEF BridgeIp
<1>7. Gateway(o) \in Nat
  BY Zenon, <1>1, <1>3, <1>6 DEF Gateway
<1>8. (o.none \/ NotEnough(o)) \in BOOLEAN
  OBVIOUS
<1> QED BY Zenon, <1>1, <1>3, <1>5, <1>6, <1>7, <1>8 DEF NewBridge

\* Types.
LEMMA FTypeStep ==
  ASSUME FInv, NEW s \in Sandboxes, Step(s)
  PROVE  FType'
<1> USE DEF FInv, FType
<1>1. CASE \E o \in Options : NetCheckCfg(s, o)
  <2>1. PICK o \in Options : NetCheckCfg(s, o)
    BY <1>1
  <2>2. NewBridge(o) \in [ip : Nat, mask : Masks, none : BOOLEAN, gw : Nat, addr : Nat]
    BY NewBridgeType
  <2> QED BY Zenon, <2>1, <2>2 DEF NetCheckCfg
<1>2. CASE Lock(s) \/ CheckNetworkLater(s) \/ CheckNetworkAssign(s) \/ Clone(s) \/ IfUp(s)
           \/ IfUpAssign(s) \/ Unlock(s) \/ ArpRandomFails(s) \/ SequentialFails(s)
  BY <1>2 DEF Lock, CheckNetworkLater, CheckNetworkAssign, Clone, IfUp, IfUpAssign,
              Unlock, ArpRandomFails, SequentialFails
<1>3. ASSUME NEW a \in Nat, NEW by \in {"given", "random", "sequential"}, ArpCheck(s, a, by),
             UNCHANGED <<dev, opt, br, replied>>
      PROVE  FType'
  <2>1. [dest |-> a, cnt |-> Probes, fds |-> {"sock"}, missed |-> 0, by |-> by]
          \in [dest : Nat, cnt : Int, fds : SUBSET {"sock"}, missed : Int,
               by : {"none", "given", "random", "sequential"}]
    BY <1>3, NetworkAssumption
  <2> QED BY Zenon, <1>3, <2>1 DEF ArpCheck
<1>4. CASE CheckNetworkGiven(s) \/ SequentialTry(s) \/ IfUpGiven(s)
  <2>1. br[s].addr \in Nat /\ chk[s].dest \in Nat
    OBVIOUS
  <2> QED BY <1>4, <1>3, <2>1 DEF CheckNetworkGiven, SequentialTry, IfUpGiven
<1>5. CASE ArpRandom(s)
  <2>1. PICK a \in Draws(s) \ Reserved(s) : ArpCheck(s, a, "random")
    BY <1>5 DEF ArpRandom
  <2>2. a \in Nat
    BY <1>5, Candidates DEF ArpRandom, Origin, OriginOf
  <2> QED BY <1>5, <1>3, <2>1, <2>2 DEF ArpRandom
<1>6. ASSUME NEW a \in Nat, LookAt(s, a), UNCHANGED <<dev, opt, br>>,
             replied' = [t \in Sandboxes |-> replied'[t]]
      PROVE  FType'
  <2>1. [NoCheck EXCEPT !.dest = a]
          \in [dest : Nat, cnt : Int, fds : SUBSET {"sock"}, missed : Int,
               by : {"none", "given", "random", "sequential"}]
    BY DEF NoCheck
  <2> QED BY Zenon, <1>6, <2>1 DEF LookAt
<1>7. CASE ArpSequential(s)
  <2>1. First(s) \in Nat
    BY <1>7, Candidates DEF ArpSequential, Origin, OriginOf
  <2> QED BY <1>6, <1>7, <2>1 DEF ArpSequential
<1>8. CASE SequentialSkip(s)
  <2>1. chk[s].dest + 1 \in Nat
    OBVIOUS
  <2> QED BY <1>6, <1>8, <2>1 DEF SequentialSkip
<1>9. CASE Reply(s)
  <2>1. chk[s].dest + 1 \in Nat
    OBVIOUS
  <2>2. replied' = [t \in Sandboxes |-> replied'[t]]
    BY <1>9 DEF Reply
  <2>3. CASE chk[s].by = "sequential"
    BY <1>6, <1>9, <2>1, <2>2, <2>3 DEF Reply
  <2>4. CASE chk[s].by # "sequential"
    BY <1>9, <2>4 DEF Reply
  <2> QED BY <2>3, <2>4
<1>10. CASE ProbeAgain(s)
  <2>1. Missed(s) \in Int /\ chk[s].cnt - 1 \in Int
    BY DEF Missed
  <2>2. /\ \A t \in Sandboxes \ {s} : chk'[t] = chk[t]
        /\ chk'[s] = [chk[s] EXCEPT !.cnt = @ - 1, !.fds = {}, !.missed = Missed(s)]
        /\ chk' = [t \in Sandboxes |-> chk'[t]]
    BY Zenon, <1>10 DEF ProbeAgain
  <2>3. chk'[s] \in [dest : Nat, cnt : Int, fds : SUBSET {"sock"}, missed : Int,
                     by : {"none", "given", "random", "sequential"}]
    BY Zenon, <2>1, <2>2
  <2>4. chk' \in [Sandboxes -> [dest : Nat, cnt : Int, fds : SUBSET {"sock"}, missed : Int,
                                by : {"none", "given", "random", "sequential"}]]
    BY Zenon, <2>2, <2>3
  <2> QED BY <1>10, <2>4 DEF ProbeAgain
<1>11. CASE NotInUse(s)
  <2>1. br' \in [Sandboxes -> [ip : Nat, mask : Masks, none : BOOLEAN, gw : Nat, addr : Nat]]
    BY <1>11 DEF NotInUse
  <2>2. NoCheck \in [dest : Nat, cnt : Int, fds : SUBSET {"sock"}, missed : Int,
                     by : {"none", "given", "random", "sequential"}]
    BY DEF NoCheck
  <2> QED BY Zenon, <1>11, <2>1, <2>2 DEF NotInUse
<1>12. CASE Ends(s)
  <2>1. NoCheck \in [dest : Nat, cnt : Int, fds : SUBSET {"sock"}, missed : Int,
                     by : {"none", "given", "random", "sequential"}]
    BY DEF NoCheck
  <2>2. NoBridge \in [ip : Nat, mask : Masks, none : BOOLEAN, gw : Nat, addr : Nat]
    BY DEF NoBridge, Masks
  <2> QED BY Zenon, <1>12, <2>1, <2>2 DEF Ends
<1> QED BY <1>1, <1>2, <1>4, <1>5, <1>7, <1>8, <1>9, <1>10, <1>11, <1>12 DEF Step

\* After net_check_cfg() only the address of the Bridge structure changes.
LEMMA ConfiguredStep ==
  ASSUME FInv, NEW s \in Sandboxes, Step(s)
  PROVE  Configured'
<1> USE DEF FInv, FType
<1> DEFINE Good(o, b) == /\ o \in Options /\ BridgeOK(o)
                         /\ [b EXCEPT !.addr = o.ip] = NewBridge(o)
<1>1. dev' = dev
  BY DEF Step, NetCheckCfg, Lock, CheckNetworkLater, CheckNetworkGiven, CheckNetworkAssign,
         ArpRandom, ArpRandomFails, ArpSequential, SequentialSkip, SequentialTry,
         SequentialFails, Reply, ProbeAgain, NotInUse, Clone, IfUp, IfUpAssign, IfUpGiven,
         Unlock, Ends
<1>2. SUFFICES ASSUME NEW t \in Sandboxes, pc'[t] # "none"
               PROVE  Good(opt'[t], br'[t])
  <2>1. \A t \in Sandboxes : NewBridge(opt[t])' = NewBridge(opt'[t])
    BY <1>1 DEF NewBridge, BridgeIp, Mask, NotEnough, Gateway
  <2>2. \A t \in Sandboxes : BridgeOK(opt[t])' <=> BridgeOK(opt'[t])
    BY <1>1 DEF BridgeOK, BridgeIp, Mask, NotEnough
  <2> QED BY Zenon, <2>1, <2>2 DEF Configured
<1>3. pc[t] # "none" => Good(opt[t], br[t])
  BY DEF Configured
<1> HIDE DEF Good
<1>4. CASE \E o \in Options : NetCheckCfg(s, o)
  <2>1. PICK o \in Options : NetCheckCfg(s, o)
    BY <1>4
  <2>2. CASE t = s
    <3>1. opt'[t] = o /\ br'[t] = NewBridge(o) /\ BridgeOK(o)
      BY <2>1, <2>2 DEF NetCheckCfg
    <3>2. [NewBridge(o) EXCEPT !.addr = o.ip] = NewBridge(o)
      BY DEF NewBridge
    <3> QED BY <3>1, <3>2 DEF Good
  <2>3. CASE t # s
    BY <2>1, <2>3, <1>2, <1>3 DEF NetCheckCfg
  <2> QED BY <2>2, <2>3
<1>5. CASE NotInUse(s)
  <2>1. opt' = opt /\ br' = [br EXCEPT ![s].addr = chk[s].dest] /\ pc[s] = "probe"
    BY <1>5 DEF NotInUse
  <2>2. CASE t = s
    <3>1. [br'[t] EXCEPT !.addr = opt[t].ip] = [br[t] EXCEPT !.addr = opt[t].ip]
      BY Zenon, <2>1, <2>2
    <3> QED BY <2>1, <2>2, <3>1, <1>3 DEF Good
  <2>3. CASE t # s
    <3>1. pc'[t] = pc[t] /\ br'[t] = br[t]
      BY <1>5, <2>1, <2>3 DEF NotInUse
    <3> QED BY <2>1, <3>1, <1>2, <1>3
  <2> QED BY <2>2, <2>3
<1>6. CASE Ends(s)
  BY <1>6, <1>2, <1>3 DEF Ends
<1>7. ASSUME opt' = opt, br' = br, pc[s] # "none", pc' = [pc EXCEPT ![s] = pc'[s]]
      PROVE  Good(opt'[t], br'[t])
  BY <1>2, <1>3, <1>7
<1>8. CASE Lock(s) \/ CheckNetworkLater(s) \/ CheckNetworkAssign(s) \/ Clone(s) \/ IfUp(s)
           \/ IfUpAssign(s) \/ Unlock(s) \/ ArpRandomFails(s) \/ SequentialFails(s)
           \/ ProbeAgain(s)
  BY <1>7, <1>8 DEF Lock, CheckNetworkLater, CheckNetworkAssign, Clone, IfUp, IfUpAssign,
                    Unlock, ArpRandomFails, SequentialFails, ProbeAgain
<1>9. CASE CheckNetworkGiven(s) \/ ArpRandom(s) \/ SequentialTry(s) \/ IfUpGiven(s)
  BY <1>7, <1>9 DEF CheckNetworkGiven, ArpRandom, SequentialTry, IfUpGiven, ArpCheck
<1>10. CASE ArpSequential(s) \/ SequentialSkip(s) \/ Reply(s)
  BY <1>7, <1>10 DEF ArpSequential, SequentialSkip, Reply, LookAt
<1> QED BY <1>4, <1>5, <1>6, <1>8, <1>9, <1>10 DEF Step

\* A step of s leaves everything about the others as it was.
LEMMA OthersSame ==
  ASSUME FInv, NEW s \in Sandboxes, Step(s)
  PROVE  \A t \in Sandboxes \ {s} : /\ pc'[t] = pc[t] /\ opt'[t] = opt[t] /\ br'[t] = br[t]
                                    /\ chk'[t] = chk[t] /\ replied'[t] = replied[t]
                                    /\ dev' = dev
<1> USE DEF FInv, FType
<1>1. CASE \E o \in Options : NetCheckCfg(s, o)
  BY <1>1 DEF NetCheckCfg
<1>2. CASE Lock(s) \/ CheckNetworkLater(s) \/ CheckNetworkAssign(s) \/ Clone(s) \/ IfUp(s)
           \/ IfUpAssign(s) \/ Unlock(s) \/ ArpRandomFails(s) \/ SequentialFails(s)
  BY <1>2 DEF Lock, CheckNetworkLater, CheckNetworkAssign, Clone, IfUp, IfUpAssign,
              Unlock, ArpRandomFails, SequentialFails
<1>3. CASE CheckNetworkGiven(s) \/ ArpRandom(s) \/ SequentialTry(s) \/ IfUpGiven(s)
  BY <1>3 DEF CheckNetworkGiven, ArpRandom, SequentialTry, IfUpGiven, ArpCheck
<1>4. CASE ArpSequential(s) \/ SequentialSkip(s) \/ Reply(s)
  BY <1>4 DEF ArpSequential, SequentialSkip, Reply, LookAt
<1>5. CASE ProbeAgain(s) \/ NotInUse(s) \/ Ends(s)
  BY <1>5 DEF ProbeAgain, NotInUse, Ends
<1> QED BY <1>1, <1>2, <1>3, <1>4, <1>5 DEF Step

\* Every address is the user's or one firejail may choose, step by step of
\* check_network(), arp_assign(), arp_check() and sandbox_if_up().
LEMMA OriginStep ==
  ASSUME FInv, NEW s \in Sandboxes, Step(s)
  PROVE  Origin'
<1> USE DEF FInv, FType
<1>1. ASSUME NEW t \in Sandboxes \ {s} PROVE OriginOf(t)'
  <2>1. OriginOf(t)
    BY DEF Origin
  <2> QED BY <2>1, OthersSame DEF OriginOf, InNet, MayChoose, Reserved, Ranged, HasAddress
<1>2. OriginOf(s)
  BY DEF Origin
<1>3. OriginOf(s)'
  <2> USE <1>2 DEF OriginOf, InNet, MayChoose, Reserved, Ranged, HasAddress
  <2>1. CASE \E o \in Options : NetCheckCfg(s, o)
    BY <2>1 DEF NetCheckCfg, NewBridge
  <2>2. CASE Lock(s) \/ Clone(s) \/ Unlock(s) \/ ArpRandomFails(s) \/ SequentialFails(s)
    BY <2>2 DEF Lock, Clone, Unlock, ArpRandomFails, SequentialFails
  <2>3. CASE CheckNetworkLater(s)
    BY <2>3 DEF CheckNetworkLater, Given, Fits
  <2>4. CASE CheckNetworkGiven(s)
    BY <2>4 DEF CheckNetworkGiven, Given, Fits, ArpCheck
  <2>5. CASE CheckNetworkAssign(s)
    BY <2>5 DEF CheckNetworkAssign, Given
  <2>6. CASE ArpRandom(s)
    <3>1. PICK a \in Draws(s) \ Reserved(s) : ArpCheck(s, a, "random")
      BY <2>6 DEF ArpRandom
    <3>2. MayChoose(s, a)
      BY <2>6, Candidates DEF ArpRandom
    <3> QED BY <2>6, <3>1, <3>2 DEF ArpRandom, ArpCheck
  <2>7. CASE SequentialTry(s)
    <3>1. MayChoose(s, chk[s].dest)
      BY <2>7, Candidates DEF SequentialTry, Tried, TriedOf
    <3> QED BY <2>7, <3>1 DEF SequentialTry, ArpCheck
  <2>8. CASE ArpSequential(s) \/ SequentialSkip(s) \/ Reply(s)
    BY <2>8 DEF ArpSequential, SequentialSkip, Reply, LookAt
  <2>9. CASE ProbeAgain(s)
    BY <2>9 DEF ProbeAgain
  <2>10. CASE NotInUse(s)
    BY <2>10 DEF NotInUse
  <2>11. CASE IfUp(s)
    BY <2>11 DEF IfUp
  <2>12. CASE IfUpAssign(s)
    BY <2>12 DEF IfUpAssign, Given
  <2>13. CASE IfUpGiven(s)
    BY <2>13 DEF IfUpGiven, Given, ArpCheck
  <2>14. CASE Ends(s)
    BY <2>14 DEF Ends
  <2> QED BY ZenonT(30), <2>1, <2>2, <2>3, <2>4, <2>5, <2>6, <2>7, <2>8, <2>9, <2>10, <2>11, <2>12, <2>13,
             <2>14 DEF Step
<1> QED BY <1>1, <1>3 DEF Origin

\* An interval grows by its next number.
LEMMA NextNumber ==
  ASSUME NEW f \in Nat, NEW d \in Nat
  PROVE  f..((d + 1) - 1) \subseteq (f..(d - 1)) \cup {d}
OBVIOUS

\* arp_sequential() leaves out no address.
LEMMA TriedStep ==
  ASSUME FInv, NEW s \in Sandboxes, Step(s)
  PROVE  Tried'
<1> USE DEF FInv, FType
<1>1. ASSUME NEW t \in Sandboxes \ {s} PROVE TriedOf(t)'
  <2>1. TriedOf(t)
    BY DEF Tried
  <2> QED BY <2>1, OthersSame DEF TriedOf, First, Last, Reserved
<1>2. TriedOf(s) /\ OriginOf(s)
  BY DEF Tried, Origin
<1>3. TriedOf(s)'
  <2> USE <1>2 DEF TriedOf
  <2>1. CASE pc'[s] \notin {"next", "full", "probe"}
    BY <2>1
  <2>2. CASE CheckNetworkGiven(s) \/ ArpRandom(s) \/ IfUpGiven(s)
    BY <2>2 DEF CheckNetworkGiven, ArpRandom, IfUpGiven, ArpCheck
  <2>3. ASSUME pc[s] # "none", ~br[s].none, UNCHANGED <<opt, br>>
        PROVE  /\ First(s)' = First(s) /\ Last(s)' = Last(s) /\ Reserved(s)' = Reserved(s)
               /\ First(s) \in Nat /\ Last(s) \in Int
    BY <2>3, Candidates DEF First, Last, Reserved
  <2>4. CASE SequentialTry(s)
    <3>1. First(s)' = First(s) /\ Reserved(s)' = Reserved(s) /\ replied' = replied
      BY <2>3, <2>4 DEF SequentialTry, OriginOf
    <3>2. chk'[s].dest = chk[s].dest /\ pc[s] = "next" /\ pc'[s] = "probe"
      BY <2>4 DEF SequentialTry, ArpCheck
    <3> QED BY <3>1, <3>2
  <2>5. CASE ArpSequential(s)
    <3>1. First(s)' = First(s) /\ First(s) \in Nat
      BY <2>3, <2>5 DEF ArpSequential, OriginOf
    <3>2. chk'[s].dest = First(s) /\ pc'[s] = "next"
      BY <2>5 DEF ArpSequential, LookAt, NoCheck
    <3> QED BY <3>1, <3>2
  <2>6. CASE SequentialSkip(s)
    <3>1. /\ First(s)' = First(s) /\ Reserved(s)' = Reserved(s) /\ replied' = replied
          /\ First(s) \in Nat
      BY <2>3, <2>6 DEF SequentialSkip, OriginOf
    <3>2. /\ chk'[s].dest = chk[s].dest + 1 /\ pc[s] = "next" /\ pc'[s] = "next"
          /\ chk[s].dest \in Reserved(s) /\ chk[s].dest \in Nat
      BY <2>6 DEF SequentialSkip, LookAt, NoCheck
    <3>3. First(s)..(chk'[s].dest - 1)
            \subseteq (First(s)..(chk[s].dest - 1)) \cup {chk[s].dest}
      BY <3>1, <3>2, NextNumber
    <3>4. \A a \in First(s)..(chk'[s].dest - 1) : a \in Reserved(s) \cup replied[s]
      BY <3>2, <3>3
    <3>5. chk'[s].dest >= First(s)
      BY <3>1, <3>2
    <3> QED BY <3>1, <3>2, <3>4, <3>5
  <2>7. CASE Reply(s) /\ chk[s].by = "sequential"
    <3>1. First(s)' = First(s) /\ Reserved(s)' = Reserved(s) /\ First(s) \in Nat
      BY <2>3, <2>7 DEF Reply, OriginOf
    <3>2. /\ chk' = [chk EXCEPT ![s] = [NoCheck EXCEPT !.dest = chk[s].dest + 1]]
          /\ pc[s] = "probe" /\ pc'[s] = "next" /\ chk[s].dest \in Nat
          /\ replied' = [replied EXCEPT ![s] = @ \cup {chk[s].dest}]
      BY Zenon, <2>7 DEF Reply, LookAt
    <3>3. chk'[s].dest = chk[s].dest + 1
      BY <3>2 DEF NoCheck
    <3>4. replied'[s] = replied[s] \cup {chk[s].dest}
      BY <3>2
    <3>5. First(s)..(chk'[s].dest - 1)
            \subseteq (First(s)..(chk[s].dest - 1)) \cup {chk[s].dest}
      BY <3>1, <3>2, <3>3, NextNumber
    <3>6. \A a \in First(s)..(chk'[s].dest - 1) : a \in Reserved(s) \cup replied'[s]
      BY <2>7, <3>2, <3>4, <3>5
    <3>7. chk'[s].dest >= First(s)
      BY <2>7, <3>1, <3>2, <3>3
    <3> QED BY <3>1, <3>2, <3>6, <3>7
  <2>8. CASE SequentialFails(s)
    <3>1. /\ First(s)' = First(s) /\ Last(s)' = Last(s) /\ Reserved(s)' = Reserved(s)
          /\ UNCHANGED <<chk, replied>>
      BY <2>3, <2>8 DEF SequentialFails, OriginOf
    <3>2. pc[s] = "next" /\ pc'[s] = "full" /\ chk[s].dest > Last(s)
      BY <2>8 DEF SequentialFails
    <3> QED BY <3>1, <3>2
  <2>9. CASE ProbeAgain(s)
    <3>1. First(s)' = First(s) /\ Reserved(s)' = Reserved(s) /\ replied' = replied
      BY <2>3, <2>9 DEF ProbeAgain, OriginOf
    <3>2. /\ chk'[s].dest = chk[s].dest /\ chk'[s].by = chk[s].by
          /\ pc[s] = "probe" /\ pc'[s] = "probe"
      BY <2>9 DEF ProbeAgain
    <3> QED BY <3>1, <3>2
  <2>10. CASE (\E o \in Options : NetCheckCfg(s, o)) \/ Lock(s) \/ CheckNetworkLater(s)
              \/ CheckNetworkAssign(s) \/ ArpRandomFails(s)
    BY <2>1, <2>10 DEF NetCheckCfg, Lock, CheckNetworkLater, CheckNetworkAssign, ArpRandomFails
  <2>11. CASE (Reply(s) /\ chk[s].by # "sequential") \/ NotInUse(s) \/ Clone(s) \/ IfUp(s)
              \/ IfUpAssign(s) \/ Unlock(s) \/ Ends(s)
    BY <2>1, <2>11 DEF Reply, NotInUse, Clone, IfUp, IfUpAssign, Unlock, Ends
  <2> QED BY <2>2, <2>4, <2>5, <2>6, <2>7, <2>8, <2>9, <2>10, <2>11 DEF Step
<1> QED BY <1>1, <1>3 DEF Tried

\* The invariant about where addresses come from is inductive.
LEMMA InitFInv == Init => FInv
<1> SUFFICES ASSUME Init PROVE FInv
  OBVIOUS
<1>1. NoBridge \in [ip : Nat, mask : Masks, none : BOOLEAN, gw : Nat, addr : Nat]
  BY DEF NoBridge, Masks
<1>2. NoCheck \in [dest : Nat, cnt : Int, fds : SUBSET {"sock"}, missed : Int,
                   by : {"none", "given", "random", "sequential"}]
  BY DEF NoCheck
<1>3. FType
  BY <1>1, <1>2 DEF Init, FType
<1>4. Configured /\ Origin /\ Tried
  BY DEF Init, Configured, Origin, OriginOf, Tried, TriedOf, HasAddress
<1> QED BY <1>3, <1>4 DEF FInv

\* Every step keeps it: an address is chosen in the range of its device, or read
\* from the options, and is kept from then on.
LEMMA NextFInv == FInv /\ [Next]_vars => FInv'
<1> SUFFICES ASSUME FInv, [Next]_vars PROVE FInv'
  OBVIOUS
<1>1. CASE Next
  BY <1>1, FTypeStep, ConfiguredStep, OriginStep, TriedStep DEF Next, FInv
<1>2. CASE UNCHANGED vars
  <2> USE <1>2 DEF vars, FInv
  <2>1. FType' /\ Tried'
    BY DEF FType, Tried, TriedOf, First, Last, Reserved
  <2>2. Configured'
    BY DEF Configured, BridgeOK, NewBridge, BridgeIp, Mask, NotEnough, Gateway
  <2>3. Origin'
    BY ZenonT(30) DEF Origin, OriginOf, InNet, MayChoose, Reserved, Ranged, HasAddress
  <2> QED BY <2>1, <2>2, <2>3
<1> QED BY <1>1, <1>2

\* The addresses sandboxes get are usable, and firejail gives up looking for
\* one only when every address it may choose has been answered for, for every
\* width of addresses, every device and every set of options that
\* net_check_cfg() accepts.
THEOREM AddressesDoFit == Spec => []AddressesFit
<1>1. FInv => AddressesFit
  <2> SUFFICES ASSUME FInv PROVE AddressesFit
    OBVIOUS
  <2> USE DEF FInv
  <2>1. ASSUME NEW s \in Sandboxes, HasAddress(s)
        PROVE  /\ InNetrange(br[s].addr, br[s].ip, br[s].mask) /\ br[s].addr # dev.ip
               /\ opt[s].ip = 0 \/ dev.macvlan => br[s].addr # br[s].gw
               /\ opt[s].ip = 0 /\ Ranged(s) => br[s].addr \in opt[s].start..opt[s].end
    <3>1. OriginOf(s) /\ pc[s] # "none" /\ ~br[s].none
      BY <2>1 DEF Origin, HasAddress
    <3>2. InNet(s, br[s].addr) /\ br[s].addr # br[s].ip
      BY <2>1, <3>1 DEF OriginOf
    <3>3. br[s].addr \in Nat /\ br[s].addr # 0
      BY <3>1, <3>2, RangeFits, NetrangeIsInterval DEF InNet, FType
    <3>4. dev.ip = 0 \/ dev.ip = br[s].ip
      <4>1. [br[s] EXCEPT !.addr = opt[s].ip].ip = NewBridge(opt[s]).ip
        BY Zenon, <3>1 DEF Configured
      <4>2. br[s].ip = BridgeIp(opt[s])
        BY <4>1 DEF NewBridge, FType
      <4> QED BY <4>2 DEF BridgeIp
    <3> QED BY <2>1, <3>1, <3>2, <3>3, <3>4 DEF OriginOf, InNet, MayChoose, Reserved
  <2>2. ASSUME NEW s \in Sandboxes, pc[s] = "full",
               NEW a \in IF opt[s].end # 0 THEN opt[s].start..opt[s].end ELSE Addr,
               InNetrange(a, br[s].ip, br[s].mask), a \notin Reserved(s)
        PROVE  a \in replied[s]
    <3>1. OriginOf(s) /\ TriedOf(s)
      BY DEF Origin, Tried
    <3>2. a \in First(s)..Last(s) /\ First(s) \in Nat /\ Last(s) \in Int
      BY <2>2, <3>1, Candidates DEF OriginOf, InNet
    <3>3. chk[s].dest > Last(s) /\ chk[s].dest \in Nat
      BY <2>2, <3>1 DEF TriedOf, FType
    <3>4. a \in First(s)..(chk[s].dest - 1)
      BY <3>2, <3>3
    <3> QED BY <2>2, <3>1, <3>4 DEF TriedOf
  <2> QED BY <2>1, <2>2 DEF AddressesFit, AddressUsable, GivesUpWhenFull
<1> QED BY <1>1, InitFInv, NextFInv, PTL DEF Spec
=============================================================================
