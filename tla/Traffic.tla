------------------------------- MODULE Traffic -------------------------------
(***************************************************************************)
(* firejail --nettrace: the program fnettrace loads a map of networks into *)
(* a radix tree, counts the packets that arrive by network, and keeps the  *)
(* streams (address, port, protocol) in a hash table and in a list for the *)
(* display.  With --squash-map it loads a map, merges neighbouring         *)
(* networks of one name and prints the result.                             *)
(***************************************************************************)
EXTENDS Integers, Sequences, FiniteSets, FiniteSetsExt, SequencesExt

CONSTANTS W,             \* bits of an address (32 in the code)
          MapLines,      \* the lines a map may hold, by mode: [net, name]
          Hosts,         \* the names geoip may find, and " " for none
          Sources,       \* addresses packets come from
          Ports,
          MaxLines,      \* how many it holds, by mode
          MaxPackets,
          DISPLAY_TTL,
          HNODE_MAX_MALLOC

Bits == {0, 1}
Paths(n) == [1..n -> Bits]
NodesOfTree == UNION {Paths(n) : n \in 0..W}
Addresses == Paths(W)
Prefix(ip, n) == SubSeq(ip, 1, n)

VARIABLES mode,          \* "squash" or "trace"
          lines,         \* the lines of the map read so far
          radix,         \* [NodesOfTree -> [there, name, pkts]]
          htable,        \* [Bits -> Seq(pointer)], the chains of the hash table
          dlist,         \* Seq(pointer), the display list
          heap,          \* [pointer -> stream]
          hnode_unused,  \* Seq(pointer)
          tr,            \* "load", "run" or "end"
          stats_pkts,
          packets,       \* packets so far
          passes         \* calls of radix_squash

tvars == <<mode, lines, radix, htable, dlist, heap, hnode_unused, tr,
           stats_pkts, packets, passes>>

(***************************************************************************)
(* The radix tree.  A node without a name has the name "".                 *)
(***************************************************************************)
RNode(name, pkts) == [there |-> TRUE, name |-> name, pkts |-> pkts]
NoNode == [there |-> FALSE, name |-> "", pkts |-> 0]

\* A new node gets the name if the mask ends with it; a node that is there
\* keeps its name if it has one.
radix_add(t, path, name) ==
  [n \in NodesOfTree |->
     IF ~IsPrefix(n, path) THEN t[n]
     ELSE LET node == IF t[n].there THEN t[n] ELSE RNode("", 0)
          IN  IF n = path /\ node.name = "" THEN [node EXCEPT !.name = name] ELSE node]

\* The last node with a name on the way down, the root not included.
radix_longest_prefix_match(t, ip) ==
  LET reached == {n \in 1..W : \A k \in 1..n : t[Prefix(ip, k)].there}
      named == {n \in reached : t[Prefix(ip, n)].name # ""}
  IN  IF named = {} THEN <<>> ELSE Prefix(ip, Max(named))

NameOf(t, ip) ==
  LET n == radix_longest_prefix_match(t, ip) IN IF n = <<>> THEN "" ELSE t[n].name

IsLeaf(t, n) ==
  t[n].there /\ (Len(n) = W \/ \A b \in Bits : ~t[Append(n, b)].there)

(***************************************************************************)
(* squash: two leaves of one name below a node without a name become that  *)
(* node.  A pass visits the nodes from the top, so that a node is compared *)
(* with its children as they were before the pass.                         *)
(***************************************************************************)
Squashable(t, n) ==
  /\ t[n].there /\ t[n].name = "" /\ Len(n) < W
  /\ \A b \in Bits : IsLeaf(t, Append(n, b))
  /\ t[Append(n, 0)].name = t[Append(n, 1)].name
  /\ t[Append(n, 0)].name # ""

radix_squash(t) ==
  [n \in NodesOfTree |->
     IF n = <<>> THEN t[n]
     ELSE IF Squashable(t, n) THEN [t[n] EXCEPT !.name = t[Append(n, 1)].name]
     ELSE IF Len(n) > 1 /\ Squashable(t, Front(n)) THEN NoNode
     ELSE t[n]]

\* load_hostnames, one line of the map; a network is at least one bit long.
LoadLine ==
  /\ tr = "load" /\ Len(lines) < MaxLines[mode]
  /\ \E line \in MapLines[mode] :
       /\ lines' = Append(lines, line)
       /\ radix' = radix_add(radix, line.net, line.name)
  /\ UNCHANGED <<mode, htable, dlist, heap, hnode_unused, tr, stats_pkts, packets, passes>>

MapLoaded ==
  /\ tr = "load"
  /\ tr' = IF mode = "squash" THEN "squash" ELSE "run"
  /\ UNCHANGED <<mode, lines, radix, htable, dlist, heap, hnode_unused, stats_pkts, packets, passes>>

\* main squashes five times.
SquashMap ==
  /\ tr = "squash"
  /\ radix' = radix_squash(radix)
  /\ passes' = passes + 1
  /\ tr' = IF passes = 4 THEN "end" ELSE tr
  /\ UNCHANGED <<mode, lines, htable, dlist, heap, hnode_unused, stats_pkts, packets>>

(***************************************************************************)
(* Streams.                                                                *)
(***************************************************************************)
hash(ip) == FoldLeft(LAMBDA x, b : (x + b) % 2, 0, ip)

HNode(ip, port, rnode) ==
  [ip_src |-> ip, port_src |-> port, rnode |-> rnode, pkts |-> 1, ttl |-> DISPLAY_TTL]

\* hmalloc: the unused nodes, a new block of them when there are none.
Unused ==
  IF hnode_unused # <<>> THEN hnode_unused
  ELSE [i \in 1..HNODE_MAX_MALLOC |-> Cardinality(DOMAIN heap) + i]

SameStream(p, ip, port) == heap[p].ip_src = ip /\ heap[p].port_src = port

RadixCounted(t, rnode) == [t EXCEPT ![rnode].pkts = @ + 1]

\* A packet of a stream that is there.
HnodeFound(ip, port) ==
  \E i \in DOMAIN htable[hash(ip)] :
    LET p == htable[hash(ip)][i]
    IN  /\ SameStream(p, ip, port)
        /\ heap' = [heap EXCEPT ![p].pkts = @ + 1]
        /\ radix' = RadixCounted(radix, heap[p].rnode)
        /\ UNCHANGED <<htable, dlist, hnode_unused>>

\* A packet of a new stream: first in its chain, last in the display list.
HnodeNew(ip, port) ==
  /\ \A i \in DOMAIN htable[hash(ip)] : ~SameStream(htable[hash(ip)][i], ip, port)
  /\ LET p == Head(Unused)
         match == radix_longest_prefix_match(radix, ip)
         rnode == IF match = <<>> THEN ip ELSE match
         t == IF match = <<>> THEN radix_add(radix, ip, "") ELSE radix
     IN  /\ heap' = [q \in DOMAIN heap \cup Range(Unused) |->
                       IF q = p THEN HNode(ip, port, rnode)
                       ELSE IF q \in DOMAIN heap THEN heap[q] ELSE HNode(ip, port, rnode)]
         /\ hnode_unused' = Tail(Unused)
         /\ htable' = [htable EXCEPT ![hash(ip)] = <<p>> \o @]
         /\ dlist' = Append(dlist, p)
         /\ radix' = RadixCounted(t, rnode)

hnode_add(ip, port) == HnodeFound(ip, port) \/ HnodeNew(ip, port)

Packet ==
  /\ tr = "run" /\ packets < MaxPackets
  /\ packets' = packets + 1
  /\ stats_pkts' = stats_pkts + 1
  /\ \E ip \in Sources, port \in Ports : hnode_add(ip, port)
  /\ UNCHANGED <<mode, lines, tr, passes>>

(***************************************************************************)
(* hnode_print: every stream of the display list loses one from its time   *)
(* to live; one that still lives is shown, its network named (by geoip, or *)
(* a blank), its time reset if it had traffic, its counts cleared; one     *)
(* that does not leaves both lists and its node is unused again.           *)
(***************************************************************************)
Lives(p) == heap[p].ttl > 1

Displayed == SelectSeq(dlist, Lives)

\* mutant: the stream after one that is removed is not unlinked from its chain
InChainsSkip(p) ==
  Lives(p) \/ \E i \in 2..Len(dlist) : dlist[i] = p /\ ~Lives(dlist[i - 1])

InChains(p) == Lives(p)

Expired == SelectSeq(dlist, LAMBDA p : ~Lives(p))

hnode_print ==
  /\ tr = "run" /\ dlist # <<>>
  /\ dlist' = Displayed
  /\ htable' = [h \in Bits |->
       SelectSeq(htable[h], LAMBDA p : InChains(p))]
  /\ heap' = [p \in DOMAIN heap |->
       IF p \in Range(Displayed)
       THEN [heap[p] EXCEPT !.ttl = IF heap[p].pkts > 0 THEN DISPLAY_TTL ELSE @ - 1,
                            !.pkts = 0]
       ELSE heap[p]]
  /\ hnode_unused' = Reverse(Expired) \o hnode_unused
  /\ \E host \in Hosts :
       radix' = [n \in NodesOfTree |->
         IF radix[n].there /\ radix[n].name = "" /\ \E p \in Range(Displayed) : heap[p].rnode = n
         THEN [radix[n] EXCEPT !.name = host] ELSE radix[n]]
  /\ UNCHANGED <<mode, lines, tr, stats_pkts, packets, passes>>

\* Key c: clear_stats, radix_clear_data.
Cleared(t) == [n \in NodesOfTree |-> [t[n] EXCEPT !.pkts = 0]]

Clear ==
  /\ tr = "run"
  /\ stats_pkts' = 0
  /\ radix' = Cleared(radix)
  /\ UNCHANGED <<mode, lines, htable, dlist, heap, hnode_unused, tr, packets, passes>>

\* Key x.
Quit ==
  /\ tr = "run" /\ tr' = "end"
  /\ UNCHANGED <<mode, lines, radix, htable, dlist, heap, hnode_unused, stats_pkts, packets, passes>>

NInit ==
  /\ mode \in {"squash", "trace"}
  /\ lines = <<>> /\ tr = "load"
  /\ radix = [n \in NodesOfTree |-> IF n = <<>> THEN RNode("", 0) ELSE NoNode]
  /\ htable = [h \in Bits |-> <<>>]
  /\ dlist = <<>> /\ heap = <<>> /\ hnode_unused = <<>>
  /\ stats_pkts = 0 /\ packets = 0 /\ passes = 0

NNext ==
  \/ LoadLine \/ MapLoaded \/ SquashMap
  \/ Packet \/ hnode_print \/ Clear \/ Quit

-----------------------------------------------------------------------------
(***************************************************************************)
(* The map as its lines say: the first line for the longest network that   *)
(* holds the address.                                                      *)
(***************************************************************************)
NameInMap(ip) ==
  LET match == {i \in DOMAIN lines : IsPrefix(lines[i].net, ip)}
      longest == {i \in match : \A j \in match : Len(lines[j].net) <= Len(lines[i].net)}
  IN  IF match = {} THEN "" ELSE lines[Min(longest)].name

NamesAsInMap ==
  \A ip \in Addresses :
    NameInMap(ip) # "" \/ ip \notin Sources => NameOf(radix, ip) = NameInMap(ip)

StreamsConsistent ==
  LET chains == htable[0] \o htable[1]
  IN  /\ Range(chains) = Range(dlist)
      /\ IsInjective(chains) /\ IsInjective(dlist)
      /\ Range(dlist) \cap Range(hnode_unused) = {}
      /\ \A p, q \in Range(dlist) : SameStream(p, heap[q].ip_src, heap[q].port_src) => p = q
      /\ MapThenSumSet(LAMBDA n : radix[n].pkts, NodesOfTree) = stats_pkts

\* Every address has the name the map gives it, whatever the order of the
\* lines; squashing the map and adding single addresses while tracing change
\* the name of no other address (radix_add, radix_longest_prefix_match,
\* squash, hnode_print).  The display list and the hash table hold the same
\* streams, each once, no unused one among them, and the counts of the networks
\* add up to the number of packets, through additions, expiry, reuse of nodes
\* and clearing (hnode_add, hnode_free, hfree, radix_clear_data).
TraceConsistent == NamesAsInMap /\ StreamsConsistent
==============================================================================
