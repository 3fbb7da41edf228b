----------------------------- MODULE MCNetwork ------------------------------
(* Small instances of Network: networks of four and of eight addresses. *)
EXTENDS Network, TLC

Bridge(ip, mask) == [macvlan |-> FALSE, ip |-> ip, mask |-> mask]
Macvlan(ip, mask) == [macvlan |-> TRUE, ip |-> ip, mask |-> mask]

MCDevices ==
  {Bridge(9, 8), Bridge(5, 12), Bridge(0, 0), Macvlan(10, 8), Macvlan(0, 0), Bridge(3, 14)}

MCOptions ==
  {NoOption, [NoOption EXCEPT !.none = TRUE],
   [NoOption EXCEPT !.ip = 9], [NoOption EXCEPT !.ip = 10], [NoOption EXCEPT !.ip = 8],
   [NoOption EXCEPT !.start = 11, !.end = 12],
   [NoOption EXCEPT !.start = 9, !.end = 11],
   [NoOption EXCEPT !.end = 10],
   [NoOption EXCEPT !.gw = 6],
   [NoOption EXCEPT !.ip = 12, !.mask = 8],
   [NoOption EXCEPT !.gw = 12, !.mask = 12]}

MCNeighbours == {6, 12}
Symmetry == Permutations(Sandboxes)
=============================================================================
