------------------------------- MODULE MCPolicy -------------------------------
EXTENDS PolicyController, TLC

(* Two nodes; the first has two PFs, one with an alternative name.          *)
Pf(pci, name, alt) ==
    [pci |-> pci, name |-> name, alt |-> alt, vendor |-> "v", device |-> "d", filter |-> "f"]
Ifaces == 1 :> {Pf("p1", "eth1", {"alt1"}), Pf("p2", "eth2", {})} @@ 2 :> {Pf("p1", "eth1", {})}
Labels == 1 :> {"a", "b"} @@ 2 :> {"a"}
OneNode == 1 :> {Pf("p1", "eth1", {"alt1"})}
OneLabel == 1 :> {"a"}

Policy(prio, label, pfs, numVfs, resource) ==
    [prio |-> prio, nodeSelector |-> {label}, vendor |-> "", device |-> "", roots |-> {},
     pfs |-> pfs, filter |-> "", numVfs |-> numVfs, mtu |-> numVfs, resource |-> resource,
     type |-> "netdevice", link |-> "", eswitch |-> "", rdma |-> FALSE, vdpa |-> "",
     bridge |-> FALSE, external |-> FALSE, topo |-> FALSE]
Named(name, rng) == <<[name |-> name, rng |-> rng]>>

(* Low and high half of the VFs, the whole PF, both PFs by vendor with a    *)
(* bridge, an unreadable range, and a network filter.                       *)
Low == Policy(20, "a", Named("eth1", <<0, 1>>), 4, "r1")
High == Policy(20, "a", Named("eth1", <<2, 3>>), 4, "r2")
Middle == Policy(10, "a", Named("eth1", <<1, 2>>), 3, "r3")
Whole == [Policy(10, "a", <<>>, 2, "r2") EXCEPT !.vendor = "v", !.bridge = TRUE,
                                                !.eswitch = "switchdev"]
Unreadable == Policy(20, "b", Named("eth1", BadRange), 4, "r1")
Filtered == [Policy(20, "b", <<>>, 1, "r2") EXCEPT !.filter = "f"]
Candidates == {Low, High, Middle, Whole, Unreadable, Filtered}
Halves == {Low, Unreadable}
(* What there may be at the start: chains of overlaps, equal resources,     *)
(* equal priorities, policies for one node only, nothing.                   *)
SomePolicies == {<<Low, High, Middle>>, <<High, Whole, Filtered>>}
ByAltName == {<<Policy(20, "a", Named("alt1", <<0, 1>>), 4, "r1")>>}
=============================================================================
