------------------------------- MODULE MCWebhook -------------------------------
EXTENDS PolicyWebhook, TLC

Pf(pci, name, alt) ==
    [pci |-> pci, name |-> name, alt |-> alt, vendor |-> "8086", device |-> "158b",
     filter |-> "f", totalVfs |-> 4, numVfs |-> 2, mtu |-> 1500, link |-> "eth"]
Ifaces == 1 :> {Pf("p1", "eth1", {"alt1"}), Pf("p2", "eth2", {})}
Labels == 1 :> {"a"}
Models == {<<"8086", "158b">>}

Policy(label, pfs, numVfs) ==
    [prio |-> 0, nodeSelector |-> {label}, vendor |-> "", device |-> "", roots |-> {},
     pfs |-> pfs, filter |-> "", numVfs |-> numVfs, mtu |-> 0, resource |-> "r",
     type |-> "netdevice", link |-> "", eswitch |-> "", rdma |-> FALSE, vdpa |-> "",
     bridge |-> FALSE, external |-> FALSE, topo |-> FALSE]
Send(pol) == [pol |-> pol, unset |-> {"priority", "isRdma"}]
OnPf(name, from, to) == [name |-> name, rng |-> <<from, to>>]

(* Overlapping and neighbouring ranges, a second PF, a range past the end   *)
(* by alternative name, a policy for no node and one for no NIC.            *)
Sent == {Send(Policy("a", <<OnPf("eth1", 0, 1)>>, 4)),
         Send(Policy("a", <<OnPf("eth1", 1, 2)>>, 4)),
         Send(Policy("a", <<OnPf("eth2", 0, 1), OnPf("eth1", 2, 3)>>, 4)),
         Send(Policy("a", <<OnPf("alt1", 1, 2)>>, 2)),
         Send(Policy("none", <<OnPf("eth1", 1, 1)>>, 2)),
         Send(Policy("a", <<OnPf("eth3", 0, 1)>>, 8))}
Pools == {[max |-> m, selector |-> FALSE, ovs |-> FALSE, ovsConfigSafe |-> TRUE]
            : m \in {<<"%", 50>>, <<"%", 150>>, <<"int", -1>>}}
Networks == {[foreign |-> TRUE, target |-> t] : t \in {"", "ns"}}
Handlers == Permutations(Handler)
=============================================================================
