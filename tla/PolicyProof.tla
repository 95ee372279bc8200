----------------------------- MODULE PolicyProof ------------------------------
(* The rendering of policies into NodeStates, for any policies, nodes and   *)
(* interfaces: the VF groups of a PF never share a VF or a resource, and    *)
(* they are those of the policies no later one conflicts with.              *)
EXTENDS PolicyController, WellFoundedInduction, TLAPS

(* Most leaves are first-order: Zenon proves them, SMT those that cite it.  *)
USE Zenon

-----------------------------------------------------------------------------
(* Least elements: the loops take the first node, the first policy and the  *)
(* first pfName that hits.                                                  *)
Less == {ss \in Nat \X Nat : ss[1] < ss[2]}
LEMMA LeastNat ==
    ASSUME NEW T \in SUBSET Nat, T # {}
    PROVE  \E x \in T : \A y \in T : x <= y
  <1>1. IsWellFoundedOn(Less, Nat)
    BY NatLessThanWellFounded DEF OpToRel, Less
  <1>2. \E x \in T : \A y \in T : ~(<<y, x>> \in Less)
    BY <1>1, WFMin
  <1>3. PICK x \in T : \A y \in T : ~(<<y, x>> \in Less)
    BY <1>2
  <1>4. \A y \in T : ~(y < x)
    BY <1>3 DEF Less
  <1> QED BY <1>4, SMT

LEMMA CurrentListed ==
    ASSUME todo \subseteq Node, todo # {}
    PROVE  Current \in todo
  <1>1. todo \in SUBSET Nat
    BY PolicyAssumption
  <1> QED  BY <1>1, LeastNat DEF Current

LEMMA RankOfPriority ==
    ASSUME NEW x \in 0..99, NEW y \in 0..99
    PROVE  99 - x \in Nat /\ x \in Int /\ (99 - x <= 99 - y => x > y \/ x = y)
  BY SMT

(* The policies come in the order of ByPriority: there is a first one, and  *)
(* it is before every other.                                                *)
LEMMA FirstIsBefore ==
    ASSUME NEW pols, NEW names \in SUBSET Nat, names # {}, \A a \in names : pols[a].prio \in 0..99
    PROVE  /\ First(pols, names) \in names
           /\ \A b \in names \ {First(pols, names)} : Before(pols, First(pols, names), b)
  <1> DEFINE Rank(a) == 99 - pols[a].prio
             Ranks == {Rank(a) : a \in names}
  <1>1. Ranks \in SUBSET Nat /\ Ranks # {}
    BY RankOfPriority, ZenonT(30)
  <1>2. PICK x \in Ranks : \A y \in Ranks : x <= y
    BY <1>1, LeastNat
  <1> DEFINE Top == {a \in names : Rank(a) = x}
  <1>3. Top \in SUBSET Nat /\ Top # {}
    BY <1>2
  <1>4. PICK a \in Top : \A b \in Top : a <= b
    BY <1>3, LeastNat
  <1>5. ASSUME NEW b \in names \ {a} PROVE Before(pols, a, b)
    <2>1. a \in names /\ a \in Nat /\ b \in Nat /\ pols[a].prio \in 0..99 /\ pols[b].prio \in 0..99
      BY <1>4
    <2>2. pols[a].prio > pols[b].prio \/ pols[a].prio = pols[b].prio
      <3>2. Rank(a) = x /\ Rank(b) \in Ranks
        BY <1>4, <1>5
      <3>1. Rank(a) <= Rank(b)
        BY ONLY <1>2, <3>2
      <3> QED  BY <2>1, <3>1, RankOfPriority
    <2>3. pols[a].prio = pols[b].prio => a <= b
      BY <1>4, <1>5
    <2>4. a <= b => a < b
      BY <1>5, <2>1, SMT
    <2> QED  BY <2>2, <2>3, <2>4 DEF Before
  <1>6. a \in names /\ \A b \in names \ {a} : Before(pols, a, b)
    BY <1>4, <1>5
  <1> QED  BY <1>6 DEF First

LEMMA BeforeIsStrict ==
    ASSUME NEW pols, NEW a \in Nat, NEW b \in Nat, pols[a].prio \in 0..99, pols[b].prio \in 0..99,
           Before(pols, a, b)
    PROVE  ~Before(pols, b, a)
  <1>1. pols[a].prio \in Int /\ pols[b].prio \in Int
    BY RankOfPriority
  <1> QED  BY <1>1, SMT DEF Before

-----------------------------------------------------------------------------
(* The webhook admits a policy with such ranges only (RangeValid).          *)
RangesAdmitted ==
    \A p \in Policies : \A k \in DOMAIN p.pfs :
        \/ p.pfs[k].rng \in {NoRange, BadRange}
        \/ /\ p.pfs[k].rng \in Nat \X Nat
           /\ p.pfs[k].rng[1] <= p.pfs[k].rng[2] /\ p.pfs[k].rng[2] < p.numVfs

GoodRange(r, numVfs) ==
    /\ r # BadRange /\ r[1] \in Nat /\ r[2] \in Nat /\ r[1] <= r[2] /\ r[2] < numVfs
Separate(g, h) == g.resource # h.resource /\ (g.rng[2] < h.rng[1] \/ h.rng[2] < g.rng[1])
GoodGroups(groups, numVfs) ==
    \A g \in groups : GoodRange(g.rng, numVfs) /\ \A h \in groups \ {g} : Separate(g, h)
GoodSpec(spec) ==
    \A x \in DOMAIN spec : spec[x].numVfs \in Nat /\ GoodGroups(spec[x].groups, spec[x].numVfs)

LEMMA GoodSpecIsOK ==
    ASSUME NEW spec, GoodSpec(spec)
    PROVE  GroupsOK(spec)
  BY SMT DEF GoodSpec, GoodGroups, GoodRange, Separate, GroupsOK

(* generatePfNameVfGroup without an error yields VFs of the policy.         *)
LEMMA RangeIsGood ==
    ASSUME RangesAdmitted, NEW p \in Policies, NEW i, p.numVfs > 0, ~VfRangeError(p, i)
    PROVE  GoodRange(VfRange(p, i), p.numVfs)
  <1>1. p.numVfs \in Nat /\ DOMAIN p.pfs \subseteq Nat
    BY PolicyAssumption
  <1>2. GoodRange(<<0, p.numVfs - 1>>, p.numVfs)
    BY <1>1, SMT DEF GoodRange, BadRange
  <1>3. CASE Hits(p, i) = {}
    BY <1>2, <1>3 DEF VfRange
  <1>4. CASE Hits(p, i) # {}
    <2>1. Hits(p, i) \in SUBSET Nat
      BY <1>1 DEF Hits
    <2>2. FirstHit(p, i) \in Hits(p, i) /\ \A j \in Hits(p, i) : FirstHit(p, i) <= j
      <3>1. \E k \in Hits(p, i) : \A j \in Hits(p, i) : k <= j
        BY <1>4, <2>1, LeastNat
      <3> QED  BY <3>1 DEF FirstHit
    <2>3. PICK k \in DOMAIN p.pfs : k = FirstHit(p, i) /\ \A j \in Hits(p, i) : k <= j
      BY <2>2 DEF Hits
    <2>4. p.pfs[k].rng # BadRange
      BY <2>3 DEF VfRangeError
    <2>5. p.pfs[k].rng = NoRange \/ GoodRange(p.pfs[k].rng, p.numVfs)
      BY <2>4 DEF RangesAdmitted, GoodRange
    <2> QED  BY <1>2, <2>3, <2>5 DEF VfRange
  <1> QED  BY <1>3, <1>4

LEMMA NotOverlappingIsApart ==
    ASSUME NEW r, NEW s, NEW m \in Nat, NEW n \in Nat, GoodRange(r, m), GoodRange(s, n),
           ~IsVFRangeOverlapping(r, s)
    PROVE  r[2] < s[1] \/ s[2] < r[1]
  BY SMT DEF GoodRange, IsVFRangeOverlapping, IndexInRange

(* mergeConfigs keeps what stays apart from the new group, and has VFs for  *)
(* all of them.                                                             *)
LEMMA MergedGroups ==
    ASSUME NEW old, NEW a, NEW p, NEW i, NEW equal
    PROVE  LET merged == MergeConfigs(old, Interface(a, p, i), VfGroup(a, p, i), equal) IN
           /\ merged.groups = {VfGroup(a, p, i)} \cup KeptGroups(old.groups, VfGroup(a, p, i))
           /\ \/ merged.numVfs = Larger(p.numVfs, old.numVfs)
              \/ KeptGroups(old.groups, VfGroup(a, p, i)) = {} /\ merged.numVfs = p.numVfs
  <1> DEFINE g == VfGroup(a, p, i)
             iface == Interface(a, p, i)
             kept == KeptGroups(old.groups, g)
  <1>1. iface.groups = {g} /\ iface.numVfs = p.numVfs /\ iface.mtu = p.mtu
    BY DEF Interface
  <1>2. LET merged == [iface EXCEPT !.groups = {g} \cup kept, !.mtu = Larger(iface.mtu, old.mtu),
                                 !.numVfs = Larger(iface.numVfs, old.numVfs)] IN
        merged.groups = {g} \cup kept /\ merged.numVfs = Larger(iface.numVfs, old.numVfs)
    BY DEF Interface
  <1> QED  BY <1>1, <1>2 DEF MergeConfigs

LEMMA MergeIsGood ==
    ASSUME NEW old, NEW a, NEW p, NEW i, NEW equal, p.numVfs \in Nat, old.numVfs \in Nat,
           GoodGroups(old.groups, old.numVfs), GoodRange(VfRange(p, i), p.numVfs),
           NEW merged, merged = MergeConfigs(old, Interface(a, p, i), VfGroup(a, p, i), equal)
    PROVE  merged.numVfs \in Nat /\ GoodGroups(merged.groups, merged.numVfs)
  <1>1. PICK g : g = VfGroup(a, p, i)
    OBVIOUS
  <1>2. g.rng = VfRange(p, i)
    BY <1>1 DEF VfGroup
  <1>3. /\ merged.groups = {g} \cup KeptGroups(old.groups, g)
        /\ \/ merged.numVfs = Larger(p.numVfs, old.numVfs)
           \/ KeptGroups(old.groups, g) = {} /\ merged.numVfs = p.numVfs
    BY <1>1, MergedGroups, SMT
  <1>4. /\ Larger(p.numVfs, old.numVfs) \in Nat
        /\ Larger(p.numVfs, old.numVfs) >= p.numVfs /\ Larger(p.numVfs, old.numVfs) >= old.numVfs
    BY SMT DEF Larger
  <1>5. merged.numVfs \in Nat /\ merged.numVfs >= p.numVfs
    BY <1>3, <1>4, SMT
  <1>6. \A h \in KeptGroups(old.groups, g) :
           /\ h \in old.groups /\ GoodRange(h.rng, old.numVfs) /\ merged.numVfs >= old.numVfs
           /\ h.resource # g.resource /\ ~IsVFRangeOverlapping(h.rng, g.rng)
    BY <1>3, <1>4 DEF KeptGroups, GoodGroups
  <1>7. ASSUME NEW h \in KeptGroups(old.groups, g)
        PROVE  GoodRange(h.rng, merged.numVfs) /\ Separate(g, h) /\ Separate(h, g)
    <2>1. GoodRange(h.rng, merged.numVfs)
      BY <1>5, <1>6, SMT DEF GoodRange
    <2>2. h.rng[2] < g.rng[1] \/ g.rng[2] < h.rng[1]
      BY <1>2, <1>6, NotOverlappingIsApart
    <2> QED  BY <1>6, <2>1, <2>2 DEF Separate
  <1>8. GoodRange(g.rng, merged.numVfs)
    BY <1>2, <1>5, SMT DEF GoodRange
  <1>9. \A h, k \in KeptGroups(old.groups, g) : h # k => Separate(h, k)
    BY <1>6 DEF GoodGroups
  <1> QED  BY <1>3, <1>5, <1>7, <1>8, <1>9, SMT DEF GoodGroups

(* What Apply does to the PF at x.                                          *)
Chosen(p, ifs) == IF p.numVfs > 0 THEN {i.pci : i \in Targets(p, ifs)} ELSE {}
AppliedTo(applied, a, p, ifs, spec, equal) ==
    /\ DOMAIN applied = DOMAIN spec \cup Chosen(p, ifs)
    /\ \A x \in DOMAIN spec \ Chosen(p, ifs) : applied[x] = spec[x]
    /\ \A x \in Chosen(p, ifs) :
          /\ At(ifs, x) \in ifs /\ At(ifs, x).pci = x /\ p.numVfs > 0
          /\ x \notin DOMAIN spec => applied[x] = Interface(a, p, At(ifs, x))
          /\ x \in DOMAIN spec =>
                applied[x] = MergeConfigs(spec[x], Interface(a, p, At(ifs, x)),
                                          VfGroup(a, p, At(ifs, x)), equal)
LEMMA AppliedAt ==
    ASSUME NEW a, NEW p, NEW ifs, NEW spec, NEW equal, NEW applied,
           applied = Apply(a, p, ifs, spec, equal)
    PROVE  AppliedTo(applied, a, p, ifs, spec, equal)
  <1>1. \A x \in Chosen(p, ifs) : \E i \in ifs : i.pci = x /\ p.numVfs > 0
    BY DEF Chosen, Targets
  <1>2. \A x \in Chosen(p, ifs) : At(ifs, x) \in ifs /\ At(ifs, x).pci = x /\ p.numVfs > 0
    BY <1>1 DEF At
  <1>3. applied = [x \in DOMAIN spec \cup Chosen(p, ifs) |->
                     IF x \notin Chosen(p, ifs) THEN spec[x]
                     ELSE IF x \notin DOMAIN spec THEN Interface(a, p, At(ifs, x))
                     ELSE MergeConfigs(spec[x], Interface(a, p, At(ifs, x)),
                                       VfGroup(a, p, At(ifs, x)), equal)]
    BY DEF Apply, Chosen
  <1> QED  BY <1>2, <1>3 DEF AppliedTo

OnePf(ifs) == \A i, j \in ifs : i.pci = j.pci => i = j
LEMMA ApplyIsGood ==
    ASSUME RangesAdmitted, NEW a, NEW p \in Policies, NEW ifs, NEW spec, NEW equal, NEW applied,
           applied = Apply(a, p, ifs, spec, equal), GoodSpec(spec), OnePf(ifs), ~ApplyError(p, ifs)
    PROVE  GoodSpec(applied)
  <1>0. AppliedTo(applied, a, p, ifs, spec, equal)
    BY AppliedAt
  <1>1. p.numVfs \in Nat
    BY PolicyAssumption
  <1>2. \A x \in Chosen(p, ifs) : GoodRange(VfRange(p, At(ifs, x)), p.numVfs)
    <2> SUFFICES ASSUME NEW x \in Chosen(p, ifs) PROVE GoodRange(VfRange(p, At(ifs, x)), p.numVfs)
      OBVIOUS
    <2>1. PICK i \in Targets(p, ifs) : i.pci = x /\ p.numVfs > 0
      BY DEF Chosen
    <2>2. i \in ifs
      BY DEF Targets
    <2>3. At(ifs, x) = i
      BY <1>0, <2>1, <2>2 DEF OnePf, AppliedTo
    <2>4. ~VfRangeError(p, i)
      BY <2>1 DEF ApplyError
    <2> QED  BY <2>1, <2>3, <2>4, RangeIsGood
  <1>3. ASSUME NEW x \in DOMAIN applied
        PROVE  applied[x].numVfs \in Nat /\ GoodGroups(applied[x].groups, applied[x].numVfs)
    <2>1. CASE x \notin Chosen(p, ifs)
      BY <1>0, <1>3, <2>1 DEF GoodSpec, AppliedTo
    <2>2. CASE x \in Chosen(p, ifs) /\ x \in DOMAIN spec
      <3>1. /\ spec[x].numVfs \in Nat /\ GoodGroups(spec[x].groups, spec[x].numVfs)
            /\ GoodRange(VfRange(p, At(ifs, x)), p.numVfs)
            /\ applied[x] = MergeConfigs(spec[x], Interface(a, p, At(ifs, x)),
                                         VfGroup(a, p, At(ifs, x)), equal)
        BY <1>0, <1>2, <2>2 DEF GoodSpec, AppliedTo
      <3> QED  BY <1>1, <3>1, MergeIsGood
    <2>3. CASE x \in Chosen(p, ifs) /\ x \notin DOMAIN spec
      <3>1. PICK i : i = At(ifs, x)
        OBVIOUS
      <3>2. applied[x] = Interface(a, p, i) /\ GoodRange(VfRange(p, i), p.numVfs)
        BY <1>0, <1>2, <2>3, <3>1 DEF AppliedTo
      <3>3. /\ applied[x].numVfs = p.numVfs /\ applied[x].groups = {VfGroup(a, p, i)}
            /\ VfGroup(a, p, i).rng = VfRange(p, i)
        BY <3>2, SMT DEF Interface, VfGroup
      <3> QED  BY <1>1, <3>2, <3>3 DEF GoodGroups
    <2> QED  BY <2>1, <2>2, <2>3
  <1> QED  BY <1>3 DEF GoodSpec

-----------------------------------------------------------------------------
(* The loop over the policies: the groups on a PF are those of the policies *)
(* applied so far with which no later one of them conflicts.                *)
GroupsOf(pols, names, i, spec) ==
    /\ ReferenceGroups(pols, names, i) # {} <=> i.pci \in DOMAIN spec
    /\ i.pci \in DOMAIN spec =>
          /\ {g.policy : g \in spec[i.pci].groups} = ReferenceGroups(pols, names, i)
          /\ \A g \in spec[i.pci].groups :
                g.policy \in names /\ g = VfGroup(g.policy, pols[g.policy], i)

(* The fields of a NodeState.                                               *)
IsState(s) ==
    s = [spec |-> s.spec, bridges |-> s.bridges, system |-> s.system, ifs |-> s.ifs, keep |-> s.keep]

Listed(pols) == DOMAIN pols \subseteq Name /\ \A a \in DOMAIN pols : pols[a] \in Policies
PolicyState ==
    /\ Listed(policies) /\ Listed(snap) /\ nodes \subseteq Node /\ listed \subseteq Node
    /\ todo \subseteq Node /\ rest \subseteq DOMAIN snap
    /\ pc \in {"idle", "node", "apply", "write", "stale", "config"}
    /\ DOMAIN state = Node /\ DOMAIN dpLabel = Node
    /\ \A n \in Node : dpLabel[n] \in {"", "Disabled", "Enabled"}
HasState(n) == IsState(state[n]) /\ state[n].ifs \in {{}, NodeIfaces[n]}
StatesInv ==
    /\ \A n \in Node : state[n] # NoState => HasState(n)
    /\ pc = "stale" => \A n \in todo : HasState(n)
RenderingInv ==
    /\ found # NoState <=> pc \in {"apply", "write"}
    /\ pc \notin {"apply", "write"} => new = NoState
    /\ pc \in {"apply", "write"} => todo # {} /\ IsState(new) /\ new.ifs \in {{}, NodeIfaces[Current]}
    /\ pc # "apply" => rest = {}
    /\ pc = "stale" => todo \cap listed = {}
LoopInv ==
    pc = "apply" =>
        LET applied == Selects(snap, Current) \ rest IN
        /\ rest \subseteq Selects(snap, Current)
        /\ \A a \in applied, b \in rest : Before(snap, a, b)
        /\ \A i \in new.ifs : GroupsOf(snap, applied, i, new.spec)
PolicyInv == PolicyState /\ StatesInv /\ RenderingInv /\ LoopInv

(* The groups of every spec stay good.                                      *)
SpecsInv ==
    /\ \A n \in Node : state[n] # NoState => GoodSpec(state[n].spec)
    /\ pc = "stale" => \A n \in todo : GoodSpec(state[n].spec)
    /\ pc \in {"apply", "write"} => GoodSpec(new.spec)

-----------------------------------------------------------------------------
OnPf(pols, names, i) == {a \in names : pols[a].numVfs > 0 /\ i \in Targets(pols[a], {i})}
LEMMA ReferenceIs ==
    ASSUME NEW pols, NEW names, NEW i
    PROVE  ReferenceGroups(pols, names, i) =
              {a \in OnPf(pols, names, i) : \A b \in OnPf(pols, names, i) :
                  Before(pols, a, b) => ~Conflict(pols[a], pols[b], i)}
  BY DEF ReferenceGroups, OnPf

LEMMA ChosenIs ==
    ASSUME NEW p, NEW ifs, OnePf(ifs), NEW i \in ifs
    PROVE  i.pci \in Chosen(p, ifs) <=> p.numVfs > 0 /\ i \in Targets(p, {i})
  BY DEF Chosen, Targets, OnePf

(* A policy after all others replaces the groups it conflicts with.         *)
IsLast(pols, names, a) ==
    /\ a \notin names /\ ~Before(pols, a, a)
    /\ \A b \in names : Before(pols, b, a) /\ ~Before(pols, a, b)
Grown(pols, names, a, i) ==
    /\ a \notin OnPf(pols, {a}, i) =>
          ReferenceGroups(pols, names \cup {a}, i) = ReferenceGroups(pols, names, i)
    /\ a \in OnPf(pols, {a}, i) =>
          ReferenceGroups(pols, names \cup {a}, i) =
             {a} \cup {b \in ReferenceGroups(pols, names, i) : ~Conflict(pols[b], pols[a], i)}
LEMMA ReferenceGrows ==
    ASSUME NEW pols, NEW names, NEW a, NEW i, IsLast(pols, names, a)
    PROVE  Grown(pols, names, a, i)
  <1> USE DEF IsLast
  <1>1. OnPf(pols, names \cup {a}, i) = OnPf(pols, names, i) \cup OnPf(pols, {a}, i)
    BY DEF OnPf
  <1>2. OnPf(pols, names, i) \subseteq names /\ OnPf(pols, {a}, i) \subseteq {a}
    BY DEF OnPf
  <1>3. CASE a \notin OnPf(pols, {a}, i)
    <2>1. OnPf(pols, names \cup {a}, i) = OnPf(pols, names, i)
      BY <1>1, <1>2, <1>3
    <2> QED  BY <1>3, <2>1, ReferenceIs DEF Grown
  <1>4. CASE a \in OnPf(pols, {a}, i)
    <2>1. OnPf(pols, names \cup {a}, i) = OnPf(pols, names, i) \cup {a}
      BY <1>1, <1>2, <1>4
    <2>2. a \in ReferenceGroups(pols, names \cup {a}, i)
      BY <1>2, <2>1, ReferenceIs
    <2>3. ASSUME NEW b \in names
          PROVE  b \in ReferenceGroups(pols, names \cup {a}, i) <=>
                    b \in ReferenceGroups(pols, names, i) /\ ~Conflict(pols[b], pols[a], i)
      <3>1. b \in OnPf(pols, names \cup {a}, i) <=> b \in OnPf(pols, names, i)
        BY <2>1, <2>3
      <3>2. b \in ReferenceGroups(pols, names \cup {a}, i) <=>
               /\ b \in OnPf(pols, names, i)
               /\ \A c \in OnPf(pols, names, i) \cup {a} :
                     Before(pols, b, c) => ~Conflict(pols[b], pols[c], i)
        BY <2>1, <3>1, ReferenceIs
      <3>3. b \in ReferenceGroups(pols, names, i) <=>
               /\ b \in OnPf(pols, names, i)
               /\ \A c \in OnPf(pols, names, i) :
                     Before(pols, b, c) => ~Conflict(pols[b], pols[c], i)
        BY ReferenceIs
      <3> QED  BY <2>3, <3>2, <3>3
    <2>4. /\ ReferenceGroups(pols, names \cup {a}, i) \subseteq names \cup {a}
          /\ ReferenceGroups(pols, names, i) \subseteq names
      BY <1>2, <2>1, ReferenceIs
    <2> QED  BY <1>4, <2>2, <2>3, <2>4 DEF Grown
  <1> QED  BY <1>3, <1>4

LEMMA GroupsAfter ==
    ASSUME NEW pols, NEW names, NEW a, NEW ifs, OnePf(ifs), NEW i \in ifs, NEW spec, NEW equal, NEW applied,
           IsLast(pols, names, a), GroupsOf(pols, names, i, spec), applied = Apply(a, pols[a], ifs, spec, equal)
    PROVE  GroupsOf(pols, names \cup {a}, i, applied)
  <1>0. Grown(pols, names, a, i)
    BY ReferenceGrows
  <1>1. AppliedTo(applied, a, pols[a], ifs, spec, equal)
    BY AppliedAt
  <1>2. i.pci \in Chosen(pols[a], ifs) <=> a \in OnPf(pols, {a}, i)
    BY ChosenIs DEF OnPf
  <1>3. CASE i.pci \notin Chosen(pols[a], ifs)
    <2>1. ReferenceGroups(pols, names \cup {a}, i) = ReferenceGroups(pols, names, i)
      BY <1>0, <1>2, <1>3 DEF Grown
    <2>2. /\ i.pci \in DOMAIN applied <=> i.pci \in DOMAIN spec
          /\ i.pci \in DOMAIN spec => applied[i.pci] = spec[i.pci]
      BY <1>1, <1>3 DEF AppliedTo
    <2> QED  BY <2>1, <2>2 DEF GroupsOf
  <1>4. CASE i.pci \in Chosen(pols[a], ifs)
    <2>1. PICK g : g = VfGroup(a, pols[a], i)
      OBVIOUS
    <2>2. At(ifs, i.pci) = i /\ i.pci \in DOMAIN applied
      BY <1>1, <1>4 DEF AppliedTo, OnePf
    <2>3. g.policy = a /\ g.resource = pols[a].resource /\ g.rng = VfRange(pols[a], i)
      BY <2>1 DEF VfGroup
    <2>4. ReferenceGroups(pols, names \cup {a}, i) =
             {a} \cup {b \in ReferenceGroups(pols, names, i) : ~Conflict(pols[b], pols[a], i)}
      BY <1>0, <1>2, <1>4 DEF Grown
    <2>5. CASE i.pci \notin DOMAIN spec
      <3>1. ReferenceGroups(pols, names, i) = {}
        BY <2>5 DEF GroupsOf
      <3>2. applied[i.pci].groups = {g}
        <4>1. applied[i.pci] = Interface(a, pols[a], i)
          BY <1>1, <1>4, <2>2, <2>5 DEF AppliedTo
        <4> QED  BY <2>1, <4>1, SMT DEF Interface
      <3>3. {x.policy : x \in applied[i.pci].groups} = {a}
        BY <2>3, <3>2
      <3> QED  BY <2>1, <2>2, <2>3, <2>4, <3>1, <3>2, <3>3 DEF GroupsOf
    <2>6. CASE i.pci \in DOMAIN spec
      <3> DEFINE old == spec[i.pci].groups
      <3>1. applied[i.pci].groups = {g} \cup KeptGroups(old, g)
        BY <1>1, <1>4, <2>1, <2>2, <2>6, MergedGroups, SMT DEF AppliedTo
      <3>2. /\ {x.policy : x \in old} = ReferenceGroups(pols, names, i)
            /\ \A x \in old : x.policy \in names /\ x = VfGroup(x.policy, pols[x.policy], i)
        BY <2>6 DEF GroupsOf
      <3>3. \A x \in old : x.resource = pols[x.policy].resource /\ x.rng = VfRange(pols[x.policy], i)
        BY <3>2, SMT DEF VfGroup
      <3>4. \A x \in old : x \in KeptGroups(old, g) <=> ~Conflict(pols[x.policy], pols[a], i)
        BY <2>3, <3>3 DEF KeptGroups, Conflict
      <3>5. KeptGroups(old, g) \subseteq old
        BY DEF KeptGroups
      <3> HIDE DEF old
      <3>6. {x.policy : x \in KeptGroups(old, g)} =
               {b \in ReferenceGroups(pols, names, i) : ~Conflict(pols[b], pols[a], i)}
        BY <3>2, <3>4, <3>5
      <3>7. {x.policy : x \in applied[i.pci].groups} = ReferenceGroups(pols, names \cup {a}, i)
        <4>1. {x.policy : x \in applied[i.pci].groups} =
                 {a} \cup {x.policy : x \in KeptGroups(old, g)}
          BY <2>3, <3>1
        <4> QED  BY <2>4, <3>6, <4>1
      <3>8. \A x \in applied[i.pci].groups :
               x.policy \in names \cup {a} /\ x = VfGroup(x.policy, pols[x.policy], i)
        BY <2>1, <2>3, <3>1, <3>2, <3>5
      <3>9. ReferenceGroups(pols, names \cup {a}, i) # {}
        BY <2>4
      <3> QED  BY <2>2, <3>7, <3>8, <3>9 DEF GroupsOf
    <2> QED  BY <2>5, <2>6
  <1> QED  BY <1>3, <1>4

-----------------------------------------------------------------------------
LEMMA NothingInEmpty == DOMAIN Empty = {}
  <1>1. DOMAIN <<>> = 1..0
    BY SMT
  <1>2. 1..0 = {}
    BY SMT
  <1> QED  BY <1>1, <1>2 DEF Empty

(* What the assignments to single fields of a NodeState come to.            *)
WithFields(x, spec, ifs) == IsState(x) /\ x.spec = spec /\ x.ifs = ifs
LEMMA StateFields ==
    ASSUME NEW s, IsState(s), NEW sp, NEW br, NEW sy, NEW ifs, NEW k
    PROVE  /\ WithFields([s EXCEPT !.keep = k], s.spec, s.ifs)
           /\ WithFields([s EXCEPT !.ifs = ifs], s.spec, ifs)
           /\ WithFields([s EXCEPT !.spec = sp, !.bridges = br], sp, s.ifs)
           /\ WithFields([s EXCEPT !.keep = k, !.spec = sp, !.bridges = br, !.system = sy], sp, s.ifs)
  <1>1. PICK a, b, c, d, e : s = [spec |-> a, bridges |-> b, system |-> c, ifs |-> d, keep |-> e]
    BY DEF IsState
  <1>2. s.spec = a /\ s.ifs = d
    BY <1>1
  <1>3. [s EXCEPT !.keep = k] = [spec |-> a, bridges |-> b, system |-> c, ifs |-> d, keep |-> k]
    BY <1>1, SMT
  <1>5. [s EXCEPT !.ifs = ifs] = [spec |-> a, bridges |-> b, system |-> c, ifs |-> ifs, keep |-> e]
    BY <1>1, SMT
  <1>6. [s EXCEPT !.spec = sp, !.bridges = br] =
           [spec |-> sp, bridges |-> br, system |-> c, ifs |-> d, keep |-> e]
    <2>1. PICK t : t = [s EXCEPT !.spec = sp]
      OBVIOUS
    <2>2. t = [spec |-> sp, bridges |-> b, system |-> c, ifs |-> d, keep |-> e]
      BY <1>1, <2>1
    <2>3. [t EXCEPT !.bridges = br] = [spec |-> sp, bridges |-> br, system |-> c, ifs |-> d, keep |-> e]
      BY <2>2, SMT
    <2>4. [s EXCEPT !.spec = sp, !.bridges = br] = [[s EXCEPT !.spec = sp] EXCEPT !.bridges = br]
      OBVIOUS
    <2> QED  BY ONLY <2>1, <2>3, <2>4
  <1>7. [s EXCEPT !.keep = k, !.spec = sp, !.bridges = br, !.system = sy] =
           [spec |-> sp, bridges |-> br, system |-> sy, ifs |-> d, keep |-> k]
    <2>1. PICK t : t = [s EXCEPT !.keep = k]
      OBVIOUS
    <2>2. t = [spec |-> a, bridges |-> b, system |-> c, ifs |-> d, keep |-> k]
      BY <1>3, <2>1
    <2>3. PICK u : u = [t EXCEPT !.spec = sp]
      OBVIOUS
    <2>4. u = [spec |-> sp, bridges |-> b, system |-> c, ifs |-> d, keep |-> k]
      BY <2>2, <2>3
    <2>5. PICK v : v = [u EXCEPT !.bridges = br]
      OBVIOUS
    <2>6. v = [spec |-> sp, bridges |-> br, system |-> c, ifs |-> d, keep |-> k]
      BY <2>4, <2>5
    <2>7. [v EXCEPT !.system = sy] = [spec |-> sp, bridges |-> br, system |-> sy, ifs |-> d, keep |-> k]
      BY <2>6, SMT
    <2>8. [s EXCEPT !.keep = k, !.spec = sp, !.bridges = br, !.system = sy] =
             [[[[s EXCEPT !.keep = k] EXCEPT !.spec = sp] EXCEPT !.bridges = br] EXCEPT !.system = sy]
      OBVIOUS
    <2> QED  BY ONLY <2>1, <2>3, <2>5, <2>7, <2>8
  <1>4. \A f, g, h, i, j :
           WithFields([spec |-> f, bridges |-> g, system |-> h, ifs |-> i, keep |-> j], f, i)
    BY SMT DEF IsState, WithFields
  <1> QED  BY <1>2, <1>3, <1>4, <1>5, <1>6, <1>7, SMT

LEMMA KeepSet ==
    ASSUME NEW s, IsState(s), NEW k
    PROVE  WithFields([s EXCEPT !.keep = k], s.spec, s.ifs)
  BY StateFields
LEMMA IfsSet ==
    ASSUME NEW s, IsState(s), NEW ifs
    PROVE  WithFields([s EXCEPT !.ifs = ifs], s.spec, ifs)
  BY StateFields
LEMMA SpecSet ==
    ASSUME NEW s, IsState(s), NEW sp, NEW br
    PROVE  WithFields([s EXCEPT !.spec = sp, !.bridges = br], sp, s.ifs)
  BY StateFields
LEMMA SpecCleared ==
    ASSUME NEW s, IsState(s), NEW sp, NEW br, NEW sy, NEW k
    PROVE  WithFields([s EXCEPT !.keep = k, !.spec = sp, !.bridges = br, !.system = sy], sp, s.ifs)
  BY StateFields

(* Steps that leave the reconcile alone.                                    *)
LEMMA LocalsKept ==
    ASSUME PolicyInv, UNCHANGED locals, Listed(policies)', nodes' \subseteq Node, DOMAIN state' = Node,
           DOMAIN dpLabel' = Node, \A n \in Node : dpLabel'[n] \in {"", "Disabled", "Enabled"},
           \A n \in Node : \/ state'[n] = state[n]
                           \/ /\ state[n] # NoState /\ HasState(n)'
                              /\ state'[n].spec = state[n].spec
    PROVE  PolicyInv' /\ (SpecsInv => SpecsInv')
  <1>1. UNCHANGED <<pc, snap, listed, todo, found, new, rest, ppp, conf>>
    BY DEF locals
  <1>2. PolicyState'
    BY <1>1 DEF PolicyInv, PolicyState, Listed
  <1>3. StatesInv'
    BY <1>1 DEF PolicyInv, PolicyState, StatesInv, HasState
  <1>4. RenderingInv' /\ LoopInv'
    BY <1>1 DEF PolicyInv, RenderingInv, LoopInv, Current, Selects
  <1>5. SpecsInv => SpecsInv'
    BY <1>1 DEF SpecsInv, PolicyInv, PolicyState
  <1> QED  BY <1>2, <1>3, <1>4, <1>5 DEF PolicyInv

(* A reconcile ends.                                                        *)
LEMMA ReconcileEnds ==
    ASSUME PolicyInv, Reset, UNCHANGED <<policies, nodes, state>>, DOMAIN dpLabel' = Node,
           \A n \in Node : dpLabel'[n] \in {"", "Disabled", "Enabled"}
    PROVE  PolicyInv' /\ (SpecsInv => SpecsInv')
  <1>1. /\ pc' = "idle" /\ snap' = Empty /\ listed' = {} /\ todo' = {} /\ found' = NoState
        /\ new' = NoState /\ rest' = {}
    BY DEF Reset
  <1>2. Listed(snap)' /\ Listed(policies)'
    BY <1>1, NothingInEmpty DEF Listed, PolicyInv, PolicyState
  <1>3. PolicyState'
    BY <1>1, <1>2 DEF PolicyInv, PolicyState
  <1>4. StatesInv' /\ (SpecsInv => SpecsInv')
    BY <1>1 DEF PolicyInv, StatesInv, HasState, SpecsInv
  <1>5. RenderingInv' /\ LoopInv'
    BY <1>1 DEF RenderingInv, LoopInv
  <1> QED  BY <1>3, <1>4, <1>5 DEF PolicyInv

LEMMA NothingInEmptySpec == GoodSpec(Empty)
  BY NothingInEmpty DEF GoodSpec

(* The loops move on outside of a rendering.                                *)
LEMMA LoopMoves ==
    ASSUME PolicyInv, UNCHANGED <<policies, nodes, found, new, rest>>, Listed(snap)',
           listed' \subseteq Node, todo' \subseteq Node,
           pc \in {"idle", "node", "stale", "config"}, pc' \in {"idle", "node", "stale", "config"},
           pc' = "stale" => /\ todo' \cap listed' = {}
                            /\ \A n \in todo' : /\ state'[n] = state[n]
                                                /\ state[n] # NoState \/ (pc = "stale" /\ n \in todo),
           DOMAIN state' = Node, DOMAIN dpLabel' = Node,
           \A n \in Node : dpLabel'[n] \in {"", "Disabled", "Enabled"},
           \A n \in Node : \/ state'[n] \in {state[n], NoState}
                           \/ /\ HasState(n)'
                              /\ \/ state'[n].spec = Empty
                                 \/ /\ state'[n].spec = state[n].spec
                                    /\ state[n] # NoState \/ (pc = "stale" /\ n \in todo)
    PROVE  PolicyInv' /\ (SpecsInv => SpecsInv')
  <1>1. PolicyState'
    <2>1. Listed(policies)' /\ nodes' \subseteq Node
      BY DEF PolicyInv, PolicyState, Listed
    <2>2. rest' = {}
      BY DEF PolicyInv, RenderingInv
    <2> QED  BY <2>1, <2>2 DEF PolicyState
  <1>2. StatesInv'
    <2>1. \A n \in Node : state'[n] # NoState => HasState(n)'
      BY DEF PolicyInv, StatesInv, HasState
    <2>2. pc' = "stale" => \A n \in todo' : HasState(n)'
      BY DEF PolicyInv, StatesInv, HasState
    <2> QED  BY <2>1, <2>2 DEF StatesInv
  <1>3. RenderingInv' /\ LoopInv'
    BY DEF PolicyInv, RenderingInv, LoopInv
  <1>4. SpecsInv => SpecsInv'
    <2>1. SpecsInv => \A n \in Node : state'[n] # NoState => GoodSpec(state'[n].spec)
      BY NothingInEmptySpec DEF SpecsInv
    <2>2. SpecsInv => (pc' = "stale" => \A n \in todo' : GoodSpec(state'[n].spec))
      BY DEF SpecsInv
    <2> QED  BY <2>1, <2>2 DEF SpecsInv
  <1> QED  BY <1>1, <1>2, <1>3, <1>4 DEF PolicyInv

LEMMA OutsideSteps ==
    ASSUME PolicyInv,
           \/ StartReconcile \/ ListNodeStates \/ HandleStaleNodeState \/ StaleHandled
           \/ RenderConfig \/ WriteConfigMap \/ ReconcileFails \/ Resync
    PROVE  PolicyInv' /\ (SpecsInv => SpecsInv')
  <1>0. PolicyState /\ StatesInv /\ RenderingInv
    BY DEF PolicyInv
  <1>1. CASE StartReconcile
    <2>1. /\ pc = "idle" /\ pc' = "node" /\ snap' = policies /\ listed' = nodes /\ todo' = nodes
          /\ UNCHANGED <<policies, nodes, state, dpLabel, found, new, rest>>
      BY <1>1 DEF StartReconcile, Goto, cluster
    <2> QED  BY <1>0, <2>1, LoopMoves DEF PolicyState, Listed
  <1>2. CASE ListNodeStates
    <2>1. /\ pc = "node" /\ pc' = "stale" /\ todo' = StaleStates
          /\ UNCHANGED <<policies, nodes, state, dpLabel, snap, listed, found, new, rest>>
      BY <1>2 DEF ListNodeStates, Goto, cluster
    <2>2. StaleStates \subseteq Node /\ StaleStates \cap listed = {} /\ \A n \in StaleStates : state[n] # NoState
      BY DEF StaleStates
    <2> QED  BY <1>0, <2>1, <2>2, LoopMoves DEF PolicyState, Listed
  <1>3. CASE HandleStaleNodeState
    <2>1. /\ pc = "stale" /\ pc' = "stale" /\ todo # {} /\ todo' = todo \ {Current}
          /\ UNCHANGED <<policies, nodes, snap, listed, found, new, rest>>
          /\ dpLabel' = [dpLabel EXCEPT ![Current] = ""]
          /\ state' = [state EXCEPT ![Current] = KeptOrDeleted(state[Current])]
      BY <1>3 DEF HandleStaleNodeState
    <2>2. Current \in todo /\ Current \in Node
      BY <1>0, <2>1, CurrentListed DEF PolicyState
    <2>3. /\ todo' \subseteq Node /\ todo' \cap listed = {}
          /\ DOMAIN dpLabel' = Node /\ DOMAIN state' = Node
          /\ \A n \in Node : dpLabel'[n] \in {"", "Disabled", "Enabled"}
          /\ \A n \in Node \ {Current} : state'[n] = state[n]
          /\ state'[Current] = KeptOrDeleted(state[Current])
      BY <1>0, <2>1, <2>2 DEF PolicyState, RenderingInv
    <2>4. HasState(Current)
      BY <1>0, <2>1, <2>2 DEF StatesInv
    <2>5. PICK n \in Node : n = Current
      BY <2>2
    <2>6. PICK x : x = [state[n] EXCEPT !.keep = "waiting"]
      OBVIOUS
    <2>7. IsState(x) /\ x.spec = state[n].spec /\ x.ifs = state[n].ifs
      BY <2>4, <2>5, <2>6, KeepSet DEF HasState, WithFields
    <2>8. state'[n] \in {state[n], NoState} \/ state'[n] = x
      BY <2>3, <2>5, <2>6 DEF KeptOrDeleted
    <2>9. state'[n] = x => HasState(n)'
      BY <2>4, <2>5, <2>7 DEF HasState
    <2>10. \A m \in Node : \/ state'[m] \in {state[m], NoState}
                           \/ /\ HasState(m)' /\ state'[m].spec = state[m].spec
                              /\ pc = "stale" /\ m \in todo
      BY <2>1, <2>2, <2>3, <2>5, <2>7, <2>8, <2>9
    <2>11. Listed(snap)' /\ listed' \subseteq Node
      BY <1>0, <2>1 DEF PolicyState, Listed
    <2>12. \A m \in todo' : state'[m] = state[m] /\ m \in todo
      BY <2>1, <2>3
    <2> QED  BY <2>1, <2>3, <2>10, <2>11, <2>12, LoopMoves
  <1>4. CASE StaleHandled
    <2>1. /\ pc = "stale" /\ pc' = "config" /\ todo' = listed
          /\ UNCHANGED <<policies, nodes, state, dpLabel, snap, listed, found, new, rest>>
      BY <1>4 DEF StaleHandled, Goto, cluster
    <2> QED  BY <1>0, <2>1, LoopMoves DEF PolicyState, Listed
  <1>5. CASE RenderConfig
    <2>1. /\ pc = "config" /\ UNCHANGED <<policies, nodes, state>>
          /\ \/ Reset /\ dpLabel' = dpLabel
             \/ /\ \E l \in {"Disabled", "Enabled"} : dpLabel' = [dpLabel EXCEPT ![Current] = l]
                /\ todo' = todo \ {Current} /\ UNCHANGED <<pc, snap, listed, found, new, rest>>
      BY <1>5 DEF RenderConfig, ReturnError
    <2>2. DOMAIN dpLabel' = Node /\ \A n \in Node : dpLabel'[n] \in {"", "Disabled", "Enabled"}
      BY <1>0, <2>1 DEF PolicyState
    <2>3. CASE Reset
      BY <2>1, <2>2, <2>3, ReconcileEnds
    <2>4. CASE todo' = todo \ {Current} /\ UNCHANGED <<pc, snap, listed, found, new, rest>>
      BY <1>0, <2>1, <2>2, <2>4, LoopMoves DEF PolicyState, Listed
    <2> QED  BY <2>1, <2>3, <2>4
  <1>6. CASE WriteConfigMap \/ ReconcileFails
    BY <1>0, <1>6, ReconcileEnds DEF WriteConfigMap, ReconcileFails, ReturnError, cluster, PolicyState
  <1>7. CASE Resync
    BY <1>0, <1>7, LocalsKept DEF Resync, cluster, PolicyState, Listed
  <1> QED  BY <1>1, <1>2, <1>3, <1>4, <1>5, <1>6, <1>7

(* Users, nodes, daemons and the clock.                                     *)
LEMMA PutPolicyStep ==
    ASSUME PolicyInv, NEW a \in Name, NEW p \in Candidate, PutPolicy(a, p)
    PROVE  PolicyInv' /\ (SpecsInv => SpecsInv')
  <1>0. PolicyState
    BY DEF PolicyInv
  <1>1. /\ policies' = [b \in DOMAIN policies \cup {a} |-> IF b = a THEN p ELSE policies[b]]
        /\ UNCHANGED <<locals, nodes, state, dpLabel>>
    BY DEF PutPolicy, UserDoes
  <1>2. Listed(policies)'
    BY <1>0, <1>1 DEF PolicyState, Listed, Policies
  <1> QED  BY <1>0, <1>1, <1>2, LocalsKept DEF PolicyState

LEMMA NodeSteps ==
    ASSUME PolicyInv, NEW n \in Node, NodeJoinsOrLeaves(n) \/ DaemonReports(n) \/ KeepUntilPasses(n)
    PROVE  PolicyInv' /\ (SpecsInv => SpecsInv')
  <1>0. PolicyState /\ StatesInv
    BY DEF PolicyInv
  <1>3. CASE NodeJoinsOrLeaves(n)
    <2>1. /\ nodes' \in {nodes \ {n}, nodes \cup {n}} /\ dpLabel' = [dpLabel EXCEPT ![n] = ""]
          /\ UNCHANGED <<locals, policies, state>>
      BY <1>3 DEF NodeJoinsOrLeaves, UserDoes
    <2>2. Listed(policies)'
      BY <1>0, <2>1 DEF PolicyState, Listed
    <2> QED  BY <1>0, <2>1, <2>2, LocalsKept DEF PolicyState
  <1>5. CASE DaemonReports(n) \/ KeepUntilPasses(n)
    <2>1. /\ state[n] # NoState /\ UNCHANGED <<locals, policies, nodes, dpLabel>>
          /\ \/ state' = [state EXCEPT ![n].ifs = NodeIfaces[n]]
             \/ state' = [state EXCEPT ![n].keep = "due"]
      BY <1>5 DEF DaemonReports, KeepUntilPasses
    <2>2. HasState(n)
      BY <1>0, <2>1 DEF StatesInv
    <2>3. PICK x, y : x = [state[n] EXCEPT !.ifs = NodeIfaces[n]] /\ y = [state[n] EXCEPT !.keep = "due"]
      OBVIOUS
    <2>4. /\ IsState(x) /\ x.spec = state[n].spec /\ x.ifs = NodeIfaces[n]
          /\ IsState(y) /\ y.spec = state[n].spec /\ y.ifs = state[n].ifs
      BY <2>2, <2>3, KeepSet, IfsSet, SMT DEF HasState, WithFields
    <2>5. /\ DOMAIN state' = Node /\ state'[n] \in {x, y}
          /\ \A m \in Node \ {n} : state'[m] = state[m]
      BY <1>0, <2>1, <2>3 DEF PolicyState
    <2>6. HasState(n)' /\ state'[n].spec = state[n].spec
      BY <2>2, <2>4, <2>5 DEF HasState
    <2>7. Listed(policies)'
      BY <1>0, <2>1 DEF PolicyState, Listed
    <2> QED  BY <1>0, <2>1, <2>5, <2>6, <2>7, LocalsKept DEF PolicyState
  <1> QED  BY <1>3, <1>5

-----------------------------------------------------------------------------
(* The rendering of one NodeState.                                          *)
LEMMA StillRendering ==
    ASSUME PolicyInv, UNCHANGED <<policies, nodes, state, dpLabel, snap, listed, todo>>, todo # {},
           pc' \in {"apply", "write"}, found' # NoState, rest' \subseteq DOMAIN snap,
           pc' = "write" => rest' = {}, IsState(new'), new'.ifs \in {{}, NodeIfaces[Current]}, LoopInv'
    PROVE  PolicyInv' /\ (SpecsInv /\ GoodSpec(new'.spec) => SpecsInv')
  <1>1. PolicyState' /\ StatesInv'
    BY DEF PolicyInv, PolicyState, Listed, StatesInv, HasState
  <1>2. Current' = Current
    BY DEF Current
  <1>3. RenderingInv'
    BY <1>2 DEF RenderingInv
  <1>4. SpecsInv /\ GoodSpec(new'.spec) => SpecsInv'
    BY DEF SpecsInv
  <1> QED  BY <1>1, <1>3, <1>4 DEF PolicyInv

LEMMA GetNodeStateStep ==
    ASSUME PolicyInv, GetNodeState
    PROVE  PolicyInv' /\ (SpecsInv => SpecsInv')
  <1>0. PolicyState /\ StatesInv /\ RenderingInv
    BY DEF PolicyInv
  <1>1. /\ pc = "node" /\ todo # {} /\ UNCHANGED <<policies, nodes, dpLabel, snap, listed>>
    BY DEF GetNodeState
  <1>2. PICK n \in Node : n = Current /\ n \in todo
    BY <1>0, <1>1, CurrentListed DEF PolicyState
  <1>3. Listed(snap)' /\ listed' \subseteq Node
    BY <1>0, <1>1 DEF PolicyState, Listed
  <1>4. CASE /\ state' = [state EXCEPT ![n] = NewState(poolMode)]
             /\ todo' = todo \ {n} /\ UNCHANGED <<pc, found, new, rest>>
    <2>1. PICK x : x = NewState(poolMode)
      OBVIOUS
    <2>2. IsState(x) /\ x.spec = Empty /\ x.ifs = {}
      BY <2>1 DEF NewState, IsState
    <2>3. /\ DOMAIN state' = Node /\ state'[n] = x
          /\ \A m \in Node \ {n} : state'[m] = state[m]
      BY <1>0, <1>4, <2>1 DEF PolicyState
    <2>4. HasState(n)'
      BY <2>2, <2>3 DEF HasState
    <2> QED  BY <1>0, <1>1, <1>3, <1>4, <2>2, <2>3, <2>4, LoopMoves DEF PolicyState
  <1>5. CASE todo' = todo \ {n} /\ UNCHANGED <<state, pc, found, new, rest>>
    BY <1>0, <1>1, <1>3, <1>5, LoopMoves DEF PolicyState
  <1>6. CASE /\ state[n] # NoState /\ found' = state[n] /\ new' = [state[n] EXCEPT !.keep = "none"]
             /\ pc' = "write" /\ UNCHANGED <<state, todo, rest>>
    <2>1. HasState(n)
      BY <1>0, <1>6 DEF StatesInv
    <2>2. IsState(new') /\ new'.spec = state[n].spec /\ new'.ifs = state[n].ifs
      BY <1>6, <2>1, KeepSet DEF HasState, WithFields
    <2>3. new'.ifs \in {{}, NodeIfaces[Current]}
      BY <1>2, <2>1, <2>2 DEF HasState
    <2>4. LoopInv' /\ rest' = {}
      BY <1>0, <1>1, <1>6 DEF LoopInv, RenderingInv
    <2>5. SpecsInv => GoodSpec(new'.spec)
      BY <1>6, <2>2 DEF SpecsInv
    <2> QED  BY <1>1, <1>6, <2>2, <2>3, <2>4, <2>5, StillRendering
  <1>7. CASE /\ state[n] # NoState /\ found' = state[n]
             /\ new' = [state[n] EXCEPT !.keep = "none", !.spec = Empty, !.bridges = Empty,
                                        !.system = System(poolMode)]
             /\ rest' = Selects(snap, n) /\ pc' = "apply" /\ UNCHANGED <<state, todo>>
    <2>1. HasState(n)
      BY <1>0, <1>7 DEF StatesInv
    <2>2. IsState(new') /\ new'.spec = Empty /\ new'.ifs = state[n].ifs
      <3>1. PICK s, sy : s = state[n] /\ sy = System(poolMode)
        OBVIOUS
      <3>2. WithFields([s EXCEPT !.keep = "none", !.spec = Empty, !.bridges = Empty, !.system = sy], Empty, s.ifs)
        BY <2>1, <3>1, SpecCleared DEF HasState
      <3>3. new' = [s EXCEPT !.keep = "none", !.spec = Empty, !.bridges = Empty, !.system = sy]
        BY <1>7, <3>1
      <3> QED  BY <3>1, <3>2, <3>3 DEF WithFields
    <2>3. new'.ifs \in {{}, NodeIfaces[Current]}
      BY <1>2, <2>1, <2>2 DEF HasState
    <2>4. rest' \subseteq DOMAIN snap
      BY <1>7 DEF Selects
    <2>5. Current' = n /\ Selects(snap, n)' = rest'
      BY <1>1, <1>2, <1>7 DEF Current, Selects
    <2>6. \A i : GroupsOf(snap', {}, i, Empty)
      BY NothingInEmpty DEF GroupsOf, ReferenceGroups
    <2>7. LoopInv'
      BY <2>2, <2>5, <2>6 DEF LoopInv
    <2>8. GoodSpec(new'.spec)
      BY <2>2, NothingInEmptySpec
    <2> QED  BY <1>1, <1>7, <2>2, <2>3, <2>4, <2>7, <2>8, StillRendering
  <1> QED  BY <1>2, <1>4, <1>5, <1>6, <1>7 DEF GetNodeState, Goto

LEMMA ApplyPolicyStep ==
    ASSUME PolicyInv, ApplyPolicy
    PROVE  PolicyInv' /\ (RangesAdmitted /\ SpecsInv => SpecsInv')
  <1>0. PolicyState /\ RenderingInv /\ LoopInv
    BY DEF PolicyInv
  <1>1. pc = "apply" /\ rest # {} /\ UNCHANGED <<policies, nodes, state, dpLabel>>
    BY DEF ApplyPolicy, cluster
  <1>2. PICK a : a = First(snap, rest)
    OBVIOUS
  <1>3. CASE ReturnError
    BY <1>0, <1>1, <1>3, ReconcileEnds DEF ReturnError, PolicyState
  <1>4. CASE ~ReturnError
    <2>1. PICK sp, br : /\ sp = Apply(a, snap[a], new.ifs, new.spec, ppp = snap[a].prio)
                        /\ new' = [new EXCEPT !.spec = sp, !.bridges = br]
                        /\ ~ApplyError(snap[a], new.ifs)
                        /\ rest' = rest \ {a} /\ UNCHANGED <<pc, snap, listed, todo, found>>
      <3>1. ~(ApplyError(snap[a], new.ifs) \/ (ManageSoftwareBridges /\ BridgeError(snap[a])))
        BY <1>2, <1>4 DEF ApplyPolicy
      <3>2. PICK s : s = Apply(a, snap[a], new.ifs, new.spec, ppp = snap[a].prio)
        OBVIOUS
      <3>3. PICK b : b = IF ManageSoftwareBridges
                         THEN ApplyBridgeConfig(snap[a], new.ifs, new.bridges) ELSE new.bridges
        OBVIOUS
      <3>4. /\ new' = [new EXCEPT !.spec = s, !.bridges = b]
            /\ rest' = rest \ {a} /\ UNCHANGED <<pc, snap, listed, todo, found>>
        BY <1>2, <3>1, <3>2, <3>3 DEF ApplyPolicy
      <3> QED  BY <3>1, <3>2, <3>4
    <2>2. PICK n \in Node : n = Current /\ todo # {}
      BY <1>0, <1>1, CurrentListed DEF PolicyState, RenderingInv
    <2>3. IsState(new) /\ new.ifs \in {{}, NodeIfaces[n]}
      BY <1>0, <1>1, <2>2 DEF RenderingInv
    <2>4. IsState(new') /\ new'.spec = sp /\ new'.ifs = new.ifs
      <3>1. WithFields([new EXCEPT !.spec = sp, !.bridges = br], sp, new.ifs)
        BY <2>3, SpecSet
      <3> QED  BY <2>1, <3>1 DEF WithFields
    <2>5. OnePf(new.ifs)
      BY <2>3, PolicyAssumption DEF OnePf
    <2>6. rest \in SUBSET Nat /\ \A b \in DOMAIN snap : b \in Nat /\ snap[b] \in Policies
      BY <1>0, PolicyAssumption DEF PolicyState, Listed
    <2>7. \A b \in DOMAIN snap : snap[b].prio \in 0..99
      BY <2>6, PolicyAssumption
    <2>8. a \in rest /\ \A b \in rest \ {a} : Before(snap, a, b)
      BY <1>0, <1>1, <1>2, <2>6, <2>7, FirstIsBefore DEF PolicyState
    <2>9. PICK applied : applied = Selects(snap, n) \ rest
      OBVIOUS
    <2>10. /\ rest \subseteq Selects(snap, n) /\ applied \subseteq DOMAIN snap
           /\ \A b \in applied, c \in rest : Before(snap, b, c)
           /\ \A i \in new.ifs : GroupsOf(snap, applied, i, new.spec)
      BY <1>0, <1>1, <2>2, <2>9 DEF LoopInv, Selects
    <2>11. IsLast(snap, applied, a)
      <3>1. a \notin applied /\ a \in DOMAIN snap
        BY <1>0, <2>8, <2>9 DEF PolicyState
      <3>2. \A b \in applied : Before(snap, b, a) /\ ~Before(snap, a, b)
        BY <2>6, <2>7, <2>8, <2>10, <3>1, BeforeIsStrict
      <3>3. ~Before(snap, a, a)
        BY <2>6, <2>7, <3>1, BeforeIsStrict
      <3> QED  BY <3>1, <3>2, <3>3 DEF IsLast
    <2>12. \A i \in new.ifs : GroupsOf(snap, applied \cup {a}, i, sp)
      BY <2>1, <2>5, <2>10, <2>11, GroupsAfter
    <2>13. Current' = n /\ Selects(snap, n)' = Selects(snap, n)
      BY <2>1, <2>2 DEF Current, Selects
    <2>14. Selects(snap, n) \ rest' = applied \cup {a}
      BY <2>1, <2>8, <2>9, <2>10
    <2>15. LoopInv'
      <3>1. rest' \subseteq Selects(snap, n)
        BY <2>1, <2>10
      <3>2. \A b \in applied \cup {a}, c \in rest' : Before(snap, b, c)
        BY <2>1, <2>8, <2>10
      <3> QED  BY <2>1, <2>4, <2>12, <2>13, <2>14, <3>1, <3>2 DEF LoopInv
    <2>16. RangesAdmitted /\ SpecsInv => GoodSpec(sp)
      <3>1. SpecsInv => GoodSpec(new.spec)
        BY <1>1 DEF SpecsInv
      <3>2. snap[a] \in Policies
        BY <1>0, <2>6, <2>8 DEF PolicyState
      <3> QED  BY <2>1, <2>5, <3>1, <3>2, ApplyIsGood, SMTT(30)
    <2>17. found' # NoState /\ rest' \subseteq DOMAIN snap /\ pc' = "apply"
      BY <1>0, <1>1, <2>1 DEF RenderingInv, PolicyState
    <2>18. PolicyInv' /\ (SpecsInv /\ GoodSpec(new'.spec) => SpecsInv')
      BY <1>1, <2>1, <2>2, <2>3, <2>4, <2>15, <2>17, StillRendering
    <2>19. PolicyInv' /\ new'.spec = sp
      BY <2>4, <2>18
    <2>20. RangesAdmitted /\ SpecsInv => SpecsInv'
      BY <2>16, <2>18, <2>19
    <2> QED  BY <2>19, <2>20
  <1> QED  BY <1>3, <1>4

(* The rendering is done, with or without something to write.               *)
LEMMA RenderingEnds ==
    ASSUME PolicyInv, PoliciesApplied \/ WriteNodeState
    PROVE  PolicyInv' /\ (SpecsInv => SpecsInv')
  <1>0. PolicyState /\ StatesInv /\ RenderingInv
    BY DEF PolicyInv
  <1>1. pc \in {"apply", "write"}
    BY DEF PoliciesApplied, WriteNodeState
  <1>2. PICK n \in Node : n = Current /\ todo # {}
    BY <1>0, <1>1, CurrentListed DEF PolicyState, RenderingInv
  <1>3. IsState(new) /\ new.ifs \in {{}, NodeIfaces[n]} /\ found # NoState
    BY <1>0, <1>1, <1>2 DEF RenderingInv
  <1>4. CASE PoliciesApplied /\ new # found
    <2>1. UNCHANGED <<policies, nodes, state, dpLabel, snap, listed, todo, found, new, rest>> /\ pc' = "write" /\ rest = {}
      BY <1>4 DEF PoliciesApplied, Goto, cluster
    <2>2. LoopInv' /\ IsState(new') /\ new'.ifs \in {{}, NodeIfaces[Current]} /\ (SpecsInv => GoodSpec(new'.spec))
      BY <1>1, <1>2, <1>3, <2>1 DEF LoopInv, SpecsInv
    <2> QED  BY <1>2, <1>3, <2>1, <2>2, StillRendering
  <1>5. CASE WriteNodeState /\ state[Current] # found
    BY <1>0, <1>5, ReconcileEnds DEF WriteNodeState, ReturnError, PolicyState
  <1>6. CASE /\ todo' = todo \ {n} /\ found' = NoState /\ new' = NoState /\ pc' = "node" /\ rest = {}
             /\ state' = state \/ state' = [state EXCEPT ![n] = new]
             /\ UNCHANGED <<policies, nodes, dpLabel, snap, listed, rest>>
    <2>1. PolicyState'
      BY <1>0, <1>6 DEF PolicyState, Listed
    <2>2. \A m \in Node : state'[m] = state[m] \/ (m = n /\ state'[m] = new)
      BY <1>0, <1>6 DEF PolicyState
    <2>3. StatesInv'
      BY <1>0, <1>3, <1>6, <2>2 DEF StatesInv, HasState
    <2>4. RenderingInv' /\ LoopInv'
      BY <1>6 DEF RenderingInv, LoopInv
    <2>5. SpecsInv => SpecsInv'
      BY <1>1, <1>6, <2>2 DEF SpecsInv
    <2> QED  BY <2>1, <2>3, <2>4, <2>5 DEF PolicyInv
  <1>7. CASE PoliciesApplied /\ new = found
    BY <1>2, <1>6, <1>7 DEF PoliciesApplied, Goto, cluster
  <1>8. CASE WriteNodeState /\ state[Current] = found
    BY <1>0, <1>2, <1>6, <1>8 DEF WriteNodeState, Goto, RenderingInv
  <1> QED  BY <1>4, <1>5, <1>7, <1>8

-----------------------------------------------------------------------------
LEMMA PolicyInitially == PolicyInit => PolicyInv /\ SpecsInv
  <1> SUFFICES ASSUME PolicyInit PROVE PolicyInv /\ SpecsInv
    OBVIOUS
  <1>1. /\ policies \in Existing /\ nodes = Node /\ state = [n \in Node |-> NoState]
        /\ dpLabel = [n \in Node |-> ""] /\ pc = "idle" /\ snap = Empty /\ listed = {} /\ todo = {}
        /\ found = NoState /\ new = NoState /\ rest = {}
    BY DEF PolicyInit
  <1>2. Listed(policies)
    <2>1. DOMAIN policies \subseteq Name
      BY <1>1, PolicyAssumption
    <2>2. ASSUME NEW a \in DOMAIN policies PROVE policies[a] \in Policies
      <3>1. policies[a] \in {policies[b] : b \in DOMAIN policies}
        BY <2>2
      <3> QED  BY <1>1, <3>1 DEF Policies
    <2> QED  BY <2>1, <2>2 DEF Listed
  <1>3. PolicyState
    BY <1>1, <1>2, NothingInEmpty DEF PolicyState, Listed
  <1>4. StatesInv /\ RenderingInv /\ LoopInv /\ SpecsInv
    BY <1>1 DEF StatesInv, RenderingInv, LoopInv, SpecsInv
  <1> QED  BY <1>3, <1>4 DEF PolicyInv

LEMMA PolicyNextKeeps ==
    ASSUME PolicyInv, PolicyNext
    PROVE  PolicyInv' /\ (RangesAdmitted /\ SpecsInv => SpecsInv')
  <1>1. CASE \/ StartReconcile \/ ListNodeStates \/ HandleStaleNodeState \/ StaleHandled
             \/ RenderConfig \/ WriteConfigMap \/ ReconcileFails \/ Resync
    BY <1>1, OutsideSteps
  <1>2. CASE GetNodeState \/ ApplyPolicy \/ PoliciesApplied \/ WriteNodeState
    BY <1>2, GetNodeStateStep, ApplyPolicyStep, RenderingEnds
  <1>3. ASSUME NEW a \in Name, DeletePolicy(a)
        PROVE  PolicyInv' /\ (SpecsInv => SpecsInv')
    <2>1. PolicyState
      BY DEF PolicyInv
    <2>2. /\ policies' = [b \in DOMAIN policies \ {a} |-> policies[b]]
          /\ UNCHANGED <<locals, nodes, state, dpLabel>>
      BY <1>3 DEF DeletePolicy, UserDoes
    <2>3. Listed(policies)'
      BY <2>1, <2>2 DEF PolicyState, Listed
    <2> QED  BY <2>1, <2>2, <2>3, LocalsKept DEF PolicyState
  <1>4. ASSUME NEW a \in Name, NEW p \in Candidate, PutPolicy(a, p)
        PROVE  PolicyInv' /\ (SpecsInv => SpecsInv')
    BY <1>4, PutPolicyStep
  <1>5. ASSUME NEW n \in Node, NodeJoinsOrLeaves(n) \/ DaemonReports(n) \/ KeepUntilPasses(n)
        PROVE  PolicyInv' /\ (SpecsInv => SpecsInv')
    BY <1>5, NodeSteps
  <1>6. ASSUME NEW mode, SetPoolMode(mode)
        PROVE  PolicyInv' /\ (SpecsInv => SpecsInv')
    BY <1>6, LocalsKept DEF SetPoolMode, UserDoes, PolicyInv, PolicyState, Listed
  <1> QED  BY <1>1, <1>2, <1>3, <1>4, <1>5, <1>6 DEF PolicyNext, Step

(* The rendering keeps to its invariant, for any policies, interfaces and   *)
(* interleaving of users, nodes, daemons and the clock with the reconcile.  *)
THEOREM PolicySafety == PolicySpec => []PolicyInv
  <1>1. PolicyInit => PolicyInv
    BY PolicyInitially
  <1>2. PolicyInv /\ [PolicyNext]_policyVars => PolicyInv'
    <2> SUFFICES ASSUME PolicyInv, [PolicyNext]_policyVars PROVE PolicyInv'
      OBVIOUS
    <2>1. CASE PolicyNext
      BY <2>1, PolicyNextKeeps
    <2>2. CASE UNCHANGED policyVars
      BY <2>2, LocalsKept DEF policyVars, cluster, PolicyInv, PolicyState, Listed
    <2> QED  BY <2>1, <2>2
  <1> QED  BY <1>1, <1>2, PTL DEF PolicySpec

(* When the loop over the policies is done, a PF is in the new spec exactly *)
(* when some selected policy targets it, and its groups are those of the    *)
(* policies that conflict with none after them: what comes in between and   *)
(* is replaced itself decides nothing, as mergeConfigs never brings a group *)
(* back.                                                                    *)
THEOREM TopPriorityWins == PolicySpec => []HighestPriorityWins
  <1>1. PolicyInv => HighestPriorityWins
    <2> SUFFICES ASSUME PolicyInv, pc = "apply", rest = {}, NEW i \in new.ifs
                 PROVE  LET want == ReferenceGroups(snap, Selects(snap, Current), i) IN
                        /\ (want # {}) = (i.pci \in DOMAIN new.spec)
                        /\ want # {} => {g.policy : g \in new.spec[i.pci].groups} = want
      BY DEF HighestPriorityWins
    <2>1. GroupsOf(snap, Selects(snap, Current), i, new.spec)
      <3>1. Selects(snap, Current) \ rest = Selects(snap, Current)
        OBVIOUS
      <3> QED  BY <3>1 DEF PolicyInv, LoopInv
    <2> QED  BY <2>1, SMT DEF GroupsOf
  <1> QED  BY <1>1, PolicySafety, PTL

(* With ranges the webhook admits, the groups of a PF share no VF and no    *)
(* resource and lie within its VFs, in every NodeState and at every stage   *)
(* of a rendering: what mergeConfigs keeps is apart from what it adds.      *)
THEOREM GroupsStayDisjoint == RangesAdmitted => (PolicySpec => []GroupsDisjoint)
  <1> SUFFICES ASSUME RangesAdmitted PROVE PolicySpec => []GroupsDisjoint
    OBVIOUS
  <1>1. PolicyInit => SpecsInv
    BY PolicyInitially
  <1>2. PolicyInv /\ SpecsInv /\ [PolicyNext]_policyVars => SpecsInv'
    <2> SUFFICES ASSUME PolicyInv, SpecsInv, [PolicyNext]_policyVars PROVE SpecsInv'
      OBVIOUS
    <2>1. CASE PolicyNext
      BY <2>1, PolicyNextKeeps
    <2>2. CASE UNCHANGED policyVars
      BY <2>2 DEF policyVars, cluster, locals, SpecsInv
    <2> QED  BY <2>1, <2>2
  <1>3. PolicyInv /\ SpecsInv => GroupsDisjoint
    <2> SUFFICES ASSUME PolicyInv, SpecsInv PROVE GroupsDisjoint
      OBVIOUS
    <2>1. PolicyTypeOK
      <3>1. (found # NoState) = (pc \in {"apply", "write"})
        BY SMT DEF PolicyInv, RenderingInv
      <3>2. pc = "stale" => todo \cap listed = {}
        BY DEF PolicyInv, RenderingInv
      <3> QED  BY <3>1, <3>2 DEF PolicyInv, PolicyState, Listed, PolicyTypeOK
    <2>2. new # NoState => pc \in {"apply", "write"}
      BY DEF PolicyInv, RenderingInv
    <2> QED  BY <2>1, <2>2, GoodSpecIsOK DEF SpecsInv, GroupsDisjoint
  <1> QED  BY <1>1, <1>2, <1>3, PolicySafety, PTL DEF PolicySpec
=============================================================================
