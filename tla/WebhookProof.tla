---------------------------- MODULE WebhookProof -----------------------------
(* What the webhook admits, for any policies, names, nodes, NICs, pools and *)
(* networks, any number of concurrent requests and any interleaving of      *)
(* their steps: policies take different VFs, a request that was alone got   *)
(* the answer of its own flags, drains are not disabled under an update,    *)
(* and a stored pool has a limit.                                           *)
EXTENDS PolicyWebhook, WellFoundedInduction, TLAPS

(* Most leaves are first-order: Zenon proves them, SMT those that cite it.  *)
USE Zenon

Steps == {"idle", "start", "list", "check", "config", "states", "admit", "deny"}
PolicyMap == UNION {[S -> PolicySpec] : S \in SUBSET Name}
Request ==
    [pc : Steps, name : Nat, pol : PolicySpec \cup {NoPolicy}, op : {"", "create", "update"},
     to : {"", "drain", "noDrain"}, seen : PolicyMap, known : SUBSET Node, todo : SUBSET Node,
     with : SUBSET Nat, late : SUBSET Node, stale : BOOLEAN]
Types ==
    /\ h \in [Handler -> Request] /\ policies \in PolicyMap
    /\ config \in {"absent", "drain", "noDrain"} /\ reported \subseteq Node
    /\ updating \subseteq Node /\ nodesSelected \in BOOLEAN /\ interfaceSelected \in BOOLEAN

(* A policy in flight is one: past the static validation it passed it, and  *)
(* so did every stored one but the default's.                               *)
IdleInv ==
    /\ \A r \in Handler : h[r].pc = "idle" => h[r] = Idle
    /\ \A r \in Handler : h[r].pc \in {"config", "states"} => h[r].op # ""
    /\ \A r \in Handler : h[r].pc \in {"start", "list", "check"} => h[r].op = ""
    /\ \A r \in Handler : h[r].op # "" => h[r].to # ""
Validated(r) == h[r].pc \in {"list", "check", "admit"} /\ h[r].name # DefaultPolicyName
PolicyInv ==
    \A r \in InFlight :
        /\ h[r].name \in Name /\ h[r].pol \in PolicySpec
        /\ h[r].pc \in {"list", "check"} => h[r].name # DefaultPolicyName
        /\ Validated(r) => StaticValidate(h[r].pol)
StoredInv == \A a \in DOMAIN policies \ {DefaultPolicyName} : StaticValidate(policies[a])

(* Two policies in flight know of each other, and a policy that was listed  *)
(* is still what is stored unless its name was in flight since.             *)
OverlapInv ==
    \A r, s \in InFlight : r # s => h[s].name \in h[r].with
Listed(r) == h[r].pc = "check" \/ (h[r].pc = "admit" /\ h[r].name # DefaultPolicyName)
SeenInv ==
    \A r \in InFlight : Listed(r) =>
        \A b \in DOMAIN policies \ ({h[r].name} \cup h[r].with) :
            b \in DOMAIN h[r].seen /\ h[r].seen[b] = policies[b]

(* The nodes that were checked had no error.                                *)
Checked(r) == Matches(r) \ h[r].todo
CheckInv ==
    \A r \in InFlight : Listed(r) =>
        /\ h[r].todo \subseteq Matches(r) /\ (h[r].pc = "admit" => h[r].todo = {})
        /\ \A n \in Checked(r) : ~NodeError(r, n)

(* The flags are those of a request that is alone.                          *)
FlagsOf(r) ==
    /\ nodesSelected <=> Checked(r) # {}
    /\ interfaceSelected <=> \E n \in Checked(r) : Valid(r, n) # {}
FlagsInv ==
    \A r \in InFlight : h[r].with = {} =>
        /\ h[r].pc = "list" => ~nodesSelected /\ ~interfaceSelected
        /\ h[r].pc = "check" => FlagsOf(r)
        /\ h[r].pc = "admit" => Admissible(r)
        /\ h[r].pc = "deny" => ~Admissible(r)

(* An update of the config that was admitted and is not outdated, if it     *)
(* disables drains, found no node updating.                                 *)
ConfigInv ==
    \A r \in Handler : h[r].op = "update" /\ ~h[r].stale =>
        /\ config # "absent"
        /\ h[r].pc = "admit" /\ h[r].to = "noDrain" /\ config = "drain" => updating \subseteq h[r].late

PoolInv == \A pool \in other \cap Pool : ValidatePool(pool)

WebhookInv ==
    /\ Types /\ IdleInv /\ PolicyInv /\ StoredInv /\ OverlapInv /\ SeenInv /\ CheckInv
    /\ FlagsInv /\ AdmittedDisjoint /\ ConfigInv /\ PoolInv

-----------------------------------------------------------------------------
(* The records a request goes through.                                      *)
LEMMA IdleTyped == Idle \in Request
  <1>1. NoPolicies \in PolicyMap
    <2>1. NoPolicies \in [{} -> PolicySpec] /\ {} \in SUBSET Name
      BY SMT DEF NoPolicies
    <2> QED  BY <2>1 DEF PolicyMap
  <1> QED  BY <1>1, SMT DEF Idle, Request, Steps, DefaultPolicyName

(* Defaulting fills in a priority and isRdma.                               *)
LEMMA Defaulted ==
  ASSUME NEW p \in PolicySpec, NEW prio \in Int, NEW rdma \in BOOLEAN
  PROVE  [p EXCEPT !.prio = prio, !.rdma = rdma] \in PolicySpec
  BY ZenonT(30) DEF PolicySpec

LEMMA MutatedTyped ==
  ASSUME NEW a \in Name, NEW c \in Candidate PROVE Mutate(a, c) \in PolicySpec
  <1>1. c.pol \in PolicySpec
    BY WebhookAssumption
  <1>2. c.pol.prio \in Int /\ c.pol.rdma \in BOOLEAN
    BY <1>1, SMT DEF PolicySpec
  <1> DEFINE prio == IF "priority" \in c.unset THEN 99 ELSE c.pol.prio
             rdma == IF c.pol.link = "ib" /\ c.pol.type # "vfio-pci" THEN TRUE
                     ELSE IF "isRdma" \in c.unset THEN FALSE ELSE c.pol.rdma
  <1>3. prio \in Int
    BY <1>2, SMT
  <1>4. rdma \in BOOLEAN
    BY <1>2
  <1>5. Mutate(a, c) = c.pol \/ Mutate(a, c) = [c.pol EXCEPT !.prio = prio, !.rdma = rdma]
    BY DEF Mutate
  <1> HIDE DEF prio, rdma
  <1> QED  BY <1>1, <1>3, <1>4, <1>5, Defaulted, ZenonT(60)

(* What a request asks for and has seen.                                    *)
View(x, y) ==
    /\ y.name = x.name /\ y.pol = x.pol /\ y.op = x.op /\ y.to = x.to /\ y.seen = x.seen
    /\ y.known = x.known

(* The edits of a request's record.                                         *)
LEMMA SetPc ==
  ASSUME NEW x \in Request, NEW pc \in Steps,
         NEW y, y = [x EXCEPT !.pc = pc]
  PROVE  /\ y \in Request /\ y.pc = pc /\ View(x, y)
         /\ y.todo = x.todo /\ y.with = x.with /\ y.late = x.late /\ y.stale = x.stale
  BY ZenonT(30) DEF Request, View

LEMMA SetWith ==
  ASSUME NEW x \in Request, NEW w \in SUBSET Nat,
         NEW y, y = [x EXCEPT !.with = w]
  PROVE  /\ y \in Request /\ y.with = w /\ View(x, y)
         /\ y.pc = x.pc /\ y.todo = x.todo /\ y.late = x.late /\ y.stale = x.stale
  BY ZenonT(30) DEF Request, View

LEMMA SetLate ==
  ASSUME NEW x \in Request, NEW w \in SUBSET Node,
         NEW y, y = [x EXCEPT !.late = w]
  PROVE  /\ y \in Request /\ y.late = w /\ View(x, y)
         /\ y.pc = x.pc /\ y.todo = x.todo /\ y.with = x.with /\ y.stale = x.stale
  BY ZenonT(30) DEF Request, View

LEMMA SetStale ==
  ASSUME NEW x \in Request,
         NEW y, y = [x EXCEPT !.stale = TRUE]
  PROVE  /\ y \in Request /\ y.stale /\ View(x, y)
         /\ y.pc = x.pc /\ y.todo = x.todo /\ y.with = x.with /\ y.late = x.late
  BY ZenonT(30) DEF Request, View

LEMMA SetRetry ==
  ASSUME NEW x \in Request,
         NEW y, y = [x EXCEPT !.pc = "config", !.stale = FALSE, !.late = {}]
  PROVE  y \in Request /\ y.pc = "config" /\ y.op = x.op /\ y.to = x.to
  BY ZenonT(30) DEF Request, Steps

LEMMA NewPolicy ==
  ASSUME NEW a \in Name, NEW p \in PolicySpec
  PROVE  LET y == [Idle EXCEPT !.pc = "start", !.name = a, !.pol = p] IN
         /\ y \in Request /\ y.pc = "start" /\ y.name = a /\ y.pol = p /\ y.op = ""
  <1>1. Idle \in Request /\ a \in Nat /\ Idle.op = ""
    BY IdleTyped, WebhookAssumption DEF Idle
  <1>2. PICK x \in Request : x = Idle
    BY <1>1
  <1>3. LET y == [x EXCEPT !.pc = "start", !.name = a, !.pol = p] IN
         /\ y \in Request /\ y.pc = "start" /\ y.name = a /\ y.pol = p /\ y.op = x.op
    BY <1>1, ZenonT(30) DEF Request, Steps
  <1> QED  BY <1>1, <1>2, <1>3

LEMMA NewConfig ==
  ASSUME NEW to \in {"drain", "noDrain"}, NEW op \in {"create", "update"}
  PROVE  LET y == [Idle EXCEPT !.pc = "config", !.to = to, !.op = op] IN
         /\ y \in Request /\ y.pc = "config" /\ y.op = op /\ y.to = to /\ ~y.stale
  <1>1. Idle \in Request /\ Idle.stale = FALSE
    BY IdleTyped DEF Idle
  <1>2. PICK x \in Request : x = Idle
    BY <1>1
  <1>3. LET y == [x EXCEPT !.pc = "config", !.to = to, !.op = op] IN
         /\ y \in Request /\ y.pc = "config" /\ y.op = op /\ y.to = to /\ y.stale = x.stale
    BY ZenonT(30) DEF Request, Steps
  <1> QED  BY <1>1, <1>2, <1>3

-----------------------------------------------------------------------------
(* A step of one request leaves the others as they are, but for the         *)
(* bookkeeping of who was in flight, who is late and what is outdated.      *)
Passive(q) ==
    /\ h'[q].pc = h[q].pc /\ h'[q].todo = h[q].todo /\ View(h[q], h'[q])
    /\ h[q].with \subseteq h'[q].with
    /\ h[q].pc = "idle" => h'[q] = h[q]

LEMMA SameView ==
  ASSUME NEW r, View(h[r], h'[r])
  PROVE  /\ Matches(r)' = Matches(r)
         /\ \A n : Valid(r, n)' = Valid(r, n)
         /\ \A n : NodeError(r, n)' <=> NodeError(r, n)
         /\ Admissible(r)' <=> Admissible(r)
  <1>1. /\ h'[r].name = h[r].name /\ h'[r].pol = h[r].pol /\ h'[r].seen = h[r].seen
        /\ h'[r].known = h[r].known
    BY DEF View
  <1>2. Matches(r)' = Matches(r)
    BY <1>1 DEF Matches
  <1>3. \A n : Known(r, n)' = Known(r, n)
    BY <1>1 DEF Known
  <1>4. ASSUME NEW n PROVE Valid(r, n)' = Valid(r, n)
    <2>1. Known(r, n)' = Known(r, n)
      BY <1>3
    <2> QED  BY <1>1, <2>1 DEF Valid
  <1>5. \A n : NodeError(r, n)' <=> NodeError(r, n)
    BY <1>1, <1>3, <1>4 DEF NodeError
  <1>6. Admissible(r)' <=> Admissible(r)
    BY <1>1, <1>2, <1>4, <1>5 DEF Admissible
  <1> QED  BY <1>2, <1>4, <1>5, <1>6

LEMMA PassiveSame ==
  ASSUME NEW q \in Handler, Passive(q)
  PROVE  /\ (q \in InFlight)' <=> q \in InFlight
         /\ Listed(q)' <=> Listed(q)
         /\ Validated(q)' <=> Validated(q)
         /\ Checked(q)' = Checked(q)
  <1>1. /\ h'[q].pc = h[q].pc /\ h'[q].op = h[q].op /\ h'[q].name = h[q].name
        /\ h'[q].todo = h[q].todo
    BY DEF Passive, View
  <1>2. Matches(q)' = Matches(q)
    BY SameView DEF Passive
  <1> QED  BY <1>1, <1>2 DEF InFlight, Listed, Validated, Checked

(* A step that only lets policies go, and leaves the flags alone, keeps     *)
(* what is known of those that stay.                                        *)
Quiet == (\A q \in InFlight' : q \in InFlight /\ Passive(q)) /\ UNCHANGED flags
LEMMA QuietStep ==
  ASSUME PolicyInv, OverlapInv, CheckInv, FlagsInv, Quiet
  PROVE  PolicyInv' /\ OverlapInv' /\ CheckInv' /\ FlagsInv'
  <1>1. ASSUME NEW q \in InFlight'
        PROVE  /\ q \in Handler /\ q \in InFlight /\ Passive(q)
               /\ h'[q].pc = h[q].pc /\ h'[q].name = h[q].name /\ h'[q].pol = h[q].pol
               /\ h'[q].todo = h[q].todo /\ h[q].with \subseteq h'[q].with
    BY <1>1 DEF Quiet, InFlight, Passive, View
  <1>2. PolicyInv'
    BY <1>1, PassiveSame DEF PolicyInv
  <1>3. OverlapInv'
    BY <1>1 DEF OverlapInv
  <1>4. CheckInv'
    <2> SUFFICES ASSUME NEW q \in InFlight', Listed(q)'
                 PROVE  /\ h'[q].todo \subseteq Matches(q)' /\ (h'[q].pc = "admit" => h'[q].todo = {})
                        /\ \A n \in Checked(q)' : ~NodeError(q, n)'
      BY DEF CheckInv
    <2>1. Listed(q) /\ Checked(q)' = Checked(q)
      BY <1>1, PassiveSame
    <2>2. Matches(q)' = Matches(q) /\ \A n : NodeError(q, n)' <=> NodeError(q, n)
      BY <1>1, SameView DEF Passive
    <2> QED  BY <1>1, <2>1, <2>2 DEF CheckInv
  <1>5. FlagsInv'
    <2> SUFFICES ASSUME NEW q \in InFlight', h'[q].with = {}
                 PROVE  /\ h'[q].pc = "list" => ~nodesSelected' /\ ~interfaceSelected'
                        /\ h'[q].pc = "check" => FlagsOf(q)'
                        /\ h'[q].pc = "admit" => Admissible(q)'
                        /\ h'[q].pc = "deny" => ~Admissible(q)'
      BY DEF FlagsInv
    <2>1. h[q].with = {} /\ q \in InFlight /\ h'[q].pc = h[q].pc
      BY <1>1
    <2>2. Checked(q)' = Checked(q)
      BY <1>1, PassiveSame
    <2>3. (\A n : Valid(q, n)' = Valid(q, n)) /\ (Admissible(q)' <=> Admissible(q))
      BY <1>1, SameView DEF Passive
    <2>4. UNCHANGED <<nodesSelected, interfaceSelected>>
      BY DEF Quiet, flags
    <2>5. FlagsOf(q)' <=> FlagsOf(q)
      BY <2>2, <2>3, <2>4 DEF FlagsOf
    <2> QED  BY <2>1, <2>3, <2>4, <2>5 DEF FlagsInv
  <1> QED  BY <1>2, <1>3, <1>4, <1>5

(* Nothing new is stored under a name a request does not know to have been  *)
(* in flight with it.                                                       *)
LEMMA SeenKept ==
  ASSUME SeenInv, \A q \in InFlight' : q \in InFlight /\ Passive(q),
         \A q \in InFlight' : \A b \in DOMAIN policies' \ ({h[q].name} \cup h[q].with) :
             b \in DOMAIN policies /\ policies'[b] = policies[b]
  PROVE  SeenInv'
  <1> SUFFICES ASSUME NEW q \in InFlight', Listed(q)',
                      NEW b \in DOMAIN policies' \ ({h'[q].name} \cup h'[q].with)
               PROVE  b \in DOMAIN h'[q].seen /\ h'[q].seen[b] = policies'[b]
    BY DEF SeenInv
  <1>1. /\ q \in Handler /\ q \in InFlight /\ Passive(q) /\ h'[q].name = h[q].name
        /\ h'[q].seen = h[q].seen /\ h[q].with \subseteq h'[q].with
    BY DEF InFlight, Passive, View
  <1>2. Listed(q)
    BY <1>1, PassiveSame
  <1>3. b \in DOMAIN policies \ ({h[q].name} \cup h[q].with) /\ policies'[b] = policies[b]
    BY <1>1
  <1> QED  BY <1>1, <1>2, <1>3, ZenonT(60) DEF SeenInv

-----------------------------------------------------------------------------
(* Two policies that were compared take different VFs.                      *)
Less == {x \in Nat \X Nat : x[1] < x[2]}
LEMMA LeastNat ==
  ASSUME NEW T \in SUBSET Nat, T # {}
  PROVE  \E x \in T : \A y \in T : x <= y
  <1>1. IsWellFoundedOn(Less, Nat)
    BY NatLessThanWellFounded DEF OpToRel, Less
  <1>2. PICK x \in T : \A y \in T : ~(<<y, x>> \in Less)
    BY <1>1, WFMin
  <1>3. \A y \in T : ~(y < x)
    BY <1>2 DEF Less
  <1> QED  BY <1>3, SMT

(* The first pfName that is the PF's.                                       *)
LEMMA FirstHitIs ==
  ASSUME NEW p \in PolicySpec, NEW i, Hits(p, i) # {}
  PROVE  /\ FirstHit(p, i) \in Hits(p, i) /\ \A j \in Hits(p, i) : FirstHit(p, i) <= j
         /\ DOMAIN p.pfs = 1 .. Len(p.pfs) /\ Len(p.pfs) \in Nat
         /\ FirstHit(p, i) \in DOMAIN p.pfs /\ p.pfs[FirstHit(p, i)].name = i.name
         /\ \A k \in DOMAIN p.pfs : p.pfs[k].rng \in (Int \X Int) \cup {BadRange}
  <1>1. p.pfs \in Seq(PfName)
    BY DEF PolicySpec
  <1>2. DOMAIN p.pfs = 1 .. Len(p.pfs) /\ Len(p.pfs) \in Nat
    BY <1>1, SMT
  <1>3. Hits(p, i) \in SUBSET Nat
    BY <1>2, SMT DEF Hits
  <1>4. \E k \in Hits(p, i) : \A j \in Hits(p, i) : k <= j
    BY <1>3, LeastNat
  <1>5. FirstHit(p, i) \in Hits(p, i) /\ \A j \in Hits(p, i) : FirstHit(p, i) <= j
    BY <1>4 DEF FirstHit
  <1>6. \A k \in DOMAIN p.pfs : p.pfs[k] \in PfName
    BY <1>1, <1>2, SMT
  <1>7. \A k \in DOMAIN p.pfs : p.pfs[k].rng \in (Int \X Int) \cup {BadRange}
    BY <1>6 DEF PfName
  <1> QED  BY <1>2, <1>5, <1>7 DEF Hits

(* A node that reported its interfaces resolves names, one that did not     *)
(* leaves them: only a PF's names become its name.                          *)
LEMMA Resolved ==
  ASSUME NEW n \in Node, NEW i \in NodeIfaces[n], NEW ifs, ifs = NodeIfaces[n] \/ ifs = {}
  PROVE  /\ ResolveInterfaceName(i.name, ifs) = i.name
         /\ \A name : ResolveInterfaceName(name, ifs) = i.name => name = i.name \/ name \in i.alt
  <1>1. CASE ifs = {}
    BY <1>1 DEF ResolveInterfaceName
  <1>2. CASE ifs = NodeIfaces[n]
    <2>1. ASSUME NEW name, \E j \in ifs : name \in NamesOf(j)
          PROVE  \E j \in ifs : name \in NamesOf(j) /\ ResolveInterfaceName(name, ifs) = j.name
      <3> DEFINE c == CHOOSE j \in ifs : name \in {j.name} \cup j.alt
      <3>1. c \in ifs /\ name \in {c.name} \cup c.alt
        BY <2>1 DEF NamesOf
      <3>2. ResolveInterfaceName(name, ifs) = c.name
        BY <2>1 DEF ResolveInterfaceName, NamesOf
      <3> QED  BY <3>1, <3>2 DEF NamesOf
    <2>2. ASSUME NEW j \in ifs, NEW name, name \in NamesOf(j), name \in NamesOf(i) PROVE j = i
      BY <1>2, <2>2, WebhookAssumption
    <2>3. i.name \in NamesOf(i) /\ i \in ifs /\ \A j : j.name \in NamesOf(j)
      BY <1>2 DEF NamesOf
    <2>4. ResolveInterfaceName(i.name, ifs) = i.name
      BY <2>1, <2>2, <2>3
    <2>5. ASSUME NEW name, ResolveInterfaceName(name, ifs) = i.name
          PROVE  name \in NamesOf(i)
      <3>1. CASE \E j \in ifs : name \in NamesOf(j)
        <4>1. PICK j \in ifs : name \in NamesOf(j) /\ ResolveInterfaceName(name, ifs) = j.name
          BY <2>1, <3>1
        <4>2. j.name \in NamesOf(j) /\ j.name = i.name
          BY <2>3, <2>5, <4>1
        <4> QED  BY <2>2, <2>3, <4>1, <4>2
      <3>2. CASE ~\E j \in ifs : name \in NamesOf(j)
        <4>1. ResolveInterfaceName(name, ifs) = name
          BY <3>2 DEF ResolveInterfaceName, NamesOf
        <4> QED  BY <2>3, <2>5, <4>1
      <3> QED  BY <3>1, <3>2
    <2> QED  BY <2>4, <2>5 DEF NamesOf
  <1> QED  BY <1>1, <1>2

LEMMA Components ==
  ASSUME NEW A, NEW B, NEW x \in A \X B
  PROVE  x[1] \in A /\ x[2] \in B /\ x = <<x[1], x[2]>>
  BY SMT

(* The pair of pfNames that decides is the one whose ranges count.          *)
LEMMA FirstPair ==
  ASSUME NEW p \in PolicySpec, NEW q \in PolicySpec, NEW n \in Node, NEW i \in NodeIfaces[n],
         NEW ifs, ifs = NodeIfaces[n] \/ ifs = {}, PfNamesValid(p, q, ifs),
         NamesPf(p, i), NamesPf(q, i), Len(p.pfs) = 1 \/ Len(q.pfs) = 1
  PROVE  p.external = q.external /\ Apart(p.pfs[FirstHit(p, i)].rng, q.pfs[FirstHit(q, i)].rng)
  <1> DEFINE k == FirstHit(p, i)
             j == FirstHit(q, i)
             same == SamePf(p, q, ifs)
             Least(x) == \A y \in same : x[1] < y[1] \/ (x[1] = y[1] /\ x[2] <= y[2])
  <1>1. /\ k \in Hits(p, i) /\ k \in DOMAIN p.pfs /\ p.pfs[k].name = i.name
        /\ \A l \in Hits(p, i) : k <= l
        /\ DOMAIN p.pfs = 1 .. Len(p.pfs) /\ Len(p.pfs) \in Nat
    BY FirstHitIs DEF NamesPf
  <1>2. /\ j \in Hits(q, i) /\ j \in DOMAIN q.pfs /\ q.pfs[j].name = i.name
        /\ \A l \in Hits(q, i) : j <= l
        /\ DOMAIN q.pfs = 1 .. Len(q.pfs) /\ Len(q.pfs) \in Nat
    BY FirstHitIs DEF NamesPf
  <1>3. /\ \A l \in DOMAIN p.pfs : p.pfs[l].name \notin i.alt
        /\ \A l \in DOMAIN q.pfs : q.pfs[l].name \notin i.alt
    BY DEF NamesPf, PfNames
  <1>4. <<k, j>> \in same
    <2>1. <<k, j>> \in (DOMAIN p.pfs) \X (DOMAIN q.pfs) /\ <<k, j>>[1] = k /\ <<k, j>>[2] = j
      BY <1>1, <1>2
    <2> QED  BY <1>1, <1>2, <2>1 DEF SamePf
  <1>5. ASSUME NEW x \in same
        PROVE  /\ x[1] \in DOMAIN p.pfs /\ x[2] \in DOMAIN q.pfs /\ x = <<x[1], x[2]>>
               /\ ResolveInterfaceName(p.pfs[x[1]].name, ifs) = ResolveInterfaceName(q.pfs[x[2]].name, ifs)
    <2>1. x \in (DOMAIN p.pfs) \X (DOMAIN q.pfs)
      BY DEF SamePf
    <2>2. x[1] \in DOMAIN p.pfs /\ x[2] \in DOMAIN q.pfs /\ x = <<x[1], x[2]>>
      BY <2>1, Components
    <2> QED  BY <2>2 DEF SamePf
  <1>6. ASSUME NEW x \in same
        PROVE  /\ x[1] \in Nat /\ x[2] \in Nat /\ k \in Nat /\ j \in Nat
               /\ ((x[1] = k /\ j <= x[2]) \/ (x[2] = j /\ k <= x[1]))
    <2>1. x[1] \in Nat /\ x[2] \in Nat /\ k \in Nat /\ j \in Nat
      BY <1>1, <1>2, <1>5, SMT
    <2>2. CASE Len(p.pfs) = 1
      <3>1. x[1] = k
        BY <1>1, <1>5, <2>2, SMT
      <3>2. x[2] \in Hits(q, i)
        <4>1. ResolveInterfaceName(q.pfs[x[2]].name, ifs) = i.name
          <5>1. p.pfs[x[1]].name = i.name
            BY <1>1, <3>1
          <5>2. ResolveInterfaceName(i.name, ifs) = i.name
            BY Resolved
          <5> QED  BY <1>5, <5>1, <5>2
        <4>2. q.pfs[x[2]].name = i.name
          BY <1>3, <1>5, <4>1, Resolved, ZenonT(60)
        <4> QED  BY <1>5, <4>2 DEF Hits
      <3> QED  BY <1>2, <2>1, <3>1, <3>2
    <2>3. CASE Len(q.pfs) = 1
      <3>1. x[2] = j
        BY <1>2, <1>5, <2>3, SMT
      <3>2. x[1] \in Hits(p, i)
        <4>1. ResolveInterfaceName(p.pfs[x[1]].name, ifs) = i.name
          <5>1. q.pfs[x[2]].name = i.name
            BY <1>2, <3>1
          <5>2. ResolveInterfaceName(i.name, ifs) = i.name
            BY Resolved
          <5> QED  BY <1>5, <5>1, <5>2
        <4>2. p.pfs[x[1]].name = i.name
          BY <1>3, <1>5, <4>1, Resolved
        <4> QED  BY <1>5, <4>2 DEF Hits
      <3> QED  BY <1>1, <2>1, <3>1, <3>2
    <2> QED  BY <2>2, <2>3
  <1>7. Least(<<k, j>>)
    <2> SUFFICES ASSUME NEW y \in same PROVE k < y[1] \/ (k = y[1] /\ j <= y[2])
      OBVIOUS
    <2> QED  BY <1>6, SMT
  <1>8. ASSUME NEW x \in same, Least(x) PROVE x = <<k, j>>
    <2>1. x[1] < k \/ (x[1] = k /\ x[2] <= j)
      BY <1>4, <1>8
    <2>2. x[1] = k /\ x[2] = j
      BY <1>6, <2>1, SMT
    <2> QED  BY <1>5, <2>2
  <1> DEFINE first == CHOOSE x \in same : Least(x)
  <1>9. first = <<k, j>>
    BY <1>4, <1>7, <1>8
  <1>10. p.external = q.external /\ Apart(p.pfs[first[1]].rng, q.pfs[first[2]].rng)
    BY <1>4 DEF PfNamesValid
  <1> HIDE DEF first, k, j
  <1>11. first[1] = k /\ first[2] = j
    BY <1>9, SMT
  <1> USE DEF k, j
  <1> QED  BY <1>10, <1>11

(* Ranges of validated policies that are apart do not overlap.              *)
LEMMA ApartDisjoint ==
  ASSUME NEW u \in Int \X Int, NEW v \in Int \X Int, u[1] <= u[2], v[1] <= v[2],
         Apart(u, v) \/ Apart(v, u)
  PROVE  ~IsVFRangeOverlapping(u, v)
  <1>1. u[1] \in Int /\ u[2] \in Int /\ v[1] \in Int /\ v[2] \in Int
    BY Components
  <1>2. u[2] < v[1] \/ u[1] > v[2]
    BY <1>1, SMT DEF Apart
  <1>3. /\ IndexInRange(v[1], u) => u[1] <= v[1] /\ v[1] <= u[2]
        /\ IndexInRange(v[2], u) => u[1] <= v[2] /\ v[2] <= u[2]
        /\ IndexInRange(u[1], v) => v[1] <= u[1] /\ u[1] <= v[2]
        /\ IndexInRange(u[2], v) => v[1] <= u[2] /\ u[2] <= v[2]
    BY DEF IndexInRange
  <1>4. IsVFRangeOverlapping(u, v) =>
          \/ u[1] < v[1] /\ (IndexInRange(v[1], u) \/ IndexInRange(v[2], u))
          \/ ~(u[1] < v[1]) /\ (IndexInRange(u[1], v) \/ IndexInRange(u[2], v))
    BY DEF IsVFRangeOverlapping
  <1> QED  BY <1>1, <1>2, <1>3, <1>4, SMT

LEMMA ComparedDiffer ==
  ASSUME NEW p \in PolicySpec, NEW q \in PolicySpec, NEW n \in Node, NEW i \in NodeIfaces[n],
         NEW ifs, ifs = NodeIfaces[n] \/ ifs = {}, Compatible(p, q, ifs) \/ Compatible(q, p, ifs),
         StaticValidate(p), StaticValidate(q), Comparable(p, q, i)
  PROVE  ~IsVFRangeOverlapping(VfRange(p, i), VfRange(q, i)) /\ p.external = q.external
  <1> DEFINE u == p.pfs[FirstHit(p, i)].rng
             v == q.pfs[FirstHit(q, i)].rng
  <1>1. NamesPf(p, i) /\ NamesPf(q, i) /\ (Len(p.pfs) = 1 \/ Len(q.pfs) = 1)
    BY DEF Comparable
  <1>2. p.external = q.external /\ (Apart(u, v) \/ Apart(v, u))
    <2>1. CASE Compatible(p, q, ifs)
      <3>1. PfNamesValid(p, q, ifs)
        BY <2>1 DEF Compatible
      <3> QED  BY <1>1, <3>1, FirstPair
    <2>2. CASE Compatible(q, p, ifs)
      <3>1. PfNamesValid(q, p, ifs)
        BY <2>2 DEF Compatible
      <3> QED  BY <1>1, <3>1, FirstPair
    <2> QED  BY <2>1, <2>2
  <1>3. Hits(p, i) # {} /\ Hits(q, i) # {} /\ (u # NoRange <=> v # NoRange)
    BY DEF Comparable, NamesPf, WithRange
  <1>4. u # NoRange /\ v # NoRange
    <2>1. ~Apart(NoRange, NoRange)
      BY SMT DEF Apart, NoRange
    <2> QED  BY <1>2, <1>3, <2>1
  <1>5. /\ u \in (Int \X Int) \cup {BadRange} /\ FirstHit(p, i) \in DOMAIN p.pfs
        /\ v \in (Int \X Int) \cup {BadRange} /\ FirstHit(q, i) \in DOMAIN q.pfs
    BY <1>3, FirstHitIs
  <1>6. RangeValid(u, p.numVfs) /\ RangeValid(v, q.numVfs)
    BY <1>4, <1>5 DEF StaticValidate
  <1>7. u \in Int \X Int /\ v \in Int \X Int /\ u[1] <= u[2] /\ v[1] <= v[2]
    BY <1>5, <1>6 DEF RangeValid
  <1>8. VfRange(p, i) = u /\ VfRange(q, i) = v
    BY <1>3, <1>4 DEF VfRange
  <1> HIDE DEF u, v
  <1> QED  BY <1>2, <1>7, <1>8, ApartDisjoint

LEMMA TakeDifferent ==
  ASSUME NEW p \in PolicySpec, NEW q \in PolicySpec, StaticValidate(p), StaticValidate(q),
         \A n \in Node : NodeSelected(p, NodeLabels[n]) /\ NodeSelected(q, NodeLabels[n]) =>
             \E ifs \in {NodeIfaces[n], {}} : Compatible(p, q, ifs) \/ Compatible(q, p, ifs)
  PROVE  TakeDifferentVfs(p, q) /\ TakeDifferentVfs(q, p)
  <1>1. ASSUME NEW n \in Node, NodeSelected(p, NodeLabels[n]), NodeSelected(q, NodeLabels[n]),
               NEW i \in NodeIfaces[n], Comparable(p, q, i) \/ Comparable(q, p, i)
        PROVE  /\ ~IsVFRangeOverlapping(VfRange(p, i), VfRange(q, i))
               /\ ~IsVFRangeOverlapping(VfRange(q, i), VfRange(p, i)) /\ p.external = q.external
    <2>1. PICK ifs \in {NodeIfaces[n], {}} : Compatible(p, q, ifs) \/ Compatible(q, p, ifs)
      BY <1>1
    <2>2. Comparable(p, q, i) /\ Comparable(q, p, i)
      BY <1>1 DEF Comparable
    <2> QED  BY <2>1, <2>2, ComparedDiffer
  <1> QED  BY <1>1 DEF TakeDifferentVfs

-----------------------------------------------------------------------------
(* The limit of a pool that passed, for any number of nodes.                *)
LEMMA Share ==
  ASSUME NEW k \in 1 .. 100, NEW n \in Nat
  PROVE  (k * n) \div 100 \in 0 .. n
  <1>1. \A a, b \in Nat : a * b >= 0
    BY SMT
  <1>2. 100 - k \in Nat /\ k \in Nat
    BY SMT
  <1>3. (100 - k) * n >= 0 /\ k * n >= 0
    BY <1>1, <1>2
  <1>4. (100 - k) * n = 100 * n - k * n
    BY SMT
  <1>5. ASSUME NEW x \in Int, x >= 0, x <= 100 * n PROVE x \div 100 \in 0 .. n
    BY <1>5, SMT
  <1>6. k * n \in Int /\ k * n >= 0 /\ k * n <= 100 * n
    BY <1>3, <1>4, SMT
  <1> QED  BY <1>5, <1>6

LEMMA PoolHasLimit ==
  ASSUME NEW pool \in Pool, ValidatePool(pool), NEW n \in Nat
  PROVE  MaxUnavailable(pool, n) \in
             IF pool.max = <<>> THEN {-1} ELSE IF pool.max[1] = "%" THEN 0 .. n ELSE Nat
  <1>1. MaxUnavailable(pool, 0) # Invalid
    BY DEF ValidatePool
  <1>2. CASE pool.max = <<>>
    BY <1>2 DEF MaxUnavailable
  <1>3. CASE pool.max # <<>>
    <2>1. pool.max[1] \in {"%", "int", "text"} /\ pool.max[2] \in Int
      <3>1. pool.max \in {"%", "int", "text"} \X Int
        BY <1>3, WebhookAssumption DEF Limit
      <3> QED  BY <3>1, Components
    <2>2. pool.max[1] # "text" /\ (pool.max[1] = "%" => pool.max[2] \in 1 .. 100)
      BY <1>1, <1>3 DEF MaxUnavailable
    <2>3. CASE pool.max[1] = "%"
      <3>1. MaxUnavailable(pool, n) = (pool.max[2] * n) \div 100
        BY <1>3, <2>2, <2>3 DEF MaxUnavailable
      <3> QED  BY <1>3, <2>2, <2>3, <3>1, Share
    <2>4. CASE pool.max[1] # "%"
      <3>1. ~(pool.max[2] < 0)
        BY <1>1, <1>3, <2>2, <2>4 DEF MaxUnavailable
      <3>2. MaxUnavailable(pool, n) = pool.max[2]
        BY <1>3, <2>2, <2>4, <3>1 DEF MaxUnavailable
      <3>3. pool.max[2] \in Nat
        BY <2>1, <3>1, SMT
      <3> QED  BY <1>3, <2>4, <3>2, <3>3
    <2> QED  BY <2>3, <2>4
  <1> QED  BY <1>2, <1>3

-----------------------------------------------------------------------------
(* What the steps do to the requests.                                       *)
LEMMA AnswerStep ==
  ASSUME Types, NEW r \in Handler, NEW pc \in Steps, Answer(r, pc)
  PROVE  /\ h' \in [Handler -> Request] /\ \A q \in Handler \ {r} : h'[q] = h[q]
         /\ h'[r].pc = pc /\ View(h[r], h'[r]) /\ h'[r].todo = h[r].todo
         /\ h'[r].with = h[r].with /\ h'[r].late = h[r].late /\ h'[r].stale = h[r].stale
  <1>1. h[r] \in Request /\ h \in [Handler -> Request]
    BY DEF Types
  <1>2. PICK x \in Request : x = h[r]
    BY <1>1
  <1>3. h' = [h EXCEPT ![r] = [x EXCEPT !.pc = pc]]
    BY <1>2 DEF Answer
  <1>4. h'[r] = [x EXCEPT !.pc = pc] /\ \A q \in Handler \ {r} : h'[q] = h[q]
    BY <1>1, <1>3
  <1>5. h' \in [Handler -> Request]
    BY <1>1, <1>3, SetPc
  <1>6. /\ h'[r].pc = pc /\ View(x, h'[r]) /\ h'[r].todo = x.todo
        /\ h'[r].with = x.with /\ h'[r].late = x.late /\ h'[r].stale = x.stale
    BY <1>4, SetPc, SMT
  <1> QED  BY <1>2, <1>4, <1>5, <1>6

LEMMA IdleStep ==
  ASSUME Types, NEW r \in Handler, h' = [h EXCEPT ![r] = Idle]
  PROVE  /\ h' \in [Handler -> Request] /\ \A q \in Handler \ {r} : h'[q] = h[q]
         /\ h'[r] = Idle
  BY IdleTyped DEF Types

LEMMA OutdatedStep ==
  ASSUME NEW g \in [Handler -> Request]
  PROVE  /\ Outdated(g) \in [Handler -> Request]
         /\ \A q \in Handler : LET x == g[q]  y == Outdated(g)[q] IN
               /\ View(x, y) /\ y.pc = x.pc /\ y.todo = x.todo /\ y.with = x.with
               /\ x.op = "" => y = x
               /\ x.op # "" => y.stale
  <1>1. ASSUME NEW q \in Handler
        PROVE  LET x == g[q]  y == Outdated(g)[q] IN
               /\ y \in Request
               /\ View(x, y) /\ y.pc = x.pc /\ y.todo = x.todo /\ y.with = x.with
               /\ x.op = "" => y = x
               /\ x.op # "" => y.stale
    <2>1. PICK x \in Request : x = g[q]
      OBVIOUS
    <2>2. CASE x.op = ""
      <3>1. Outdated(g)[q] = x
        BY <2>1, <2>2 DEF Outdated
      <3> QED  BY <2>1, <2>2, <3>1 DEF View
    <2>3. CASE x.op # ""
      <3>1. Outdated(g)[q] = [x EXCEPT !.stale = TRUE]
        BY <2>1, <2>3 DEF Outdated
      <3> QED  BY <2>1, <2>3, <3>1, SetStale, ZenonT(60)
    <2> QED  BY <2>2, <2>3
  <1>2. Outdated(g) = [q \in Handler |-> Outdated(g)[q]]
    BY DEF Outdated
  <1>3. Outdated(g) \in [Handler -> Request]
    BY <1>1, <1>2
  <1> QED  BY <1>1, <1>3

LEMMA SubmitStep ==
  ASSUME Types, NEW r \in Handler, NEW req \in Request, Submit(r, req)
  PROVE  /\ h' \in [Handler -> Request]
         /\ h'[r].pc = req.pc /\ View(req, h'[r]) /\ h'[r].stale = req.stale
         /\ h'[r].with = {h[s].name : s \in InFlight}
         /\ \A q \in Handler \ {r} :
               /\ Passive(q) /\ h'[q].stale = h[q].stale /\ h'[q].late = h[q].late
               /\ q \in InFlight /\ req.op = "" => req.name \in h'[q].with
               /\ req.op # "" => h'[q] = h[q]
  <1> DEFINE w == {h[s].name : s \in InFlight}
  <1>1. h \in [Handler -> Request] /\ InFlight \subseteq Handler
    BY DEF Types, InFlight
  <1>2. w \in SUBSET Nat /\ req.name \in Nat
    <2>1. \A x \in Request : x.name \in Nat
      BY DEF Request
    <2> QED  BY <1>1, <2>1
  <1> HIDE DEF w
  <1> DEFINE new(q) == IF q = r THEN [req EXCEPT !.with = w]
                       ELSE IF q \in InFlight /\ req.op = "" THEN [h[q] EXCEPT !.with = @ \cup {req.name}]
                       ELSE h[q]
  <1>3. h' = [q \in Handler |-> new(q)]
    BY DEF Submit, w
  <1>4. /\ h'[r] \in Request /\ h'[r].pc = req.pc /\ View(req, h'[r])
        /\ h'[r].stale = req.stale /\ h'[r].with = w
    <2>1. h'[r] = [req EXCEPT !.with = w]
      BY <1>3
    <2>2. PICK y : y = h'[r]
      OBVIOUS
    <2>3. y \in Request /\ y.with = w /\ View(req, y) /\ y.pc = req.pc /\ y.stale = req.stale
      BY <1>2, <2>1, <2>2, SetWith, SMT
    <2> QED  BY <2>2, <2>3
  <1>5. ASSUME NEW q \in Handler \ {r}
        PROVE  /\ h'[q] \in Request
               /\ Passive(q) /\ h'[q].stale = h[q].stale /\ h'[q].late = h[q].late
               /\ q \in InFlight /\ req.op = "" => req.name \in h'[q].with
               /\ req.op # "" => h'[q] = h[q]
    <2>1. PICK x \in Request : x = h[q]
      BY <1>1
    <2>2. CASE q \in InFlight /\ req.op = ""
      <3>1. h'[q] = [x EXCEPT !.with = x.with \cup {req.name}]
        BY <1>3, <2>1, <2>2
      <3>2. PICK v \in SUBSET Nat : v = x.with \cup {req.name}
        BY <1>2 DEF Request
      <3>3. h[q].pc # "idle"
        BY <2>2 DEF InFlight
      <3>4. PICK y : y = h'[q] /\ y = [x EXCEPT !.with = v]
        BY <3>1, <3>2
      <3>5. /\ y \in Request /\ y.with = v /\ View(x, y) /\ y.pc = x.pc
            /\ y.todo = x.todo /\ y.late = x.late /\ y.stale = x.stale
        BY <3>4, SetWith, SMTT(30)
      <3>6. Passive(q)
        BY <2>1, <3>2, <3>3, <3>4, <3>5 DEF Passive
      <3> QED  BY <2>1, <2>2, <3>2, <3>4, <3>5, <3>6
    <2>3. CASE ~(q \in InFlight /\ req.op = "")
      <3>1. h'[q] = h[q]
        BY <1>3, <2>3
      <3> QED  BY <2>1, <2>3, <3>1 DEF Passive, View
    <2> QED  BY <2>2, <2>3
  <1>6. h' \in [Handler -> Request]
    BY <1>3, <1>4, <1>5
  <1> QED  BY <1>4, <1>5, <1>6 DEF w

-----------------------------------------------------------------------------
(* What a step leaves alone stays right.                                    *)
PolicyPart == PolicyInv /\ StoredInv /\ OverlapInv /\ SeenInv /\ CheckInv /\ FlagsInv /\ AdmittedDisjoint

LEMMA QuietPolicies ==
  ASSUME WebhookInv, Quiet, UNCHANGED <<policies, together>>
  PROVE  PolicyPart'
  <1>1. PolicyInv' /\ OverlapInv' /\ CheckInv' /\ FlagsInv'
    BY QuietStep DEF WebhookInv
  <1>2. SeenInv'
    BY SeenKept DEF WebhookInv, Quiet
  <1>3. StoredInv' /\ AdmittedDisjoint'
    BY DEF WebhookInv, StoredInv, AdmittedDisjoint
  <1> QED  BY <1>1, <1>2, <1>3 DEF PolicyPart

(* A handler that is as it was, or only noted more nodes as late.           *)
SameConfig(q) ==
    /\ h'[q].op = h[q].op /\ h'[q].stale = h[q].stale /\ h'[q].pc = h[q].pc /\ h'[q].to = h[q].to
    /\ h[q].late \subseteq h'[q].late
LEMMA ConfigKept ==
  ASSUME ConfigInv, UNCHANGED config, updating' \subseteq updating,
         \A q \in Handler : h'[q].op = "update" /\ ~h'[q].stale =>
             SameConfig(q) \/ (config # "absent" /\ h'[q].pc # "admit")
  PROVE  ConfigInv'
  <1> SUFFICES ASSUME NEW q \in Handler, h'[q].op = "update", ~h'[q].stale
               PROVE  /\ config' # "absent"
                      /\ h'[q].pc = "admit" /\ h'[q].to = "noDrain" /\ config' = "drain"
                            => updating' \subseteq h'[q].late
    BY DEF ConfigInv
  <1>1. CASE SameConfig(q)
    <2>1. h[q].op = "update" /\ ~h[q].stale /\ h'[q].pc = h[q].pc /\ h'[q].to = h[q].to
      BY <1>1 DEF SameConfig
    <2>2. h[q].late \subseteq h'[q].late
      BY <1>1 DEF SameConfig
    <2> QED  BY <2>1, <2>2 DEF ConfigInv
  <1>2. CASE config # "absent" /\ h'[q].pc # "admit"
    BY <1>2
  <1> QED  BY <1>1, <1>2

(* An idle handler writes no config.                                        *)
LEMMA IdleFields == Idle.pc = "idle" /\ Idle.op = "" /\ Idle.op # "update"
  BY DEF Idle

LEMMA SameRequests ==
  ASSUME UNCHANGED <<h, flags>>
  PROVE  Quiet /\ \A q \in Handler : SameConfig(q)
  <1>1. InFlight' = InFlight
    BY DEF InFlight
  <1> QED  BY <1>1 DEF Quiet, Passive, View, SameConfig

(* Pools and networks, nodes that report or finish; a stutter.              *)
LEMMA EnvironmentKeeps ==
  ASSUME WebhookInv,
         \/ \E pool \in Pool : PutPool(pool)
         \/ \E cr \in Network : PutNetwork(cr)
         \/ \E n \in Node : NodeReports(n) \/ UpdateEnds(n)
         \/ UNCHANGED webhookVars
  PROVE  WebhookInv'
  <1>1. UNCHANGED <<h, flags, policies, together, config>> /\ updating' \subseteq updating
    BY DEF PutPool, PutNetwork, NodeReports, UpdateEnds, stored, flags, webhookVars
  <1>2. PolicyPart'
    BY <1>1, SameRequests, QuietPolicies
  <1>3. Types'
    <2>1. reported' \subseteq Node
      BY DEF WebhookInv, Types, PutPool, PutNetwork, NodeReports, UpdateEnds, webhookVars
    <2> QED  BY <1>1, <2>1 DEF WebhookInv, Types, flags
  <1>4. IdleInv'
    BY <1>1 DEF WebhookInv, IdleInv
  <1>5. ConfigInv'
    BY <1>1, SameRequests, ConfigKept DEF WebhookInv
  <1>6. PoolInv'
    <2>1. CASE UNCHANGED other
      BY <2>1 DEF WebhookInv, PoolInv
    <2>2. ASSUME NEW pool \in Pool, PutPool(pool) PROVE PoolInv'
      BY <2>2 DEF PutPool, PoolInv
    <2>3. ASSUME NEW cr \in Network, PutNetwork(cr) PROVE PoolInv'
      <3>1. other' \cap Pool = {}
        BY <2>3, WebhookAssumption DEF PutNetwork
      <3> QED  BY <3>1 DEF PoolInv
    <2>4. CASE (\E n \in Node : NodeReports(n) \/ UpdateEnds(n)) \/ UNCHANGED webhookVars
      <3>1. UNCHANGED other
        BY <2>4 DEF NodeReports, UpdateEnds, stored, webhookVars
      <3> QED  BY <2>1, <3>1
    <2> QED  BY <2>2, <2>3, <2>4
  <1> QED  BY <1>2, <1>3, <1>4, <1>5, <1>6 DEF WebhookInv, PolicyPart

LEMMA IdleKept ==
  ASSUME IdleInv, \A q \in Handler : Passive(q)
  PROVE  IdleInv'
  <1>1. \A q \in Handler : /\ h'[q].pc = h[q].pc /\ h'[q].op = h[q].op /\ h'[q].to = h[q].to
                           /\ h[q].pc = "idle" => h'[q] = h[q]
    BY DEF Passive, View
  <1>2. \A q \in Handler : h'[q].pc = "idle" => h'[q] = Idle
    BY <1>1 DEF IdleInv
  <1>3. \A q \in Handler : h'[q].pc \in {"config", "states"} => h'[q].op # ""
    BY <1>1 DEF IdleInv
  <1>4. \A q \in Handler : h'[q].pc \in {"start", "list", "check"} => h'[q].op = ""
    BY <1>1 DEF IdleInv
  <1>5. \A q \in Handler : h'[q].op # "" => h'[q].to # ""
    BY <1>1 DEF IdleInv
  <1>6. Idle' = Idle
    BY DEF Idle, NoPolicies
  <1> QED  BY <1>2, <1>3, <1>4, <1>5, <1>6 DEF IdleInv

(* A node starts an update: what was admitted before is late.               *)
LEMMA UpdateStartsKeeps ==
  ASSUME WebhookInv, NEW n \in Node, UpdateStarts(n)
  PROVE  WebhookInv'
  <1>1. h \in [Handler -> Request] /\ UNCHANGED <<flags, policies, together, config, other, reported>>
    BY DEF WebhookInv, Types, UpdateStarts, stored
  <1>2. ASSUME NEW q \in Handler
        PROVE  /\ h'[q] \in Request /\ Passive(q) /\ h'[q].stale = h[q].stale
               /\ h'[q].late = IF h[q].pc = "admit" THEN h[q].late \cup {n} ELSE h[q].late
    <2>1. PICK x \in Request : x = h[q]
      BY <1>1
    <2>2. CASE h[q].pc = "admit"
      <3>1. PICK v \in SUBSET Node : v = x.late \cup {n}
        BY DEF Request
      <3>2. PICK y : y = h'[q] /\ y = [x EXCEPT !.late = v]
        BY <2>1, <2>2, <3>1 DEF UpdateStarts
      <3>3. /\ y \in Request /\ y.late = v /\ View(x, y) /\ y.pc = x.pc
            /\ y.todo = x.todo /\ y.with = x.with /\ y.stale = x.stale
        BY <3>2, SetLate, SMTT(30)
      <3>4. Passive(q)
        BY <2>1, <2>2, <3>2, <3>3 DEF Passive
      <3> QED  BY <2>1, <2>2, <3>1, <3>2, <3>3, <3>4
    <2>3. CASE h[q].pc # "admit"
      <3>1. h'[q] = h[q]
        BY <2>3 DEF UpdateStarts
      <3> QED  BY <2>1, <2>3, <3>1 DEF Passive, View
    <2> QED  BY <2>2, <2>3
  <1>3. Types'
    <2>1. h' \in [Handler -> Request]
      BY <1>2 DEF UpdateStarts
    <2>2. updating' \subseteq Node
      BY DEF WebhookInv, Types, UpdateStarts
    <2> QED  BY <1>1, <2>1, <2>2 DEF WebhookInv, Types, flags
  <1>4. Quiet
    BY <1>1, <1>2, PassiveSame DEF Quiet, InFlight
  <1>5. PolicyPart'
    BY <1>1, <1>4, QuietPolicies
  <1>6. IdleInv'
    BY <1>2, IdleKept DEF WebhookInv
  <1>7. ConfigInv'
    <2> SUFFICES ASSUME NEW q \in Handler, h'[q].op = "update", ~h'[q].stale
                 PROVE  /\ config' # "absent"
                        /\ h'[q].pc = "admit" /\ h'[q].to = "noDrain" /\ config' = "drain"
                              => updating' \subseteq h'[q].late
      BY DEF ConfigInv
    <2>1. h[q].op = "update" /\ ~h[q].stale /\ h'[q].pc = h[q].pc /\ h'[q].to = h[q].to
      BY <1>2 DEF Passive, View
    <2>2. updating' = updating \cup {n}
      BY DEF UpdateStarts
    <2>3. h[q].pc = "admit" => h'[q].late = h[q].late \cup {n}
      BY <1>2
    <2> QED  BY <1>1, <2>1, <2>2, <2>3 DEF WebhookInv, ConfigInv
  <1>8. PoolInv'
    BY <1>1 DEF WebhookInv, PoolInv
  <1> QED  BY <1>3, <1>5, <1>6, <1>7, <1>8 DEF WebhookInv, PolicyPart

(* The config is deleted: every update of it is outdated.                   *)
LEMMA DeleteConfigKeeps ==
  ASSUME WebhookInv, DeleteConfig
  PROVE  WebhookInv'
  <1>1. /\ h \in [Handler -> Request] /\ h' = Outdated(h) /\ config' = "absent"
        /\ UNCHANGED <<flags, policies, together, other, reported, updating>>
    BY DEF WebhookInv, Types, DeleteConfig, flags
  <1>2. ASSUME NEW q \in Handler
        PROVE  /\ Passive(q) /\ (h'[q].op # "" => h'[q].stale)
    <2>1. /\ View(h[q], h'[q]) /\ h'[q].pc = h[q].pc /\ h'[q].todo = h[q].todo /\ h'[q].with = h[q].with
          /\ h[q].op = "" => h'[q] = h[q]
          /\ h[q].op # "" => h'[q].stale
      BY <1>1, OutdatedStep
    <2>2. h[q].pc = "idle" => h[q].op = ""
      BY IdleFields DEF WebhookInv, IdleInv
    <2>3. h'[q].op = h[q].op
      BY <2>1 DEF View
    <2> QED  BY <2>1, <2>2, <2>3 DEF Passive
  <1>3. Types'
    <2>1. h' \in [Handler -> Request]
      BY <1>1, OutdatedStep
    <2> QED  BY <1>1, <2>1 DEF WebhookInv, Types, flags
  <1>4. Quiet
    BY <1>1, <1>2, PassiveSame DEF Quiet, InFlight
  <1>5. PolicyPart'
    BY <1>1, <1>4, QuietPolicies
  <1>6. IdleInv'
    BY <1>2, IdleKept DEF WebhookInv
  <1>7. ConfigInv'
    BY <1>2 DEF ConfigInv
  <1>8. PoolInv'
    BY <1>1 DEF WebhookInv, PoolInv
  <1> QED  BY <1>3, <1>5, <1>6, <1>7, <1>8 DEF WebhookInv, PolicyPart

(* validateSriovOperatorConfig: to admit while drains are on, it saw no     *)
(* node updating.                                                           *)
LEMMA ConfigChecksKeep ==
  ASSUME WebhookInv, NEW r \in Handler, CheckPrevious(r) \/ CheckStates(r)
  PROVE  WebhookInv'
  <1>1. /\ Types /\ h[r].pc \in {"config", "states"} /\ h[r].op # ""
        /\ UNCHANGED <<flags, policies, together, config, other, reported, updating>>
    BY DEF WebhookInv, IdleInv, CheckPrevious, CheckStates, stored
  <1>2. PICK pc \in {"admit", "states", "deny"} :
          /\ Answer(r, pc)
          /\ pc = "admit" /\ h[r].to = "noDrain" /\ config = "drain" => updating = {}
    <2>1. CASE CheckPrevious(r)
      <3> DEFINE pc == IF h[r].to = "drain" \/ config \in {"absent", h[r].to} THEN "admit" ELSE "states"
      <3>1. Answer(r, pc) /\ pc \in {"admit", "states", "deny"}
        BY <2>1 DEF CheckPrevious
      <3>2. h[r].to = "noDrain" /\ config = "drain" => pc # "admit"
        OBVIOUS
      <3> QED  BY <3>1, <3>2
    <2>2. CASE CheckStates(r)
      BY <2>2 DEF CheckStates
    <2> QED  BY <2>1, <2>2
  <1>3. pc \in Steps
    BY DEF Steps
  <1>4. /\ h' \in [Handler -> Request] /\ \A q \in Handler \ {r} : h'[q] = h[q]
        /\ h'[r].pc = pc /\ View(h[r], h'[r]) /\ h'[r].late = h[r].late /\ h'[r].stale = h[r].stale
    BY <1>1, <1>2, <1>3, AnswerStep
  <1>5. h'[r].op = h[r].op /\ h'[r].to = h[r].to
    BY <1>4 DEF View
  <1>6. Types'
    BY <1>1, <1>4 DEF Types, flags
  <1>7. Quiet
    <2>1. \A q \in Handler \ {r} : Passive(q)
      BY <1>4 DEF Passive, View
    <2>2. r \notin InFlight'
      BY <1>1, <1>5 DEF InFlight
    <2> QED  BY <1>1, <2>1, <2>2, PassiveSame DEF Quiet, InFlight
  <1>8. PolicyPart'
    BY <1>1, <1>7, QuietPolicies
  <1>9. IdleInv'
    BY <1>1, <1>4, <1>5, ZenonT(60) DEF WebhookInv, IdleInv
  <1>10. ConfigInv'
    <2> SUFFICES ASSUME NEW q \in Handler, h'[q].op = "update", ~h'[q].stale
                 PROVE  /\ config' # "absent"
                        /\ h'[q].pc = "admit" /\ h'[q].to = "noDrain" /\ config' = "drain"
                              => updating' \subseteq h'[q].late
      BY DEF ConfigInv
    <2>1. CASE q = r
      BY <1>1, <1>2, <1>4, <1>5, <2>1 DEF WebhookInv, ConfigInv
    <2>2. CASE q # r
      BY <1>1, <1>4, <2>2 DEF WebhookInv, ConfigInv
    <2> QED  BY <2>1, <2>2
  <1>11. PoolInv'
    BY <1>1 DEF WebhookInv, PoolInv
  <1> QED  BY <1>6, <1>8, <1>9, <1>10, <1>11 DEF WebhookInv, PolicyPart

(* A request that is not of a policy, or ends.                              *)
LEMMA OneLeaves ==
  ASSUME WebhookInv, NEW r \in Handler, \A q \in Handler \ {r} : Passive(q), r \notin InFlight',
         UNCHANGED <<flags, policies, together>>
  PROVE  PolicyPart'
  <1>1. Quiet
    BY PassiveSame DEF Quiet, InFlight
  <1> QED  BY <1>1, QuietPolicies

LEMMA IdleOr ==
  ASSUME IdleInv, NEW r \in Handler, \A q \in Handler \ {r} : Passive(q),
         \/ h'[r] = Idle
         \/ h'[r].pc = "config" /\ h'[r].op # "" /\ h'[r].to # ""
         \/ h'[r].pc \in {"start", "list", "check"} /\ h'[r].op = ""
         \/ h'[r].pc \in {"admit", "deny"} /\ h'[r].op = ""
  PROVE  IdleInv'
  <1>1. ASSUME NEW q \in Handler
        PROVE  /\ h'[q].pc = "idle" => h'[q] = Idle
               /\ h'[q].pc \in {"config", "states"} => h'[q].op # ""
               /\ h'[q].pc \in {"start", "list", "check"} => h'[q].op = ""
               /\ h'[q].op # "" => h'[q].to # ""
    <2>1. CASE q = r
      <3>1. CASE h'[r] = Idle
        BY <2>1, <3>1, IdleFields
      <3> QED  BY <2>1, <3>1
    <2>2. CASE q # r
      <3>1. /\ h'[q].pc = h[q].pc /\ h'[q].op = h[q].op /\ h'[q].to = h[q].to
            /\ h[q].pc = "idle" => h'[q] = h[q]
        BY <2>2 DEF Passive, View
      <3> QED  BY <3>1 DEF IdleInv
    <2> QED  BY <2>1, <2>2
  <1>2. Idle' = Idle
    BY DEF Idle, NoPolicies
  <1> QED  BY <1>1, <1>2 DEF IdleInv

(* The refused request is gone.                                             *)
LEMMA RefuseKeeps ==
  ASSUME WebhookInv, NEW r \in Handler, Refuse(r)
  PROVE  WebhookInv'
  <1>1. /\ Types /\ h' = [h EXCEPT ![r] = Idle]
        /\ UNCHANGED <<flags, policies, together, config, other, reported, updating>>
    BY DEF WebhookInv, Refuse, stored
  <1>2. h' \in [Handler -> Request] /\ (\A q \in Handler \ {r} : h'[q] = h[q]) /\ h'[r] = Idle
    BY <1>1, IdleStep
  <1>3. \A q \in Handler \ {r} : Passive(q) /\ SameConfig(q)
    BY <1>2 DEF Passive, View, SameConfig
  <1>4. r \notin InFlight'
    BY <1>2, IdleFields DEF InFlight
  <1>5. PolicyPart'
    BY <1>1, <1>3, <1>4, OneLeaves
  <1>6. Types'
    BY <1>1, <1>2 DEF Types, flags
  <1>7. IdleInv'
    BY <1>2, <1>3, IdleOr DEF WebhookInv
  <1>8. ConfigInv'
    BY <1>1, <1>2, <1>3, IdleFields, ConfigKept DEF WebhookInv
  <1>9. PoolInv'
    BY <1>1 DEF WebhookInv, PoolInv
  <1> QED  BY <1>5, <1>6, <1>7, <1>8, <1>9 DEF WebhookInv, PolicyPart

(* The config is stored, validated again, or was deleted meanwhile.         *)
LEMMA StoreConfigKeeps ==
  ASSUME WebhookInv, NEW r \in Handler, StoreConfig(r)
  PROVE  WebhookInv'
  <1>1. /\ Types /\ h[r].pc = "admit" /\ h[r].op # "" /\ h \in [Handler -> Request]
        /\ UNCHANGED <<flags, policies, together, other, reported, updating>>
    BY DEF WebhookInv, StoreConfig, flags, Types
  <1>2. PoolInv'
    BY <1>1 DEF WebhookInv, PoolInv
  <1> DEFINE g == [h EXCEPT ![r] = Idle]
  <1>3. g \in [Handler -> Request] /\ (\A q \in Handler \ {r} : g[q] = h[q]) /\ g[r] = Idle
    BY <1>1, IdleTyped
  <1> HIDE DEF g
  <1>4. CASE ~(h[r].op = "update" /\ h[r].stale) /\ config' = h[r].to /\ h' = Outdated(g)
    <2>1. h' \in [Handler -> Request]
      BY <1>3, <1>4, OutdatedStep
    <2>2. ASSUME NEW q \in Handler
          PROVE  /\ View(g[q], h'[q]) /\ h'[q].pc = g[q].pc /\ h'[q].todo = g[q].todo
                 /\ h'[q].with = g[q].with
                 /\ g[q].op = "" => h'[q] = g[q]
                 /\ g[q].op # "" => h'[q].stale
      BY <1>3, <1>4, OutdatedStep
    <2>3. h'[r] = Idle
      BY <1>3, <2>2, IdleFields
    <2>4. ASSUME NEW q \in Handler \ {r} PROVE Passive(q)
      <3>1. h[q].pc = "idle" => h[q].op = ""
        BY IdleFields DEF WebhookInv, IdleInv
      <3> QED  BY <1>3, <2>2, <3>1, ZenonT(60) DEF Passive
    <2>5. r \notin InFlight'
      BY <2>3, IdleFields DEF InFlight
    <2>6. PolicyPart'
      BY <1>1, <2>4, <2>5, OneLeaves
    <2>7. IdleInv'
      BY <2>3, <2>4, IdleOr DEF WebhookInv
    <2>8. ASSUME NEW q \in Handler, h'[q].op = "update" PROVE h'[q].stale
      <3>1. h'[q].op = g[q].op
        BY <2>2 DEF View
      <3> QED  BY <2>2, <2>8, <3>1
    <2>9. ConfigInv'
      BY <2>8 DEF ConfigInv
    <2>10. config' \in {"absent", "drain", "noDrain"}
      <3>1. h[r].to # ""
        BY <1>1 DEF WebhookInv, IdleInv
      <3> QED  BY <1>1, <1>4, <3>1 DEF Request
    <2>11. Types'
      BY <1>1, <2>1, <2>10 DEF Types, flags
    <2> QED  BY <1>2, <2>6, <2>7, <2>9, <2>11 DEF WebhookInv, PolicyPart
  <1>5. CASE /\ h[r].op = "update" /\ h[r].stale /\ config # "absent" /\ UNCHANGED config
             /\ h' = [h EXCEPT ![r] = [@ EXCEPT !.pc = "config", !.stale = FALSE, !.late = {}]]
    <2>1. PICK x \in Request : x = h[r]
      BY <1>1
    <2>2. PICK y : y = h'[r] /\ y = [x EXCEPT !.pc = "config", !.stale = FALSE, !.late = {}]
      BY <1>1, <1>5, <2>1
    <2>3. y \in Request /\ y.pc = "config" /\ y.op = x.op /\ y.to = x.to
      BY <2>2, SetRetry
    <2>4. h' = [h EXCEPT ![r] = y]
      BY <1>1, <1>5, <2>1, <2>2
    <2>5. h' \in [Handler -> Request] /\ \A q \in Handler \ {r} : h'[q] = h[q]
      BY <1>1, <2>3, <2>4
    <2>6. \A q \in Handler \ {r} : Passive(q) /\ SameConfig(q)
      BY <2>5 DEF Passive, View, SameConfig
    <2>7. h'[r].pc = "config" /\ h'[r].op # "" /\ h'[r].to # ""
      <3>1. h[r].to # ""
        BY <1>1 DEF WebhookInv, IdleInv
      <3> QED  BY <1>1, <2>1, <2>2, <2>3, <3>1
    <2>8. r \notin InFlight'
      BY <2>7 DEF InFlight
    <2>9. PolicyPart'
      BY <1>1, <2>6, <2>8, OneLeaves
    <2>10. IdleInv'
      BY <2>6, <2>7, IdleOr DEF WebhookInv
    <2>11. ConfigInv'
      <3>1. h'[r].pc # "admit" /\ updating' \subseteq updating
        BY <1>1, <2>7
      <3> QED  BY <1>5, <2>6, <3>1, ConfigKept DEF WebhookInv
    <2>12. Types'
      BY <1>1, <1>5, <2>5 DEF Types, flags
    <2> QED  BY <1>2, <2>9, <2>10, <2>11, <2>12 DEF WebhookInv, PolicyPart
  <1>6. CASE h' = g /\ UNCHANGED config
    <2>1. \A q \in Handler \ {r} : Passive(q) /\ SameConfig(q)
      BY <1>3, <1>6 DEF Passive, View, SameConfig
    <2>2. r \notin InFlight'
      BY <1>3, <1>6, IdleFields DEF InFlight
    <2>3. PolicyPart'
      BY <1>1, <2>1, <2>2, OneLeaves
    <2>4. IdleInv'
      BY <1>3, <1>6, <2>1, IdleOr DEF WebhookInv
    <2>5. ConfigInv'
      <3>1. h'[r].op # "update" /\ updating' \subseteq updating
        BY <1>1, <1>3, <1>6, IdleFields
      <3> QED  BY <1>6, <2>1, <3>1, ConfigKept DEF WebhookInv
    <2>6. Types'
      BY <1>1, <1>3, <1>6 DEF Types, flags
    <2> QED  BY <1>2, <2>3, <2>4, <2>5, <2>6 DEF WebhookInv, PolicyPart
  <1> QED  BY <1>4, <1>5, <1>6 DEF StoreConfig, g

-----------------------------------------------------------------------------
(* Policies.                                                                *)
LEMMA MapTyped ==
  /\ \A f \in PolicyMap : DOMAIN f \subseteq Name /\ \A b \in DOMAIN f : f[b] \in PolicySpec
  /\ \A S \in SUBSET Name : \A f \in [S -> PolicySpec] : f \in PolicyMap
  BY DEF PolicyMap

LEMMA DeletePolicyKeeps ==
  ASSUME WebhookInv, NEW a \in Name, DeletePolicy(a)
  PROVE  WebhookInv'
  <1>1. /\ Types /\ policies' = [b \in DOMAIN policies \ {a} |-> policies[b]]
        /\ together' = {e \in together : a \notin e}
        /\ UNCHANGED <<flags, h, config, other, reported, updating>>
    BY DEF WebhookInv, DeletePolicy
  <1>2. /\ DOMAIN policies' = DOMAIN policies \ {a}
        /\ \A b \in DOMAIN policies' : policies'[b] = policies[b]
    BY <1>1
  <1>3. Quiet /\ \A q \in Handler : SameConfig(q)
    BY <1>1, SameRequests
  <1>4. PolicyInv' /\ OverlapInv' /\ CheckInv' /\ FlagsInv'
    BY <1>3, QuietStep DEF WebhookInv
  <1>5. SeenInv'
    BY <1>2, <1>3, SeenKept DEF WebhookInv, Quiet
  <1>6. StoredInv'
    BY <1>2 DEF WebhookInv, StoredInv
  <1>7. AdmittedDisjoint'
    <2> SUFFICES ASSUME NEW b \in DOMAIN policies' \ {DefaultPolicyName},
                        NEW c \in DOMAIN policies' \ {DefaultPolicyName},
                        b # c, {b, c} \notin together'
                 PROVE  TakeDifferentVfs(policies'[b], policies'[c])
      BY DEF AdmittedDisjoint, TakeDifferentVfs
    <2>1. a \notin {b, c} /\ b \in DOMAIN policies \ {DefaultPolicyName}
          /\ c \in DOMAIN policies \ {DefaultPolicyName}
          /\ policies'[b] = policies[b] /\ policies'[c] = policies[c]
      BY <1>2
    <2>2. {b, c} \notin together
      BY <1>1, <2>1
    <2> QED  BY <2>1, <2>2 DEF WebhookInv, AdmittedDisjoint
  <1>8. Types'
    <2>1. policies' \in [DOMAIN policies \ {a} -> PolicySpec] /\ DOMAIN policies \ {a} \in SUBSET Name
      BY <1>1, MapTyped DEF Types
    <2>2. policies' \in PolicyMap
      BY <2>1, MapTyped
    <2> QED  BY <1>1, <2>2 DEF Types, flags
  <1>9. IdleInv'
    <2>1. Idle' = Idle
      BY DEF Idle, NoPolicies
    <2> QED  BY <1>1, <2>1 DEF WebhookInv, IdleInv
  <1>10. ConfigInv'
    BY <1>1, <1>3, ConfigKept DEF WebhookInv
  <1>11. PoolInv'
    BY <1>1 DEF WebhookInv, PoolInv
  <1> QED  BY <1>4, <1>5, <1>6, <1>7, <1>8, <1>9, <1>10, <1>11 DEF WebhookInv

LEMMA SubmitConfigKeeps ==
  ASSUME WebhookInv, NEW r \in Handler, NEW to \in {"drain", "noDrain"}, SubmitConfig(r, to)
  PROVE  WebhookInv'
  <1>1. PICK op \in {"create", "update"} :
          /\ op = IF config = "absent" THEN "create" ELSE "update"
          /\ Submit(r, [Idle EXCEPT !.pc = "config", !.to = to, !.op = op])
    BY DEF SubmitConfig
  <1>2. PICK req \in Request :
          Submit(r, req) /\ req.pc = "config" /\ req.op = op /\ req.to = to /\ ~req.stale
    BY <1>1, NewConfig
  <1>3. Types /\ UNCHANGED <<flags, policies, together, config, other, reported, updating>>
    BY <1>2 DEF WebhookInv, Submit, stored
  <1>4. /\ h' \in [Handler -> Request] /\ h'[r].pc = "config" /\ View(req, h'[r])
        /\ \A q \in Handler \ {r} : Passive(q) /\ h'[q] = h[q]
    BY <1>2, <1>3, SubmitStep
  <1>5. h'[r].op = op /\ h'[r].op # "" /\ h'[r].to # ""
    BY <1>2, <1>4 DEF View
  <1>6. PolicyPart'
    <2>1. r \notin InFlight'
      BY <1>5 DEF InFlight
    <2> QED  BY <1>3, <1>4, <2>1, OneLeaves
  <1>7. Types'
    BY <1>3, <1>4 DEF Types, flags
  <1>8. IdleInv'
    BY <1>4, <1>5, IdleOr DEF WebhookInv
  <1>9. ConfigInv'
    <2>1. updating' \subseteq updating /\ h'[r].pc # "admit"
      BY <1>3, <1>4
    <2>2. \A q \in Handler \ {r} : SameConfig(q)
      BY <1>4 DEF SameConfig
    <2>3. h'[r].op = "update" => config # "absent"
      BY <1>1, <1>5
    <2> QED  BY <1>3, <2>1, <2>2, <2>3, ConfigKept DEF WebhookInv
  <1>10. PoolInv'
    BY <1>3 DEF WebhookInv, PoolInv
  <1> QED  BY <1>6, <1>7, <1>8, <1>9, <1>10 DEF WebhookInv, PolicyPart

(* A step of a policy's request may use the flags: they are not those of    *)
(* the others, who know it is in flight.                                    *)
LEMMA OneActs ==
  ASSUME WebhookInv, NEW r \in Handler, UNCHANGED <<policies, together>>,
         r \in InFlight', h'[r].name \in Name, h'[r].pol \in PolicySpec,
         h'[r].pc \in {"list", "check"} => h'[r].name # DefaultPolicyName,
         Validated(r)' => StaticValidate(h'[r].pol),
         \A q \in Handler \ {r} : /\ Passive(q)
                                  /\ q \in InFlight => /\ h'[r].name \in h'[q].with
                                                       /\ h[q].name \in h'[r].with,
         Listed(r)' =>
             /\ \A b \in DOMAIN policies \ ({h'[r].name} \cup h'[r].with) :
                    b \in DOMAIN h'[r].seen /\ h'[r].seen[b] = policies[b]
             /\ h'[r].todo \subseteq Matches(r)' /\ (h'[r].pc = "admit" => h'[r].todo = {})
             /\ \A n \in Checked(r)' : ~NodeError(r, n)',
         h'[r].with = {} =>
             /\ h'[r].pc = "list" => ~nodesSelected' /\ ~interfaceSelected'
             /\ h'[r].pc = "check" => FlagsOf(r)'
             /\ h'[r].pc = "admit" => Admissible(r)'
             /\ h'[r].pc = "deny" => ~Admissible(r)'
  PROVE  PolicyPart'
  <1>1. ASSUME NEW q \in InFlight', q # r
        PROVE  /\ q \in Handler \ {r} /\ q \in InFlight /\ Passive(q)
               /\ h'[q].pc = h[q].pc /\ h'[q].name = h[q].name /\ h'[q].pol = h[q].pol
               /\ h'[q].todo = h[q].todo /\ h[q].with \subseteq h'[q].with /\ h'[q].seen = h[q].seen
               /\ Checked(q)' = Checked(q) /\ (Listed(q)' <=> Listed(q))
               /\ Validated(q)' <=> Validated(q)
               /\ Matches(q)' = Matches(q) /\ \A n : NodeError(q, n)' <=> NodeError(q, n)
    <2>1. q \in Handler \ {r}
      BY <1>1 DEF InFlight
    <2>2. Passive(q) /\ q \in InFlight
      BY <2>1, PassiveSame
    <2>3. View(h[q], h'[q])
      BY <2>2 DEF Passive
    <2>4. h'[q].name = h[q].name /\ h'[q].pol = h[q].pol /\ h'[q].seen = h[q].seen
      BY <2>3 DEF View
    <2>5. h'[q].pc = h[q].pc /\ h'[q].todo = h[q].todo /\ h[q].with \subseteq h'[q].with
      BY <2>2 DEF Passive
    <2> QED  BY <2>1, <2>2, <2>3, <2>4, <2>5, PassiveSame, SameView
  <1>2. PolicyInv'
    BY <1>1, ZenonT(60) DEF WebhookInv, PolicyInv
  <1>3. OverlapInv'
    <2> SUFFICES ASSUME NEW q \in InFlight', NEW s \in InFlight', q # s PROVE h'[s].name \in h'[q].with
      BY DEF OverlapInv
    <2>1. CASE q = r
      BY <1>1, <2>1
    <2>2. CASE s = r
      BY <1>1, <2>2
    <2>3. CASE q # r /\ s # r
      BY <1>1, <2>3 DEF WebhookInv, OverlapInv
    <2> QED  BY <2>1, <2>2, <2>3
  <1>4. SeenInv'
    <2> SUFFICES ASSUME NEW q \in InFlight', Listed(q)',
                        NEW b \in DOMAIN policies' \ ({h'[q].name} \cup h'[q].with)
                 PROVE  b \in DOMAIN h'[q].seen /\ h'[q].seen[b] = policies'[b]
      BY DEF SeenInv
    <2>1. CASE q = r
      BY <2>1
    <2>2. CASE q # r
      <3>1. b \in DOMAIN policies \ ({h[q].name} \cup h[q].with) /\ Listed(q) /\ h'[q].seen = h[q].seen
        BY <1>1, <2>2
      <3>2. q \in InFlight /\ SeenInv
        BY <1>1, <2>2 DEF WebhookInv
      <3>3. b \in DOMAIN h[q].seen /\ h[q].seen[b] = policies[b]
        BY <3>1, <3>2 DEF SeenInv
      <3>4. policies' = policies
        OBVIOUS
      <3> QED  BY <3>1, <3>3, <3>4
    <2> QED  BY <2>1, <2>2
  <1>5. CheckInv'
    BY <1>1, ZenonT(60) DEF WebhookInv, CheckInv
  <1>6. FlagsInv'
    BY <1>1 DEF FlagsInv
  <1>7. StoredInv' /\ AdmittedDisjoint'
    BY DEF WebhookInv, StoredInv, AdmittedDisjoint
  <1> QED  BY <1>2, <1>3, <1>4, <1>5, <1>6, <1>7 DEF PolicyPart

(* The parts a step of a policy's request leaves alone.                     *)
LEMMA PolicyStepRest ==
  ASSUME WebhookInv, NEW r \in Handler, h' \in [Handler -> Request],
         \A q \in Handler \ {r} : Passive(q) /\ SameConfig(q), h'[r].op = "",
         h'[r].pc \in {"start", "list", "check", "admit", "deny"}, PolicyPart',
         UNCHANGED <<policies, config, other, reported, updating>>,
         nodesSelected' \in BOOLEAN, interfaceSelected' \in BOOLEAN
  PROVE  WebhookInv'
  <1>1. Types'
    BY DEF WebhookInv, Types
  <1>2. IdleInv'
    BY IdleOr DEF WebhookInv
  <1>3. ConfigInv'
    <2>1. h'[r].op # "update" /\ updating' \subseteq updating
      OBVIOUS
    <2> QED  BY <2>1, ConfigKept DEF WebhookInv
  <1>4. PoolInv'
    BY DEF WebhookInv, PoolInv
  <1> QED  BY <1>1, <1>2, <1>3, <1>4 DEF WebhookInv, PolicyPart

LEMMA SubmitPolicyKeeps ==
  ASSUME WebhookInv, NEW r \in Handler, SubmitPolicy(r)
  PROVE  WebhookInv'
  <1>1. PICK a \in Name, p \in PolicySpec :
          Submit(r, [Idle EXCEPT !.pc = "start", !.name = a, !.pol = p])
    BY MutatedTyped DEF SubmitPolicy
  <1>2. PICK req \in Request :
          Submit(r, req) /\ req.pc = "start" /\ req.name = a /\ req.pol \in PolicySpec /\ req.op = ""
    <2> DEFINE y == [Idle EXCEPT !.pc = "start", !.name = a, !.pol = p]
    <2>1. y \in Request /\ y.pc = "start" /\ y.name = a /\ y.pol = p /\ y.op = ""
      BY NewPolicy, ZenonT(60)
    <2>2. Submit(r, y)
      BY <1>1
    <2> HIDE DEF y
    <2> QED  BY <2>1, <2>2
  <1>3. Types /\ UNCHANGED <<flags, policies, together, config, other, reported, updating>>
    BY <1>2 DEF WebhookInv, Submit, stored
  <1>4. /\ h' \in [Handler -> Request] /\ h'[r].pc = "start" /\ View(req, h'[r])
        /\ h'[r].with = {h[s].name : s \in InFlight}
        /\ \A q \in Handler \ {r} :
              /\ Passive(q) /\ h'[q].stale = h[q].stale /\ h'[q].late = h[q].late
              /\ q \in InFlight => a \in h'[q].with
    BY <1>2, <1>3, SubmitStep
  <1>5. h'[r].name = a /\ h'[r].pol \in PolicySpec /\ h'[r].op = ""
    BY <1>2, <1>4 DEF View
  <1>6. \A q \in Handler \ {r} : SameConfig(q)
    BY <1>4 DEF SameConfig, Passive, View
  <1>7. r \in InFlight' /\ ~Listed(r)' /\ ~Validated(r)'
    BY <1>4, <1>5 DEF InFlight, Listed, Validated
  <1>8. PolicyPart'
    BY <1>3, <1>4, <1>5, <1>7, OneActs
  <1>9. nodesSelected' \in BOOLEAN /\ interfaceSelected' \in BOOLEAN
    BY <1>3 DEF Types, flags
  <1> QED  BY <1>3, <1>4, <1>5, <1>6, <1>8, <1>9, PolicyStepRest

(* A policy's request takes a step: it asks for what it asked for.          *)
LEMMA PolicyStep ==
  ASSUME WebhookInv, NEW r \in InFlight, h' \in [Handler -> Request],
         \A q \in Handler \ {r} : h'[q] = h[q],
         h'[r].name = h[r].name, h'[r].pol = h[r].pol, h'[r].op = h[r].op, h'[r].with = h[r].with,
         h'[r].pc \in {"start", "list", "check", "admit", "deny"},
         UNCHANGED <<policies, together, config, other, reported, updating>>,
         nodesSelected' \in BOOLEAN, interfaceSelected' \in BOOLEAN,
         h'[r].pc \in {"list", "check"} => h[r].name # DefaultPolicyName,
         Validated(r)' => StaticValidate(h[r].pol),
         Listed(r)' =>
             /\ \A b \in DOMAIN policies \ ({h[r].name} \cup h[r].with) :
                    b \in DOMAIN h'[r].seen /\ h'[r].seen[b] = policies[b]
             /\ h'[r].todo \subseteq Matches(r)' /\ (h'[r].pc = "admit" => h'[r].todo = {})
             /\ \A n \in Checked(r)' : ~NodeError(r, n)',
         h[r].with = {} =>
             /\ h'[r].pc = "list" => ~nodesSelected' /\ ~interfaceSelected'
             /\ h'[r].pc = "check" => FlagsOf(r)'
             /\ h'[r].pc = "admit" => Admissible(r)'
             /\ h'[r].pc = "deny" => ~Admissible(r)'
  PROVE  WebhookInv'
  <1>1. r \in Handler /\ h[r].op = "" /\ r \in InFlight'
    BY DEF InFlight
  <1>2. h'[r].name \in Name /\ h'[r].pol \in PolicySpec
    BY DEF WebhookInv, PolicyInv
  <1>3. \A q \in Handler \ {r} : Passive(q) /\ SameConfig(q)
    BY DEF Passive, SameConfig, View
  <1>4. \A q \in Handler \ {r} : q \in InFlight => h'[r].name \in h'[q].with /\ h[q].name \in h'[r].with
    BY <1>1 DEF WebhookInv, OverlapInv
  <1>5. PolicyPart'
    BY <1>1, <1>2, <1>3, <1>4, OneActs
  <1> QED  BY <1>1, <1>3, <1>5, PolicyStepRest

LEMMA StartKeeps ==
  ASSUME WebhookInv, NEW r \in Handler, Start(r)
  PROVE  WebhookInv'
  <1>1. /\ Types /\ h[r].pc = "start" /\ h[r].op = "" /\ r \in InFlight
        /\ UNCHANGED <<policies, together, config, other, reported, updating>>
    BY DEF WebhookInv, Start, IdleInv, InFlight, stored
  <1>2. PICK pc \in {"admit", "deny", "list"} :
          /\ Answer(r, pc)
          /\ pc = "admit" => h[r].name = DefaultPolicyName
          /\ pc # "admit" => h[r].name # DefaultPolicyName
          /\ pc = "deny" => ~StaticValidate(h[r].pol)
          /\ pc = "list" => StaticValidate(h[r].pol) /\ ~nodesSelected' /\ ~interfaceSelected'
          /\ nodesSelected' \in BOOLEAN /\ interfaceSelected' \in BOOLEAN
    <2>1. nodesSelected \in BOOLEAN /\ interfaceSelected \in BOOLEAN
      BY <1>1 DEF Types
    <2>2. CASE h[r].name = DefaultPolicyName /\ Answer(r, "admit") /\ UNCHANGED flags
      BY <2>1, <2>2 DEF flags
    <2>3. CASE /\ h[r].name # DefaultPolicyName /\ ~StaticValidate(h[r].pol)
               /\ Answer(r, "deny") /\ UNCHANGED flags
      BY <2>1, <2>3 DEF flags
    <2>4. CASE /\ h[r].name # DefaultPolicyName /\ StaticValidate(h[r].pol) /\ Answer(r, "list")
               /\ nodesSelected' = FALSE /\ interfaceSelected' = FALSE
      BY <2>4
    <2> QED  BY <2>2, <2>3, <2>4 DEF Start
  <1>3. pc \in Steps
    BY DEF Steps
  <1>4. /\ h' \in [Handler -> Request] /\ \A q \in Handler \ {r} : h'[q] = h[q]
        /\ h'[r].pc = pc /\ View(h[r], h'[r]) /\ h'[r].with = h[r].with
    BY <1>1, <1>2, <1>3, AnswerStep
  <1>5. h'[r].name = h[r].name /\ h'[r].pol = h[r].pol /\ h'[r].op = h[r].op
    BY <1>4 DEF View
  <1>6. ~Listed(r)' /\ (Validated(r)' => StaticValidate(h[r].pol))
    BY <1>2, <1>4, <1>5 DEF Listed, Validated
  <1>7. (pc = "admit" => Admissible(r)') /\ (pc = "deny" => ~Admissible(r)')
    BY <1>2, <1>5 DEF Admissible
  <1> QED  BY <1>1, <1>2, <1>4, <1>5, <1>6, <1>7, PolicyStep, ZenonT(60)

LEMMA ListKeeps ==
  ASSUME WebhookInv, NEW r \in Handler, List(r)
  PROVE  WebhookInv'
  <1>1. /\ Types /\ h[r].pc = "list" /\ h[r].op = "" /\ r \in InFlight /\ h \in [Handler -> Request]
        /\ UNCHANGED <<flags, policies, together, config, other, reported, updating>>
    BY DEF WebhookInv, Types, List, IdleInv, InFlight, stored
  <1>2. PICK x \in Request : x = h[r]
    BY <1>1
  <1>3. PICK f \in PolicyMap, k \in SUBSET Node, t \in SUBSET Node :
          f = policies /\ k = reported /\ t = Matches(r)
    BY <1>1 DEF Types, Matches
  <1>4. PICK y : y = [x EXCEPT !.pc = "check", !.seen = f, !.known = k, !.todo = t]
    OBVIOUS
  <1>5. /\ y \in Request /\ y.pc = "check" /\ y.seen = f /\ y.known = k /\ y.todo = t
        /\ y.name = x.name /\ y.pol = x.pol /\ y.op = x.op /\ y.with = x.with
    BY <1>4, ZenonT(30) DEF Request, Steps
  <1>6. h' = [h EXCEPT ![r] = y]
    BY <1>1, <1>2, <1>3, <1>4 DEF List, Matches
  <1>7. h' \in [Handler -> Request] /\ h'[r] = y /\ \A q \in Handler \ {r} : h'[q] = h[q]
    BY <1>1, <1>5, <1>6
  <1>8. /\ h'[r].name = h[r].name /\ h'[r].pol = h[r].pol /\ h'[r].op = h[r].op
        /\ h'[r].with = h[r].with /\ h'[r].pc = "check" /\ h'[r].seen = policies
        /\ h'[r].todo = Matches(r)
    BY <1>2, <1>3, <1>5, <1>7
  <1>9. Checked(r)' = {} /\ h'[r].todo \subseteq Matches(r)'
    <2>1. Matches(r)' = Matches(r)
      BY <1>8 DEF Matches
    <2> QED  BY <1>8, <2>1 DEF Checked
  <1>10. h[r].with = {} => ~nodesSelected /\ ~interfaceSelected
    BY <1>1 DEF WebhookInv, FlagsInv
  <1>11. UNCHANGED <<nodesSelected, interfaceSelected>> /\ nodesSelected' \in BOOLEAN /\ interfaceSelected' \in BOOLEAN
    BY <1>1 DEF flags, Types
  <1>12. h[r].with = {} => FlagsOf(r)'
    BY <1>9, <1>10, <1>11 DEF FlagsOf
  <1>13. h[r].name # DefaultPolicyName /\ StaticValidate(h[r].pol)
    BY <1>1 DEF WebhookInv, PolicyInv, Validated
  <1> QED  BY <1>1, <1>7, <1>8, <1>9, <1>11, <1>12, <1>13, PolicyStep

LEMMA CheckNodeKeeps ==
  ASSUME WebhookInv, NEW r \in Handler, NEW n \in Node, CheckNode(r, n)
  PROVE  WebhookInv'
  <1>1. /\ Types /\ h[r].pc = "check" /\ h[r].op = "" /\ r \in InFlight /\ h \in [Handler -> Request]
        /\ n \in h[r].todo
        /\ UNCHANGED <<policies, together, config, other, reported, updating>>
    BY DEF WebhookInv, Types, CheckNode, IdleInv, InFlight, stored
  <1>2. /\ h[r].name # DefaultPolicyName /\ StaticValidate(h[r].pol) /\ Listed(r)
        /\ h[r].todo \subseteq Matches(r) /\ \A m \in Checked(r) : ~NodeError(r, m)
    BY <1>1 DEF WebhookInv, PolicyInv, Validated, Listed, CheckInv
  <1>3. PICK x \in Request : x = h[r]
    BY <1>1
  <1>4. PICK t \in SUBSET Node, pc \in Steps :
          t = h[r].todo \ {n} /\ pc = IF NodeError(r, n) THEN "deny" ELSE "check"
    BY <1>1, <1>3 DEF Request, Steps
  <1>5. PICK y : y = [x EXCEPT !.todo = t, !.pc = pc]
    OBVIOUS
  <1>6. /\ y \in Request /\ y.pc = pc /\ y.todo = t /\ View(x, y) /\ y.with = x.with
    BY <1>5, ZenonT(30) DEF Request, View
  <1>7. h' = [h EXCEPT ![r] = y]
    <2>1. y = [h[r] EXCEPT !.todo = h[r].todo \ {n}, !.pc = IF NodeError(r, n) THEN "deny" ELSE "check"]
      BY <1>3, <1>4, <1>5
    <2>2. h' = [h EXCEPT ![r] = [h[r] EXCEPT !.todo = h[r].todo \ {n},
                                             !.pc = IF NodeError(r, n) THEN "deny" ELSE "check"]]
      BY DEF CheckNode
    <2> QED  BY <2>1, <2>2
  <1>8. h' \in [Handler -> Request] /\ h'[r] = y /\ \A q \in Handler \ {r} : h'[q] = h[q]
    BY <1>1, <1>6, <1>7
  <1>9. /\ View(h[r], h'[r]) /\ h'[r].with = h[r].with /\ h'[r].todo = h[r].todo \ {n}
        /\ h'[r].pc = pc /\ pc \in {"deny", "check"}
    BY <1>3, <1>4, <1>6, <1>8
  <1>10. h'[r].name = h[r].name /\ h'[r].pol = h[r].pol /\ h'[r].op = h[r].op /\ h'[r].seen = h[r].seen
    BY <1>9 DEF View
  <1>11. /\ Matches(r)' = Matches(r) /\ (Admissible(r)' <=> Admissible(r))
         /\ \A m : Valid(r, m)' = Valid(r, m) /\ (NodeError(r, m)' <=> NodeError(r, m))
    BY <1>9, SameView
  <1>12. Checked(r)' = Checked(r) \cup {n} /\ h'[r].todo \subseteq Matches(r)' /\ n \in Matches(r)
    BY <1>1, <1>2, <1>9, <1>11 DEF Checked
  <1>13. nodesSelected' = TRUE /\ interfaceSelected' = (interfaceSelected \/ Valid(r, n) # {})
    BY DEF CheckNode
  <1>14. nodesSelected' \in BOOLEAN /\ interfaceSelected' \in BOOLEAN
    BY <1>13
  <1>15. Listed(r)' =>
           /\ \A b \in DOMAIN policies \ ({h[r].name} \cup h[r].with) :
                  b \in DOMAIN h'[r].seen /\ h'[r].seen[b] = policies[b]
           /\ h'[r].todo \subseteq Matches(r)' /\ (h'[r].pc = "admit" => h'[r].todo = {})
           /\ \A m \in Checked(r)' : ~NodeError(r, m)'
    <2> SUFFICES ASSUME Listed(r)'
                 PROVE  /\ \A b \in DOMAIN policies \ ({h[r].name} \cup h[r].with) :
                               b \in DOMAIN h'[r].seen /\ h'[r].seen[b] = policies[b]
                        /\ h'[r].pc # "admit" /\ \A m \in Checked(r)' : ~NodeError(r, m)'
      BY <1>12
    <2>1. h'[r].pc = "check" /\ ~NodeError(r, n)
      BY <1>4, <1>9 DEF Listed
    <2>2. \A m \in Checked(r)' : ~NodeError(r, m)'
      BY <1>2, <1>11, <1>12, <2>1
    <2>3. \A b \in DOMAIN policies \ ({h[r].name} \cup h[r].with) :
              b \in DOMAIN h[r].seen /\ h[r].seen[b] = policies[b]
      BY <1>1, <1>2 DEF WebhookInv, SeenInv
    <2> QED  BY <1>10, <2>1, <2>2, <2>3
  <1>16. h[r].with = {} /\ h'[r].pc = "check" => FlagsOf(r)'
    <2> SUFFICES ASSUME h[r].with = {} PROVE FlagsOf(r)'
      OBVIOUS
    <2>1. interfaceSelected <=> \E m \in Checked(r) : Valid(r, m) # {}
      BY <1>1 DEF WebhookInv, FlagsInv, FlagsOf
    <2>2. interfaceSelected' <=> \E m \in Checked(r)' : Valid(r, m)' # {}
      BY <1>11, <1>12, <1>13, <2>1
    <2>3. nodesSelected' <=> Checked(r)' # {}
      BY <1>12, <1>13
    <2> QED  BY <2>2, <2>3 DEF FlagsOf
  <1>17. h'[r].pc = "deny" => ~Admissible(r)'
    <2> SUFFICES ASSUME h'[r].pc = "deny" PROVE ~Admissible(r)
      BY <1>11
    <2>1. NodeError(r, n)
      BY <1>4, <1>9
    <2> QED  BY <1>2, <1>12, <2>1 DEF Admissible
  <1>18. h'[r].pc \in {"start", "list", "check", "admit", "deny"} /\ h'[r].pc # "list" /\ h'[r].pc # "admit"
    BY <1>9
  <1> QED  BY <1>1, <1>2, <1>8, <1>9, <1>10, <1>14, <1>15, <1>16, <1>17, <1>18, PolicyStep, ZenonT(60)

LEMMA DecideKeeps ==
  ASSUME WebhookInv, NEW r \in Handler, Decide(r)
  PROVE  WebhookInv'
  <1>1. /\ Types /\ h[r].pc = "check" /\ h[r].op = "" /\ r \in InFlight /\ h[r].todo = {}
        /\ UNCHANGED <<flags, policies, together, config, other, reported, updating>>
    BY DEF WebhookInv, Decide, IdleInv, InFlight, stored
  <1>2. /\ h[r].name # DefaultPolicyName /\ StaticValidate(h[r].pol) /\ Listed(r)
        /\ \A m \in Checked(r) : ~NodeError(r, m)
    BY <1>1 DEF WebhookInv, PolicyInv, Validated, Listed, CheckInv
  <1>3. Checked(r) = Matches(r)
    BY <1>1 DEF Checked
  <1>4. PICK pc \in {"admit", "deny"} :
          Answer(r, pc) /\ pc = IF nodesSelected /\ interfaceSelected THEN "admit" ELSE "deny"
    BY DEF Decide
  <1>5. pc \in Steps
    BY DEF Steps
  <1>6. /\ h' \in [Handler -> Request] /\ \A q \in Handler \ {r} : h'[q] = h[q]
        /\ h'[r].pc = pc /\ View(h[r], h'[r]) /\ h'[r].with = h[r].with /\ h'[r].todo = {}
    BY <1>1, <1>4, <1>5, AnswerStep
  <1>7. h'[r].name = h[r].name /\ h'[r].pol = h[r].pol /\ h'[r].op = h[r].op /\ h'[r].seen = h[r].seen
    BY <1>6 DEF View
  <1>8. /\ Matches(r)' = Matches(r) /\ (Admissible(r)' <=> Admissible(r))
        /\ \A m : NodeError(r, m)' <=> NodeError(r, m)
    BY <1>6, SameView
  <1>9. Checked(r)' = Matches(r)
    BY <1>6, <1>8 DEF Checked
  <1>10. /\ \A b \in DOMAIN policies \ ({h[r].name} \cup h[r].with) :
               b \in DOMAIN h'[r].seen /\ h'[r].seen[b] = policies[b]
         /\ h'[r].todo \subseteq Matches(r)' /\ (h'[r].pc = "admit" => h'[r].todo = {})
         /\ \A m \in Checked(r)' : ~NodeError(r, m)'
    <2>1. \A b \in DOMAIN policies \ ({h[r].name} \cup h[r].with) :
              b \in DOMAIN h[r].seen /\ h[r].seen[b] = policies[b]
      BY <1>1, <1>2 DEF WebhookInv, SeenInv
    <2>2. \A m \in Checked(r)' : ~NodeError(r, m)'
      BY <1>2, <1>3, <1>8, <1>9
    <2> QED  BY <1>6, <1>7, <2>1, <2>2
  <1>11. h[r].with = {} => /\ pc = "admit" => Admissible(r)'
                           /\ pc = "deny" => ~Admissible(r)'
    <2> SUFFICES ASSUME h[r].with = {} PROVE pc = "admit" <=> Admissible(r)
      BY <1>4, <1>8
    <2>1. FlagsOf(r)
      BY <1>1 DEF WebhookInv, FlagsInv
    <2>2. pc = "admit" <=> \E m \in Matches(r) : Valid(r, m) # {}
      BY <1>3, <1>4, <2>1 DEF FlagsOf
    <2> QED  BY <1>2, <1>3, <2>2 DEF Admissible
  <1>12. nodesSelected' \in BOOLEAN /\ interfaceSelected' \in BOOLEAN
    BY <1>1, ZenonT(60) DEF flags, Types
  <1> QED  BY <1>1, <1>2, <1>4, <1>6, <1>7, <1>10, <1>11, <1>12, PolicyStep, ZenonT(60)

(* The policy that is stored was compared with every stored one it was not  *)
(* in flight with.                                                          *)
LEMMA StorePolicyKeeps ==
  ASSUME WebhookInv, NEW r \in Handler, StorePolicy(r)
  PROVE  WebhookInv'
  <1> DEFINE a == h[r].name
             p == h[r].pol
  <1>1. /\ Types /\ h[r].pc = "admit" /\ h[r].op = "" /\ r \in InFlight /\ h' = [h EXCEPT ![r] = Idle]
        /\ policies' = [b \in DOMAIN policies \cup {a} |-> IF b = a THEN p ELSE policies[b]]
        /\ together' = {e \in together : a \notin e} \cup {{a, b} : b \in h[r].with \ {a}}
        /\ UNCHANGED <<flags, config, other, reported, updating>>
    BY DEF WebhookInv, StorePolicy, InFlight
  <1>2. h' \in [Handler -> Request] /\ (\A q \in Handler \ {r} : h'[q] = h[q]) /\ h'[r] = Idle
    BY <1>1, IdleStep
  <1>3. \A q \in Handler \ {r} : Passive(q) /\ SameConfig(q)
    BY <1>2 DEF Passive, View, SameConfig
  <1>4. r \notin InFlight'
    BY <1>2, IdleFields DEF InFlight
  <1>5. Quiet /\ \A q \in InFlight' : q \in InFlight /\ q # r
    BY <1>1, <1>3, <1>4, PassiveSame DEF Quiet, InFlight
  <1>6. PolicyInv' /\ OverlapInv' /\ CheckInv' /\ FlagsInv'
    BY <1>5, QuietStep DEF WebhookInv
  <1>7. /\ a \in Name /\ p \in PolicySpec /\ (a # DefaultPolicyName => StaticValidate(p) /\ Listed(r))
        /\ policies \in PolicyMap
    BY <1>1 DEF WebhookInv, PolicyInv, Validated, Listed, Types
  <1>8. /\ DOMAIN policies' = DOMAIN policies \cup {a} /\ policies'[a] = p
        /\ \A b \in DOMAIN policies \ {a} : policies'[b] = policies[b]
    BY <1>1
  <1>9. SeenInv'
    <2>1. \A q \in InFlight' : a \in h[q].with
      BY <1>1, <1>5 DEF WebhookInv, OverlapInv
    <2>2. ASSUME NEW q \in InFlight', NEW b \in DOMAIN policies' \ ({h[q].name} \cup h[q].with)
          PROVE  b \in DOMAIN policies /\ policies'[b] = policies[b]
      BY <1>8, <2>1
    <2>3. \A q \in InFlight' : q \in InFlight /\ Passive(q)
      BY <1>5 DEF Quiet
    <2> QED  BY <2>2, <2>3, SeenKept DEF WebhookInv
  <1>10. StoredInv'
    BY <1>7, <1>8 DEF WebhookInv, StoredInv
  <1>11. ASSUME NEW c \in DOMAIN policies \ {DefaultPolicyName, a}, a # DefaultPolicyName,
                c \notin h[r].with
         PROVE  TakeDifferentVfs(p, policies[c]) /\ TakeDifferentVfs(policies[c], p)
    <2>1. c \in DOMAIN h[r].seen /\ h[r].seen[c] = policies[c]
      BY <1>1, <1>7, <1>11 DEF WebhookInv, SeenInv
    <2>2. Checked(r) = Matches(r) /\ \A n \in Matches(r) : ~NodeError(r, n)
      BY <1>1, <1>7, <1>11 DEF WebhookInv, CheckInv, Checked
    <2>3. StaticValidate(p) /\ StaticValidate(policies[c]) /\ policies[c] \in PolicySpec
      BY <1>7, <1>11, MapTyped DEF WebhookInv, StoredInv
    <2>4. ASSUME NEW n \in Node, NodeSelected(p, NodeLabels[n]), NodeSelected(policies[c], NodeLabels[n])
          PROVE  \E ifs \in {NodeIfaces[n], {}} : Compatible(p, policies[c], ifs) \/ Compatible(policies[c], p, ifs)
      <3>1. ~NodeError(r, n)
        BY <2>2, <2>4 DEF Matches
      <3>2. Compatible(p, policies[c], Known(r, n))
        BY <1>11, <2>1, <2>4, <3>1 DEF NodeError
      <3>3. Known(r, n) \in {NodeIfaces[n], {}}
        BY DEF Known
      <3> QED  BY <3>2, <3>3
    <2> QED  BY <1>7, <2>3, <2>4, TakeDifferent
  <1>12. AdmittedDisjoint'
    <2> SUFFICES ASSUME NEW b \in DOMAIN policies' \ {DefaultPolicyName},
                        NEW c \in DOMAIN policies' \ {DefaultPolicyName},
                        b # c, {b, c} \notin together'
                 PROVE  TakeDifferentVfs(policies'[b], policies'[c])
      BY DEF AdmittedDisjoint, TakeDifferentVfs
    <2>1. ASSUME NEW d \in h[r].with, d # a PROVE {a, d} \in together' /\ {d, a} \in together'
      <3>1. {a, d} = {d, a}
        OBVIOUS
      <3> QED  BY <1>1, <2>1, <3>1
    <2>2. CASE b = a
      BY <1>8, <1>11, <2>1, <2>2
    <2>3. CASE c = a
      BY <1>8, <1>11, <2>1, <2>3
    <2>4. CASE b # a /\ c # a
      <3>1. {b, c} \notin together
        BY <1>1, <2>4
      <3> QED  BY <1>8, <2>4, <3>1 DEF WebhookInv, AdmittedDisjoint
    <2> QED  BY <2>2, <2>3, <2>4
  <1>13. Types'
    <2>1. policies' \in [DOMAIN policies \cup {a} -> PolicySpec] /\ DOMAIN policies \cup {a} \in SUBSET Name
      BY <1>1, <1>7, MapTyped
    <2>2. policies' \in PolicyMap
      BY <2>1, MapTyped
    <2> QED  BY <1>1, <1>2, <2>2 DEF Types, flags
  <1>14. IdleInv'
    BY <1>2, <1>3, IdleOr DEF WebhookInv
  <1>15. ConfigInv'
    <2>1. h'[r].op # "update" /\ updating' \subseteq updating
      BY <1>1, <1>2, IdleFields
    <2> QED  BY <1>1, <1>3, <2>1, ConfigKept DEF WebhookInv
  <1>16. PoolInv'
    BY <1>1 DEF WebhookInv, PoolInv
  <1> QED  BY <1>6, <1>9, <1>10, <1>12, <1>13, <1>14, <1>15, <1>16 DEF WebhookInv

LEMMA WebhookInitially ==
  ASSUME WebhookInit PROVE WebhookInv
  <1>1. /\ policies = NoPolicies /\ h = [r \in Handler |-> Idle] /\ other = {} /\ updating = {}
        /\ config \in {"absent", "drain"} /\ reported \subseteq Node
        /\ nodesSelected = FALSE /\ interfaceSelected = FALSE
    BY DEF WebhookInit
  <1>2. DOMAIN policies = {} /\ policies \in PolicyMap
    <2>1. policies \in [{} -> PolicySpec] /\ {} \in SUBSET Name /\ DOMAIN policies = {}
      BY <1>1, SMT DEF NoPolicies
    <2> QED  BY <2>1, MapTyped
  <1>3. InFlight = {} /\ \A r \in Handler : h[r] = Idle
    BY <1>1, IdleFields DEF InFlight
  <1>4. Types
    <2>1. h \in [Handler -> Request]
      BY <1>1, IdleTyped
    <2> QED  BY <1>1, <1>2, <2>1 DEF Types
  <1>5. IdleInv
    BY <1>3, IdleFields DEF IdleInv
  <1>6. PolicyInv /\ OverlapInv /\ SeenInv /\ CheckInv /\ FlagsInv
    BY <1>3 DEF PolicyInv, OverlapInv, SeenInv, CheckInv, FlagsInv
  <1>7. StoredInv /\ AdmittedDisjoint
    BY <1>2 DEF StoredInv, AdmittedDisjoint
  <1>8. ConfigInv /\ PoolInv
    BY <1>1, <1>3, IdleFields DEF ConfigInv, PoolInv
  <1> QED  BY <1>4, <1>5, <1>6, <1>7, <1>8 DEF WebhookInv

-----------------------------------------------------------------------------
LEMMA WebhookStep ==
  ASSUME WebhookInv, [WebhookNext]_webhookVars PROVE WebhookInv'
  <1>1. ASSUME NEW r \in Handler, HandlerStep(r) PROVE WebhookInv'
    <2>1. CASE SubmitPolicy(r)
      BY <2>1, SubmitPolicyKeeps
    <2>2. ASSUME NEW to \in {"drain", "noDrain"}, SubmitConfig(r, to) PROVE WebhookInv'
      BY <2>2, SubmitConfigKeeps
    <2>3. CASE Start(r)
      BY <2>3, StartKeeps
    <2>4. CASE List(r)
      BY <2>4, ListKeeps
    <2>5. ASSUME NEW n \in Node, CheckNode(r, n) PROVE WebhookInv'
      BY <2>5, CheckNodeKeeps
    <2>6. CASE Decide(r)
      BY <2>6, DecideKeeps
    <2>7. CASE CheckPrevious(r) \/ CheckStates(r)
      BY <2>7, ConfigChecksKeep, ZenonT(60)
    <2>8. CASE StorePolicy(r)
      BY <2>8, StorePolicyKeeps
    <2>9. CASE StoreConfig(r)
      BY <2>9, StoreConfigKeeps
    <2>10. CASE Refuse(r)
      BY <2>10, RefuseKeeps
    <2> QED  BY <1>1, <2>1, <2>2, <2>3, <2>4, <2>5, <2>6, <2>7, <2>8, <2>9, <2>10, ZenonT(60) DEF HandlerStep
  <1>2. ASSUME NEW a \in Name, DeletePolicy(a) PROVE WebhookInv'
    BY <1>2, DeletePolicyKeeps
  <1>3. CASE DeleteConfig
    BY <1>3, DeleteConfigKeeps
  <1>4. ASSUME NEW n \in Node, UpdateStarts(n) PROVE WebhookInv'
    BY <1>4, UpdateStartsKeeps
  <1>5. CASE \/ \E pool \in Pool : PutPool(pool)
             \/ \E cr \in Network : PutNetwork(cr)
             \/ \E n \in Node : NodeReports(n) \/ UpdateEnds(n)
             \/ UNCHANGED webhookVars
    BY <1>5, EnvironmentKeeps
  <1> QED  BY <1>1, <1>2, <1>3, <1>4, <1>5 DEF WebhookNext

(* Every behaviour of the webhook keeps its inductive invariant: what each  *)
(* request in flight has seen is still stored unless a request it knows of  *)
(* was in flight since, and a checked node had no error.                    *)
THEOREM WebhookSafety == WebhookSpec => []WebhookInv
  <1>1. WebhookInit => WebhookInv
    BY WebhookInitially
  <1>2. WebhookInv /\ [WebhookNext]_webhookVars => WebhookInv'
    BY WebhookStep
  <1> QED  BY <1>1, <1>2, PTL DEF WebhookSpec

(* validatePfNames and the shared flags notwithstanding: two policies the   *)
(* webhook admitted apart from each other never take the same VF of a PF    *)
(* that both name by its name, one of them only, with or without ranges.    *)
THEOREM AdmittedApart == WebhookSpec => []AdmittedDisjoint
  <1>1. WebhookInv => AdmittedDisjoint
    BY DEF WebhookInv
  <1> QED  BY <1>1, WebhookSafety, PTL

(* nodesSelected and interfaceSelected, shared by all requests, decide as   *)
(* if they were local for a request that was alone.                         *)
THEOREM AloneIsAnswered == WebhookSpec => []FlagsAnswerRequest
  <1>1. WebhookInv => FlagsAnswerRequest
    <2> SUFFICES ASSUME WebhookInv, NEW r \in Handler, h[r].op = "", h[r].with = {}
                 PROVE  /\ h[r].pc = "admit" => Admissible(r)
                        /\ h[r].pc = "deny" => ~Admissible(r)
      BY DEF FlagsAnswerRequest
    <2>1. h[r].pc \in {"admit", "deny"} => r \in InFlight
      BY DEF InFlight
    <2> QED  BY <2>1 DEF WebhookInv, FlagsInv
  <1> QED  BY <1>1, WebhookSafety, PTL

(* The limit PoolLimits asks for, whatever the number of nodes.             *)
LimitForAnyNumber ==
    \A pool \in other \cap Pool : \A numOfNodes \in Nat :
        MaxUnavailable(pool, numOfNodes) \in
            IF pool.max = <<>> THEN {-1} ELSE IF pool.max[1] = "%" THEN 0 .. numOfNodes ELSE Nat

(* A pool that passed the validation, which asks for the limit of no nodes, *)
(* has one for any number, and the ranges of a stored policy are within its *)
(* VFs.                                                                     *)
THEOREM LimitsUsable == WebhookSpec => [](PoolLimits /\ LimitForAnyNumber)
  <1>1. WebhookInv => PoolLimits /\ LimitForAnyNumber
    <2> SUFFICES ASSUME WebhookInv PROVE PoolLimits /\ LimitForAnyNumber
      OBVIOUS
    <2>0. LimitForAnyNumber
      BY PoolHasLimit DEF WebhookInv, PoolInv, LimitForAnyNumber
    <2>1. \A pool \in other \cap Pool : \A numOfNodes \in 0 .. 10 :
            MaxUnavailable(pool, numOfNodes) \in
                IF pool.max = <<>> THEN {-1} ELSE IF pool.max[1] = "%" THEN 0 .. numOfNodes ELSE Nat
      <3>1. ASSUME NEW numOfNodes \in 0 .. 10 PROVE numOfNodes \in Nat
        BY SMT
      <3> QED  BY <2>0, <3>1 DEF LimitForAnyNumber
    <2>2. ASSUME NEW r \in Handler
          PROVE  h[r].pc \in Steps /\ h[r].todo \subseteq Node /\ h[r].late \subseteq Node
      <3>1. PICK x \in Request : x = h[r]
        BY DEF WebhookInv, Types
      <3> QED  BY <3>1 DEF Request
    <2>3. ASSUME NEW a \in DOMAIN policies \ {DefaultPolicyName}, NEW k \in DOMAIN policies[a].pfs,
                 policies[a].pfs[k].rng # NoRange
          PROVE  policies[a].pfs[k].rng[2] < policies[a].numVfs
      <3>1. RangeValid(policies[a].pfs[k].rng, policies[a].numVfs)
        BY <2>3 DEF WebhookInv, StoredInv, StaticValidate
      <3> QED  BY <3>1 DEF RangeValid
    <2>4. DOMAIN policies \subseteq Name /\ config \in {"absent", "drain", "noDrain"}
      BY MapTyped DEF WebhookInv, Types
    <2> QED  BY <2>0, <2>1, <2>2, <2>3, <2>4 DEF PoolLimits, WebhookTypeOK, Steps
  <1> QED  BY <1>1, WebhookSafety, PTL

(* Drains are disabled only by an update of the config whose check of the   *)
(* NodeStates found no node updating; those that update now started since.  *)
THEOREM DrainKept == WebhookSpec => DrainKeptDuringUpdate
  <1>1. ASSUME WebhookInv, [WebhookNext]_webhookVars, config = "drain", config' = "noDrain"
        PROVE  \E r \in Handler : h[r].pc = "admit" /\ h'[r].pc = "idle" /\ updating \subseteq h[r].late
    <2>1. PICK r \in Handler : StoreConfig(r)
      <3>1. config' # config /\ config' # "absent"
        BY <1>1
      <3> QED  BY <1>1, <3>1, ZenonT(60) DEF WebhookNext, HandlerStep, SubmitPolicy, SubmitConfig, Submit, Start,
                 List, Decide, CheckNode, CheckPrevious, CheckStates, StorePolicy, Refuse, DeletePolicy,
                 DeleteConfig, PutPool, PutNetwork, NodeReports, UpdateStarts, UpdateEnds, stored, webhookVars
    <2>2. /\ h[r].pc = "admit" /\ h[r].op # "create" /\ h[r].op # "" /\ ~(h[r].op = "update" /\ h[r].stale)
          /\ h[r].to = "noDrain" /\ h' = Outdated([h EXCEPT ![r] = Idle])
      BY <1>1, <2>1 DEF StoreConfig
    <2>3. h \in [Handler -> Request]
      BY <1>1 DEF WebhookInv, Types
    <2>4. h[r].op = "update"
      <3>1. PICK x \in Request : x = h[r]
        BY <2>3
      <3> QED  BY <2>2, <3>1 DEF Request
    <2>5. updating \subseteq h[r].late
      BY <1>1, <2>2, <2>4 DEF WebhookInv, ConfigInv
    <2>6. h'[r] = Idle
      <3> DEFINE g == [h EXCEPT ![r] = Idle]
      <3>1. g \in [Handler -> Request] /\ g[r] = Idle
        BY <2>3, IdleTyped
      <3> HIDE DEF g
      <3> QED  BY <2>2, <3>1, IdleFields, OutdatedStep DEF g
    <2> QED  BY <2>2, <2>5, <2>6, IdleFields
  <1>2. WebhookInv /\ [WebhookNext]_webhookVars =>
          [config = "drain" /\ config' = "noDrain" =>
             \E r \in Handler : h[r].pc = "admit" /\ h'[r].pc = "idle" /\ updating \subseteq h[r].late
          ]_webhookVars
    BY <1>1
  <1> QED  BY <1>2, WebhookSafety, PTL DEF WebhookSpec, DrainKeptDuringUpdate
=============================================================================
