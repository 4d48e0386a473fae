---------------------------- MODULE ClusterProofs ----------------------------
(***************************************************************************)
(* Proofs about the cluster, for every finite set of nodes and of requests *)
(* in progress, every role, caller and policy, and any number of faults.   *)
(*                                                                         *)
(* No lock spans the catalog in etcd and the engine of a node, so the      *)
(* argument is about who can still change what.  A revision or a lease     *)
(* that somebody remembers is never given out again: a guarded change goes *)
(* through only if nothing changed since its guard was read.  A pending    *)
(* create is then changed by its own node only: a drop on another node had *)
(* to find the collection ready while its leadership lasted, and the       *)
(* leadership changed hands before this create was put.  And the node's    *)
(* reconciliation acts only when none of its own requests can.             *)
(***************************************************************************)
EXTENDS Cluster, FiniteSetTheorems, TLAPS

CreatePcs == {"reserve", "create_local", "mark_ready", "undo"}
DropPcs == {"read", "drop_local", "retire", "delete"}
SeenPcs == {"resolve", "forward", "drop", "back"}

----------------------------------------------------------------------------
(* The inductive invariant.                                                *)

MetaShape(meta) ==
  /\ DOMAIN meta = {"id", "ready", "ver", "of", "node", "owner", "revs"}
  /\ DOMAIN meta.revs = 1..3 /\ meta.ready \in BOOLEAN
EtcdShape(e) ==
  /\ DOMAIN e = {"live", "member", "leader", "meta", "db", "policy"}
  /\ MetaShape(e.meta) /\ IsFiniteSet(e.live)
OpShape(r) ==
  /\ DOMAIN r = {"kind", "pc", "node", "fence", "id", "revs", "ver", "tries", "was"}
  /\ DOMAIN r.revs = 1..3

(* Records have their fields, functions their domains; what must be finite *)
(* for a fresh number to exist is finite.                                  *)
ShapeInv ==
  /\ EtcdShape(etcd)
  /\ DOMAIN up = Nodes /\ DOMAIN loop = Nodes /\ DOMAIN pass = Nodes /\ DOMAIN slot = Nodes
  /\ DOMAIN op = Ops
  /\ \A n \in Nodes : /\ DOMAIN loop[n] = DOMAIN NewLoop /\ IsFiniteSet(loop[n].drops)
                      /\ DOMAIN pass[n] = {"pc", "lease", "seen"} /\ DOMAIN slot[n] = {"st", "id", "ver"}
  /\ \A o \in Ops : OpShape(op[o])
  /\ dropped \in BOOLEAN

(* The catalog's entry is there with all of it, or not at all.             *)
MetaInv ==
  /\ etcd.meta = NoMeta \/ (etcd.meta.revs[2] # 0 /\ etcd.meta.id # 0 /\ etcd.meta.node \in Nodes)
  /\ etcd.meta = NoMeta => ~dropped

(* A process that is down runs no request and no pass.                     *)
UpInv ==
  /\ \A o \in Ops : op[o].pc # "idle" => op[o].node \in Nodes /\ up[op[o].node]
  /\ \A n \in Nodes : pass[n].pc # "idle" => up[n]

(* What a request knows.  The id of a create that has put nothing yet is   *)
(* nobody else's; the revisions of a create are those of its own pending   *)
(* entry, or stale; a schema or an owner is put over a ready entry only.   *)
IdInv(o) ==
  op[o].pc = "put" => /\ op[o].id # 0 /\ \A n \in Nodes : slot[n].id # op[o].id
                      /\ \A x \in Ops \ {o} : op[x].id # op[o].id
RevInv(o) ==
  /\ op[o].pc \in CreatePcs =>
       /\ op[o].revs[2] # 0
       /\ op[o].revs = etcd.meta.revs =>
            ~etcd.meta.ready /\ etcd.meta.id = op[o].id /\ etcd.meta.node = op[o].node
  /\ op[o].pc = "put_schema" =>
       /\ op[o].revs[2] # 0
       /\ op[o].revs[2] = etcd.meta.revs[2] => etcd.meta.ready /\ etcd.meta.ver < op[o].ver
  /\ op[o].pc = "move" =>
       op[o].revs[2] # 0 /\ (op[o].revs[2] = etcd.meta.revs[2] => etcd.meta.ready)

(* The engine's slot while a request works on it, and until a create that  *)
(* opened it has marked its entry ready.                                   *)
CreatingInv(o) ==
  op[o].pc = "create_local" =>
    /\ slot[op[o].node].st = "creating" /\ slot[op[o].node].id = op[o].id
    /\ \A x \in Ops \ {o} : op[x].pc = "create_local" => op[x].node # op[o].node
RetiringInv(o) ==
  op[o].pc = "retire" =>
    /\ slot[op[o].node].st = "dropping" /\ op[o].was \in {"open", "failed"}
    /\ \A x \in Ops \ {o} : op[x].pc = "retire" => op[x].node # op[o].node
CreatedInv(o) ==
  op[o].pc = "mark_ready" /\ op[o].revs = etcd.meta.revs /\ ~dropped =>
    slot[op[o].node].id = op[o].id /\ slot[op[o].node].st \in {"open", "dropping"}

(* A drop that could still delete a pending entry runs on its node.        *)
FenceInv(o) ==
  /\ op[o].pc \in DropPcs /\ Pending(etcd.meta)
  /\ etcd.leader = [node |-> op[o].node, lease |-> op[o].fence]
  => op[o].node = etcd.meta.node

(* Once a pending create's collection failed to open, its process started  *)
(* after the create, and no request of it can be about the create.         *)
FailedInv ==
  Pending(etcd.meta) /\ slot[etcd.meta.node].id = etcd.meta.id =>
    /\ slot[etcd.meta.node].st = "failed" => ~InFlight(etcd.meta.node)
    /\ \A o \in Ops : op[o].node = etcd.meta.node /\ op[o].pc = "retire" => op[o].was = "open"

(* What a reconciliation pass knows: the entry it saw, unless that changed; *)
(* where it drops a failed collection, that did not change; where it rolls *)
(* a create forward, the collection is open and nobody can drop it.        *)
SeenInv(n) ==
  pass[n].pc \in SeenPcs =>
    /\ pass[n].seen.revs[2] # 0 /\ pass[n].seen.node = n /\ ~pass[n].seen.ready
    /\ pass[n].seen.revs = etcd.meta.revs => pass[n].seen = etcd.meta
ResolveInv(n) ==
  pass[n].pc = "resolve" /\ slot[n].id = pass[n].seen.id =>
    /\ slot[n].st = "failed" => pass[n].seen = etcd.meta
    /\ \A o \in Ops : op[o].node = n /\ op[o].pc = "retire" => op[o].was # "failed"
DropInv(n) ==
  pass[n].pc = "drop" =>
    pass[n].seen = etcd.meta /\ slot[n].st = "failed" /\ slot[n].id = pass[n].seen.id
ForwardInv(n) ==
  pass[n].pc = "forward" /\ pass[n].seen.revs = etcd.meta.revs =>
    slot[n].st = "open" /\ slot[n].id = pass[n].seen.id /\ ~InFlight(n)

OpInv(o) == IdInv(o) /\ RevInv(o) /\ CreatingInv(o) /\ RetiringInv(o) /\ CreatedInv(o) /\ FenceInv(o)
PassInv(n) == SeenInv(n) /\ ResolveInv(n) /\ DropInv(n) /\ ForwardInv(n)

IInv ==
  /\ ShapeInv /\ MetaInv /\ UpInv /\ FailedInv /\ ReadyHasData
  /\ \A o \in Ops : OpInv(o)
  /\ \A n \in Nodes : PassInv(n)

----------------------------------------------------------------------------
(* Fresh numbers.                                                          *)

(* Of one number more than a finite set has elements, one is not in it.    *)
LEMMA FreshIsNew ==
  ASSUME NEW S, IsFiniteSet(S)
  PROVE  Fresh(S) \notin S
<1> DEFINE k == Cardinality(S) + 1
<1>1. Cardinality(S) \in Nat /\ k \in Int /\ 1 \in Int /\ ~(1 > k)
  BY FS_CardinalityType
<1>2. Cardinality(1..k) = k
  BY <1>1, FS_Interval
<1>3. ~((1..k) \subseteq S)
  <2>1. SUFFICES ASSUME (1..k) \subseteq S PROVE FALSE
    OBVIOUS
  <2>2. Cardinality(1..k) <= Cardinality(S)
    BY <2>1, FS_Subset
  <2> QED BY <2>2, <1>1, <1>2
<1>4. \E i \in 1..k : i \notin S
  BY <1>3
<1> QED BY <1>4 DEF Fresh

(* A set of values that a function takes on a finite set is finite.        *)
LEMMA ImageFinite ==
  ASSUME NEW S, IsFiniteSet(S), NEW T, NEW f, \A y \in T : \E x \in S : y = f[x]
  PROVE  IsFiniteSet(T)
<1> DEFINE R == {x \in S : f[x] \in T}
           g == [x \in R |-> f[x]]
<1>1. g \in Surjection(R, T)
  BY DEF Surjection
<1>2. IsFiniteSet(R)
  BY FS_Subset
<1> QED BY <1>1, <1>2, FS_Surjection

(* Three elements are finitely many.                                       *)
LEMMA ThreeFinite ==
  ASSUME NEW a, NEW b, NEW c
  PROVE  IsFiniteSet({a, b, c})
<1>1. IsFiniteSet({a}) /\ IsFiniteSet({b}) /\ IsFiniteSet({c})
  BY FS_Singleton
<1>2. IsFiniteSet({a} \cup {b})
  BY <1>1, FS_Union
<1>3. IsFiniteSet(({a} \cup {b}) \cup {c})
  BY <1>1, <1>2, FS_Union
<1>4. {a, b, c} = ({a} \cup {b}) \cup {c}
  OBVIOUS
<1> QED BY <1>3, <1>4

(* No remembered lease is given out again.                                 *)
LEMMA LeaseIsNew ==
  ASSUME ShapeInv, NEW n, NEW use
  PROVE  FreshLease(n, use) \notin Leases
<1> DEFINE fences == [o \in Ops |-> op[o].fence]
           held == [m \in Nodes |-> {loop[m].ml, loop[m].ll, loop[m].lead.lease, loop[m].lease,
                                      snap[m].lead, pass[m].lease} \cup loop[m].drops]
           mine == {x \in Leases : x.of = <<n, use>>}
           nrs == [x \in mine |-> x.nr]
<1>1. IsFiniteSet({op[o].fence : o \in Ops})
  <2>1. \A y \in {op[o].fence : o \in Ops} : \E x \in Ops : y = fences[x]
    OBVIOUS
  <2> HIDE DEF fences
  <2> QED BY <2>1, ImageFinite, ClusterAssumption
<1>2. ASSUME NEW m \in Nodes PROVE IsFiniteSet(held[m])
  <2> DEFINE A == {loop[m].ml, loop[m].ll, loop[m].lead.lease, loop[m].lease, snap[m].lead, pass[m].lease}
  <2>1. IsFiniteSet(A)
    <3>1. IsFiniteSet({loop[m].ml, loop[m].ll, loop[m].lead.lease})
      BY ThreeFinite
    <3>2. IsFiniteSet({loop[m].lease, snap[m].lead, pass[m].lease})
      BY ThreeFinite
    <3>3. A = {loop[m].ml, loop[m].ll, loop[m].lead.lease} \cup {loop[m].lease, snap[m].lead, pass[m].lease}
      OBVIOUS
    <3> HIDE DEF A
    <3> QED BY <3>1, <3>2, <3>3, FS_Union
  <2>2. IsFiniteSet(loop[m].drops)
    BY <1>2 DEF ShapeInv
  <2> HIDE DEF A
  <2>3. IsFiniteSet(A \cup loop[m].drops)
    BY <2>1, <2>2, FS_Union
  <2> QED BY <2>3 DEF A
<1>3. IsFiniteSet(UNION {held[m] : m \in Nodes})
  <2>1. \A y \in {held[m] : m \in Nodes} : \E x \in Nodes : y = held[x]
    OBVIOUS
  <2> HIDE DEF held
  <2>2. IsFiniteSet({held[m] : m \in Nodes})
    BY <2>1, ImageFinite, ClusterAssumption
  <2> QED BY <2>2, <1>2, FS_UNION
<1>4. IsFiniteSet(Leases)
  <2>1. Leases = (etcd.live \cup {op[o].fence : o \in Ops}) \cup UNION {held[m] : m \in Nodes}
    BY Zenon DEF Leases
  <2>2. IsFiniteSet(etcd.live)
    BY DEF ShapeInv, EtcdShape
  <2>3. IsFiniteSet(etcd.live \cup {op[o].fence : o \in Ops})
    BY <2>2, <1>1, FS_Union
  <2> QED BY <2>1, <2>3, <1>3, FS_Union
<1>5. IsFiniteSet({x.nr : x \in mine})
  <2>1. IsFiniteSet(mine)
    BY <1>4, FS_Subset
  <2>2. \A y \in {x.nr : x \in mine} : \E x \in mine : y = nrs[x]
    OBVIOUS
  <2> HIDE DEF nrs, mine
  <2> QED BY <2>1, <2>2, ImageFinite
<1>6. Fresh({x.nr : x \in mine}) \notin {x.nr : x \in mine}
  BY <1>5, FreshIsNew
<1>7. FreshLease(n, use) = [of |-> <<n, use>>, nr |-> Fresh({x.nr : x \in mine})]
  BY DEF FreshLease, Lease
<1> HIDE DEF mine
<1>8. SUFFICES ASSUME FreshLease(n, use) \in Leases PROVE FALSE
  OBVIOUS
<1>9. FreshLease(n, use).of = <<n, use>> /\ FreshLease(n, use).nr = Fresh({x.nr : x \in mine})
  BY <1>7
<1>10. FreshLease(n, use) \in mine
  BY <1>8, <1>9 DEF mine
<1> QED BY <1>6, <1>9, <1>10

(* No remembered revision is given out again, and none is 0, that of an    *)
(* absent key.                                                             *)
LEMMA RevIsNew ==
  ASSUME ShapeInv
  PROVE  /\ FreshRev # 0
         /\ \A n \in Nodes, k \in 1..3 : FreshRev # pass[n].seen.revs[k]
         /\ \A o \in Ops, k \in 1..3 : FreshRev # op[o].revs[k]
<1> DEFINE f1 == [n \in Nodes |-> pass[n].seen.revs[1]]
           f2 == [n \in Nodes |-> pass[n].seen.revs[2]]
           f3 == [n \in Nodes |-> pass[n].seen.revs[3]]
           g1 == [o \in Ops |-> op[o].revs[1]]
           g2 == [o \in Ops |-> op[o].revs[2]]
           g3 == [o \in Ops |-> op[o].revs[3]]
           A == {etcd.meta.revs[k] : k \in 1..3}
           B == {pass[n].seen.revs[k] : n \in Nodes, k \in 1..3}
           C == {op[o].revs[k] : o \in Ops, k \in 1..3}
<1>1. 1..3 = {1, 2, 3}
  OBVIOUS
<1>2. IsFiniteSet(A)
  <2>1. A = {etcd.meta.revs[1], etcd.meta.revs[2], etcd.meta.revs[3]}
    BY <1>1
  <2> HIDE DEF A
  <2> QED BY <2>1, ThreeFinite
<1>3. IsFiniteSet(B)
  <2> DEFINE B1 == {pass[n].seen.revs[1] : n \in Nodes}
             B2 == {pass[n].seen.revs[2] : n \in Nodes}
             B3 == {pass[n].seen.revs[3] : n \in Nodes}
  <2>1. IsFiniteSet(B1)
    <3>1. \A y \in B1 : \E n \in Nodes : y = f1[n]
      OBVIOUS
    <3> HIDE DEF f1, B1
    <3> QED BY <3>1, ImageFinite, ClusterAssumption
  <2>2. IsFiniteSet(B2)
    <3>1. \A y \in B2 : \E n \in Nodes : y = f2[n]
      OBVIOUS
    <3> HIDE DEF f2, B2
    <3> QED BY <3>1, ImageFinite, ClusterAssumption
  <2>3. IsFiniteSet(B3)
    <3>1. \A y \in B3 : \E n \in Nodes : y = f3[n]
      OBVIOUS
    <3> HIDE DEF f3, B3
    <3> QED BY <3>1, ImageFinite, ClusterAssumption
  <2>4. B = (B1 \cup B2) \cup B3
    BY <1>1
  <2> HIDE DEF B, B1, B2, B3
  <2>5. IsFiniteSet(B1 \cup B2)
    BY <2>1, <2>2, FS_Union
  <2> QED BY <2>3, <2>4, <2>5, FS_Union
<1>4. IsFiniteSet(C)
  <2> DEFINE C1 == {op[o].revs[1] : o \in Ops}
             C2 == {op[o].revs[2] : o \in Ops}
             C3 == {op[o].revs[3] : o \in Ops}
  <2>1. IsFiniteSet(C1)
    <3>1. \A y \in C1 : \E o \in Ops : y = g1[o]
      OBVIOUS
    <3> HIDE DEF g1, C1
    <3> QED BY <3>1, ImageFinite, ClusterAssumption
  <2>2. IsFiniteSet(C2)
    <3>1. \A y \in C2 : \E o \in Ops : y = g2[o]
      OBVIOUS
    <3> HIDE DEF g2, C2
    <3> QED BY <3>1, ImageFinite, ClusterAssumption
  <2>3. IsFiniteSet(C3)
    <3>1. \A y \in C3 : \E o \in Ops : y = g3[o]
      OBVIOUS
    <3> HIDE DEF g3, C3
    <3> QED BY <3>1, ImageFinite, ClusterAssumption
  <2>4. C = (C1 \cup C2) \cup C3
    BY <1>1
  <2> HIDE DEF C, C1, C2, C3
  <2>5. IsFiniteSet(C1 \cup C2)
    BY <2>1, <2>2, FS_Union
  <2> QED BY <2>3, <2>4, <2>5, FS_Union
<1>5. AllRevs = (A \cup B) \cup C
  BY DEF AllRevs
<1>6. IsFiniteSet(AllRevs \cup {0})
  <2> HIDE DEF A, B, C
  <2>1. IsFiniteSet(A \cup B)
    BY <1>2, <1>3, FS_Union
  <2>2. IsFiniteSet((A \cup B) \cup C)
    BY <2>1, <1>4, FS_Union
  <2> QED BY <2>2, <1>5, FS_AddElement
<1>7. FreshRev \notin AllRevs \cup {0}
  BY <1>6, FreshIsNew DEF FreshRev
<1> QED BY <1>7, <1>5

(* No id in use is given to a new collection, and none is 0.               *)
LEMMA IdIsNew ==
  ASSUME ShapeInv
  PROVE  FreshId # 0 /\ (\A n \in Nodes : FreshId # slot[n].id) /\ (\A o \in Ops : FreshId # op[o].id)
<1> DEFINE f == [n \in Nodes |-> slot[n].id]
           g == [n \in Nodes |-> pass[n].seen.id]
           h == [o \in Ops |-> op[o].id]
           A == {etcd.meta.id, etcd.meta.of, 0}
<1>1. IsFiniteSet(A)
  BY ThreeFinite
<1>2. IsFiniteSet({slot[n].id : n \in Nodes})
  <2>1. \A y \in {slot[n].id : n \in Nodes} : \E x \in Nodes : y = f[x]
    OBVIOUS
  <2> HIDE DEF f
  <2> QED BY <2>1, ImageFinite, ClusterAssumption
<1>3. IsFiniteSet({pass[n].seen.id : n \in Nodes})
  <2>1. \A y \in {pass[n].seen.id : n \in Nodes} : \E x \in Nodes : y = g[x]
    OBVIOUS
  <2> HIDE DEF g
  <2> QED BY <2>1, ImageFinite, ClusterAssumption
<1>4. IsFiniteSet({op[o].id : o \in Ops})
  <2>1. \A y \in {op[o].id : o \in Ops} : \E x \in Ops : y = h[x]
    OBVIOUS
  <2> HIDE DEF h
  <2> QED BY <2>1, ImageFinite, ClusterAssumption
<1> HIDE DEF A
<1>5. IsFiniteSet(A \cup {slot[n].id : n \in Nodes} \cup {pass[n].seen.id : n \in Nodes}
                    \cup {op[o].id : o \in Ops})
  BY <1>1, <1>2, <1>3, <1>4, FS_Union
<1>6. FreshId \notin A \cup {slot[n].id : n \in Nodes} \cup {pass[n].seen.id : n \in Nodes}
                    \cup {op[o].id : o \in Ops}
  BY <1>5, FreshIsNew DEF FreshId, A
<1> QED BY <1>6 DEF A

----------------------------------------------------------------------------
(* What a step may rely on, and how the steps of requests change the state. *)

InFlightPcs == {"put"} \cup CreatePcs \cup DropPcs

(* The state a request step leaves alone when it changes neither the slots *)
(* nor the catalog's entry.                                                *)
Frame ==
  /\ EtcdShape(etcd)' /\ etcd'.meta = etcd.meta /\ etcd'.leader = etcd.leader
  /\ UNCHANGED <<up, loop, pass, dropped>>

(* What must hold of a request that is not in flight.                      *)
QuietOp(o, r) ==
  /\ OpShape(r) /\ r.pc \notin InFlightPcs
  /\ r.pc # "idle" => r.node \in Nodes /\ up[r.node]
  /\ \A x \in Ops \ {o} : op[x].pc = "put" => r.id # op[x].id
  /\ r.pc = "put_schema" =>
       r.revs[2] # 0 /\ (r.revs[2] = etcd'.meta.revs[2] => etcd'.meta.ready /\ etcd'.meta.ver < r.ver)
  /\ r.pc = "move" => r.revs[2] # 0 /\ (r.revs[2] = etcd'.meta.revs[2] => etcd'.meta.ready)

(* The requests after a step of one of them.                               *)
LEMMA SetOpIs ==
  ASSUME ShapeInv, NEW o \in Ops, NEW r, SetOp(o, r)
  PROVE  op'[o] = r /\ (\A x \in Ops \ {o} : op'[x] = op[x]) /\ DOMAIN op' = Ops
BY DEF SetOp, ShapeInv

(* A request that ends is not in flight.                                   *)
LEMMA IdleIsQuiet ==
  ASSUME IInv, NEW o \in Ops
  PROVE  QuietOp(o, Idle)
BY DEF QuietOp, Idle, OpShape, InFlightPcs, CreatePcs, DropPcs, IInv, OpInv, IdInv

(* The slots, but for their schemas.                                       *)
SameSlots ==
  /\ DOMAIN slot' = Nodes
  /\ \A m \in Nodes : /\ DOMAIN slot'[m] = {"st", "id", "ver"}
                      /\ slot'[m].st = slot[m].st /\ slot'[m].id = slot[m].id

(* A request takes a step, or ends, out of flight; a schema may change.    *)
LEMMA QuietSlotStep ==
  ASSUME IInv, NEW o \in Ops, NEW r, SetOp(o, r), QuietOp(o, r), Frame, SameSlots
  PROVE  IInv'
<1>1. op'[o] = r /\ (\A x \in Ops \ {o} : op'[x] = op[x]) /\ DOMAIN op' = Ops
  BY SetOpIs DEF IInv
<1>2. ShapeInv'
  BY <1>1 DEF IInv, ShapeInv, Frame, QuietOp, SameSlots
<1>3. MetaInv' /\ ReadyHasData'
  BY DEF IInv, MetaInv, ReadyHasData, Frame, SameSlots, NoMeta
<1>4. UpInv'
  BY <1>1 DEF IInv, UpInv, Frame, QuietOp
<1>5. \A n : InFlight(n)' => InFlight(n)
  BY <1>1 DEF InFlight, QuietOp, InFlightPcs, CreatePcs, DropPcs
<1>0. r.pc # "retire" /\ r.pc # "put"
  BY DEF QuietOp, InFlightPcs, DropPcs
<1>6. FailedInv'
  <2>1. SUFFICES ASSUME Pending(etcd.meta), slot'[etcd.meta.node].id = etcd.meta.id
                 PROVE  /\ slot'[etcd.meta.node].st = "failed" => ~InFlight(etcd.meta.node)'
                        /\ \A x \in Ops : op'[x].node = etcd.meta.node /\ op'[x].pc = "retire" => op'[x].was = "open"
    BY DEF FailedInv, Frame
  <2>2. etcd.meta.node \in Nodes
    BY <2>1 DEF IInv, MetaInv, Pending
  <2>3. slot[etcd.meta.node].id = etcd.meta.id /\ slot'[etcd.meta.node].st = slot[etcd.meta.node].st
    BY <2>1, <2>2 DEF SameSlots
  <2>4. etcd'.meta = etcd.meta
    BY DEF Frame
  <2> QED BY <1>0, <1>1, <1>5, <2>1, <2>3, <2>4 DEF IInv, FailedInv
<1>7. ASSUME NEW n \in Nodes PROVE PassInv(n)'
  <2>1. SeenInv(n) /\ ResolveInv(n) /\ DropInv(n) /\ ForwardInv(n) /\ pass'[n] = pass[n]
    BY <1>7 DEF IInv, PassInv, Frame
  <2>0. slot'[n].st = slot[n].st /\ slot'[n].id = slot[n].id /\ etcd'.meta = etcd.meta
    BY <1>7 DEF SameSlots, Frame
  <2>2. SeenInv(n)' /\ DropInv(n)'
    BY <1>7, <2>1 DEF SeenInv, DropInv, Frame, SameSlots
  <2>3. ResolveInv(n)'
    BY <1>0, <1>1, <2>0, <2>1 DEF ResolveInv
  <2>4. ForwardInv(n)'
    BY <1>5, <1>7, <2>1 DEF ForwardInv, Frame, SameSlots
  <2> QED BY <2>2, <2>3, <2>4 DEF PassInv
<1>8. ASSUME NEW x \in Ops PROVE OpInv(x)'
  <2>1. CASE x = o
    BY <1>1, <2>1 DEF OpInv, IdInv, RevInv, CreatingInv, RetiringInv, CreatedInv, FenceInv, QuietOp,
                      InFlightPcs, CreatePcs, DropPcs
  <2>2. CASE x # o
    <3>1. OpInv(x) /\ op'[x] = op[x]
      BY <1>1, <1>8, <2>2 DEF IInv
    <3>2. IdInv(x)'
      <4>1. \A m \in Nodes : slot'[m].id = slot[m].id
        BY DEF SameSlots
      <4>2. op[x].pc = "put" => r.id # op[x].id
        BY <1>8, <2>2 DEF QuietOp
      <4> QED BY <1>1, <1>8, <2>2, <3>1, <4>1, <4>2 DEF OpInv, IdInv
    <3>3. RevInv(x)' /\ FenceInv(x)'
      BY <3>1 DEF OpInv, RevInv, FenceInv, Frame
    <3>0. op[x].pc # "idle" =>
            slot'[op[x].node].st = slot[op[x].node].st /\ slot'[op[x].node].id = slot[op[x].node].id
      BY <1>8 DEF IInv, UpInv, SameSlots
    <3>4. CreatingInv(x)' /\ RetiringInv(x)' /\ CreatedInv(x)'
      BY <1>1, <1>8, <2>2, <3>0, <3>1
         DEF OpInv, CreatingInv, RetiringInv, CreatedInv, QuietOp, InFlightPcs, CreatePcs, DropPcs, Frame
    <3> QED BY <3>1, <3>2, <3>3, <3>4 DEF OpInv
  <2> QED BY <2>1, <2>2
<1> QED BY <1>2, <1>3, <1>4, <1>6, <1>7, <1>8 DEF IInv

(* The same for a step that leaves the slots alone.                        *)
LEMMA QuietStep ==
  ASSUME IInv, NEW o \in Ops, NEW r, SetOp(o, r), QuietOp(o, r), Frame, UNCHANGED slot
  PROVE  IInv'
<1>1. SameSlots
  BY DEF SameSlots, IInv, ShapeInv
<1> QED BY <1>1, QuietSlotStep

----------------------------------------------------------------------------
(* Steps that end requests and passes, or start a pass, and may change the *)
(* catalog's entry.                                                        *)

OpsEnd == DOMAIN op' = Ops /\ \A o \in Ops : op'[o] = op[o] \/ op'[o] = Idle
PassesEnd ==
  /\ DOMAIN pass' = Nodes
  /\ \A n \in Nodes : pass'[n] = pass[n] \/ pass'[n].pc = "idle" \/ (pass'[n].pc = "list" /\ up'[n])
  /\ \A n \in Nodes : DOMAIN pass'[n] = {"pc", "lease", "seen"}
LoopShape ==
  DOMAIN loop' = Nodes /\ \A n \in Nodes : DOMAIN loop'[n] = DOMAIN NewLoop /\ IsFiniteSet(loop'[n].drops)

(* A request that ended knows nothing.                                     *)
LEMMA IdleOp ==
  ASSUME NEW o \in Ops, op'[o] = Idle
  PROVE  OpInv(o)'
BY DEF Idle, OpInv, IdInv, RevInv, CreatingInv, RetiringInv, CreatedInv, FenceInv, CreatePcs, DropPcs

(* One pass ends and the others stay.                                      *)
LEMMA PassEnds ==
  ASSUME IInv, NEW n \in Nodes, pass' = [pass EXCEPT ![n] = NoPass]
  PROVE  PassesEnd /\ pass'[n].pc = "idle"
<1>1. NoPass.pc = "idle" /\ DOMAIN NoPass = {"pc", "lease", "seen"}
  BY DEF NoPass
<1>2. DOMAIN pass = Nodes /\ \A m \in Nodes : DOMAIN pass[m] = {"pc", "lease", "seen"}
  BY DEF IInv, ShapeInv
<1>3. DOMAIN pass' = Nodes /\ pass'[n] = NoPass /\ \A m \in Nodes \ {n} : pass'[m] = pass[m]
  BY <1>2
<1>4. ASSUME NEW m \in Nodes
      PROVE  /\ pass'[m] = pass[m] \/ pass'[m].pc = "idle"
             /\ DOMAIN pass'[m] = {"pc", "lease", "seen"}
  BY <1>1, <1>2, <1>3, <1>4
<1>5. pass'[n].pc = "idle"
  BY <1>1, <1>3
<1> QED BY <1>3, <1>4, <1>5 DEF PassesEnd

(* One request ends and the others stay.                                   *)
LEMMA OpEnds ==
  ASSUME IInv, NEW o \in Ops, SetOp(o, Idle)
  PROVE  OpsEnd
BY DEF OpsEnd, SetOp, IInv, ShapeInv

(* What ending requests and passes keeps, whatever becomes of the entry.   *)
LEMMA EndShape ==
  ASSUME IInv, OpsEnd, PassesEnd, LoopShape, EtcdShape(etcd)', UNCHANGED <<up, slot>>, dropped' \in BOOLEAN
  PROVE  /\ ShapeInv' /\ UpInv' /\ \A n : InFlight(n)' => InFlight(n)
         /\ \A o \in Ops : op'[o].pc = "retire" => op'[o] = op[o]
         /\ \A o \in Ops : IdInv(o)' /\ CreatingInv(o)' /\ RetiringInv(o)'
<1>1. ShapeInv'
  BY DEF IInv, ShapeInv, OpsEnd, PassesEnd, LoopShape, Idle, OpShape
<1>2. UpInv'
  BY DEF IInv, UpInv, OpsEnd, PassesEnd, Idle
<1>0. \A o \in Ops : op'[o] = op[o] \/ (op'[o].pc = "idle" /\ op'[o].id = 0)
  BY DEF OpsEnd, Idle
<1>3. \A n : InFlight(n)' => InFlight(n)
  BY <1>0 DEF InFlight
<1>4. \A o \in Ops : op'[o].pc = "retire" => op'[o] = op[o]
  BY DEF OpsEnd, Idle
<1>5. ASSUME NEW o \in Ops PROVE IdInv(o)' /\ CreatingInv(o)' /\ RetiringInv(o)'
  <2>1. CASE op'[o] = Idle
    BY <2>1, <1>5, IdleOp DEF OpInv
  <2>2. CASE op'[o] = op[o]
    <3>1. OpInv(o)
      BY <1>5 DEF IInv
    <3>2. IdInv(o)'
      BY <1>0, <1>5, <2>2, <3>1 DEF OpInv, IdInv
    <3>3. CreatingInv(o)'
      BY <1>0, <1>5, <2>2, <3>1 DEF OpInv, CreatingInv
    <3>4. RetiringInv(o)'
      BY <1>0, <1>5, <2>2, <3>1 DEF OpInv, RetiringInv
    <3> QED BY <3>2, <3>3, <3>4
  <2> QED BY <1>5, <2>1, <2>2 DEF OpsEnd
<1> QED BY <1>1, <1>2, <1>3, <1>4, <1>5

(* The leader key stays, goes, or gets a lease no request remembers.       *)
LeaderMoves ==
  \/ etcd'.leader = etcd.leader
  \/ etcd'.leader = NoLeader
  \/ \E n \in Nodes : etcd'.leader = [node |-> n, lease |-> FreshLease(n, "leader")]

(* The entry stays as it is.                                               *)
LEMMA EndStep ==
  ASSUME IInv, OpsEnd, PassesEnd, LoopShape, EtcdShape(etcd)', UNCHANGED <<up, slot, dropped>>,
         etcd'.meta = etcd.meta, LeaderMoves
  PROVE  IInv'
<1>1. /\ ShapeInv' /\ UpInv' /\ \A n : InFlight(n)' => InFlight(n)
      /\ \A o \in Ops : op'[o].pc = "retire" => op'[o] = op[o]
      /\ \A o \in Ops : IdInv(o)' /\ CreatingInv(o)' /\ RetiringInv(o)'
  BY EndShape DEF IInv, ShapeInv
<1>2. MetaInv' /\ ReadyHasData'
  BY DEF IInv, MetaInv, ReadyHasData
<1>3. FailedInv'
  BY <1>1 DEF IInv, FailedInv
<1>4. ASSUME NEW n \in Nodes PROVE PassInv(n)'
  <2>1. CASE pass'[n] = pass[n]
    <3>1. SeenInv(n) /\ ResolveInv(n) /\ DropInv(n) /\ ForwardInv(n)
      BY <1>4 DEF IInv, PassInv
    <3>2. SeenInv(n)' /\ DropInv(n)'
      BY <2>1, <3>1 DEF SeenInv, DropInv
    <3>3. ResolveInv(n)'
      BY <1>1, <2>1, <3>1 DEF ResolveInv
    <3>4. ForwardInv(n)'
      BY <1>1, <2>1, <3>1 DEF ForwardInv
    <3> QED BY <3>2, <3>3, <3>4 DEF PassInv
  <2>2. CASE pass'[n].pc \in {"idle", "list"}
    BY <2>2 DEF PassInv, SeenInv, ResolveInv, DropInv, ForwardInv, SeenPcs
  <2> QED BY <1>4, <2>1, <2>2 DEF PassesEnd
<1>5. ASSUME NEW o \in Ops PROVE OpInv(o)'
  <2>1. CASE op'[o] = Idle
    BY <2>1, <1>5, IdleOp
  <2>2. CASE op'[o] = op[o]
    <3>1. OpInv(o)
      BY <1>5 DEF IInv
    <3>2. RevInv(o)' /\ CreatedInv(o)'
      BY <2>2, <3>1 DEF OpInv, RevInv, CreatedInv
    <3>3. FenceInv(o)'
      <4>1. op[o].pc \in DropPcs => op[o].node # Nobody
        BY <1>5, ClusterAssumption DEF IInv, UpInv, DropPcs
      <4>2. \A n : op[o].fence # FreshLease(n, "leader")
        BY <1>5, LeaseIsNew DEF Leases, IInv
      <4>3. etcd'.leader = [node |-> op[o].node, lease |-> op[o].fence] /\ op[o].pc \in DropPcs
            => etcd'.leader = etcd.leader
        <5>1. SUFFICES ASSUME etcd'.leader = [node |-> op[o].node, lease |-> op[o].fence], op[o].pc \in DropPcs,
                              etcd'.leader # etcd.leader
                       PROVE FALSE
          OBVIOUS
        <5>2. etcd'.leader.node = op[o].node /\ etcd'.leader.lease = op[o].fence
          BY <5>1
        <5>3. CASE etcd'.leader = NoLeader
          BY <5>1, <5>2, <5>3, <4>1 DEF NoLeader
        <5>4. ASSUME NEW n \in Nodes, etcd'.leader = [node |-> n, lease |-> FreshLease(n, "leader")] PROVE FALSE
          <6>1. etcd'.leader.lease = FreshLease(n, "leader")
            BY <5>4
          <6> QED BY <6>1, <5>2, <4>2
        <5> QED BY <5>1, <5>3, <5>4 DEF LeaderMoves
      <4> QED BY <2>2, <3>1, <4>3 DEF OpInv, FenceInv
    <3> QED BY <1>1, <1>5, <3>2, <3>3 DEF OpInv
  <2> QED BY <1>5, <2>1, <2>2 DEF OpsEnd
<1> QED BY <1>1, <1>2, <1>3, <1>4, <1>5 DEF IInv

(* Where a pass found a failed collection of the entry it saw, the entry is *)
(* that one, and no request of the node is in flight.                      *)
Finds(n) ==
  \/ pass[n].pc = "resolve" /\ slot[n].id = pass[n].seen.id /\ slot[n].st = "failed"
  \/ pass[n].pc = "drop"

(* So it stays until the pass goes on.                                     *)
LEMMA FoundStays ==
  ASSUME IInv, NEW n \in Nodes, Finds(n)
  PROVE  /\ pass[n].seen = etcd.meta /\ Pending(etcd.meta) /\ etcd.meta.node = n /\ ~InFlight(n)
         /\ slot[n].st = "failed" /\ slot[n].id = etcd.meta.id
<1>1. SeenInv(n) /\ ResolveInv(n) /\ DropInv(n)
  BY DEF IInv, PassInv
<1>2. pass[n].seen = etcd.meta /\ slot[n].st = "failed" /\ slot[n].id = pass[n].seen.id
  BY <1>1 DEF Finds, ResolveInv, DropInv
<1>3. pass[n].seen.revs[2] # 0 /\ pass[n].seen.node = n /\ ~pass[n].seen.ready
  BY <1>1 DEF Finds, SeenInv, SeenPcs
<1>4. Pending(etcd.meta)
  BY <1>2, <1>3 DEF Pending, NoMeta
<1> QED BY <1>2, <1>3, <1>4 DEF IInv, FailedInv

(* The entry goes, or changes and is ready then, and nobody remembers its  *)
(* revisions.                                                              *)
LEMMA MetaStep ==
  ASSUME IInv, OpsEnd, PassesEnd, EtcdShape(etcd)', UNCHANGED <<up, loop, slot>>, etcd'.leader = etcd.leader,
         \A n \in Nodes : Finds(n) => pass'[n].pc = "idle",
         \/ etcd'.meta = NoMeta /\ dropped' = FALSE
         \/ /\ etcd'.meta.ready /\ dropped' = dropped /\ ReadyHasData'
            /\ etcd'.meta.revs[2] # 0 /\ etcd'.meta.id # 0 /\ etcd'.meta.node \in Nodes
            /\ \A o \in Ops : op[o].revs # etcd'.meta.revs
            /\ \A n \in Nodes : pass[n].seen.revs # etcd'.meta.revs
            /\ \A o \in Ops : op[o].revs[2] = etcd'.meta.revs[2] =>
                 etcd.meta.revs[2] = etcd'.meta.revs[2] /\ etcd.meta.ver = etcd'.meta.ver
  PROVE  IInv'
<1>1. LoopShape /\ dropped' \in BOOLEAN
  BY DEF IInv, ShapeInv, LoopShape
<1>2. /\ ShapeInv' /\ UpInv' /\ \A n : InFlight(n)' => InFlight(n)
      /\ \A o \in Ops : op'[o].pc = "retire" => op'[o] = op[o]
      /\ \A o \in Ops : IdInv(o)' /\ CreatingInv(o)' /\ RetiringInv(o)'
  BY <1>1, EndShape
<1>3. NoMeta.ready = FALSE /\ NoMeta.revs[2] = 0
  BY DEF NoMeta
<1>4. MetaInv' /\ ReadyHasData'
  BY <1>3 DEF MetaInv, ReadyHasData
<1>5. ~Pending(etcd'.meta)
  BY DEF Pending
<1>6. FailedInv'
  BY <1>5 DEF FailedInv
<1>7. ASSUME NEW n \in Nodes PROVE PassInv(n)'
  <2>1. CASE pass'[n] = pass[n]
    <3>1. SeenInv(n) /\ ResolveInv(n) /\ ~Finds(n)
      BY <1>7, <2>1 DEF IInv, PassInv, Finds
    <3>2. pass[n].pc \in SeenPcs => pass[n].seen.revs # etcd'.meta.revs
      BY <1>3, <1>7, <3>1 DEF SeenInv
    <3>3. SeenInv(n)' /\ DropInv(n)' /\ ForwardInv(n)'
      BY <2>1, <3>1, <3>2 DEF SeenInv, DropInv, ForwardInv, Finds, SeenPcs
    <3>4. ResolveInv(n)'
      BY <1>2, <2>1, <3>1 DEF ResolveInv, Finds
    <3> QED BY <3>3, <3>4 DEF PassInv
  <2>2. CASE pass'[n].pc \in {"idle", "list"}
    BY <2>2 DEF PassInv, SeenInv, ResolveInv, DropInv, ForwardInv, SeenPcs
  <2> QED BY <1>7, <2>1, <2>2 DEF PassesEnd
<1>8. ASSUME NEW o \in Ops PROVE OpInv(o)'
  <2>1. CASE op'[o] = Idle
    BY <2>1, <1>8, IdleOp
  <2>2. CASE op'[o] = op[o]
    <3>1. RevInv(o)
      BY <1>8 DEF IInv, OpInv
    <3>2. RevInv(o)'
      BY <1>3, <1>8, <2>2, <3>1 DEF RevInv
    <3>3. CreatedInv(o)'
      BY <1>3, <1>8, <2>2, <3>1 DEF RevInv, CreatedInv, CreatePcs
    <3>4. FenceInv(o)'
      BY <1>5 DEF FenceInv
    <3> QED BY <1>2, <1>8, <3>2, <3>3, <3>4 DEF OpInv
  <2> QED BY <1>8, <2>1, <2>2 DEF OpsEnd
<1> QED BY <1>2, <1>4, <1>6, <1>7, <1>8 DEF IInv

----------------------------------------------------------------------------
(* The coordination loop touches no entry, no slot and no request.         *)

(* The loop may start a pass and changes nothing else the proof is about.  *)
LEMMA GoOnIs ==
  ASSUME IInv, NEW n \in Nodes, up[n], NEW l, DOMAIN l = DOMAIN NewLoop, IsFiniteSet(l.drops), GoOn(n, l)
  PROVE  OpsEnd /\ PassesEnd /\ LoopShape /\ UNCHANGED <<up, slot, dropped>>
<1>1. PICK ends \in BOOLEAN, starts \in BOOLEAN :
        /\ loop' = [loop EXCEPT ![n] = IF ends THEN [NewLoop EXCEPT !.ml = l.ml, !.ll = l.ll,
                                                            !.lease = IF starts THEN l.ml ELSE l.lease]
                                       ELSE [l EXCEPT !.pc = Todo(n, l)]]
        /\ pass' = IF starts THEN [pass EXCEPT ![n] = [NoPass EXCEPT !.pc = "list", !.lease = l.ml]]
                   ELSE pass
        /\ UNCHANGED <<up, slot, op, dropped>>
  BY DEF GoOn, SetLoop, PassDue
<1>2. DOMAIN loop = Nodes /\ DOMAIN pass = Nodes /\ DOMAIN op = Ops
  BY DEF IInv, ShapeInv
<1>3. LoopShape
  <2>1. NewLoop.drops = {}
    BY DEF NewLoop
  <2>2. DOMAIN loop'[n] = DOMAIN NewLoop /\ (loop'[n].drops = {} \/ loop'[n].drops = l.drops)
    <3>1. CASE ends
      BY <1>1, <1>2, <2>1, <3>1 DEF NewLoop
    <3>2. CASE ~ends
      <4>1. loop'[n] = [l EXCEPT !.pc = Todo(n, l)]
        BY <1>1, <1>2, <3>2
      <4> QED BY <4>1
    <3> QED BY <3>1, <3>2
  <2>3. \A m \in Nodes \ {n} : loop'[m] = loop[m]
    BY <1>1, <1>2
  <2>4. DOMAIN loop' = Nodes
    BY <1>1, <1>2
  <2> QED BY <2>2, <2>3, <2>4, FS_EmptySet DEF LoopShape, IInv, ShapeInv
<1>4. PassesEnd
  <2>1. CASE starts
    BY <1>1, <1>2, <2>1 DEF PassesEnd, NoPass, IInv, ShapeInv
  <2>2. CASE ~starts
    BY <1>1, <1>2, <2>2 DEF PassesEnd, IInv, ShapeInv
  <2> QED BY <2>1, <2>2
<1> QED BY <1>1, <1>2, <1>3, <1>4 DEF OpsEnd

(* A revoked lease takes the leader key with it or leaves it.              *)
LEMMA RevokeIs ==
  ASSUME EtcdShape(etcd), NEW leases
  PROVE  /\ EtcdShape(Revoke(etcd, leases)) /\ Revoke(etcd, leases).meta = etcd.meta
         /\ Revoke(etcd, leases).leader = etcd.leader \/ Revoke(etcd, leases).leader = NoLeader
<1>1. IsFiniteSet(etcd.live \ leases)
  BY FS_Difference DEF EtcdShape
<1> QED BY <1>1 DEF Revoke, EtcdShape

(* A registration changes neither the entry nor the leader.                *)
LEMMA RegisterIs ==
  ASSUME EtcdShape(etcd), NEW n, NEW lease
  PROVE  /\ EtcdShape(Register(etcd, n, lease)) /\ Register(etcd, n, lease).meta = etcd.meta
         /\ Register(etcd, n, lease).leader = etcd.leader
<1>1. IsFiniteSet(etcd.live \cup {lease})
  BY FS_AddElement DEF EtcdShape
<1> QED BY <1>1 DEF Register, EtcdShape

(* A campaign that wins changes the leader only.                           *)
LEMMA AcquireIs ==
  ASSUME EtcdShape(etcd), NEW n, NEW lease
  PROVE  /\ EtcdShape(Acquire(etcd, n, lease)) /\ Acquire(etcd, n, lease).meta = etcd.meta
         /\ Acquire(etcd, n, lease).leader = [node |-> n, lease |-> lease]
<1>1. IsFiniteSet(etcd.live \cup {lease})
  BY FS_AddElement DEF EtcdShape
<1> QED BY <1>1 DEF Acquire, EtcdShape

(* Every step of the coordination loop preserves the invariant.            *)
LEMMA LoopSteps ==
  ASSUME IInv, NEW n \in Nodes,
         Observe(n) \/ ObserveAgain(n) \/ RevokeLost(n) \/ RegisterMembership(n) \/ Campaign(n) \/ StopLoop(n)
  PROVE  IInv'
<1> DEFINE Touches == /\ OpsEnd /\ PassesEnd /\ LoopShape /\ UNCHANGED <<up, slot, dropped>>
                      /\ EtcdShape(etcd)' /\ etcd'.meta = etcd.meta /\ LeaderMoves
<1>0. /\ EtcdShape(etcd) /\ DOMAIN loop = Nodes /\ DOMAIN pass = Nodes /\ DOMAIN op = Ops
      /\ DOMAIN loop[n] = DOMAIN NewLoop /\ IsFiniteSet(loop[n].drops)
  BY DEF IInv, ShapeInv
<1> SUFFICES Touches
  BY EndStep
<1>1. CASE Observe(n)
  <2>1. PICK failed, l : DOMAIN l = DOMAIN NewLoop /\ IsFiniteSet(l.drops) /\ GoOn(n, l)
    <3>1. PICK failed \in SUBSET {"keep_alive", "members", "leader"} :
            LET kept(lease) == IF "keep_alive" \in failed \/ lease \in etcd.live THEN lease ELSE NoLease
                l == [loop[n] EXCEPT !.ml = kept(@), !.ll = kept(@), !.mem = MemberRead(n, failed),
                                  !.lead = LeaderRead(failed)]
                still == LostClaims(l, l.lead)
            IN GoOn(n, [l EXCEPT !.ml = still.ml, !.ll = still.ll, !.drops = still.drops])
      BY <1>1 DEF Observe
    <3> DEFINE kept(lease) == IF "keep_alive" \in failed \/ lease \in etcd.live THEN lease ELSE NoLease
               l == [loop[n] EXCEPT !.ml = kept(@), !.ll = kept(@), !.mem = MemberRead(n, failed),
                                  !.lead = LeaderRead(failed)]
               still == LostClaims(l, l.lead)
               k == [l EXCEPT !.ml = still.ml, !.ll = still.ll, !.drops = still.drops]
    <3>2. GoOn(n, k)
      BY <3>1
    <3>3. DOMAIN l = DOMAIN NewLoop
      BY <1>0
    <3> HIDE DEF l
    <3>4. IsFiniteSet({l.ml, l.ll, l.ll})
      BY ThreeFinite
    <3>5. still.drops \subseteq {l.ml, l.ll, l.ll}
      BY DEF LostClaims
    <3>6. IsFiniteSet(still.drops)
      BY <3>4, <3>5, FS_Subset
    <3> HIDE DEF still
    <3>7. k.drops = still.drops /\ DOMAIN k = DOMAIN NewLoop
      BY <3>3 DEF NewLoop
    <3> HIDE DEF k
    <3> QED BY <3>2, <3>6, <3>7
  <2>2. etcd' = etcd /\ up[n]
    BY <1>1 DEF Observe
  <2> QED BY <2>1, <2>2, <1>0, GoOnIs DEF LeaderMoves
<1>2. CASE ObserveAgain(n)
  <2>1. PICK failed : GoOn(n, [loop[n] EXCEPT !.mem = MemberRead(n, failed), !.lead = LeaderRead(failed),
                                              !.acquired = FALSE, !.ran = TRUE])
    BY <1>2 DEF ObserveAgain
  <2> DEFINE l == [loop[n] EXCEPT !.mem = MemberRead(n, failed), !.lead = LeaderRead(failed),
                                  !.acquired = FALSE, !.ran = TRUE]
  <2>2. DOMAIN l = DOMAIN NewLoop /\ l.drops = loop[n].drops
    BY <1>0
  <2>3. etcd' = etcd /\ up[n]
    BY <1>2 DEF ObserveAgain
  <2> HIDE DEF l
  <2>4. GoOn(n, l)
    BY <2>1 DEF l
  <2> QED BY <2>2, <2>3, <2>4, <1>0, GoOnIs DEF LeaderMoves
<1>3. CASE RevokeLost(n)
  <2> DEFINE l == [loop[n] EXCEPT !.drops = {}, !.lead = IF @.lease \in loop[n].drops THEN NoLeader ELSE @]
  <2>1. GoOn(n, l) /\ up[n]
    BY <1>3 DEF RevokeLost
  <2>2. etcd' = etcd \/ etcd' = Revoke(etcd, loop[n].drops)
    BY <1>3 DEF RevokeLost, Send
  <2>3. DOMAIN l = DOMAIN NewLoop /\ l.drops = {}
    BY <1>0 DEF NewLoop
  <2> HIDE DEF l
  <2>4. EtcdShape(etcd)' /\ etcd'.meta = etcd.meta /\ LeaderMoves
    BY <2>2, <1>0, RevokeIs DEF LeaderMoves
  <2> QED BY <2>1, <2>3, <2>4, GoOnIs, FS_EmptySet
<1>4. CASE RegisterMembership(n)
  <2>1. PICK out : /\ Send(out, TRUE, Register(etcd, n, FreshLease(n, "member")))
                   /\ IF out = "ok"
                      THEN GoOn(n, [loop[n] EXCEPT !.ml = FreshLease(n, "member"), !.acquired = TRUE])
                      ELSE /\ SetLoop(n, [NewLoop EXCEPT !.lease = loop[n].lease])
                           /\ UNCHANGED <<up, pass, slot, op, dropped>>
    BY <1>4 DEF RegisterMembership
  <2>2. etcd' = etcd \/ etcd' = Register(etcd, n, FreshLease(n, "member"))
    BY <2>1 DEF Send
  <2>3. EtcdShape(etcd)' /\ etcd'.meta = etcd.meta /\ LeaderMoves
    BY <2>2, <1>0, RegisterIs DEF LeaderMoves
  <2>4. CASE out = "ok"
    <3> DEFINE l == [loop[n] EXCEPT !.ml = FreshLease(n, "member"), !.acquired = TRUE]
    <3>1. DOMAIN l = DOMAIN NewLoop /\ l.drops = loop[n].drops
      BY <1>0
    <3>2. GoOn(n, l) /\ up[n]
      BY <2>1, <2>4, <1>4 DEF RegisterMembership
    <3> HIDE DEF l
    <3> QED BY <3>1, <3>2, <2>3, <1>0, GoOnIs
  <2>5. CASE out # "ok"
    <3>1. loop' = [loop EXCEPT ![n] = [NewLoop EXCEPT !.lease = loop[n].lease]] /\ UNCHANGED <<up, pass, slot, op, dropped>>
      BY <2>1, <2>5 DEF SetLoop
    <3>2. loop'[n].drops = {} /\ DOMAIN loop'[n] = DOMAIN NewLoop
      BY <3>1, <1>0 DEF NewLoop
    <3>3. LoopShape
      BY <3>1, <3>2, <1>0, FS_EmptySet DEF LoopShape, IInv, ShapeInv
    <3>4. OpsEnd /\ PassesEnd
      BY <3>1, <1>0 DEF OpsEnd, PassesEnd, IInv, ShapeInv
    <3> QED BY <3>1, <3>3, <3>4, <2>3
  <2> QED BY <2>4, <2>5
<1>5. CASE Campaign(n)
  <2>1. PICK out, ll, acquired :
          /\ Send(out, Vacant(etcd), Acquire(etcd, n, FreshLease(n, "leader")))
          /\ GoOn(n, [loop[n] EXCEPT !.ll = ll, !.ran = TRUE, !.acquired = acquired])
    <3>1. PICK out \in Outcomes :
            LET won == out = "ok" /\ Vacant(etcd)
            IN /\ Send(out, Vacant(etcd), Acquire(etcd, n, FreshLease(n, "leader")))
               /\ GoOn(n, [loop[n] EXCEPT !.ll = IF won THEN FreshLease(n, "leader") ELSE NoLease, !.ran = TRUE,
                                          !.acquired = @ \/ won])
      BY <1>5 DEF Campaign
    <3> QED BY <3>1
  <2> DEFINE l == [loop[n] EXCEPT !.ll = ll, !.ran = TRUE, !.acquired = acquired]
  <2>2. etcd' = etcd \/ etcd' = Acquire(etcd, n, FreshLease(n, "leader"))
    BY <2>1 DEF Send
  <2>3. EtcdShape(etcd)' /\ etcd'.meta = etcd.meta /\ LeaderMoves
    <3>1. CASE etcd' = etcd
      BY <3>1, <1>0 DEF LeaderMoves
    <3>2. CASE etcd' = Acquire(etcd, n, FreshLease(n, "leader"))
      <4>1. etcd'.leader = [node |-> n, lease |-> FreshLease(n, "leader")]
        BY <3>2, <1>0, AcquireIs
      <4>2. LeaderMoves
        BY <4>1, Zenon DEF LeaderMoves
      <4> QED BY <3>2, <4>2, <1>0, AcquireIs
    <3> QED BY <2>2, <3>1, <3>2
  <2>4. DOMAIN l = DOMAIN NewLoop /\ l.drops = loop[n].drops
    BY <1>0
  <2>5. GoOn(n, l) /\ up[n]
    BY <2>1, <1>5 DEF Campaign
  <2> HIDE DEF l
  <2> QED BY <2>3, <2>4, <2>5, <1>0, GoOnIs
<1>6. CASE StopLoop(n)
  <2>1. /\ loop' = [loop EXCEPT ![n] = [loop[n] EXCEPT !.pc = "stop"]] /\ pass' = [pass EXCEPT ![n] = NoPass]
        /\ UNCHANGED <<etcd, up, slot, op, dropped>>
    BY <1>6 DEF StopLoop, SetLoop
  <2>2. DOMAIN loop'[n] = DOMAIN NewLoop /\ loop'[n].drops = loop[n].drops
    BY <2>1, <1>0
  <2>3. LoopShape
    BY <2>1, <2>2, <1>0 DEF LoopShape, IInv, ShapeInv
  <2>4. OpsEnd /\ PassesEnd
    BY <2>1, <1>0, PassEnds DEF OpsEnd
  <2> QED BY <2>1, <2>3, <2>4, <1>0 DEF LeaderMoves
<1> QED BY <1>1, <1>2, <1>3, <1>4, <1>5, <1>6

(* The expiry of a lease preserves the invariant.                          *)
LEMMA Expires ==
  ASSUME IInv, NEW lease, Expire(lease)
  PROVE  IInv'
<1>1. etcd' = Revoke(etcd, {lease}) /\ UNCHANGED <<up, loop, pass, slot, op, dropped>>
  BY DEF Expire
<1>2. EtcdShape(etcd)' /\ etcd'.meta = etcd.meta /\ LeaderMoves
  BY <1>1, RevokeIs DEF LeaderMoves, IInv, ShapeInv
<1>3. OpsEnd /\ PassesEnd /\ LoopShape
  BY <1>1 DEF OpsEnd, PassesEnd, LoopShape, IInv, ShapeInv
<1> QED BY <1>1, <1>2, <1>3, EndStep

----------------------------------------------------------------------------
(* Requests out of flight.                                                 *)

(* A request that keeps its node and its id, or takes that of a slot, stays quiet. *)
LEMMA QuietMove ==
  ASSUME IInv, NEW o \in Ops, op[o].pc # "idle", NEW r, OpShape(r), r.node = op[o].node,
         r.id = op[o].id \/ (\E n \in Nodes : r.id = slot[n].id),
         r.pc \notin InFlightPcs, r.pc # "put_schema", r.pc # "move"
  PROVE  QuietOp(o, r)
<1>1. op[o].node \in Nodes /\ up[op[o].node]
  BY DEF IInv, UpInv
<1>2. ASSUME NEW x \in Ops \ {o}, op[x].pc = "put" PROVE r.id # op[x].id
  BY <1>2 DEF IInv, OpInv, IdInv
<1> QED BY <1>1, <1>2 DEF QuietOp

(* The database and its policy are none of the entry's keys.               *)
LEMMA DatabaseIs ==
  ASSUME EtcdShape(etcd), NEW p, NEW e, e \in {PutDatabase(etcd), PutPolicy(etcd, p), DeleteDatabase(etcd)}
  PROVE  EtcdShape(e) /\ e.meta = etcd.meta /\ e.leader = etcd.leader
BY DEF EtcdShape, PutDatabase, PutPolicy, DeleteDatabase

(* Every step of a request out of flight preserves the invariant.          *)
LEMMA QuietSteps ==
  ASSUME IInv, NEW o \in Ops,
         \/ EnsureDatabase(o) \/ PutDatabaseFenced(o) \/ AlterGate(o) \/ Describe(o) \/ ReadDescriptor(o)
         \/ ReadOwner(o) \/ CheckPromotion(o) \/ DatabaseGate(o) \/ ChangeDatabase(o)
  PROVE  IInv'
<1>0. EtcdShape(etcd) /\ OpShape(op[o])
  BY DEF IInv, ShapeInv
<1>1. ASSUME SetOp(o, Idle), Frame, UNCHANGED slot PROVE IInv'
  BY <1>1, IdleIsQuiet, QuietStep
<1>2. ASSUME op[o].pc # "idle", Frame, UNCHANGED slot,
             NEW r, SetOp(o, r), OpShape(r), r.node = op[o].node,
             r.id = op[o].id \/ (\E n \in Nodes : r.id = slot[n].id),
             r.pc \in {"put_database", "gate", "change", "publish", "check", "change_database"}
      PROVE IInv'
  <2>1. r.pc \notin InFlightPcs /\ r.pc # "put_schema" /\ r.pc # "move"
    BY <1>2 DEF InFlightPcs, CreatePcs, DropPcs
  <2>2. QuietOp(o, r)
    BY <1>2, <2>1, QuietMove
  <2> QED BY <1>2, <2>2, QuietStep
<1>3. ASSUME UNCHANGED <<etcd, up, loop, snap, pass, slot, dropped, ops, faults>> PROVE Frame /\ UNCHANGED slot
  BY <1>0, <1>3 DEF Frame
<1>4. CASE EnsureDatabase(o)
  <2>1. op[o].pc # "idle" /\ Frame /\ UNCHANGED slot
    BY <1>3, <1>4 DEF EnsureDatabase, At
  <2>2. PICK r : /\ SetOp(o, r)
                 /\ r \in {[op[o] EXCEPT !.pc = "gate"],
                          [op[o] EXCEPT !.pc = "put_database", !.fence = snap[op[o].node].lead], Idle}
    BY <1>4 DEF EnsureDatabase
  <2>3. CASE r = Idle
    BY <1>1, <2>1, <2>2, <2>3
  <2>4. CASE r = [op[o] EXCEPT !.pc = "gate"]
    <3>1. OpShape(r) /\ r.node = op[o].node /\ r.id = op[o].id /\ r.pc = "gate"
      BY <1>0, <2>4 DEF OpShape
    <3> QED BY <1>2, <2>1, <2>2, <3>1
  <2>5. CASE r = [op[o] EXCEPT !.pc = "put_database", !.fence = snap[op[o].node].lead]
    <3>1. OpShape(r) /\ r.node = op[o].node /\ r.id = op[o].id /\ r.pc = "put_database"
      BY <1>0, <2>5 DEF OpShape
    <3> QED BY <1>2, <2>1, <2>2, <3>1
  <2> QED BY <2>2, <2>3, <2>4, <2>5
<1>5. CASE PutDatabaseFenced(o)
  <2>1. PICK out \in Outcomes :
          LET ok == Holds(etcd, Fence(o))
          IN /\ Send(out, ok, PutDatabase(etcd))
             /\ SetOp(o, IF out = "ok" /\ ok THEN [op[o] EXCEPT !.pc = "gate"] ELSE Idle)
    BY <1>5 DEF PutDatabaseFenced
  <2>2. etcd' = etcd \/ etcd' = PutDatabase(etcd)
    BY <2>1 DEF Send
  <2>3. op[o].pc # "idle" /\ Frame /\ UNCHANGED slot
    BY <1>0, <1>5, <2>2, DatabaseIs DEF PutDatabaseFenced, At, Frame
  <2>4. SetOp(o, [op[o] EXCEPT !.pc = "gate"]) \/ SetOp(o, Idle)
    BY <2>1
  <2>5. CASE SetOp(o, [op[o] EXCEPT !.pc = "gate"])
    <3> DEFINE r == [op[o] EXCEPT !.pc = "gate"]
    <3>1. OpShape(r) /\ r.node = op[o].node /\ r.id = op[o].id /\ r.pc = "gate"
      BY <1>0 DEF OpShape
    <3> HIDE DEF r
    <3>2. SetOp(o, r)
      BY <2>5 DEF r
    <3> QED BY <1>2, <2>3, <3>1, <3>2
  <2> QED BY <1>1, <2>3, <2>4, <2>5
<1>6. CASE AlterGate(o)
  <2>1. op[o].pc # "idle" /\ Frame /\ UNCHANGED slot
    BY <1>3, <1>6 DEF AlterGate, At
  <2> DEFINE r == [op[o] EXCEPT !.pc = "change", !.id = slot[op[o].node].id]
  <2>2. SetOp(o, r) \/ SetOp(o, Idle)
    BY <1>6 DEF AlterGate
  <2>3. OpShape(r) /\ r.node = op[o].node /\ r.id = slot[op[o].node].id /\ r.pc = "change"
    BY <1>0 DEF OpShape
  <2> HIDE DEF r
  <2>4. op[o].node \in Nodes
    BY <2>1 DEF IInv, UpInv
  <2> QED BY <1>1, <1>2, <2>1, <2>2, <2>3, <2>4
<1>7. CASE Describe(o)
  <2>1. op[o].pc # "idle" /\ Frame /\ UNCHANGED slot
    BY <1>3, <1>7 DEF Describe, At
  <2> DEFINE n == op[o].node
             r == [op[o] EXCEPT !.pc = "publish", !.id = slot[n].id, !.ver = slot[n].ver, !.tries = 1]
  <2>2. SetOp(o, r) \/ SetOp(o, Idle)
    BY <1>7 DEF Describe
  <2>3. OpShape(r) /\ r.node = n /\ r.id = slot[n].id /\ r.pc = "publish"
    BY <1>0 DEF OpShape
  <2> HIDE DEF r
  <2>4. n \in Nodes
    BY <2>1 DEF IInv, UpInv
  <2> QED BY <1>1, <1>2, <2>1, <2>2, <2>3, <2>4
<1>8. CASE ReadDescriptor(o)
  <2>1. op[o].pc # "idle" /\ Frame /\ UNCHANGED slot
    BY <1>3, <1>8 DEF ReadDescriptor, At
  <2> DEFINE r == [op[o] EXCEPT !.pc = "put_schema", !.revs[Descriptor] = etcd.meta.revs[Descriptor]]
  <2>2. CASE TakesSchema(etcd.meta, op[o].ver)
    <3>1. SetOp(o, r)
      BY <1>8, <2>2 DEF ReadDescriptor
    <3>2. /\ OpShape(r) /\ r.node = op[o].node /\ r.id = op[o].id /\ r.ver = op[o].ver /\ r.pc = "put_schema"
          /\ r.revs[2] = etcd.meta.revs[2]
      BY <1>0 DEF OpShape, Descriptor
    <3> HIDE DEF r
    <3>3. etcd.meta.revs[2] # 0 /\ etcd.meta.ready /\ etcd.meta.ver < r.ver
      BY <2>2, <3>2 DEF TakesSchema, IInv, MetaInv
    <3>4. op[o].node \in Nodes /\ up[op[o].node]
      BY <2>1 DEF IInv, UpInv
    <3>5. \A x \in Ops \ {o} : op[x].pc = "put" => r.id # op[x].id
      BY <3>2 DEF IInv, OpInv, IdInv
    <3>6. QuietOp(o, r)
      BY <2>1, <3>2, <3>3, <3>4, <3>5 DEF QuietOp, Frame, InFlightPcs, CreatePcs, DropPcs
    <3> QED BY <2>1, <3>1, <3>6, QuietStep
  <2>3. CASE ~TakesSchema(etcd.meta, op[o].ver)
    <3>1. SetOp(o, Idle)
      BY <1>8, <2>3 DEF ReadDescriptor
    <3> QED BY <1>1, <2>1, <3>1
  <2> QED BY <2>2, <2>3
<1>9. CASE ReadOwner(o)
  <2>1. op[o].pc # "idle" /\ Frame /\ UNCHANGED slot
    BY <1>3, <1>9 DEF ReadOwner, At
  <2> DEFINE r == [op[o] EXCEPT !.pc = "check", !.revs[Owner] = etcd.meta.revs[Owner]]
  <2>2. SetOp(o, r) \/ SetOp(o, Idle)
    BY <1>9 DEF ReadOwner
  <2>3. OpShape(r) /\ r.node = op[o].node /\ r.id = op[o].id /\ r.pc = "check"
    BY <1>0 DEF OpShape
  <2> HIDE DEF r
  <2> QED BY <1>1, <1>2, <2>1, <2>2, <2>3
<1>10. CASE CheckPromotion(o)
  <2>1. op[o].pc # "idle" /\ Frame /\ UNCHANGED slot
    BY <1>3, <1>10 DEF CheckPromotion, At
  <2> DEFINE r == [op[o] EXCEPT !.pc = "move", !.revs[Descriptor] = etcd.meta.revs[Descriptor]]
  <2>2. CASE SetOp(o, r) /\ etcd.meta.ready
    <3>1. /\ OpShape(r) /\ r.node = op[o].node /\ r.id = op[o].id /\ r.pc = "move"
          /\ r.revs[2] = etcd.meta.revs[2]
      BY <1>0 DEF OpShape, Descriptor
    <3> HIDE DEF r
    <3>2. etcd.meta.revs[2] # 0
      BY <2>2 DEF IInv, MetaInv, NoMeta
    <3>3. op[o].node \in Nodes /\ up[op[o].node]
      BY <2>1 DEF IInv, UpInv
    <3>4. \A x \in Ops \ {o} : op[x].pc = "put" => r.id # op[x].id
      BY <3>1 DEF IInv, OpInv, IdInv
    <3>5. QuietOp(o, r)
      BY <2>1, <2>2, <3>1, <3>2, <3>3, <3>4 DEF QuietOp, Frame, InFlightPcs, CreatePcs, DropPcs
    <3> QED BY <2>1, <2>2, <3>5, QuietStep
  <2>3. (SetOp(o, r) /\ etcd.meta.ready) \/ SetOp(o, Idle)
    BY <1>10 DEF CheckPromotion
  <2> QED BY <1>1, <2>1, <2>2, <2>3
<1>11. CASE DatabaseGate(o)
  <2>1. op[o].pc # "idle" /\ Frame /\ UNCHANGED slot
    BY <1>3, <1>11 DEF DatabaseGate
  <2> DEFINE r == [op[o] EXCEPT !.pc = "change_database", !.fence = snap[op[o].node].lead]
  <2>2. SetOp(o, r) \/ SetOp(o, Idle)
    BY <1>11 DEF DatabaseGate
  <2>3. OpShape(r) /\ r.node = op[o].node /\ r.id = op[o].id /\ r.pc = "change_database"
    BY <1>0 DEF OpShape
  <2> HIDE DEF r
  <2> QED BY <1>1, <1>2, <2>1, <2>2, <2>3
<1>12. CASE ChangeDatabase(o)
  <2>1. etcd' = etcd \/ (\E p : etcd' = PutPolicy(etcd, p)) \/ etcd' = DeleteDatabase(etcd)
    BY <1>12 DEF ChangeDatabase, Send
  <2>2. EtcdShape(etcd)' /\ etcd'.meta = etcd.meta /\ etcd'.leader = etcd.leader
    BY <1>0, <2>1, DatabaseIs
  <2>3. Frame /\ UNCHANGED slot /\ SetOp(o, Idle)
    BY <1>12, <2>2 DEF ChangeDatabase, Frame
  <2> QED BY <1>1, <2>3
<1> QED BY <1>4, <1>5, <1>6, <1>7, <1>8, <1>9, <1>10, <1>11, <1>12

(* A new request preserves the invariant.                                  *)
LEMMA Starts ==
  ASSUME IInv, NEW o \in Ops, NEW n \in Nodes, NEW kind \in KindsOf[o], Start(o, n, kind)
  PROVE  IInv'
<1> DEFINE r == [Idle EXCEPT !.kind = kind, !.node = n, !.pc = kind]
<1>1. SetOp(o, r) /\ UNCHANGED slot /\ Frame
  BY DEF Start, Frame, IInv, ShapeInv
<1>2. OpShape(r) /\ r.node = n /\ r.id = 0 /\ r.pc = kind
  BY DEF Idle, OpShape
<1> HIDE DEF r
<1>3. kind \in {"create", "drop", "alter", "describe", "promote", "drop_database", "policy"}
  BY ClusterAssumption
<1>4. up[n]
  BY DEF Start
<1>5. \A x \in Ops \ {o} : op[x].pc = "put" => r.id # op[x].id
  BY <1>2 DEF IInv, OpInv, IdInv
<1>6. QuietOp(o, r)
  BY <1>2, <1>3, <1>4, <1>5 DEF QuietOp, InFlightPcs, CreatePcs, DropPcs
<1> QED BY <1>1, <1>6, QuietStep

----------------------------------------------------------------------------
(* Guarded changes of the entry.                                           *)

(* After a change with a fresh revision, every remembered one is stale.    *)
LEMMA FreshStale ==
  ASSUME ShapeInv, NEW k \in 1..3, etcd'.meta.revs[k] = FreshRev
  PROVE  /\ \A o \in Ops : op[o].revs # etcd'.meta.revs /\ op[o].revs[k] # etcd'.meta.revs[k]
         /\ \A n \in Nodes : pass[n].seen.revs # etcd'.meta.revs
         /\ etcd'.meta.revs[k] # 0
BY RevIsNew

(* What marking the entry ready changes.                                   *)
LEMMA MarkReadyIs ==
  ASSUME EtcdShape(etcd), NEW id, NEW rev, NEW e, e = MarkReady(etcd, id, rev)
  PROVE  /\ EtcdShape(e) /\ e.leader = etcd.leader
         /\ e.meta.id = id /\ e.meta.ready /\ e.meta.node = etcd.meta.node /\ e.meta.revs[2] = rev /\ e.meta.ver = 1
<1>1. DOMAIN etcd.meta.revs = 1..3 /\ 2 \in 1..3
  BY DEF EtcdShape, MetaShape
<1> DEFINE m == [etcd.meta EXCEPT !.id = id, !.ready = TRUE, !.ver = 1, !.of = id, !.revs[2] = rev]
<1>2. e = [etcd EXCEPT !.meta = m]
  BY DEF MarkReady, Descriptor, EtcdShape, MetaShape
<1>3. /\ DOMAIN m = DOMAIN etcd.meta /\ m.id = id /\ m.ready = TRUE /\ m.node = etcd.meta.node /\ m.ver = 1
      /\ m.revs = [etcd.meta.revs EXCEPT ![2] = rev]
  BY DEF EtcdShape, MetaShape
<1>4. DOMAIN m.revs = 1..3 /\ m.revs[2] = rev
  BY <1>1, <1>3
<1> HIDE DEF m
<1>5. e.meta = m /\ e.leader = etcd.leader /\ e.live = etcd.live /\ DOMAIN e = DOMAIN etcd
  BY <1>2 DEF EtcdShape
<1> QED BY <1>3, <1>4, <1>5 DEF EtcdShape, MetaShape

(* What the publication of a schema changes.                               *)
LEMMA PublishIs ==
  ASSUME EtcdShape(etcd), NEW id, NEW ver, NEW rev, NEW e, e = Publish(etcd, id, ver, rev)
  PROVE  /\ EtcdShape(e) /\ e.leader = etcd.leader /\ e.meta.id = etcd.meta.id /\ e.meta.ver = ver
         /\ e.meta.ready = etcd.meta.ready /\ e.meta.node = etcd.meta.node /\ e.meta.revs[2] = rev
<1>1. DOMAIN etcd.meta.revs = 1..3 /\ 2 \in 1..3
  BY DEF EtcdShape, MetaShape
<1> DEFINE m == [etcd.meta EXCEPT !.ver = ver, !.of = id, !.revs[2] = rev]
<1>2. e = [etcd EXCEPT !.meta = m]
  BY DEF Publish, Descriptor, EtcdShape, MetaShape
<1>3. /\ DOMAIN m = DOMAIN etcd.meta /\ m.id = etcd.meta.id /\ m.ver = ver /\ m.ready = etcd.meta.ready
      /\ m.node = etcd.meta.node /\ m.revs = [etcd.meta.revs EXCEPT ![2] = rev]
  BY DEF EtcdShape, MetaShape
<1>4. DOMAIN m.revs = 1..3 /\ m.revs[2] = rev
  BY <1>1, <1>3
<1> HIDE DEF m
<1>5. e.meta = m /\ e.leader = etcd.leader /\ e.live = etcd.live /\ DOMAIN e = DOMAIN etcd
  BY <1>2 DEF EtcdShape
<1> QED BY <1>3, <1>4, <1>5 DEF EtcdShape, MetaShape

(* What the move of a shard changes.                                       *)
LEMMA PromoteIs ==
  ASSUME EtcdShape(etcd), NEW n, NEW rev, NEW e, e = Promote(etcd, n, rev)
  PROVE  /\ EtcdShape(e) /\ e.leader = etcd.leader /\ e.meta.id = etcd.meta.id /\ e.meta.ver = etcd.meta.ver
         /\ e.meta.ready = etcd.meta.ready /\ e.meta.node = etcd.meta.node
         /\ e.meta.revs[2] = etcd.meta.revs[2] /\ e.meta.revs[3] = rev
<1>1. DOMAIN etcd.meta.revs = 1..3 /\ 3 \in 1..3 /\ 2 \in 1..3
  BY DEF EtcdShape, MetaShape
<1> DEFINE m == [etcd.meta EXCEPT !.owner = n, !.revs[3] = rev]
<1>2. e = [etcd EXCEPT !.meta = m]
  BY DEF Promote, Owner, EtcdShape, MetaShape
<1>3. /\ DOMAIN m = DOMAIN etcd.meta /\ m.id = etcd.meta.id /\ m.ver = etcd.meta.ver /\ m.ready = etcd.meta.ready
      /\ m.node = etcd.meta.node /\ m.revs = [etcd.meta.revs EXCEPT ![3] = rev]
  BY DEF EtcdShape, MetaShape
<1>4. DOMAIN m.revs = 1..3 /\ m.revs[3] = rev /\ m.revs[2] = etcd.meta.revs[2]
  BY <1>1, <1>3
<1> HIDE DEF m
<1>5. e.meta = m /\ e.leader = etcd.leader /\ e.live = etcd.live /\ DOMAIN e = DOMAIN etcd
  BY <1>2 DEF EtcdShape
<1> QED BY <1>3, <1>4, <1>5 DEF EtcdShape, MetaShape

(* What the deletion of the entry changes.                                 *)
LEMMA DeleteIs ==
  ASSUME EtcdShape(etcd), NEW e, e = DeleteMeta(etcd)
  PROVE  EtcdShape(e) /\ e.leader = etcd.leader /\ e.meta = NoMeta
<1>1. MetaShape(NoMeta)
  BY DEF MetaShape, NoMeta
<1>2. e.meta = NoMeta /\ e.leader = etcd.leader /\ e.live = etcd.live /\ DOMAIN e = DOMAIN etcd
  BY DEF DeleteMeta, EtcdShape
<1> QED BY <1>1, <1>2 DEF EtcdShape

(* A schema or an owner is put over a ready entry, or not at all.          *)
LEMMA SchemaSteps ==
  ASSUME IInv, NEW o \in Ops, PutSchema(o) \/ MoveShard(o)
  PROVE  IInv'
<1>0. EtcdShape(etcd) /\ OpShape(op[o]) /\ ShapeInv /\ RevInv(o) /\ MetaInv /\ ReadyHasData
  BY DEF IInv, ShapeInv, OpInv
<1>1. ASSUME UNCHANGED <<up, loop, slot, pass, dropped>>, SetOp(o, Idle), etcd.meta.ready, EtcdShape(etcd)',
             etcd'.leader = etcd.leader, etcd'.meta.id = etcd.meta.id, etcd'.meta.ready = etcd.meta.ready,
             etcd'.meta.node = etcd.meta.node, NEW k \in 2..3, etcd'.meta.revs[k] = FreshRev,
             k = 3 => etcd'.meta.revs[2] = etcd.meta.revs[2] /\ etcd'.meta.ver = etcd.meta.ver
      PROVE  IInv'
  <2>1. /\ \A x \in Ops : op[x].revs # etcd'.meta.revs /\ op[x].revs[k] # etcd'.meta.revs[k]
        /\ \A n \in Nodes : pass[n].seen.revs # etcd'.meta.revs
        /\ etcd'.meta.revs[k] # 0
    BY <1>0, <1>1, FreshStale
  <2>2. OpsEnd
    BY <1>1, OpEnds
  <2>3. PassesEnd
    BY <1>1 DEF PassesEnd, IInv, ShapeInv
  <2>4. \A n \in Nodes : ~Finds(n)
    BY <1>1, FoundStays DEF Pending
  <2>5. etcd.meta # NoMeta
    BY <1>1 DEF NoMeta
  <2>6. etcd'.meta.revs[2] # 0 /\ etcd'.meta.id # 0 /\ etcd'.meta.node \in Nodes
    BY <1>0, <1>1, <2>1, <2>5 DEF MetaInv
  <2>7. \A x \in Ops : op[x].revs[2] = etcd'.meta.revs[2] =>
               etcd.meta.revs[2] = etcd'.meta.revs[2] /\ etcd.meta.ver = etcd'.meta.ver
    BY <1>1, <2>1
  <2>8. ReadyHasData'
    BY <1>0, <1>1 DEF ReadyHasData
  <2> QED BY <1>1, <2>1, <2>2, <2>3, <2>4, <2>6, <2>7, <2>8, MetaStep
<1>2. CASE PutSchema(o)
  <2>1. PICK out \in Outcomes :
          LET ok == CanPublish(etcd, op[o].revs[Descriptor])
          IN /\ Send(out, ok, Publish(etcd, op[o].id, op[o].ver, FreshRev))
             /\ SetOp(o, IF out = "ok" /\ ~ok /\ op[o].tries < 3
                         THEN [op[o] EXCEPT !.pc = "publish", !.tries = @ + 1, !.revs = Idle.revs]
                         ELSE Idle)
    BY <1>2 DEF PutSchema
  <2>2. op[o].pc = "put_schema" /\ UNCHANGED <<up, loop, slot, pass, dropped>>
    BY <1>2 DEF PutSchema, At
  <2>3. CASE CanPublish(etcd, op[o].revs[Descriptor]) /\ out # "failed"
    <3>1. etcd' = Publish(etcd, op[o].id, op[o].ver, FreshRev) /\ SetOp(o, Idle)
      BY <2>1, <2>3 DEF Send
    <3>2. etcd.meta.ready
      BY <1>0, <2>2, <2>3 DEF RevInv, CanPublish, Descriptor
    <3>3. /\ EtcdShape(etcd)' /\ etcd'.leader = etcd.leader /\ etcd'.meta.id = etcd.meta.id
          /\ etcd'.meta.ready = etcd.meta.ready /\ etcd'.meta.node = etcd.meta.node /\ etcd'.meta.revs[2] = FreshRev
      BY <1>0, <3>1, PublishIs
    <3>4. 2 \in 2..3 /\ 2 # 3
      OBVIOUS
    <3> QED BY <1>1, <2>2, <3>1, <3>2, <3>3, <3>4
  <2>4. CASE ~(CanPublish(etcd, op[o].revs[Descriptor]) /\ out # "failed")
    <3>1. etcd' = etcd
      BY <2>1, <2>4 DEF Send
    <3>2. Frame /\ UNCHANGED slot
      BY <1>0, <2>2, <3>1 DEF Frame
    <3> DEFINE r == [op[o] EXCEPT !.pc = "publish", !.tries = @ + 1, !.revs = Idle.revs]
    <3>3. SetOp(o, r) \/ SetOp(o, Idle)
      BY <2>1
    <3>4. CASE SetOp(o, r)
      <4>1. OpShape(r) /\ r.node = op[o].node /\ r.id = op[o].id /\ r.pc = "publish"
        BY <1>0 DEF OpShape, Idle
      <4> HIDE DEF r
      <4>2. r.pc \notin InFlightPcs /\ r.pc # "put_schema" /\ r.pc # "move" /\ op[o].pc # "idle"
        BY <2>2, <4>1 DEF InFlightPcs, CreatePcs, DropPcs
      <4>3. QuietOp(o, r)
        BY <4>1, <4>2, QuietMove
      <4> QED BY <3>2, <3>4, <4>3, QuietStep
    <3> QED BY <3>2, <3>3, <3>4, IdleIsQuiet, QuietStep
  <2> QED BY <2>3, <2>4
<1>3. CASE MoveShard(o)
  <2>1. PICK out \in Outcomes : Send(out, CanPromote(etcd, op[o].revs), Promote(etcd, op[o].node, FreshRev))
    BY <1>3 DEF MoveShard
  <2>2. op[o].pc = "move" /\ UNCHANGED <<up, loop, slot, pass, dropped>> /\ SetOp(o, Idle)
    BY <1>3 DEF MoveShard, At
  <2>3. CASE CanPromote(etcd, op[o].revs) /\ out # "failed"
    <3>1. etcd' = Promote(etcd, op[o].node, FreshRev)
      BY <2>1, <2>3 DEF Send
    <3>2. etcd.meta.ready
      BY <1>0, <2>2, <2>3 DEF RevInv, CanPromote, Descriptor
    <3>3. /\ EtcdShape(etcd)' /\ etcd'.leader = etcd.leader /\ etcd'.meta.id = etcd.meta.id
          /\ etcd'.meta.ready = etcd.meta.ready /\ etcd'.meta.node = etcd.meta.node /\ etcd'.meta.revs[3] = FreshRev
          /\ etcd'.meta.revs[2] = etcd.meta.revs[2] /\ etcd'.meta.ver = etcd.meta.ver
      BY <1>0, <3>1, PromoteIs
    <3>4. 3 \in 2..3
      OBVIOUS
    <3> QED BY <1>1, <2>2, <3>2, <3>3, <3>4
  <2>4. CASE ~(CanPromote(etcd, op[o].revs) /\ out # "failed")
    <3>1. etcd' = etcd
      BY <2>1, <2>4 DEF Send
    <3>2. Frame /\ UNCHANGED slot
      BY <1>0, <2>2, <3>1 DEF Frame
    <3> QED BY <2>2, <3>2, IdleIsQuiet, QuietStep
  <2> QED BY <2>3, <2>4
<1> QED BY <1>2, <1>3

(* The step that acknowledges a create, and the rollback, by the request   *)
(* and by the pass; the deletion at the end of a drop.                     *)
LEMMA EntrySteps ==
  ASSUME IInv,
         \/ \E o \in Ops : MarkCreateReady(o) \/ UndoCreate(o) \/ DeleteMetadata(o)
         \/ \E n \in Nodes : RollForward(n) \/ RollBack(n)
  PROVE  IInv'
<1>1. ASSUME OpsEnd, PassesEnd, UNCHANGED <<up, loop, slot>>, etcd' = etcd,
             dropped' = dropped \/ dropped' = (dropped /\ etcd'.meta # NoMeta)
      PROVE  IInv'
  <2>1. dropped' = dropped
    BY <1>1 DEF IInv, MetaInv, ShapeInv
  <2>2. LoopShape /\ LeaderMoves /\ EtcdShape(etcd)'
    BY <1>1 DEF LoopShape, LeaderMoves, IInv, ShapeInv
  <2> QED BY <1>1, <2>1, <2>2, EndStep
<1>2. ASSUME OpsEnd, PassesEnd, UNCHANGED <<up, loop, slot>>, \A n \in Nodes : Finds(n) => pass'[n].pc = "idle",
             etcd' = DeleteMeta(etcd), dropped' = (dropped /\ etcd'.meta # NoMeta)
      PROVE  IInv'
  <2>1. EtcdShape(etcd)' /\ etcd'.leader = etcd.leader /\ etcd'.meta = NoMeta
    BY <1>2, DeleteIs DEF IInv, ShapeInv
  <2>2. dropped' = FALSE
    BY <1>2, <2>1
  <2> QED BY <1>2, <2>1, <2>2, MetaStep
<1>3. ASSUME OpsEnd, PassesEnd, UNCHANGED <<up, loop, slot, dropped>>,
             \A n \in Nodes : Finds(n) => pass'[n].pc = "idle",
             NEW id, etcd' = MarkReady(etcd, id, FreshRev), id = etcd.meta.id, etcd.meta # NoMeta,
             ~dropped => /\ slot[etcd.meta.node].id = id
                         /\ slot[etcd.meta.node].st \in {"open", "dropping"}
      PROVE  IInv'
  <2>1. /\ EtcdShape(etcd)' /\ etcd'.leader = etcd.leader
        /\ etcd'.meta.id = id /\ etcd'.meta.ready /\ etcd'.meta.node = etcd.meta.node /\ etcd'.meta.revs[2] = FreshRev
    BY <1>3, MarkReadyIs DEF IInv, ShapeInv
  <2>2. /\ \A o \in Ops : op[o].revs # etcd'.meta.revs /\ op[o].revs[2] # etcd'.meta.revs[2]
        /\ \A n \in Nodes : pass[n].seen.revs # etcd'.meta.revs
        /\ etcd'.meta.revs[2] # 0
    <3>1. 2 \in 1..3
      OBVIOUS
    <3> QED BY <2>1, <3>1, FreshStale DEF IInv
  <2>3. ReadyHasData'
    BY <1>3, <2>1 DEF ReadyHasData
  <2>4. etcd'.meta.id # 0 /\ etcd'.meta.node \in Nodes
    BY <1>3, <2>1 DEF IInv, MetaInv
  <2> QED BY <1>3, <2>1, <2>2, <2>3, <2>4, MetaStep
<1>4. ASSUME NEW o \in Ops, MarkCreateReady(o) \/ UndoCreate(o) \/ DeleteMetadata(o) PROVE IInv'
  <2>1. SetOp(o, Idle) /\ UNCHANGED <<up, loop, slot, pass>> /\ op[o].pc \in InFlightPcs
    BY <1>4 DEF MarkCreateReady, UndoCreate, DeleteMetadata, At, InFlightPcs, CreatePcs, DropPcs
  <2>2. OpsEnd /\ PassesEnd
    BY <2>1, OpEnds DEF PassesEnd, IInv, ShapeInv
  <2>3. InFlight(op[o].node) /\ op[o].node \in Nodes
    BY <2>1, <1>4 DEF InFlight, InFlightPcs, CreatePcs, DropPcs, IInv, UpInv
  <2>4. RevInv(o) /\ CreatedInv(o) /\ FenceInv(o)
    BY <1>4 DEF IInv, OpInv
  <2>5. op[o].pc \in CreatePcs /\ op[o].revs = etcd.meta.revs =>
          /\ etcd.meta # NoMeta /\ etcd.meta.id = op[o].id /\ etcd.meta.node = op[o].node
          /\ \A n \in Nodes : ~Finds(n)
    <3>1. SUFFICES ASSUME op[o].pc \in CreatePcs, op[o].revs = etcd.meta.revs
                   PROVE  /\ etcd.meta # NoMeta /\ etcd.meta.id = op[o].id /\ etcd.meta.node = op[o].node
                          /\ \A n \in Nodes : ~Finds(n)
      OBVIOUS
    <3>2. etcd.meta.id = op[o].id /\ etcd.meta.node = op[o].node /\ etcd.meta.revs[2] # 0
      BY <2>4, <3>1 DEF RevInv
    <3>3. etcd.meta # NoMeta
      BY <3>2 DEF NoMeta
    <3>4. \A n \in Nodes : ~Finds(n)
      BY <2>3, <3>2, FoundStays
    <3> QED BY <3>2, <3>3, <3>4
  <2>6. CASE MarkCreateReady(o)
    <3>1. PICK out \in Outcomes :
            Send(out, CanChange(etcd, Fence(o), op[o].revs), MarkReady(etcd, op[o].id, FreshRev))
      BY <2>6 DEF MarkCreateReady
    <3>2. op[o].pc = "mark_ready" /\ dropped' = dropped /\ op[o].pc \in CreatePcs
      BY <2>6 DEF MarkCreateReady, At, CreatePcs
    <3>3. CASE CanChange(etcd, Fence(o), op[o].revs) /\ out # "failed"
      <4>1. etcd' = MarkReady(etcd, op[o].id, FreshRev)
        BY <3>1, <3>3 DEF Send
      <4>2. op[o].revs = etcd.meta.revs
        BY <3>3 DEF CanChange
      <4>3. ~dropped => slot[etcd.meta.node].id = op[o].id /\ slot[etcd.meta.node].st \in {"open", "dropping"}
        BY <2>4, <2>5, <3>2, <4>2 DEF CreatedInv
      <4> QED BY <1>3, <2>1, <2>2, <2>5, <3>2, <4>1, <4>2, <4>3
    <3>4. CASE ~(CanChange(etcd, Fence(o), op[o].revs) /\ out # "failed")
      <4>1. etcd' = etcd
        BY <3>1, <3>4 DEF Send
      <4> QED BY <1>1, <2>1, <2>2, <3>2, <4>1
    <3> QED BY <3>3, <3>4
  <2>7. CASE UndoCreate(o)
    <3>1. PICK out \in Outcomes : Send(out, CanChange(etcd, NoFence, op[o].revs), DeleteMeta(etcd))
      BY <2>7 DEF UndoCreate
    <3>2. op[o].pc \in CreatePcs /\ dropped' = (dropped /\ etcd'.meta # NoMeta)
      BY <2>7 DEF UndoCreate, At, CreatePcs
    <3>3. CASE CanChange(etcd, NoFence, op[o].revs) /\ out # "failed"
      <4>1. etcd' = DeleteMeta(etcd) /\ op[o].revs = etcd.meta.revs
        BY <3>1, <3>3 DEF Send, CanChange
      <4> QED BY <1>2, <2>1, <2>2, <2>5, <3>2, <4>1
    <3>4. CASE ~(CanChange(etcd, NoFence, op[o].revs) /\ out # "failed")
      <4>1. etcd' = etcd
        BY <3>1, <3>4 DEF Send
      <4> QED BY <1>1, <2>1, <2>2, <3>2, <4>1
    <3> QED BY <3>3, <3>4
  <2>8. CASE DeleteMetadata(o)
    <3>1. PICK out \in Outcomes : Send(out, CanChange(etcd, Fence(o), op[o].revs), DeleteMeta(etcd))
      BY <2>8 DEF DeleteMetadata
    <3>2. op[o].pc \in DropPcs /\ dropped' = (dropped /\ etcd'.meta # NoMeta)
      BY <2>8 DEF DeleteMetadata, At, DropPcs
    <3>3. CASE CanChange(etcd, Fence(o), op[o].revs) /\ out # "failed"
      <4>1. etcd' = DeleteMeta(etcd)
        BY <3>1, <3>3 DEF Send
      <4>2. etcd.leader = [node |-> op[o].node, lease |-> op[o].fence]
        BY <3>3 DEF CanChange, Holds, Fence, LeaderFence
      <4>3. Pending(etcd.meta) => op[o].node = etcd.meta.node
        BY <2>4, <3>2, <4>2 DEF FenceInv
      <4>4. \A n \in Nodes : ~Finds(n)
        BY <2>3, <4>3, FoundStays
      <4> QED BY <1>2, <2>1, <2>2, <3>2, <4>1, <4>4
    <3>4. CASE ~(CanChange(etcd, Fence(o), op[o].revs) /\ out # "failed")
      <4>1. etcd' = etcd
        BY <3>1, <3>4 DEF Send
      <4> QED BY <1>1, <2>1, <2>2, <3>2, <4>1
    <3> QED BY <3>3, <3>4
  <2> QED BY <1>4, <2>6, <2>7, <2>8
<1>5. ASSUME NEW n \in Nodes, RollForward(n) \/ RollBack(n) PROVE IInv'
  <2>1. /\ pass' = [pass EXCEPT ![n] = NoPass] /\ UNCHANGED <<up, loop, slot, op>>
        /\ pass[n].pc \in {"forward", "back"}
    BY <1>5 DEF RollForward, RollBack, SetPass
  <2>2. OpsEnd /\ PassesEnd
    BY <2>1, <1>5, PassEnds DEF OpsEnd, IInv, ShapeInv
  <2>3. SeenInv(n) /\ ForwardInv(n)
    BY <1>5 DEF IInv, PassInv
  <2>4. pass[n].seen.revs = etcd.meta.revs =>
          /\ pass[n].seen = etcd.meta /\ etcd.meta # NoMeta /\ etcd.meta.node = n
          /\ \A m \in Nodes : ~Finds(m)
    <3>1. SUFFICES ASSUME pass[n].seen.revs = etcd.meta.revs
                   PROVE  /\ pass[n].seen = etcd.meta /\ etcd.meta # NoMeta /\ etcd.meta.node = n
                          /\ \A m \in Nodes : ~Finds(m)
      OBVIOUS
    <3>2. pass[n].seen = etcd.meta /\ etcd.meta.revs[2] # 0 /\ etcd.meta.node = n
      BY <2>1, <2>3, <3>1 DEF SeenInv, SeenPcs
    <3>3. etcd.meta # NoMeta
      BY <3>2 DEF NoMeta
    <3>4. ~Finds(n)
      BY <2>1 DEF Finds
    <3>5. \A m \in Nodes : ~Finds(m)
      BY <3>2, <3>4, FoundStays
    <3> QED BY <3>2, <3>3, <3>5
  <2>5. CASE RollForward(n)
    <3> DEFINE can == CanChange(etcd, MemberFence(n, pass[n].lease), pass[n].seen.revs)
    <3>1. PICK out \in Outcomes : Send(out, can, MarkReady(etcd, pass[n].seen.id, FreshRev))
      BY <2>5 DEF RollForward
    <3>2. pass[n].pc = "forward" /\ dropped' = dropped
      BY <2>5 DEF RollForward
    <3>3. CASE can /\ out # "failed"
      <4>1. etcd' = MarkReady(etcd, pass[n].seen.id, FreshRev)
        BY <3>1, <3>3 DEF Send
      <4>2. pass[n].seen.revs = etcd.meta.revs
        BY <3>3 DEF CanChange
      <4>3. slot[etcd.meta.node].id = pass[n].seen.id /\ slot[etcd.meta.node].st = "open"
        BY <2>3, <2>4, <3>2, <4>2 DEF ForwardInv
      <4> QED BY <1>3, <2>1, <2>2, <2>4, <3>2, <4>1, <4>2, <4>3
    <3>4. CASE ~(can /\ out # "failed")
      <4>1. etcd' = etcd
        BY <3>1, <3>4 DEF Send
      <4> QED BY <1>1, <2>1, <2>2, <3>2, <4>1
    <3> QED BY <3>3, <3>4
  <2>6. CASE RollBack(n)
    <3> DEFINE can == CanChange(etcd, MemberFence(n, pass[n].lease), pass[n].seen.revs)
    <3>1. PICK out \in Outcomes : Send(out, can, DeleteMeta(etcd))
      BY <2>6 DEF RollBack
    <3>2. dropped' = (dropped /\ etcd'.meta # NoMeta)
      BY <2>6 DEF RollBack
    <3>3. CASE can /\ out # "failed"
      <4>1. etcd' = DeleteMeta(etcd) /\ pass[n].seen.revs = etcd.meta.revs
        BY <3>1, <3>3 DEF Send, CanChange
      <4> QED BY <1>2, <2>1, <2>2, <2>4, <3>2, <4>1
    <3>4. CASE ~(can /\ out # "failed")
      <4>1. etcd' = etcd
        BY <3>1, <3>4 DEF Send
      <4> QED BY <1>1, <2>1, <2>2, <3>2, <4>1
    <3> QED BY <3>3, <3>4
  <2> QED BY <1>5, <2>5, <2>6
<1> QED BY <1>4, <1>5

----------------------------------------------------------------------------
(* Requests in flight, and the slot of their node.                         *)

(* What a step of a request in flight must show: its own part, and what    *)
(* the slot of its node means to the requests and the pass of that node.   *)
LEMMA SlotStep ==
  ASSUME IInv, NEW o \in Ops, NEW n, op[o].node = n, op[o].pc \in InFlightPcs, op[o].pc # "put",
         NEW r, SetOp(o, r), OpShape(r),
         r = Idle \/ (r.node = n /\ r.id = op[o].id /\ r.pc \in CreatePcs \cup DropPcs),
         NEW s, slot'[n] = s, \A m \in Nodes \ {n} : slot'[m] = slot[m], DOMAIN slot' = Nodes, DOMAIN s = {"st", "id", "ver"},
         s.id = slot[n].id \/ s.id = 0 \/ s.id = op[o].id,
         UNCHANGED <<etcd, up, loop, pass>>,
         dropped' = dropped \/ (dropped' = TRUE /\ etcd.meta.node = n),
         RevInv(o)', FenceInv(o)', ResolveInv(n)',
         \A x \in Ops : op'[x].node = n => CreatingInv(x)' /\ RetiringInv(x)' /\ CreatedInv(x)',
         etcd.meta.node = n => FailedInv' /\ ReadyHasData'
  PROVE  IInv'
<1>0. n \in Nodes /\ up[n] /\ InFlight(n) /\ n # Nobody
  BY ClusterAssumption DEF IInv, UpInv, InFlight, InFlightPcs, CreatePcs, DropPcs
<1>1. op'[o] = r /\ (\A x \in Ops \ {o} : op'[x] = op[x]) /\ DOMAIN op' = Ops
  BY SetOpIs DEF IInv
<1>2. slot'[n] = s /\ (\A m \in Nodes \ {n} : slot'[m] = slot[m]) /\ DOMAIN slot' = Nodes
  OBVIOUS
<1>3. (r.node = n /\ r.id = op[o].id) \/ (r.node = Nobody /\ r.pc = "idle" /\ r.id = 0)
  BY DEF Idle
<1>4. r.pc # "put" /\ r.pc # "put_schema" /\ r.pc # "move"
  <2>1. CASE r = Idle
    BY <2>1 DEF Idle
  <2>2. CASE r.pc \in CreatePcs \cup DropPcs
    BY <2>2 DEF CreatePcs, DropPcs
  <2> QED BY <2>1, <2>2
<1>5. ShapeInv'
  BY <1>1, <1>2 DEF IInv, ShapeInv
<1>6. UpInv'
  BY <1>0, <1>1, <1>3 DEF IInv, UpInv
<1>7. MetaInv'
  BY <1>0 DEF IInv, MetaInv, NoMeta
<1>8. ASSUME NEW m \in Nodes \ {n}, InFlight(m)' PROVE InFlight(m)
  <2>1. Nobody \notin Nodes
    BY ClusterAssumption
  <2>2. r.node # m
    BY <1>3, <1>8, <2>1
  <2> QED BY <1>1, <1>8, <2>2 DEF InFlight
<1>9. FailedInv' /\ ReadyHasData'
  <2>1. CASE etcd.meta.node = n
    BY <2>1
  <2>2. CASE etcd.meta.node # n
    <3>1. ReadyHasData'
      BY <1>2, <2>2 DEF IInv, ReadyHasData, MetaInv, NoMeta
    <3>2. SUFFICES ASSUME Pending(etcd.meta), slot[etcd.meta.node].id = etcd.meta.id
                   PROVE  /\ slot[etcd.meta.node].st = "failed" => ~InFlight(etcd.meta.node)'
                          /\ \A x \in Ops : op'[x].node = etcd.meta.node /\ op'[x].pc = "retire" => op'[x].was = "open"
      BY <1>2, <2>2, <3>1 DEF FailedInv, IInv, MetaInv, Pending
    <3>3. etcd.meta.node \in Nodes \ {n}
      BY <2>2, <3>2 DEF IInv, MetaInv, Pending
    <3> QED BY <1>1, <1>3, <1>8, <3>2, <3>3 DEF IInv, FailedInv
  <2> QED BY <2>1, <2>2
<1>10. ASSUME NEW m \in Nodes PROVE PassInv(m)'
  <2>1. SeenInv(m) /\ ResolveInv(m) /\ DropInv(m) /\ ForwardInv(m)
    BY <1>10 DEF IInv, PassInv
  <2>2. SeenInv(m)'
    BY <2>1 DEF SeenInv
  <2>3. CASE m = n
    <3>1. ~Finds(n)
      BY <1>0, FoundStays
    <3>2. DropInv(m)' /\ ForwardInv(m)'
      BY <1>0, <2>1, <2>3, <3>1 DEF Finds, DropInv, ForwardInv
    <3> QED BY <2>2, <2>3, <3>2 DEF PassInv
  <2>4. CASE m # n
    <3>1. slot'[m] = slot[m] /\ (InFlight(m)' => InFlight(m))
      BY <1>2, <1>8, <1>10, <2>4
    <3>2. DropInv(m)' /\ ForwardInv(m)'
      BY <2>1, <3>1 DEF DropInv, ForwardInv
    <3>3. ResolveInv(m)'
      BY <1>1, <1>3, <1>10, <2>1, <2>4, <3>1 DEF ResolveInv
    <3> QED BY <2>2, <3>2, <3>3 DEF PassInv
  <2> QED BY <2>3, <2>4
<1>11. ASSUME NEW x \in Ops PROVE OpInv(x)'
  <2>1. CASE x = o
    <3>1. IdInv(o)'
      BY <1>1, <1>4 DEF IdInv
    <3>2. CASE r = Idle
      BY <1>1, <2>1, <3>2, IdleOp
    <3>3. CASE r # Idle
      BY <1>1, <2>1, <3>1, <3>3 DEF OpInv
    <3> QED BY <3>2, <3>3
  <2>2. CASE x # o
    <3>1. op'[x] = op[x] /\ OpInv(x)
      BY <1>1, <1>11, <2>2 DEF IInv
    <3>2. IdInv(x)'
      <4>1. SUFFICES ASSUME op[x].pc = "put"
                     PROVE  /\ op[x].id # 0 /\ \A m \in Nodes : slot'[m].id # op[x].id
                            /\ \A y \in Ops \ {x} : op'[y].id # op[x].id
        BY <3>1 DEF IdInv
      <4>2. /\ op[x].id # 0 /\ \A m \in Nodes : slot[m].id # op[x].id
            /\ \A y \in Ops \ {x} : op[y].id # op[x].id
        BY <3>1, <4>1 DEF OpInv, IdInv
      <4>3. s.id # op[x].id /\ r.id # op[x].id
        BY <1>0, <1>3, <2>2, <4>2
      <4> QED BY <1>1, <1>2, <4>2, <4>3
    <3>3. RevInv(x)' /\ FenceInv(x)'
      BY <3>1 DEF OpInv, RevInv, FenceInv
    <3>4. CASE op[x].node = n
      BY <1>11, <3>1, <3>2, <3>3, <3>4 DEF OpInv
    <3>5. CASE op[x].node # n
      <4>1. op[x].pc # "idle" => op[x].node \in Nodes
        BY <1>11 DEF IInv, UpInv
      <4>2. op[x].pc # "idle" => slot'[op[x].node] = slot[op[x].node]
        BY <1>2, <3>5, <4>1
      <4>0. r.node # op[x].node \/ r.pc = "idle"
        BY <1>3, <3>5
      <4>3. CreatingInv(x)'
        BY <1>1, <2>2, <3>1, <4>0, <4>2 DEF OpInv, CreatingInv
      <4>4. RetiringInv(x)'
        BY <1>1, <2>2, <3>1, <4>0, <4>2 DEF OpInv, RetiringInv
      <4>5. CreatedInv(x)'
        BY <3>1, <4>2 DEF OpInv, CreatedInv
      <4> QED BY <3>2, <3>3, <4>3, <4>4, <4>5 DEF OpInv
    <3> QED BY <3>4, <3>5
  <2> QED BY <2>1, <2>2
<1> QED BY <1>5, <1>6, <1>7, <1>9, <1>10, <1>11 DEF IInv

(* A request in flight on a node: the node's pass found nothing.           *)
LEMMA FlightFacts ==
  ASSUME IInv, NEW o \in Ops, op[o].pc \in InFlightPcs, NEW n, op[o].node = n
  PROVE  /\ n \in Nodes /\ InFlight(n) /\ ~Finds(n)
         /\ OpShape(op[o]) /\ DOMAIN slot[n] = {"st", "id", "ver"} /\ DOMAIN slot = Nodes
         /\ Pending(etcd.meta) /\ etcd.meta.node = n /\ slot[n].id = etcd.meta.id => slot[n].st # "failed"
<1>1. n \in Nodes /\ InFlight(n)
  BY DEF IInv, UpInv, InFlight, InFlightPcs, CreatePcs, DropPcs
<1>2. OpShape(op[o]) /\ DOMAIN slot[n] = {"st", "id", "ver"} /\ DOMAIN slot = Nodes
  BY <1>1 DEF IInv, ShapeInv
<1>3. Pending(etcd.meta) /\ etcd.meta.node = n /\ slot[n].id = etcd.meta.id => slot[n].st # "failed"
  BY <1>1 DEF IInv, FailedInv
<1> QED BY <1>1, <1>2, <1>3, FoundStays

(* A request in flight that leaves the slots alone.                        *)
LEMMA FlightStep ==
  ASSUME IInv, NEW o \in Ops, op[o].pc \in InFlightPcs, op[o].pc # "put", op[o].pc # "retire",
         NEW r, SetOp(o, r), OpShape(r),
         r = Idle \/ (/\ r.node = op[o].node /\ r.id = op[o].id /\ r.fence = op[o].fence
                      /\ \/ r.pc = "undo" /\ r.revs = op[o].revs /\ op[o].pc \in CreatePcs
                         \/ r.pc \in {"read", "drop_local", "delete"} /\ op[o].pc \in DropPcs),
         UNCHANGED <<etcd, up, loop, pass, slot, dropped>>
  PROVE  IInv'
<1>0. PICK n : op[o].node = n
  OBVIOUS
<1>1. op'[o] = r /\ (\A x \in Ops \ {o} : op'[x] = op[x]) /\ DOMAIN op' = Ops
  BY SetOpIs DEF IInv
<1>2. /\ n \in Nodes /\ InFlight(n) /\ ~Finds(n) /\ DOMAIN slot[n] = {"st", "id", "ver"} /\ DOMAIN slot = Nodes
      /\ Pending(etcd.meta) /\ etcd.meta.node = n /\ slot[n].id = etcd.meta.id => slot[n].st # "failed"
  BY <1>0, FlightFacts
<1>3. slot'[n] = slot[n] /\ (\A m \in Nodes \ {n} : slot'[m] = slot[m]) /\ DOMAIN slot' = Nodes
  BY <1>2
<1>4. r.pc \in {"idle", "undo", "read", "drop_local", "delete"}
  <2>1. CASE r = Idle
    BY <2>1 DEF Idle
  <2>2. CASE r # Idle
    BY <2>2
  <2> QED BY <2>1, <2>2
<1>5. RevInv(o)' /\ FenceInv(o)'
  <2>1. CASE r = Idle
    BY <1>1, <2>1, IdleOp DEF OpInv
  <2>2. CASE r # Idle
    BY <1>1, <2>2 DEF IInv, OpInv, RevInv, FenceInv, CreatePcs, DropPcs
  <2> QED BY <2>1, <2>2
<1>6. ResolveInv(n)'
  BY <1>1, <1>2, <1>4 DEF IInv, PassInv, ResolveInv
<1>7. ASSUME NEW x \in Ops PROVE CreatingInv(x)' /\ RetiringInv(x)' /\ CreatedInv(x)'
  <2>1. CASE x = o
    BY <1>1, <1>4, <2>1 DEF CreatingInv, RetiringInv, CreatedInv
  <2>2. CASE x # o
    <3>1. op'[x] = op[x] /\ CreatingInv(x) /\ RetiringInv(x) /\ CreatedInv(x)
      BY <1>1, <1>7, <2>2 DEF IInv, OpInv
    <3>2. CreatingInv(x)'
      BY <1>1, <1>4, <3>1 DEF CreatingInv
    <3>3. RetiringInv(x)'
      BY <1>1, <1>4, <3>1 DEF RetiringInv
    <3>4. CreatedInv(x)'
      BY <3>1 DEF CreatedInv
    <3> QED BY <3>2, <3>3, <3>4
  <2> QED BY <2>1, <2>2
<1>8. etcd.meta.node = n => FailedInv' /\ ReadyHasData'
  BY <1>1, <1>2, <1>4 DEF IInv, FailedInv, ReadyHasData
<1>9. r = Idle \/ (r.node = n /\ r.id = op[o].id /\ r.pc \in CreatePcs \cup DropPcs)
  BY <1>0 DEF CreatePcs, DropPcs
<1> QED BY <1>0, <1>2, <1>3, <1>5, <1>6, <1>7, <1>8, <1>9, SlotStep

(* EngineCore::reserve preserves the invariant.                            *)
LEMMA Reserves ==
  ASSUME IInv, NEW o \in Ops, ReserveLocal(o)
  PROVE  IInv'
<1>0. PICK n : op[o].node = n
  OBVIOUS
<1>1. op[o].pc = "reserve" /\ op[o].pc \in InFlightPcs /\ op[o].pc \in CreatePcs
  BY DEF ReserveLocal, At, InFlightPcs, CreatePcs
<1>2. /\ n \in Nodes /\ InFlight(n) /\ ~Finds(n) /\ OpShape(op[o]) /\ DOMAIN slot = Nodes
  BY <1>0, <1>1, FlightFacts
<1>3. UNCHANGED <<etcd, up, loop, pass, dropped>>
  BY DEF ReserveLocal
<1>4. CASE slot[n].st = "none"
  <2> DEFINE r == [op[o] EXCEPT !.pc = "create_local"]
             s == [st |-> "creating", id |-> op[o].id, ver |-> 1]
  <2>1. SetOp(o, r) /\ slot' = [slot EXCEPT ![n] = s]
    BY <1>0, <1>4 DEF ReserveLocal
  <2>2. /\ OpShape(r) /\ r.node = n /\ r.id = op[o].id /\ r.revs = op[o].revs /\ r.pc = "create_local"
        /\ DOMAIN s = {"st", "id", "ver"} /\ s.st = "creating" /\ s.id = op[o].id
    BY <1>0, <1>2 DEF OpShape
  <2> HIDE DEF r, s
  <2>3. /\ op'[o] = r /\ (\A x \in Ops \ {o} : op'[x] = op[x])
        /\ slot'[n] = s /\ (\A m \in Nodes \ {n} : slot'[m] = slot[m]) /\ DOMAIN slot' = Nodes
    BY <1>2, <2>1, SetOpIs DEF IInv
  <2>4. \A x \in Ops : op[x].node = n => op[x].pc # "create_local" /\ op[x].pc # "retire"
    BY <1>4 DEF IInv, OpInv, CreatingInv, RetiringInv
  <2>5. \A x \in Ops : op[x].node = n /\ op[x].pc = "mark_ready" => ~(op[x].revs = etcd.meta.revs /\ ~dropped)
    BY <1>4 DEF IInv, OpInv, CreatedInv
  <2>6. RevInv(o)' /\ FenceInv(o)'
    BY <1>0, <1>1, <1>3, <2>2, <2>3 DEF IInv, OpInv, RevInv, FenceInv, CreatePcs, DropPcs
  <2>7. ResolveInv(n)'
    BY <1>3, <2>2, <2>3, <2>4 DEF ResolveInv
  <2>8. ASSUME NEW x \in Ops, op'[x].node = n PROVE CreatingInv(x)' /\ RetiringInv(x)' /\ CreatedInv(x)'
    <3>1. CASE x = o
      BY <2>2, <2>3, <2>4, <3>1 DEF CreatingInv, RetiringInv, CreatedInv
    <3>2. CASE x # o
      <4>1. op'[x] = op[x] /\ op[x].node = n
        BY <2>3, <2>8, <3>2
      <4> QED BY <1>3, <2>4, <2>5, <2>8, <4>1 DEF CreatingInv, RetiringInv, CreatedInv
    <3> QED BY <3>1, <3>2
  <2>9. etcd.meta.node = n => FailedInv' /\ ReadyHasData'
    <3>1. SUFFICES ASSUME etcd.meta.node = n PROVE FailedInv' /\ ReadyHasData'
      OBVIOUS
    <3>2. ReadyHasData'
      BY <1>3, <1>4, <3>1 DEF IInv, ReadyHasData
    <3>3. FailedInv'
      BY <1>3, <2>2, <2>3, <2>4, <3>1 DEF FailedInv
    <3> QED BY <3>2, <3>3
  <2>10. r.pc \in CreatePcs \cup DropPcs /\ op[o].pc # "put"
    BY <1>1, <2>2 DEF CreatePcs
  <2> QED BY <1>0, <1>1, <1>3, <2>1, <2>2, <2>3, <2>6, <2>7, <2>8, <2>9, <2>10, SlotStep
<1>5. CASE slot[n].st # "none"
  <2> DEFINE r == [op[o] EXCEPT !.pc = "undo"]
  <2>1. SetOp(o, r) /\ UNCHANGED slot
    BY <1>0, <1>5 DEF ReserveLocal
  <2>2. OpShape(r) /\ r.node = n /\ r.id = op[o].id /\ r.revs = op[o].revs /\ r.fence = op[o].fence /\ r.pc = "undo"
    BY <1>0, <1>2 DEF OpShape
  <2> HIDE DEF r
  <2> QED BY <1>0, <1>1, <1>3, <2>1, <2>2, FlightStep
<1> QED BY <1>4, <1>5

(* The local create preserves the invariant.                               *)
LEMMA CreatesLocal ==
  ASSUME IInv, NEW o \in Ops, CreateLocal(o)
  PROVE  IInv'
<1>0. PICK n : op[o].node = n
  OBVIOUS
<1>1. op[o].pc = "create_local" /\ op[o].pc \in InFlightPcs /\ op[o].pc \in CreatePcs
  BY DEF CreateLocal, At, InFlightPcs, CreatePcs
<1>2. /\ n \in Nodes /\ InFlight(n) /\ ~Finds(n) /\ OpShape(op[o]) /\ DOMAIN slot = Nodes
      /\ DOMAIN slot[n] = {"st", "id", "ver"}
  BY <1>0, <1>1, FlightFacts
<1>3. UNCHANGED <<etcd, up, loop, pass, dropped>>
  BY DEF CreateLocal
<1>4. PICK r, s :
        /\ SetOp(o, r) /\ slot' = [slot EXCEPT ![n] = s]
        /\ \/ r = [op[o] EXCEPT !.pc = "mark_ready"] /\ s = [slot[n] EXCEPT !.st = "open"]
           \/ r = [op[o] EXCEPT !.pc = "undo"] /\ s = NoSlot
  <2>1. PICK out \in {"ok", "failed"} :
          /\ slot' = [slot EXCEPT ![n] = IF out = "ok" THEN [@ EXCEPT !.st = "open"] ELSE NoSlot]
          /\ SetOp(o, [op[o] EXCEPT !.pc = IF out = "ok" THEN "mark_ready" ELSE "undo"])
    BY <1>0 DEF CreateLocal
  <2>2. CASE out = "ok"
    BY <2>1, <2>2
  <2>3. CASE out = "failed"
    BY <2>1, <2>3
  <2> QED BY <2>2, <2>3
<1>5. /\ OpShape(r) /\ r.node = n /\ r.id = op[o].id /\ r.revs = op[o].revs /\ DOMAIN s = {"st", "id", "ver"}
      /\ \/ r.pc = "mark_ready" /\ s.st = "open" /\ s.id = slot[n].id
         \/ r.pc = "undo" /\ s.st = "none" /\ s.id = 0
  <2>1. CASE r = [op[o] EXCEPT !.pc = "mark_ready"] /\ s = [slot[n] EXCEPT !.st = "open"]
    BY <1>0, <1>2, <2>1 DEF OpShape
  <2>2. CASE r = [op[o] EXCEPT !.pc = "undo"] /\ s = NoSlot
    BY <1>0, <1>2, <2>2 DEF OpShape, NoSlot
  <2> QED BY <1>4, <2>1, <2>2
<1>6. /\ op'[o] = r /\ (\A x \in Ops \ {o} : op'[x] = op[x])
      /\ slot'[n] = s /\ (\A m \in Nodes \ {n} : slot'[m] = slot[m]) /\ DOMAIN slot' = Nodes
  BY <1>2, <1>4, SetOpIs DEF IInv
<1>7. slot[n].st = "creating" /\ slot[n].id = op[o].id
  BY <1>0, <1>1 DEF IInv, OpInv, CreatingInv
<1>8. \A x \in Ops \ {o} : op[x].node = n => op[x].pc # "create_local" /\ op[x].pc # "retire"
  BY <1>0, <1>1, <1>7 DEF IInv, OpInv, CreatingInv, RetiringInv
<1>9. \A x \in Ops : op[x].node = n /\ op[x].pc = "mark_ready" => ~(op[x].revs = etcd.meta.revs /\ ~dropped)
  BY <1>7 DEF IInv, OpInv, CreatedInv
<1>10. RevInv(o)' /\ FenceInv(o)'
  BY <1>0, <1>1, <1>3, <1>5, <1>6 DEF IInv, OpInv, RevInv, FenceInv, CreatePcs, DropPcs
<1>11. ResolveInv(n)'
  BY <1>3, <1>5, <1>6, <1>8 DEF ResolveInv
<1>12. ASSUME NEW x \in Ops, op'[x].node = n PROVE CreatingInv(x)' /\ RetiringInv(x)' /\ CreatedInv(x)'
  <2>1. CASE x = o
    BY <1>5, <1>6, <1>7, <2>1 DEF CreatingInv, RetiringInv, CreatedInv
  <2>2. CASE x # o
    <3>1. op'[x] = op[x] /\ op[x].node = n
      BY <1>6, <1>12, <2>2
    <3> QED BY <1>3, <1>8, <1>9, <1>12, <2>2, <3>1 DEF CreatingInv, RetiringInv, CreatedInv
  <2> QED BY <2>1, <2>2
<1>13. etcd.meta.node = n => FailedInv' /\ ReadyHasData'
  <2>1. SUFFICES ASSUME etcd.meta.node = n PROVE FailedInv' /\ ReadyHasData'
    OBVIOUS
  <2>2. ReadyHasData'
    BY <1>3, <1>7, <2>1 DEF IInv, ReadyHasData
  <2>3. FailedInv'
    BY <1>3, <1>5, <1>6, <1>8, <2>1 DEF FailedInv
  <2> QED BY <2>2, <2>3
<1>14. r.pc \in CreatePcs \cup DropPcs /\ (s.id = slot[n].id \/ s.id = 0)
  BY <1>5 DEF CreatePcs
<1> QED BY <1>0, <1>1, <1>3, <1>4, <1>5, <1>6, <1>10, <1>11, <1>12, <1>13, <1>14, SlotStep

(* The reads of a drop preserve the invariant.                             *)
LEMMA ReadsRevision ==
  ASSUME IInv, NEW o \in Ops, ReadRevision(o)
  PROVE  IInv'
<1>1. op[o].pc = "read" /\ op[o].pc \in InFlightPcs /\ op[o].pc \in DropPcs
  BY DEF ReadRevision, At, InFlightPcs, DropPcs
<1> DEFINE k == op[o].tries
           r == [op[o] EXCEPT !.revs[k] = RevisionOf(etcd, k), !.tries = (k % 3) + 1,
                              !.pc = IF k = 3 THEN "drop_local" ELSE "read"]
<1>2. SetOp(o, r) /\ UNCHANGED <<etcd, up, loop, pass, slot, dropped>>
  BY DEF ReadRevision
<1>3. OpShape(op[o])
  BY DEF IInv, ShapeInv
<1>4. /\ OpShape(r) /\ r.node = op[o].node /\ r.id = op[o].id /\ r.fence = op[o].fence
      /\ r.pc \in {"read", "drop_local"}
  BY <1>3 DEF OpShape
<1> HIDE DEF r
<1> QED BY <1>1, <1>2, <1>4, FlightStep

(* Taking the slot for a drop preserves the invariant.                     *)
LEMMA DropsLocal ==
  ASSUME IInv, NEW o \in Ops, DropLocal(o)
  PROVE  IInv'
<1>0. PICK n : op[o].node = n
  OBVIOUS
<1>1. op[o].pc = "drop_local" /\ op[o].pc \in InFlightPcs /\ op[o].pc \in DropPcs
  BY DEF DropLocal, At, InFlightPcs, DropPcs
<1>2. /\ n \in Nodes /\ InFlight(n) /\ ~Finds(n) /\ OpShape(op[o]) /\ DOMAIN slot = Nodes
      /\ DOMAIN slot[n] = {"st", "id", "ver"}
      /\ Pending(etcd.meta) /\ etcd.meta.node = n /\ slot[n].id = etcd.meta.id => slot[n].st # "failed"
  BY <1>0, <1>1, FlightFacts
<1>3. UNCHANGED <<etcd, up, loop, pass, dropped>>
  BY DEF DropLocal
<1>4. CASE Registered(n)
  <2> DEFINE r == [op[o] EXCEPT !.pc = "retire", !.was = slot[n].st]
             s == [slot[n] EXCEPT !.st = "dropping"]
  <2>1. SetOp(o, r) /\ slot' = [slot EXCEPT ![n] = s]
    BY <1>0, <1>4 DEF DropLocal
  <2>2. /\ OpShape(r) /\ r.node = n /\ r.id = op[o].id /\ r.fence = op[o].fence /\ r.pc = "retire"
        /\ r.was = slot[n].st /\ DOMAIN s = {"st", "id", "ver"} /\ s.st = "dropping" /\ s.id = slot[n].id
    BY <1>0, <1>2 DEF OpShape
  <2> HIDE DEF r, s
  <2>3. /\ op'[o] = r /\ (\A x \in Ops \ {o} : op'[x] = op[x])
        /\ slot'[n] = s /\ (\A m \in Nodes \ {n} : slot'[m] = slot[m]) /\ DOMAIN slot' = Nodes
    BY <1>2, <2>1, SetOpIs DEF IInv
  <2>4. slot[n].st \in {"open", "failed"}
    BY <1>4 DEF Registered
  <2>5. \A x \in Ops : op[x].node = n => op[x].pc # "create_local" /\ op[x].pc # "retire"
    BY <2>4 DEF IInv, OpInv, CreatingInv, RetiringInv
  <2>6. RevInv(o)' /\ FenceInv(o)'
    <3>1. RevInv(o)'
      BY <2>2, <2>3 DEF RevInv, CreatePcs
    <3>2. FenceInv(o)
      BY DEF IInv, OpInv
    <3>3. FenceInv(o)'
      BY <1>0, <1>1, <1>3, <2>2, <2>3, <3>2 DEF FenceInv
    <3> QED BY <3>1, <3>3
  <2>7. ResolveInv(n)'
    BY <1>2, <1>3, <2>2, <2>3, <2>5 DEF ResolveInv, Finds
  <2>8. ASSUME NEW x \in Ops, op'[x].node = n PROVE CreatingInv(x)' /\ RetiringInv(x)' /\ CreatedInv(x)'
    <3>1. CASE x = o
      BY <2>2, <2>3, <2>4, <2>5, <3>1 DEF CreatingInv, RetiringInv, CreatedInv
    <3>2. CASE x # o
      <4>1. op'[x] = op[x] /\ op[x].node = n /\ CreatedInv(x)
        BY <2>3, <2>8, <3>2 DEF IInv, OpInv
      <4>2. CreatedInv(x)'
        BY <1>3, <2>2, <2>3, <4>1 DEF CreatedInv
      <4> QED BY <2>5, <2>8, <4>1, <4>2 DEF CreatingInv, RetiringInv
    <3> QED BY <3>1, <3>2
  <2>9. etcd.meta.node = n => FailedInv' /\ ReadyHasData'
    <3>1. SUFFICES ASSUME etcd.meta.node = n PROVE FailedInv' /\ ReadyHasData'
      OBVIOUS
    <3>2. ReadyHasData'
      BY <1>3, <2>2, <2>3, <3>1 DEF IInv, ReadyHasData
    <3>3. FailedInv'
      BY <1>2, <1>3, <2>2, <2>3, <2>4, <2>5, <3>1 DEF FailedInv
    <3> QED BY <3>2, <3>3
  <2>10. r.pc \in CreatePcs \cup DropPcs /\ op[o].pc # "put"
    BY <1>1, <2>2 DEF DropPcs
  <2> QED BY <1>0, <1>1, <1>3, <2>1, <2>2, <2>3, <2>6, <2>7, <2>8, <2>9, <2>10, SlotStep
<1>5. CASE ~Registered(n)
  <2> DEFINE r == [op[o] EXCEPT !.pc = "delete"]
  <2>1. (SetOp(o, r) \/ SetOp(o, Idle)) /\ UNCHANGED slot
    BY <1>0, <1>5 DEF DropLocal
  <2>2. OpShape(r) /\ r.node = n /\ r.id = op[o].id /\ r.fence = op[o].fence /\ r.pc = "delete"
    BY <1>0, <1>2 DEF OpShape
  <2>3. OpShape(Idle)
    BY DEF OpShape, Idle
  <2> HIDE DEF r
  <2>4. CASE SetOp(o, r)
    BY <1>0, <1>1, <1>3, <2>1, <2>2, <2>4, FlightStep
  <2>5. CASE SetOp(o, Idle)
    BY <1>1, <1>3, <2>1, <2>3, <2>5, FlightStep
  <2> QED BY <2>1, <2>4, <2>5
<1> QED BY <1>4, <1>5

(* The end of a local drop preserves the invariant.                        *)
LEMMA Retires ==
  ASSUME IInv, NEW o \in Ops, RetireLocal(o)
  PROVE  IInv'
<1>0. PICK n : op[o].node = n
  OBVIOUS
<1>1. op[o].pc = "retire" /\ op[o].pc \in InFlightPcs /\ op[o].pc \in DropPcs
  BY DEF RetireLocal, At, InFlightPcs, DropPcs
<1>2. /\ n \in Nodes /\ InFlight(n) /\ ~Finds(n) /\ OpShape(op[o]) /\ DOMAIN slot = Nodes
      /\ DOMAIN slot[n] = {"st", "id", "ver"}
  BY <1>0, <1>1, FlightFacts
<1>3. UNCHANGED <<etcd, up, loop, pass>> /\ dropped \in BOOLEAN
  BY DEF RetireLocal, IInv, ShapeInv
<1>4. slot[n].st = "dropping" /\ op[o].was \in {"open", "failed"}
  BY <1>0, <1>1 DEF IInv, OpInv, RetiringInv
<1>5. \A x \in Ops \ {o} : op[x].node = n => op[x].pc # "create_local" /\ op[x].pc # "retire"
  BY <1>0, <1>1, <1>4 DEF IInv, OpInv, CreatingInv, RetiringInv
<1>6. PICK out \in {"ok", "failed"} :
        /\ slot' = [slot EXCEPT ![n] = IF out = "ok" THEN NoSlot ELSE [@ EXCEPT !.st = op[o].was]]
        /\ dropped' = (dropped \/ (out = "ok" /\ n = etcd.meta.node /\ slot[n].id = etcd.meta.id))
        /\ SetOp(o, IF out = "ok" /\ op[o].revs[Descriptor] # 0
                    THEN [op[o] EXCEPT !.pc = "delete", !.was = "none"] ELSE Idle)
  BY <1>0 DEF RetireLocal
<1>7. PICK r : /\ SetOp(o, r) /\ (r = Idle \/ r = [op[o] EXCEPT !.pc = "delete", !.was = "none"])
               /\ out = "failed" => r = Idle
  BY <1>6
<1>8. /\ OpShape(r)
      /\ r = Idle \/ (r.node = n /\ r.id = op[o].id /\ r.fence = op[o].fence /\ r.pc = "delete")
  <2>1. CASE r = Idle
    BY <2>1 DEF OpShape, Idle
  <2>2. CASE r = [op[o] EXCEPT !.pc = "delete", !.was = "none"]
    BY <1>0, <1>2, <2>2 DEF OpShape
  <2> QED BY <1>7, <2>1, <2>2
<1>9. r.pc = "idle" \/ r.pc = "delete"
  <2>1. Idle.pc = "idle"
    BY DEF Idle
  <2> QED BY <1>8, <2>1
<1>10. op'[o] = r /\ (\A x \in Ops \ {o} : op'[x] = op[x])
  BY <1>7, SetOpIs DEF IInv
<1>11. RevInv(o)' /\ FenceInv(o)'
  <2>1. CASE r = Idle
    BY <1>10, <2>1, IdleOp DEF OpInv
  <2>2. CASE r # Idle
    BY <1>0, <1>1, <1>3, <1>8, <1>10, <2>2 DEF IInv, OpInv, RevInv, FenceInv, CreatePcs, DropPcs
  <2> QED BY <2>1, <2>2
<1>12. r = Idle \/ (r.node = n /\ r.id = op[o].id /\ r.pc \in CreatePcs \cup DropPcs)
  BY <1>8 DEF DropPcs
<1>13. \A x \in Ops : op'[x].node = n => op'[x].pc # "create_local" /\ op'[x].pc # "retire"
  BY <1>5, <1>9, <1>10
<1>14. ASSUME NEW x \in Ops, op'[x].node = n, op'[x].pc = "mark_ready", op'[x].revs = etcd.meta.revs, ~dropped'
       PROVE  /\ slot[n].id = op'[x].id /\ etcd.meta.id = op'[x].id /\ etcd.meta.node = n /\ Pending(etcd.meta)
  <2>1. op'[x] = op[x] /\ x # o
    BY <1>9, <1>10, <1>14
  <2>2. RevInv(x) /\ CreatedInv(x) /\ ~dropped
    BY <1>3, <1>6, <1>14 DEF IInv, OpInv
  <2>3. ~etcd.meta.ready /\ etcd.meta.id = op[x].id /\ etcd.meta.node = n /\ etcd.meta.revs[2] # 0
    BY <1>14, <2>1, <2>2 DEF RevInv, CreatePcs
  <2>4. slot[n].id = op[x].id
    BY <1>14, <2>1, <2>2 DEF CreatedInv
  <2>5. Pending(etcd.meta)
    BY <2>3 DEF Pending, NoMeta
  <2> QED BY <2>1, <2>3, <2>4, <2>5
<1>15. CASE out = "ok"
  <2>1. slot'[n] = NoSlot /\ (\A m \in Nodes \ {n} : slot'[m] = slot[m]) /\ DOMAIN slot' = Nodes
    BY <1>2, <1>6, <1>15
  <2>2. DOMAIN NoSlot = {"st", "id", "ver"} /\ NoSlot.st = "none" /\ NoSlot.id = 0
    BY DEF NoSlot
  <2>3. dropped' = (dropped \/ (n = etcd.meta.node /\ slot[n].id = etcd.meta.id))
    BY <1>6, <1>15
  <2>4. dropped' = dropped \/ (dropped' = TRUE /\ etcd.meta.node = n)
    BY <1>3, <2>3
  <2>5. ResolveInv(n)'
    BY <1>13, <2>1, <2>2 DEF ResolveInv
  <2>6. ASSUME NEW x \in Ops, op'[x].node = n PROVE CreatingInv(x)' /\ RetiringInv(x)' /\ CreatedInv(x)'
    <3>1. CreatedInv(x)'
      BY <1>3, <1>14, <2>3, <2>6 DEF CreatedInv
    <3> QED BY <1>13, <2>6, <3>1 DEF CreatingInv, RetiringInv
  <2>7. etcd.meta.node = n => FailedInv' /\ ReadyHasData'
    <3>1. SUFFICES ASSUME etcd.meta.node = n PROVE FailedInv' /\ ReadyHasData'
      OBVIOUS
    <3>2. ReadyHasData'
      BY <1>3, <2>3, <3>1 DEF IInv, ReadyHasData
    <3>3. FailedInv'
      BY <1>3, <1>13, <2>1, <2>2, <3>1 DEF FailedInv
    <3> QED BY <3>2, <3>3
  <2> QED BY <1>0, <1>1, <1>3, <1>7, <1>8, <1>11, <1>12, <2>1, <2>2, <2>4, <2>5, <2>6, <2>7, SlotStep
<1>16. CASE out = "failed"
  <2> DEFINE s == [slot[n] EXCEPT !.st = op[o].was]
  <2>1. slot'[n] = s /\ (\A m \in Nodes \ {n} : slot'[m] = slot[m]) /\ DOMAIN slot' = Nodes
    BY <1>2, <1>6, <1>16
  <2>2. DOMAIN s = {"st", "id", "ver"} /\ s.st = op[o].was /\ s.id = slot[n].id
    BY <1>2
  <2> HIDE DEF s
  <2>3. dropped' = dropped
    BY <1>3, <1>6, <1>16
  <2>4. Pending(etcd.meta) /\ etcd.meta.node = n /\ slot[n].id = etcd.meta.id => op[o].was = "open"
    BY <1>0, <1>1 DEF IInv, FailedInv
  <2>5. ResolveInv(n)'
    <3>1. pass[n].pc = "resolve" /\ slot[n].id = pass[n].seen.id => op[o].was # "failed"
      BY <1>0, <1>1, <1>2 DEF IInv, PassInv, ResolveInv
    <3> QED BY <1>3, <1>13, <2>1, <2>2, <3>1 DEF ResolveInv
  <2>6. ASSUME NEW x \in Ops, op'[x].node = n PROVE CreatingInv(x)' /\ RetiringInv(x)' /\ CreatedInv(x)'
    <3>1. CreatedInv(x)'
      BY <1>3, <1>14, <2>1, <2>2, <2>4, <2>6 DEF CreatedInv
    <3> QED BY <1>13, <2>6, <3>1 DEF CreatingInv, RetiringInv
  <2>7. etcd.meta.node = n => FailedInv' /\ ReadyHasData'
    <3>1. SUFFICES ASSUME etcd.meta.node = n PROVE FailedInv' /\ ReadyHasData'
      OBVIOUS
    <3>2. ReadyHasData'
      BY <1>3, <1>4, <2>1, <2>2, <2>3, <3>1 DEF IInv, ReadyHasData
    <3>3. FailedInv'
      BY <1>3, <1>13, <2>1, <2>2, <2>4, <3>1 DEF FailedInv
    <3> QED BY <3>2, <3>3
  <2> QED BY <1>0, <1>1, <1>3, <1>7, <1>8, <1>11, <1>12, <2>1, <2>2, <2>3, <2>5, <2>6, <2>7, SlotStep
<1> QED BY <1>15, <1>16

(* A change of the schema of an open collection preserves the invariant.   *)
LEMMA Alters ==
  ASSUME IInv, NEW o \in Ops, AlterSchema(o)
  PROVE  IInv'
<1>0. PICK n : op[o].node = n
  OBVIOUS
<1>1. op[o].pc = "change" /\ UNCHANGED <<etcd, up, loop, pass, dropped>> /\ OpShape(op[o])
  BY DEF AlterSchema, At, IInv, ShapeInv
<1>2. Frame
  BY <1>1 DEF Frame, IInv, ShapeInv
<1>3. CASE SetOp(o, Idle) /\ UNCHANGED slot
  BY <1>2, <1>3, IdleIsQuiet, QuietStep
<1>4. CASE ~(SetOp(o, Idle) /\ UNCHANGED slot)
  <2> DEFINE r == [op[o] EXCEPT !.pc = "publish", !.ver = slot[n].ver + 1, !.tries = 1]
  <2>1. SetOp(o, r) /\ slot' = [slot EXCEPT ![n].ver = @ + 1]
    BY <1>0, <1>4 DEF AlterSchema
  <2>2. OpShape(r) /\ r.node = op[o].node /\ r.id = op[o].id /\ r.pc = "publish"
    BY <1>1 DEF OpShape
  <2> HIDE DEF r
  <2>3. r.pc \notin InFlightPcs /\ r.pc # "put_schema" /\ r.pc # "move" /\ op[o].pc # "idle"
    BY <1>1, <2>2 DEF InFlightPcs, CreatePcs, DropPcs
  <2>4. QuietOp(o, r)
    BY <2>2, <2>3, QuietMove
  <2>5. SameSlots
    <3>1. DOMAIN slot = Nodes /\ \A m \in Nodes : DOMAIN slot[m] = {"st", "id", "ver"}
      BY DEF IInv, ShapeInv
    <3>2. DOMAIN slot' = Nodes /\ (\A m \in Nodes \ {n} : slot'[m] = slot[m])
      BY <2>1, <3>1
    <3>3. n \in Nodes => slot'[n] = [slot[n] EXCEPT !.ver = @ + 1]
      BY <2>1, <3>1
    <3>4. n \in Nodes => DOMAIN slot'[n] = {"st", "id", "ver"} /\ slot'[n].st = slot[n].st /\ slot'[n].id = slot[n].id
      BY <3>1, <3>3
    <3> QED BY <3>1, <3>2, <3>4 DEF SameSlots
  <2> QED BY <1>2, <2>1, <2>4, <2>5, QuietSlotStep
<1> QED BY <1>3, <1>4

(* A request enters its flight: no collection is registered on the node    *)
(* then, or the entry is ready.                                            *)
LEMMA EnterFlight ==
  ASSUME IInv, NEW o \in Ops, op[o].pc # "idle", op[o].pc \notin InFlightPcs, NEW r, SetOp(o, r), OpShape(r),
         r.node = op[o].node, r.pc = "put" \/ r.pc = "read", Frame, UNCHANGED slot, IdInv(o)', FenceInv(o)',
         \A x \in Ops \ {o} : op[x].pc = "put" => r.id # op[x].id,
         etcd.meta.ready \/ ~Registered(op[o].node)
  PROVE  IInv'
<1>0. PICK n : op[o].node = n
  OBVIOUS
<1>1. op'[o] = r /\ (\A x \in Ops \ {o} : op'[x] = op[x]) /\ DOMAIN op' = Ops
  BY SetOpIs DEF IInv
<1>2. ShapeInv'
  BY <1>1 DEF IInv, ShapeInv, Frame
<1>3. MetaInv' /\ ReadyHasData'
  BY DEF IInv, MetaInv, ReadyHasData, Frame
<1>4. UpInv'
  BY <1>1 DEF IInv, UpInv, Frame
<1>5. \A m : m # n /\ InFlight(m)' => InFlight(m)
  BY <1>0, <1>1 DEF InFlight
<1>6. FailedInv'
  BY <1>0, <1>1, <1>5 DEF IInv, FailedInv, Frame, Pending, Registered
<1>7. ASSUME NEW m \in Nodes PROVE PassInv(m)'
  <2>1. SeenInv(m) /\ ResolveInv(m) /\ DropInv(m) /\ ForwardInv(m) /\ pass'[m] = pass[m]
    BY <1>7 DEF IInv, PassInv, Frame
  <2>2. SeenInv(m)' /\ DropInv(m)'
    BY <2>1 DEF SeenInv, DropInv, Frame
  <2>3. ResolveInv(m)'
    BY <1>1, <2>1 DEF ResolveInv, Frame
  <2>4. ForwardInv(m)'
    <3>1. CASE m = n
      BY <1>0, <2>1, <3>1 DEF ForwardInv, SeenInv, SeenPcs, Frame, Registered
    <3>2. CASE m # n
      BY <1>5, <2>1, <3>2 DEF ForwardInv, Frame
    <3> QED BY <3>1, <3>2
  <2> QED BY <2>2, <2>3, <2>4 DEF PassInv
<1>8. ASSUME NEW x \in Ops PROVE OpInv(x)'
  <2>1. CASE x = o
    BY <1>1, <2>1 DEF OpInv, RevInv, CreatingInv, RetiringInv, CreatedInv, CreatePcs
  <2>2. CASE x # o
    <3>1. OpInv(x) /\ op'[x] = op[x]
      BY <1>1, <1>8, <2>2 DEF IInv
    <3>2. IdInv(x)'
      BY <1>1, <1>8, <2>2, <3>1 DEF OpInv, IdInv
    <3>3. RevInv(x)' /\ FenceInv(x)' /\ CreatedInv(x)'
      BY <3>1 DEF OpInv, RevInv, FenceInv, CreatedInv, Frame
    <3>4. CreatingInv(x)' /\ RetiringInv(x)'
      BY <1>1, <1>8, <2>2, <3>1 DEF OpInv, CreatingInv, RetiringInv
    <3> QED BY <3>2, <3>3, <3>4 DEF OpInv
  <2> QED BY <2>1, <2>2
<1> QED BY <1>2, <1>3, <1>4, <1>6, <1>7, <1>8 DEF IInv

(* The gates of a create and of a drop preserve the invariant.             *)
LEMMA Gates ==
  ASSUME IInv, NEW o \in Ops, CreateGate(o) \/ DropGate(o)
  PROVE  IInv'
<1>0. PICK n : op[o].node = n
  OBVIOUS
<1>1. UNCHANGED <<etcd, up, loop, pass, slot, dropped>> /\ OpShape(op[o]) /\ op[o].pc \in {"gate", "drop"}
  BY DEF CreateGate, DropGate, At, IInv, ShapeInv
<1>2. Frame /\ op[o].pc # "idle" /\ op[o].pc \notin InFlightPcs
  BY <1>1 DEF Frame, IInv, ShapeInv, InFlightPcs, CreatePcs, DropPcs
<1>3. CASE SetOp(o, Idle)
  BY <1>1, <1>2, <1>3, IdleIsQuiet, QuietStep
<1>4. CASE CreateGate(o) /\ ~SetOp(o, Idle)
  <2> DEFINE r == [op[o] EXCEPT !.pc = "put", !.fence = snap[n].lead, !.id = FreshId]
  <2>1. SetOp(o, r) /\ ~Registered(n)
    BY <1>0, <1>4 DEF CreateGate
  <2>2. OpShape(r) /\ r.node = n /\ r.id = FreshId /\ r.pc = "put"
    BY <1>0, <1>1 DEF OpShape
  <2> HIDE DEF r
  <2>3. FreshId # 0 /\ (\A m \in Nodes : FreshId # slot[m].id) /\ (\A x \in Ops : FreshId # op[x].id)
    BY IdIsNew DEF IInv
  <2>4. op'[o] = r /\ (\A x \in Ops \ {o} : op'[x] = op[x])
    BY <2>1, SetOpIs DEF IInv
  <2>5. IdInv(o)' /\ FenceInv(o)'
    BY <1>1, <2>2, <2>3, <2>4 DEF IdInv, FenceInv, DropPcs
  <2> QED BY <1>0, <1>1, <1>2, <2>1, <2>2, <2>3, <2>5, EnterFlight
<1>5. CASE DropGate(o) /\ ~SetOp(o, Idle)
  <2> DEFINE r == [op[o] EXCEPT !.pc = "read", !.fence = snap[n].lead, !.tries = 1]
  <2>1. SetOp(o, r) /\ etcd.meta.ready
    BY <1>0, <1>5 DEF DropGate
  <2>2. OpShape(r) /\ r.node = n /\ r.id = op[o].id /\ r.pc = "read"
    BY <1>0, <1>1 DEF OpShape
  <2> HIDE DEF r
  <2>3. op'[o] = r
    BY <2>1, SetOpIs DEF IInv
  <2>4. IdInv(o)' /\ FenceInv(o)'
    BY <1>1, <2>1, <2>2, <2>3 DEF IdInv, FenceInv, Pending
  <2>5. \A x \in Ops \ {o} : op[x].pc = "put" => r.id # op[x].id
    BY <2>2 DEF IInv, OpInv, IdInv
  <2> QED BY <1>0, <1>1, <1>2, <2>1, <2>2, <2>4, <2>5, EnterFlight
<1> QED BY <1>3, <1>4, <1>5

(* What putting a pending entry changes.                                   *)
LEMMA PutPendingIs ==
  ASSUME EtcdShape(etcd), NEW id, NEW n, NEW rev, NEW e, e = PutPending(etcd, id, n, rev)
  PROVE  /\ EtcdShape(e) /\ e.leader = etcd.leader
         /\ e.meta.id = id /\ ~e.meta.ready /\ e.meta.node = n /\ e.meta.revs[2] = rev /\ e.meta.ver = 1
<1> DEFINE m == [id |-> id, ready |-> FALSE, ver |-> 1, of |-> id, node |-> n, owner |-> n,
                 revs |-> <<rev, rev, rev>>]
<1>1. MetaShape(m) /\ m.id = id /\ m.ready = FALSE /\ m.node = n /\ m.revs[2] = rev /\ m.ver = 1
  BY DEF MetaShape
<1>2. e = [etcd EXCEPT !.meta = m]
  BY DEF PutPending
<1> HIDE DEF m
<1>3. e.meta = m /\ e.leader = etcd.leader /\ e.live = etcd.live /\ DOMAIN e = DOMAIN etcd
  BY <1>2 DEF EtcdShape
<1> QED BY <1>1, <1>3 DEF EtcdShape

(* The pending entry of a create is put: nobody knows its id or revisions, *)
(* and who led before does not any more.                                   *)
LEMMA Puts ==
  ASSUME IInv, NEW o \in Ops, PutMetadata(o)
  PROVE  IInv'
<1>0. PICK n : op[o].node = n
  OBVIOUS
<1>1. op[o].pc = "put" /\ UNCHANGED <<up, loop, pass, slot>> /\ OpShape(op[o]) /\ EtcdShape(etcd) /\ n \in Nodes /\ up[n]
  BY <1>0 DEF PutMetadata, At, IInv, ShapeInv, UpInv
<1>2. PICK out \in Outcomes :
        LET ok == CanPutPending(etcd, Fence(o))
        IN /\ Send(out, ok, PutPending(etcd, op[o].id, op[o].node, FreshRev))
           /\ dropped' = (dropped /\ etcd'.meta # NoMeta)
           /\ SetOp(o, IF out = "ok" /\ ok
                       THEN [op[o] EXCEPT !.pc = "reserve", !.revs = etcd'.meta.revs] ELSE Idle)
  BY DEF PutMetadata
<1>3. CASE ~(CanPutPending(etcd, Fence(o)) /\ out # "failed")
  <2>1. etcd' = etcd /\ SetOp(o, Idle)
    BY <1>2, <1>3 DEF Send
  <2>2. dropped' = dropped
    BY <1>2, <2>1 DEF IInv, MetaInv, ShapeInv
  <2>3. Frame
    BY <1>1, <2>1, <2>2 DEF Frame
  <2> QED BY <1>1, <2>1, <2>3, IdleIsQuiet, QuietStep
<1>4. CASE CanPutPending(etcd, Fence(o)) /\ out # "failed"
  <2>1. etcd' = PutPending(etcd, op[o].id, n, FreshRev)
    BY <1>0, <1>2, <1>4 DEF Send
  <2>2. /\ EtcdShape(etcd)' /\ etcd'.leader = etcd.leader /\ etcd'.meta.id = op[o].id /\ ~etcd'.meta.ready
        /\ etcd'.meta.node = n /\ etcd'.meta.revs[2] = FreshRev
    BY <1>1, <2>1, PutPendingIs
  <2>3. /\ \A x \in Ops : op[x].revs # etcd'.meta.revs /\ op[x].revs[2] # etcd'.meta.revs[2]
        /\ \A m \in Nodes : pass[m].seen.revs # etcd'.meta.revs
        /\ etcd'.meta.revs[2] # 0
    <3>1. 2 \in 1..3
      OBVIOUS
    <3> QED BY <2>2, <3>1, FreshStale DEF IInv
  <2>4. etcd.meta = NoMeta /\ etcd.leader = [node |-> n, lease |-> op[o].fence]
    BY <1>0, <1>4 DEF CanPutPending, Holds, Fence, LeaderFence
  <2>5. ~dropped /\ dropped' = FALSE
    BY <1>2, <2>4 DEF IInv, MetaInv, ShapeInv
  <2>6. \A m \in Nodes : ~Finds(m)
    BY <2>4, FoundStays DEF Pending
  <2>7. PICK r : SetOp(o, r) /\ (r = Idle \/ r = [op[o] EXCEPT !.pc = "reserve", !.revs = etcd'.meta.revs])
    BY <1>2
  <2>8. /\ OpShape(r)
        /\ (r.pc = "idle" /\ r.id = 0) \/ (/\ r.pc = "reserve" /\ r.node = n /\ r.id = op[o].id
                                           /\ r.revs = etcd'.meta.revs)
    <3>1. DOMAIN etcd'.meta.revs = 1..3
      BY <2>2 DEF EtcdShape, MetaShape
    <3>2. CASE r = Idle
      BY <3>2 DEF OpShape, Idle
    <3>3. CASE r = [op[o] EXCEPT !.pc = "reserve", !.revs = etcd'.meta.revs]
      BY <1>0, <1>1, <3>1, <3>3 DEF OpShape
    <3> QED BY <2>7, <3>2, <3>3
  <2>9. op'[o] = r /\ (\A x \in Ops \ {o} : op'[x] = op[x]) /\ DOMAIN op' = Ops
    BY <2>7, SetOpIs DEF IInv
  <2>10. ShapeInv' /\ UpInv'
    BY <1>1, <2>2, <2>5, <2>8, <2>9 DEF IInv, ShapeInv, UpInv
  <2>11. IdInv(o) /\ op[o].id # 0 /\ \A m \in Nodes : slot[m].id # op[o].id
    BY <1>1 DEF IInv, OpInv, IdInv
  <2>12. MetaInv' /\ ReadyHasData' /\ FailedInv'
    <3>1. etcd'.meta # NoMeta
      BY <2>3 DEF NoMeta
    <3> QED BY <1>1, <2>2, <2>3, <2>11, <3>1 DEF MetaInv, ReadyHasData, FailedInv
  <2>13. ASSUME NEW m \in Nodes PROVE PassInv(m)'
    <3>1. SeenInv(m) /\ ResolveInv(m) /\ pass'[m] = pass[m] /\ slot'[m] = slot[m] /\ ~Finds(m)
      BY <1>1, <2>6, <2>13 DEF IInv, PassInv
    <3>2. SeenInv(m)' /\ DropInv(m)' /\ ForwardInv(m)'
      BY <2>3, <2>13, <3>1 DEF SeenInv, DropInv, ForwardInv, Finds
    <3>3. ResolveInv(m)'
      BY <2>8, <2>9, <3>1 DEF ResolveInv, Finds
    <3> QED BY <3>2, <3>3 DEF PassInv
  <2>14. ASSUME NEW x \in Ops PROVE OpInv(x)'
    <3>1. CASE x = o
      <4>1. RevInv(o)'
        BY <2>2, <2>3, <2>8, <2>9 DEF RevInv, CreatePcs
      <4> QED BY <2>8, <2>9, <3>1, <4>1
              DEF OpInv, IdInv, CreatingInv, RetiringInv, CreatedInv, FenceInv, DropPcs
    <3>2. CASE x # o
      <4>1. OpInv(x) /\ op'[x] = op[x]
        BY <2>9, <2>14, <3>2 DEF IInv
      <4>2. IdInv(x)'
        BY <1>1, <2>8, <2>9, <2>14, <3>2, <4>1 DEF OpInv, IdInv
      <4>3. RevInv(x)' /\ CreatedInv(x)'
        BY <2>3, <2>14, <4>1 DEF OpInv, RevInv, CreatedInv
      <4>4. CreatingInv(x)' /\ RetiringInv(x)'
        BY <1>1, <2>8, <2>9, <2>14, <3>2, <4>1 DEF OpInv, CreatingInv, RetiringInv
      <4>5. FenceInv(x)'
        BY <2>2, <2>4, <4>1 DEF FenceInv
      <4> QED BY <4>2, <4>3, <4>4, <4>5 DEF OpInv
    <3> QED BY <3>1, <3>2
  <2> QED BY <2>10, <2>12, <2>13, <2>14 DEF IInv
<1> QED BY <1>3, <1>4

----------------------------------------------------------------------------
(* The reconciliation pass.                                                *)

(* The passes after a step of one of them.                                 *)
LEMMA SetPassIs ==
  ASSUME IInv, NEW n \in Nodes, NEW p, SetPass(n, p)
  PROVE  pass'[n] = p /\ (\A m \in Nodes \ {n} : pass'[m] = pass[m]) /\ DOMAIN pass' = Nodes
BY DEF SetPass, IInv, ShapeInv

(* A pass gives up.                                                        *)
LEMMA GivesUp ==
  ASSUME IInv, NEW n \in Nodes, SetPass(n, NoPass), UNCHANGED <<etcd, up, loop, slot, op, dropped>>
  PROVE  IInv'
<1>1. OpsEnd /\ PassesEnd /\ LoopShape /\ EtcdShape(etcd)' /\ LeaderMoves
  BY PassEnds DEF SetPass, OpsEnd, LoopShape, LeaderMoves, IInv, ShapeInv
<1> QED BY <1>1, EndStep

(* A pass goes on.                                                         *)
LEMMA PassMove ==
  ASSUME IInv, NEW n \in Nodes, NEW p, SetPass(n, p), DOMAIN p = {"pc", "lease", "seen"}, up[n], PassInv(n)',
         UNCHANGED <<etcd, up, loop, slot, op, dropped>>
  PROVE  IInv'
<1>1. pass'[n] = p /\ (\A m \in Nodes \ {n} : pass'[m] = pass[m]) /\ DOMAIN pass' = Nodes
  BY SetPassIs
<1>2. ShapeInv' /\ UpInv'
  BY <1>1 DEF IInv, ShapeInv, UpInv
<1>3. MetaInv' /\ ReadyHasData' /\ FailedInv'
  BY DEF IInv, MetaInv, ReadyHasData, FailedInv, InFlight
<1>4. ASSUME NEW x \in Ops PROVE OpInv(x)'
  BY <1>4 DEF IInv, OpInv, IdInv, RevInv, CreatingInv, RetiringInv, CreatedInv, FenceInv
<1>5. ASSUME NEW m \in Nodes \ {n} PROVE PassInv(m)'
  <2>1. PassInv(m) /\ pass'[m] = pass[m]
    BY <1>1, <1>5 DEF IInv
  <2> QED BY <2>1 DEF PassInv, SeenInv, ResolveInv, DropInv, ForwardInv, InFlight
<1> QED BY <1>2, <1>3, <1>4, <1>5 DEF IInv

(* The listing of a pass preserves the invariant.                          *)
LEMMA Lists ==
  ASSUME IInv, NEW n \in Nodes, ListMetadata(n)
  PROVE  IInv'
<1>1. UNCHANGED <<etcd, up, loop, slot, op, dropped>> /\ pass[n].pc = "list"
  BY DEF ListMetadata
<1>2. up[n] /\ DOMAIN pass[n] = {"pc", "lease", "seen"}
  BY <1>1 DEF IInv, UpInv, ShapeInv
<1> DEFINE p == [pass[n] EXCEPT !.pc = "resolve", !.seen = etcd.meta]
<1>3. SetPass(n, NoPass) \/ (SetPass(n, p) /\ Pending(etcd.meta) /\ etcd.meta.node = n)
  BY DEF ListMetadata
<1>4. CASE SetPass(n, p) /\ Pending(etcd.meta) /\ etcd.meta.node = n
  <2>1. DOMAIN p = {"pc", "lease", "seen"} /\ p.pc = "resolve" /\ p.seen = etcd.meta
    BY <1>2
  <2> HIDE DEF p
  <2>2. pass'[n] = p
    BY <1>4, SetPassIs
  <2>3. SeenInv(n)' /\ DropInv(n)' /\ ForwardInv(n)'
    BY <1>1, <1>4, <2>1, <2>2 DEF SeenInv, DropInv, ForwardInv, IInv, MetaInv, Pending
  <2>4. ResolveInv(n)'
    BY <1>1, <1>4, <2>1, <2>2 DEF ResolveInv, IInv, FailedInv
  <2> QED BY <1>1, <1>2, <1>4, <2>1, <2>3, <2>4, PassMove DEF PassInv
<1> QED BY <1>1, <1>3, <1>4, GivesUp

(* The decision of a pass preserves the invariant.                         *)
LEMMA Resolves ==
  ASSUME IInv, NEW n \in Nodes, ResolvePending(n)
  PROVE  IInv'
<1>1. UNCHANGED <<etcd, up, loop, slot, op, dropped>> /\ pass[n].pc = "resolve"
  BY DEF ResolvePending
<1>2. up[n] /\ DOMAIN pass[n] = {"pc", "lease", "seen"} /\ SeenInv(n)
  BY <1>1 DEF IInv, UpInv, ShapeInv, PassInv
<1> DEFINE pc == Resolved(n, pass[n].seen)
           p == [pass[n] EXCEPT !.pc = pc]
<1>3. CASE InFlight(n)
  BY <1>1, <1>3, GivesUp DEF ResolvePending
<1>4. CASE ~InFlight(n)
  <2>1. DOMAIN p = {"pc", "lease", "seen"} /\ p.pc = pc /\ p.seen = pass[n].seen
    BY <1>2
  <2>2. SetPass(n, p)
    BY <1>4 DEF ResolvePending
  <2> HIDE DEF p
  <2>3. pass'[n] = p
    BY <2>2, SetPassIs
  <2>4. /\ pc \in {"forward", "drop", "back"}
        /\ pc = "forward" => slot[n].st = "open" /\ slot[n].id = pass[n].seen.id
        /\ pc = "drop" => slot[n].st = "failed" /\ slot[n].id = pass[n].seen.id
    BY DEF Resolved, Open
  <2> HIDE DEF pc
  <2>5. SeenInv(n)' /\ ResolveInv(n)'
    BY <1>1, <1>2, <2>1, <2>3, <2>4 DEF SeenInv, SeenPcs, ResolveInv
  <2>6. DropInv(n)'
    <3>1. pc = "drop" => Finds(n)
      BY <1>1, <2>4 DEF Finds
    <3>2. pc = "drop" => pass[n].seen = etcd.meta
      BY <3>1, FoundStays
    <3> QED BY <1>1, <2>1, <2>3, <2>4, <3>2 DEF DropInv
  <2>7. ForwardInv(n)'
    BY <1>1, <1>4, <2>1, <2>3, <2>4 DEF ForwardInv, InFlight
  <2> QED BY <1>1, <1>2, <2>1, <2>2, <2>5, <2>6, <2>7, PassMove DEF PassInv
<1> QED BY <1>3, <1>4

(* The failed collection that a pass drops is the one of the pending entry. *)
LEMMA DropsFailed ==
  ASSUME IInv, NEW n \in Nodes, DropFailed(n)
  PROVE  IInv'
<1>1. UNCHANGED <<etcd, up, loop, op, dropped>> /\ pass[n].pc = "drop"
  BY DEF DropFailed
<1>2. up[n] /\ DOMAIN pass[n] = {"pc", "lease", "seen"} /\ SeenInv(n) /\ DOMAIN slot = Nodes
  BY <1>1 DEF IInv, UpInv, ShapeInv, PassInv
<1>3. Pending(etcd.meta) /\ etcd.meta.node = n /\ ~InFlight(n)
  BY <1>1, FoundStays DEF Finds
<1> DEFINE p == [pass[n] EXCEPT !.pc = "back"]
<1>4. (SetPass(n, NoPass) /\ slot' = slot) \/ (SetPass(n, p) /\ slot' = [slot EXCEPT ![n] = NoSlot])
  BY DEF DropFailed
<1>5. CASE SetPass(n, p) /\ slot' = [slot EXCEPT ![n] = NoSlot]
  <2>1. DOMAIN p = {"pc", "lease", "seen"} /\ p.pc = "back" /\ p.seen = pass[n].seen
    BY <1>2
  <2> HIDE DEF p
  <2>2. pass'[n] = p /\ (\A m \in Nodes \ {n} : pass'[m] = pass[m]) /\ DOMAIN pass' = Nodes
    BY <1>5, SetPassIs
  <2>3. slot'[n] = NoSlot /\ (\A m \in Nodes \ {n} : slot'[m] = slot[m]) /\ DOMAIN slot' = Nodes
    BY <1>2, <1>5
  <2>4. NoSlot.id = 0 /\ DOMAIN NoSlot = {"st", "id", "ver"}
    BY DEF NoSlot
  <2>5. ShapeInv' /\ UpInv' /\ MetaInv'
    BY <1>1, <1>2, <2>1, <2>2, <2>3, <2>4 DEF IInv, ShapeInv, UpInv, MetaInv
  <2>6. ReadyHasData' /\ FailedInv'
    <3>1. etcd.meta.id # 0 /\ ~etcd.meta.ready
      BY <1>3 DEF IInv, MetaInv, Pending
    <3> QED BY <1>1, <1>3, <2>3, <2>4, <3>1 DEF ReadyHasData, FailedInv
  <2>7. ASSUME NEW m \in Nodes PROVE PassInv(m)'
    <3>1. CASE m = n
      <4>1. SeenInv(n)'
        BY <1>1, <1>2, <2>1, <2>2 DEF SeenInv, SeenPcs
      <4> QED BY <2>1, <2>2, <3>1, <4>1 DEF PassInv, ResolveInv, DropInv, ForwardInv
    <3>2. CASE m # n
      <4>1. PassInv(m) /\ pass'[m] = pass[m] /\ slot'[m] = slot[m]
        BY <2>2, <2>3, <2>7, <3>2 DEF IInv
      <4> QED BY <1>1, <4>1 DEF PassInv, SeenInv, ResolveInv, DropInv, ForwardInv, InFlight
    <3> QED BY <3>1, <3>2
  <2>8. ASSUME NEW x \in Ops PROVE OpInv(x)'
    <3>1. OpInv(x) /\ op'[x] = op[x]
      BY <1>1, <2>8 DEF IInv
    <3>2. IdInv(x)'
      BY <1>1, <2>3, <2>4, <3>1 DEF OpInv, IdInv
    <3>3. RevInv(x)' /\ FenceInv(x)'
      BY <1>1, <3>1 DEF OpInv, RevInv, FenceInv
    <3>4. CASE op[x].pc \in {"create_local", "retire", "mark_ready"}
      <4>1. op[x].node # n
        BY <1>3, <2>8, <3>4 DEF InFlight
      <4>2. op[x].node \in Nodes
        BY <2>8, <3>4 DEF IInv, UpInv
      <4>3. slot'[op[x].node] = slot[op[x].node]
        BY <2>3, <4>1, <4>2
      <4> QED BY <1>1, <3>1, <3>2, <3>3, <4>3 DEF OpInv, CreatingInv, RetiringInv, CreatedInv
    <3>5. CASE op[x].pc \notin {"create_local", "retire", "mark_ready"}
      BY <3>1, <3>2, <3>3, <3>5 DEF OpInv, CreatingInv, RetiringInv, CreatedInv
    <3> QED BY <3>4, <3>5
  <2> QED BY <2>5, <2>6, <2>7, <2>8 DEF IInv
<1> QED BY <1>1, <1>4, <1>5, GivesUp

----------------------------------------------------------------------------
(* A process dies or starts.                                               *)

(* No request and no pass of the node is left.                             *)
LEMMA NodeStep ==
  ASSUME IInv, NEW n \in Nodes, OpsEnd, \A x \in Ops : op'[x].pc # "idle" => op'[x].node # n,
         DOMAIN pass' = Nodes, pass'[n].pc = "idle", DOMAIN pass'[n] = {"pc", "lease", "seen"},
         \A m \in Nodes \ {n} : pass'[m] = pass[m],
         DOMAIN slot' = Nodes, DOMAIN slot'[n] = {"st", "id", "ver"}, \A m \in Nodes \ {n} : slot'[m] = slot[m],
         slot'[n].id = slot[n].id \/ slot'[n].id = 0,
         slot[n].st \in {"open", "failed", "dropping"} =>
           slot'[n].id = slot[n].id /\ slot'[n].st \in {"open", "failed", "dropping"},
         DOMAIN up' = Nodes, \A m \in Nodes \ {n} : up'[m] = up[m],
         EtcdShape(etcd)', etcd'.meta = etcd.meta, etcd'.leader = etcd.leader \/ etcd'.leader = NoLeader,
         LoopShape, dropped' = dropped
  PROVE  IInv'
<1>1. \A x \in Ops : op'[x] = op[x] \/ (op'[x].pc = "idle" /\ op'[x].id = 0 /\ OpShape(op'[x]))
  BY DEF OpsEnd, Idle, OpShape
<1>2. ShapeInv'
  BY <1>1 DEF IInv, ShapeInv, OpsEnd, LoopShape
<1>3. UpInv'
  BY <1>1 DEF IInv, UpInv
<1>4. MetaInv'
  BY DEF IInv, MetaInv
<1>5. ~InFlight(n)' /\ \A m : InFlight(m)' => InFlight(m)
  BY <1>1 DEF InFlight
<1>6. ReadyHasData'
  BY DEF IInv, ReadyHasData, MetaInv, NoMeta
<1>7. FailedInv'
  <2>1. CASE etcd.meta.node = n
    BY <1>5, <2>1 DEF FailedInv
  <2>2. CASE etcd.meta.node # n
    <3>1. Pending(etcd.meta) => slot'[etcd.meta.node] = slot[etcd.meta.node]
      BY <2>2 DEF IInv, MetaInv, Pending
    <3> QED BY <1>1, <1>5, <3>1 DEF IInv, FailedInv
  <2> QED BY <2>1, <2>2
<1>8. ASSUME NEW m \in Nodes PROVE PassInv(m)'
  <2>1. CASE m = n
    BY <2>1 DEF PassInv, SeenInv, SeenPcs, ResolveInv, DropInv, ForwardInv
  <2>2. CASE m # n
    <3>1. SeenInv(m) /\ ResolveInv(m) /\ DropInv(m) /\ ForwardInv(m) /\ pass'[m] = pass[m] /\ slot'[m] = slot[m]
      BY <1>8, <2>2 DEF IInv, PassInv
    <3>2. SeenInv(m)' /\ DropInv(m)'
      BY <3>1 DEF SeenInv, DropInv
    <3>3. ResolveInv(m)' /\ ForwardInv(m)'
      BY <1>1, <1>5, <3>1 DEF ResolveInv, ForwardInv
    <3> QED BY <3>2, <3>3 DEF PassInv
  <2> QED BY <2>1, <2>2
<1>9. ASSUME NEW x \in Ops PROVE OpInv(x)'
  <2>1. CASE op'[x] = Idle
    BY <1>9, <2>1, IdleOp
  <2>2. CASE op'[x] = op[x] /\ op[x].pc = "idle"
    BY <2>2 DEF OpInv, IdInv, RevInv, CreatingInv, RetiringInv, CreatedInv, FenceInv, CreatePcs, DropPcs
  <2>3. CASE op'[x] = op[x] /\ op[x].pc # "idle"
    <3>1. OpInv(x) /\ op[x].node \in Nodes \ {n}
      BY <1>9, <2>3 DEF IInv, UpInv
    <3>2. slot'[op[x].node] = slot[op[x].node] /\ op[x].node # Nobody
      BY <3>1, ClusterAssumption
    <3>3. IdInv(x)'
      <4>1. SUFFICES ASSUME op[x].pc = "put"
                     PROVE  /\ op[x].id # 0 /\ \A m \in Nodes : slot'[m].id # op[x].id
                            /\ \A y \in Ops \ {x} : op'[y].id # op[x].id
        BY <2>3 DEF IdInv
      <4>2. /\ op[x].id # 0 /\ \A m \in Nodes : slot[m].id # op[x].id
            /\ \A y \in Ops \ {x} : op[y].id # op[x].id
        BY <3>1, <4>1 DEF OpInv, IdInv
      <4> QED BY <1>1, <4>2
    <3>4. RevInv(x)' /\ CreatedInv(x)'
      BY <2>3, <3>1, <3>2 DEF OpInv, RevInv, CreatedInv
    <3>5. CreatingInv(x)' /\ RetiringInv(x)'
      BY <1>1, <2>3, <3>1, <3>2 DEF OpInv, CreatingInv, RetiringInv
    <3>6. FenceInv(x)'
      BY <2>3, <3>1, <3>2 DEF OpInv, FenceInv, NoLeader
    <3> QED BY <3>3, <3>4, <3>5, <3>6 DEF OpInv
  <2> QED BY <1>9, <2>1, <2>2, <2>3 DEF OpsEnd
<1> QED BY <1>2, <1>3, <1>4, <1>6, <1>7, <1>8, <1>9 DEF IInv

(* The end of a process, orderly or not, preserves the invariant.          *)
LEMMA Dies ==
  ASSUME IInv, NEW n \in Nodes, StopRevokes(n) \/ Crash(n)
  PROVE  IInv'
<1>1. Die(n) /\ dropped' = dropped /\ (etcd' = etcd \/ \E leases : etcd' = Revoke(etcd, leases))
  BY DEF StopRevokes, Crash, Send
<1>2. EtcdShape(etcd)' /\ etcd'.meta = etcd.meta /\ (etcd'.leader = etcd.leader \/ etcd'.leader = NoLeader)
  BY <1>1, RevokeIs DEF IInv, ShapeInv
<1>3. /\ DOMAIN up = Nodes /\ DOMAIN loop = Nodes /\ DOMAIN pass = Nodes /\ DOMAIN slot = Nodes
      /\ DOMAIN slot[n] = {"st", "id", "ver"}
  BY DEF IInv, ShapeInv
<1>4. DOMAIN up' = Nodes /\ (\A m \in Nodes \ {n} : up'[m] = up[m])
  BY <1>1, <1>3 DEF Die
<1>5. LoopShape
  <2>1. loop'[n] = NewLoop /\ (\A m \in Nodes \ {n} : loop'[m] = loop[m]) /\ DOMAIN loop' = Nodes
    BY <1>1, <1>3 DEF Die
  <2>2. NewLoop.drops = {}
    BY DEF NewLoop
  <2> QED BY <2>1, <2>2, FS_EmptySet DEF LoopShape, IInv, ShapeInv
<1>6. /\ DOMAIN pass' = Nodes /\ pass'[n].pc = "idle" /\ DOMAIN pass'[n] = {"pc", "lease", "seen"}
      /\ \A m \in Nodes \ {n} : pass'[m] = pass[m]
  BY <1>1, <1>3 DEF Die, NoPass
<1>7. OpsEnd
  BY <1>1 DEF Die, OpsEnd
<1>8. \A x \in Ops : op'[x].pc # "idle" => op'[x].node # n
  BY <1>1 DEF Die, Idle
<1>9. PICK s : /\ slot'[n] = s /\ (\A m \in Nodes \ {n} : slot'[m] = slot[m]) /\ DOMAIN slot' = Nodes
               /\ \/ slot[n].st = "creating" /\ s = NoSlot
                  \/ slot[n].st = "dropping" /\ s = [slot[n] EXCEPT !.st = "open"]
                  \/ s = slot[n] /\ slot[n].st # "creating" /\ slot[n].st # "dropping"
  BY <1>1, <1>3 DEF Die
<1>10. /\ DOMAIN s = {"st", "id", "ver"} /\ (s.id = slot[n].id \/ s.id = 0)
       /\ slot[n].st \in {"open", "failed", "dropping"} =>
            s.id = slot[n].id /\ s.st \in {"open", "failed", "dropping"}
  <2>1. CASE slot[n].st = "creating" /\ s = NoSlot
    BY <2>1 DEF NoSlot
  <2>2. CASE slot[n].st = "dropping" /\ s = [slot[n] EXCEPT !.st = "open"]
    BY <1>3, <2>2
  <2>3. CASE s = slot[n] /\ slot[n].st # "creating" /\ slot[n].st # "dropping"
    BY <1>3, <2>3
  <2> QED BY <1>9, <2>1, <2>2, <2>3
<1> QED BY <1>1, <1>2, <1>4, <1>5, <1>6, <1>7, <1>8, <1>9, <1>10, NodeStep

(* A restart, whether or not the collection opens, preserves the invariant. *)
LEMMA Restarts ==
  ASSUME IInv, NEW n \in Nodes, Restart(n)
  PROVE  IInv'
<1>1. ~up[n] /\ up' = [up EXCEPT ![n] = TRUE] /\ UNCHANGED <<etcd, loop, pass, op, dropped>>
  BY DEF Restart
<1>2. /\ DOMAIN up = Nodes /\ DOMAIN slot = Nodes /\ DOMAIN pass = Nodes /\ DOMAIN slot[n] = {"st", "id", "ver"}
      /\ DOMAIN pass[n] = {"pc", "lease", "seen"} /\ EtcdShape(etcd)
  BY DEF IInv, ShapeInv
<1>3. pass[n].pc = "idle" /\ \A x \in Ops : op[x].pc # "idle" => op[x].node # n
  BY <1>1 DEF IInv, UpInv
<1>4. OpsEnd /\ LoopShape
  BY <1>1 DEF OpsEnd, LoopShape, IInv, ShapeInv
<1>5. DOMAIN up' = Nodes /\ (\A m \in Nodes \ {n} : up'[m] = up[m])
  BY <1>1, <1>2
<1>6. PICK s : /\ slot'[n] = s /\ (\A m \in Nodes \ {n} : slot'[m] = slot[m]) /\ DOMAIN slot' = Nodes
               /\ \/ s = slot[n]
                  \/ s = [slot[n] EXCEPT !.st = "failed"]
                  \/ s = [slot[n] EXCEPT !.st = "open"]
  BY <1>2 DEF Restart
<1>7. /\ DOMAIN s = {"st", "id", "ver"} /\ s.id = slot[n].id
      /\ s.st \in {slot[n].st, "failed", "open"}
  BY <1>2, <1>6
<1>8. /\ \A x \in Ops : op'[x].pc # "idle" => op'[x].node # n
      /\ DOMAIN pass' = Nodes /\ pass'[n].pc = "idle" /\ DOMAIN pass'[n] = {"pc", "lease", "seen"}
      /\ \A m \in Nodes \ {n} : pass'[m] = pass[m]
  BY <1>1, <1>2, <1>3
<1>9. /\ DOMAIN slot' = Nodes /\ DOMAIN slot'[n] = {"st", "id", "ver"}
      /\ \A m \in Nodes \ {n} : slot'[m] = slot[m]
      /\ slot'[n].id = slot[n].id \/ slot'[n].id = 0
      /\ slot[n].st \in {"open", "failed", "dropping"} =>
           slot'[n].id = slot[n].id /\ slot'[n].st \in {"open", "failed", "dropping"}
  BY <1>6, <1>7
<1>10. /\ EtcdShape(etcd)' /\ etcd'.meta = etcd.meta /\ (etcd'.leader = etcd.leader \/ etcd'.leader = NoLeader)
       /\ dropped' = dropped
  BY <1>1, <1>2 DEF EtcdShape
<1> QED BY <1>4, <1>5, <1>8, <1>9, <1>10, NodeStep

----------------------------------------------------------------------------
(* The invariant holds before the first step.                              *)
LEMMA InitIInv == Init => IInv
<1>1. SUFFICES ASSUME Init PROVE IInv
  OBVIOUS
<1>2. \A n \in Nodes : up[n] /\ loop[n] = NewLoop /\ pass[n] = NoPass /\ slot[n] = NoSlot
  BY <1>1 DEF Init
<1>3. \A o \in Ops : op[o].pc = "idle" /\ OpShape(op[o]) /\ op[o].node = Nobody
  BY <1>1 DEF Init, Idle, OpShape
<1>4. etcd.meta = NoMeta /\ EtcdShape(etcd) /\ ~dropped /\ dropped \in BOOLEAN
  <2>1. MetaShape(NoMeta)
    BY DEF MetaShape, NoMeta
  <2>2. /\ etcd.meta = NoMeta /\ etcd.live = {} /\ ~dropped /\ dropped \in BOOLEAN
        /\ DOMAIN etcd = {"live", "member", "leader", "meta", "db", "policy"}
    BY <1>1 DEF Init, NewEtcd
  <2> QED BY <2>1, <2>2, FS_EmptySet DEF EtcdShape
<1>5. NoMeta.ready = FALSE /\ NewLoop.drops = {} /\ NoPass.pc = "idle"
  BY DEF NoMeta, NewLoop, NoPass
<1>6. DOMAIN NoPass = {"pc", "lease", "seen"} /\ DOMAIN NoSlot = {"st", "id", "ver"}
  BY DEF NoPass, NoSlot
<1>7. /\ DOMAIN up = Nodes /\ DOMAIN loop = Nodes /\ DOMAIN pass = Nodes /\ DOMAIN slot = Nodes /\ DOMAIN op = Ops
  BY <1>1 DEF Init
<1>8. ShapeInv
  BY <1>2, <1>3, <1>4, <1>5, <1>6, <1>7, FS_EmptySet DEF ShapeInv
<1>9. MetaInv /\ UpInv /\ FailedInv /\ ReadyHasData
  BY <1>2, <1>3, <1>4, <1>5 DEF MetaInv, UpInv, FailedInv, ReadyHasData, Pending
<1>10. \A o \in Ops : OpInv(o)
  BY <1>3 DEF OpInv, IdInv, RevInv, CreatingInv, RetiringInv, CreatedInv, FenceInv, CreatePcs, DropPcs
<1>11. \A n \in Nodes : PassInv(n)
  BY <1>2, <1>5 DEF PassInv, SeenInv, SeenPcs, ResolveInv, DropInv, ForwardInv
<1> QED BY <1>8, <1>9, <1>10, <1>11 DEF IInv

(* Every step preserves the invariant.                                     *)
LEMMA NextIInv == IInv /\ [Next]_vars => IInv'
<1>1. SUFFICES ASSUME IInv, [Next]_vars PROVE IInv'
  OBVIOUS
<1>2. CASE UNCHANGED vars
  <2>1. UNCHANGED <<etcd, up, loop, pass, slot, op, dropped>>
    BY <1>2 DEF vars
  <2>2. OpsEnd /\ PassesEnd /\ LoopShape /\ LeaderMoves /\ EtcdShape(etcd)'
    BY <1>1, <2>1 DEF OpsEnd, PassesEnd, LoopShape, LeaderMoves, IInv, ShapeInv
  <2> QED BY <1>1, <2>1, <2>2, EndStep
<1>3. ASSUME NEW n \in Nodes, LoopStep(n) \/ StopLoop(n) \/ Crash(n) \/ Restart(n) PROVE IInv'
  BY <1>1, <1>3, LoopSteps, Dies, Restarts DEF LoopStep
<1>4. ASSUME NEW n \in Nodes, PassStep(n) PROVE IInv'
  BY <1>1, <1>4, Lists, Resolves, DropsFailed, EntrySteps DEF PassStep
<1>5. ASSUME NEW o \in Ops, OpStep(o) PROVE IInv'
  BY <1>1, <1>5, QuietSteps, Gates, Puts, Reserves, CreatesLocal, EntrySteps, ReadsRevision, DropsLocal, Retires,
     Alters, SchemaSteps DEF OpStep
<1>6. ASSUME NEW o \in Ops, NEW n \in Nodes, NEW kind \in KindsOf[o], Start(o, n, kind) PROVE IInv'
  BY <1>1, <1>6, Starts
<1>7. ASSUME NEW lease, Expire(lease) PROVE IInv'
  BY <1>1, <1>7, Expires
<1> QED BY <1>1, <1>2, <1>3, <1>4, <1>5, <1>6, <1>7 DEF Next

(* Spec keeps the inductive invariant.                                     *)
THEOREM Inductive == Spec => []IInv
BY InitIInv, NextIInv, PTL DEF Spec

(* A collection that the catalog calls ready has its data on its node,     *)
(* unless a drop took it.                                                  *)
THEOREM ReadyCollectionsHaveData == Spec => []ReadyHasData
<1>1. IInv => ReadyHasData
  BY DEF IInv
<1> QED BY <1>1, Inductive, PTL

----------------------------------------------------------------------------
(* The schema in the catalog.                                              *)

(* How a step changes the schema version of the catalog: not at all, with  *)
(* an entry that was not ready, by deleting the entry, or upwards.         *)
VerMoves ==
  \/ etcd'.meta.ver = etcd.meta.ver
  \/ ~etcd.meta.ready /\ etcd'.meta.ver = 1
  \/ etcd'.meta = NoMeta
  \/ \E o \in Ops : etcd'.meta.ver = op[o].ver /\ etcd.meta.ver < op[o].ver

(* Every step changes the version in one of these ways.                    *)
LEMMA VerSteps ==
  ASSUME IInv, Next
  PROVE  VerMoves
<1>0. EtcdShape(etcd)
  BY DEF IInv, ShapeInv
<1>1. CASE etcd' = etcd
  BY <1>1 DEF VerMoves
<1>2. ASSUME NEW leases, etcd' = Revoke(etcd, leases) PROVE VerMoves
  BY <1>0, <1>2, RevokeIs DEF VerMoves
<1>3. ASSUME NEW n \in Nodes, LoopStep(n) \/ StopLoop(n) \/ Crash(n) \/ Restart(n) PROVE VerMoves
  <2>1. CASE Observe(n) \/ ObserveAgain(n) \/ StopLoop(n) \/ Crash(n) \/ Restart(n)
    BY <1>1, <2>1 DEF Observe, ObserveAgain, StopLoop, Crash, Restart
  <2>2. CASE RevokeLost(n) \/ StopRevokes(n)
    BY <1>1, <1>2, <2>2 DEF RevokeLost, StopRevokes, Send
  <2>3. CASE RegisterMembership(n)
    <3>1. etcd' = etcd \/ etcd' = Register(etcd, n, FreshLease(n, "member"))
      BY <2>3 DEF RegisterMembership, Send
    <3> QED BY <1>0, <1>1, <3>1, RegisterIs DEF VerMoves
  <2>4. CASE Campaign(n)
    <3>1. etcd' = etcd \/ etcd' = Acquire(etcd, n, FreshLease(n, "leader"))
      BY <2>4 DEF Campaign, Send
    <3>2. EtcdShape(etcd) => Acquire(etcd, n, FreshLease(n, "leader")).meta = etcd.meta
      BY AcquireIs
    <3>3. etcd'.meta = etcd.meta
      BY <1>0, <3>1, <3>2
    <3> QED BY <3>3 DEF VerMoves
  <2> QED BY <1>3, <2>1, <2>2, <2>3, <2>4 DEF LoopStep
<1>4. ASSUME NEW n \in Nodes, PassStep(n) PROVE VerMoves
  <2>1. CASE ListMetadata(n) \/ ResolvePending(n) \/ DropFailed(n)
    BY <1>1, <2>1 DEF ListMetadata, ResolvePending, DropFailed
  <2>2. CASE RollForward(n)
    <3> DEFINE can == CanChange(etcd, MemberFence(n, pass[n].lease), pass[n].seen.revs)
    <3>1. etcd' = etcd \/ (can /\ etcd' = MarkReady(etcd, pass[n].seen.id, FreshRev))
      BY <2>2 DEF RollForward, Send
    <3>2. can => ~etcd.meta.ready
      BY <1>4, <2>2 DEF RollForward, CanChange, IInv, PassInv, SeenInv, SeenPcs
    <3> HIDE DEF can
    <3> QED BY <1>0, <1>1, <3>1, <3>2, MarkReadyIs DEF VerMoves
  <2>3. CASE RollBack(n)
    <3>1. etcd' = etcd \/ etcd' = DeleteMeta(etcd)
      BY <2>3 DEF RollBack, Send
    <3> QED BY <1>0, <1>1, <3>1, DeleteIs DEF VerMoves
  <2> QED BY <1>4, <2>1, <2>2, <2>3 DEF PassStep
<1>5. ASSUME NEW o \in Ops, OpStep(o) PROVE VerMoves
  <2>0. RevInv(o)
    BY <1>5 DEF IInv, OpInv
  <2>1. CASE \/ EnsureDatabase(o) \/ CreateGate(o) \/ ReserveLocal(o) \/ CreateLocal(o) \/ DropGate(o)
             \/ ReadRevision(o) \/ DropLocal(o) \/ RetireLocal(o) \/ AlterGate(o) \/ AlterSchema(o) \/ Describe(o)
             \/ ReadDescriptor(o) \/ ReadOwner(o) \/ CheckPromotion(o) \/ DatabaseGate(o)
    BY <1>1, <2>1 DEF EnsureDatabase, CreateGate, ReserveLocal, CreateLocal, DropGate, ReadRevision, DropLocal,
       RetireLocal, AlterGate, AlterSchema, Describe, ReadDescriptor, ReadOwner, CheckPromotion, DatabaseGate
  <2>2. CASE PutDatabaseFenced(o)
    <3>1. etcd' = etcd \/ etcd' = PutDatabase(etcd)
      BY <2>2 DEF PutDatabaseFenced, Send
    <3> QED BY <1>0, <1>1, <3>1, DatabaseIs DEF VerMoves
  <2>3. CASE ChangeDatabase(o)
    <3>1. etcd' = etcd \/ (\E p : etcd' = PutPolicy(etcd, p)) \/ etcd' = DeleteDatabase(etcd)
      BY <2>3 DEF ChangeDatabase, Send
    <3>2. etcd'.meta = etcd.meta
      BY <1>0, <3>1, DatabaseIs
    <3> QED BY <3>2 DEF VerMoves
  <2>4. CASE PutMetadata(o)
    <3> DEFINE can == CanPutPending(etcd, Fence(o))
    <3>1. etcd' = etcd \/ (can /\ etcd' = PutPending(etcd, op[o].id, op[o].node, FreshRev))
      BY <2>4 DEF PutMetadata, Send
    <3>2. can => ~etcd.meta.ready
      BY DEF CanPutPending, NoMeta
    <3> HIDE DEF can
    <3> QED BY <1>0, <1>1, <3>1, <3>2, PutPendingIs DEF VerMoves
  <2>5. CASE MarkCreateReady(o)
    <3> DEFINE can == CanChange(etcd, Fence(o), op[o].revs)
    <3>1. etcd' = etcd \/ (can /\ etcd' = MarkReady(etcd, op[o].id, FreshRev))
      BY <2>5 DEF MarkCreateReady, Send
    <3>2. can => ~etcd.meta.ready
      BY <2>0, <2>5 DEF MarkCreateReady, At, CanChange, RevInv, CreatePcs
    <3> HIDE DEF can
    <3> QED BY <1>0, <1>1, <3>1, <3>2, MarkReadyIs DEF VerMoves
  <2>6. CASE UndoCreate(o) \/ DeleteMetadata(o)
    <3>1. etcd' = etcd \/ etcd' = DeleteMeta(etcd)
      BY <2>6 DEF UndoCreate, DeleteMetadata, Send
    <3> QED BY <1>0, <1>1, <3>1, DeleteIs DEF VerMoves
  <2>7. CASE PutSchema(o)
    <3> DEFINE can == CanPublish(etcd, op[o].revs[Descriptor])
    <3>1. etcd' = etcd \/ (can /\ etcd' = Publish(etcd, op[o].id, op[o].ver, FreshRev))
      BY <2>7 DEF PutSchema, Send
    <3>2. can => etcd.meta.ver < op[o].ver
      BY <2>0, <2>7 DEF PutSchema, At, CanPublish, RevInv, Descriptor
    <3> HIDE DEF can
    <3> QED BY <1>0, <1>1, <1>5, <3>1, <3>2, PublishIs DEF VerMoves
  <2>8. CASE MoveShard(o)
    <3>1. etcd' = etcd \/ etcd' = Promote(etcd, op[o].node, FreshRev)
      BY <2>8 DEF MoveShard, Send
    <3> QED BY <1>0, <1>1, <3>1, PromoteIs DEF VerMoves
  <2> QED BY <1>5, <2>1, <2>2, <2>3, <2>4, <2>5, <2>6, <2>7, <2>8 DEF OpStep
<1>6. ASSUME NEW o \in Ops, NEW n \in Nodes, NEW kind \in KindsOf[o], Start(o, n, kind) PROVE VerMoves
  BY <1>1, <1>6 DEF Start
<1>7. ASSUME NEW lease, Expire(lease) PROVE VerMoves
  BY <1>2, <1>7 DEF Expire
<1> QED BY <1>3, <1>4, <1>5, <1>6, <1>7 DEF Next

(* Schema versions are numbers.                                            *)
VerInv ==
  /\ etcd.meta.ver \in Nat /\ \A n \in Nodes : slot[n].ver \in Nat
  /\ \A o \in Ops : op[o].ver \in Nat

(* The versions of the requests after a step of one of them.               *)
LEMMA SetsVer ==
  ASSUME ShapeInv, VerInv, NEW o \in Ops, NEW r, SetOp(o, r), r.ver \in Nat
  PROVE  \A x \in Ops : op'[x].ver \in Nat
BY SetOpIs DEF VerInv

(* The versions of the slots after a change of one of them.                *)
LEMMA SlotVers ==
  ASSUME ShapeInv, VerInv, NEW n \in Nodes, NEW s, s.ver \in Nat, slot' = [slot EXCEPT ![n] = s]
  PROVE  \A m \in Nodes : slot'[m].ver \in Nat
BY DEF ShapeInv, VerInv

(* Every step keeps versions numbers.                                      *)
LEMMA VerTyped ==
  ASSUME IInv, VerInv, Next
  PROVE  VerInv'
<1> DEFINE OpVers == \A o \in Ops : op'[o].ver \in Nat
           SlotVersions == \A n \in Nodes : slot'[n].ver \in Nat
<1>0. ShapeInv
  BY DEF IInv
<1>1. etcd'.meta.ver \in Nat
  <2>1. VerMoves
    BY VerSteps
  <2>2. NoMeta.ver \in Nat
    BY DEF NoMeta
  <2> QED BY <2>1, <2>2 DEF VerMoves, VerInv
<1>2. ASSUME UNCHANGED op PROVE OpVers
  BY <1>2 DEF VerInv
<1>3. ASSUME UNCHANGED slot PROVE SlotVersions
  BY <1>3 DEF VerInv
<1>4. ASSUME NEW n \in Nodes, LoopStep(n) \/ StopLoop(n) \/ Crash(n) \/ Restart(n) PROVE OpVers /\ SlotVersions
  <2>0. /\ DOMAIN slot = Nodes /\ DOMAIN slot[n] = {"st", "id", "ver"} /\ slot[n].ver \in Nat
        /\ \A o \in Ops : op[o].ver \in Nat
    BY <1>0, <1>4 DEF ShapeInv, VerInv
  <2>1. CASE Observe(n) \/ ObserveAgain(n) \/ RevokeLost(n) \/ RegisterMembership(n) \/ Campaign(n) \/ StopLoop(n)
    <3>1. ASSUME NEW l, GoOn(n, l) PROVE UNCHANGED <<op, slot>>
      BY <3>1 DEF GoOn
    <3>2. UNCHANGED <<op, slot>>
      BY <2>1, <3>1 DEF Observe, ObserveAgain, RevokeLost, RegisterMembership, Campaign, StopLoop
    <3> QED BY <1>2, <1>3, <3>2
  <2>2. CASE StopRevokes(n) \/ Crash(n)
    <3>1. Die(n)
      BY <2>2 DEF StopRevokes, Crash
    <3>2. OpVers
      BY <2>0, <3>1 DEF Die, Idle
    <3>3. PICK s : /\ slot' = [slot EXCEPT ![n] = s]
                   /\ s \in {NoSlot, [slot[n] EXCEPT !.st = "open"], slot[n]}
      BY <3>1 DEF Die
    <3>4. s.ver \in Nat
      BY <2>0, <3>3 DEF NoSlot
    <3> QED BY <1>0, <3>2, <3>3, <3>4, SlotVers
  <2>3. CASE Restart(n)
    <3>1. UNCHANGED op
      BY <2>3 DEF Restart
    <3>2. UNCHANGED slot \/ \E st : slot' = [slot EXCEPT ![n].st = st]
      BY <2>3 DEF Restart
    <3>3. CASE \E st : slot' = [slot EXCEPT ![n].st = st]
      <4>1. PICK st : slot' = [slot EXCEPT ![n].st = st]
        BY <3>3
      <4> DEFINE s == [slot[n] EXCEPT !.st = st]
      <4>2. slot' = [slot EXCEPT ![n] = s] /\ s.ver \in Nat
        BY <2>0, <4>1
      <4> HIDE DEF s
      <4> QED BY <1>0, <1>2, <3>1, <4>2, SlotVers
    <3> QED BY <1>2, <1>3, <3>1, <3>2, <3>3
  <2> QED BY <1>4, <2>1, <2>2, <2>3 DEF LoopStep
<1>5. ASSUME NEW n \in Nodes, PassStep(n) PROVE OpVers /\ SlotVersions
  <2>1. UNCHANGED op /\ (UNCHANGED slot \/ slot' = [slot EXCEPT ![n] = NoSlot])
    BY <1>5 DEF PassStep, ListMetadata, ResolvePending, DropFailed, RollForward, RollBack
  <2>2. NoSlot.ver \in Nat
    BY DEF NoSlot
  <2> QED BY <1>0, <1>2, <1>3, <1>5, <2>1, <2>2, SlotVers
<1>6. ASSUME NEW o \in Ops, OpStep(o) PROVE OpVers /\ SlotVersions
  <2>0. PICK n : op[o].node = n
    OBVIOUS
  <2>1. /\ OpShape(op[o]) /\ op[o].ver \in Nat /\ Idle.ver \in Nat /\ DOMAIN slot = Nodes
        /\ op[o].pc # "idle" => n \in Nodes /\ DOMAIN slot[n] = {"st", "id", "ver"} /\ slot[n].ver \in Nat
    BY <1>0, <1>6, <2>0 DEF IInv, ShapeInv, UpInv, VerInv, Idle
  <2>2. ASSUME NEW r, SetOp(o, r), r.ver \in Nat PROVE OpVers
    BY <1>0, <1>6, <2>2, SetsVer
  <2>13. DOMAIN op = Ops /\ (\A x \in Ops : op[x].ver \in Nat) /\ Idle.ver \in Nat
    BY <1>0 DEF ShapeInv, VerInv, Idle
  <2>3. CASE \/ EnsureDatabase(o) \/ PutDatabaseFenced(o) \/ CreateGate(o) \/ PutMetadata(o)
    <3>1. ASSUME EnsureDatabase(o) PROVE OpVers
      <4>1. \/ SetOp(o, [op[o] EXCEPT !.pc = "gate"])
            \/ SetOp(o, [op[o] EXCEPT !.pc = "put_database", !.fence = snap[op[o].node].lead])
            \/ SetOp(o, Idle)
        BY <3>1 DEF EnsureDatabase
      <4> QED BY <2>1, <2>13, <4>1 DEF OpShape, SetOp
    <3>4. ASSUME CreateGate(o) PROVE OpVers
      BY <2>1, <2>13, <3>4 DEF CreateGate, OpShape, SetOp
    <3>2. ASSUME PutDatabaseFenced(o) PROVE OpVers
      BY <2>1, <2>13, <3>2 DEF PutDatabaseFenced, OpShape, SetOp
    <3>3. ASSUME PutMetadata(o) PROVE OpVers
      BY <2>1, <2>13, <3>3 DEF PutMetadata, OpShape, SetOp
    <3>5. OpVers
      BY <2>3, <3>1, <3>2, <3>3, <3>4
    <3>6. UNCHANGED slot
      BY <2>3 DEF EnsureDatabase, PutDatabaseFenced, CreateGate, PutMetadata
    <3> QED BY <1>3, <2>2, <3>5, <3>6
  <2>4. CASE ReserveLocal(o)
    <3>1. OpVers
      BY <2>1, <2>13, <2>4 DEF ReserveLocal, OpShape, SetOp
    <3> DEFINE s == [st |-> "creating", id |-> op[o].id, ver |-> 1]
    <3>2. n \in Nodes /\ (UNCHANGED slot \/ slot' = [slot EXCEPT ![n] = s]) /\ s.ver \in Nat
      BY <2>0, <2>1, <2>4 DEF ReserveLocal, At
    <3> HIDE DEF s
    <3> QED BY <1>0, <1>3, <2>2, <3>1, <3>2, SlotVers
  <2>5. CASE CreateLocal(o)
    <3>1. OpVers
      BY <2>1, <2>13, <2>5 DEF CreateLocal, OpShape, SetOp
    <3>2. n \in Nodes /\ NoSlot.ver \in Nat
      BY <2>1, <2>5 DEF CreateLocal, At, NoSlot
    <3>3. PICK s : slot' = [slot EXCEPT ![n] = s] /\ s.ver \in Nat
      BY <2>0, <2>1, <2>5, <3>2 DEF CreateLocal, At
    <3> QED BY <1>0, <2>2, <3>1, <3>2, <3>3, SlotVers
  <2>6. CASE MarkCreateReady(o) \/ UndoCreate(o) \/ DeleteMetadata(o) \/ MoveShard(o) \/ ChangeDatabase(o)
    <3>1. SetOp(o, Idle) /\ UNCHANGED slot
      BY <2>6 DEF MarkCreateReady, UndoCreate, DeleteMetadata, MoveShard, ChangeDatabase
    <3> QED BY <1>3, <2>1, <2>2, <3>1
  <2>7. CASE DropGate(o) \/ AlterGate(o)
    <3> DEFINE r == [op[o] EXCEPT !.pc = "read", !.fence = snap[op[o].node].lead, !.tries = 1]
               d == [op[o] EXCEPT !.pc = "change", !.id = slot[op[o].node].id]
    <3>3. r.ver \in Nat /\ d.ver \in Nat
      BY <2>1 DEF OpShape
    <3>4. SetOp(o, r) \/ SetOp(o, d) \/ SetOp(o, Idle)
      BY <2>7 DEF DropGate, AlterGate
    <3> HIDE DEF r, d
    <3>1. OpVers
      BY <2>2, <2>13, <3>3, <3>4
    <3>2. UNCHANGED slot
      BY <2>7 DEF DropGate, AlterGate
    <3> QED BY <1>3, <3>1, <3>2
  <2>14. CASE ReadRevision(o)
    <3> DEFINE k == op[o].tries
               r == [op[o] EXCEPT !.revs[k] = RevisionOf(etcd, k), !.tries = (k % 3) + 1,
                                  !.pc = IF k = 3 THEN "drop_local" ELSE "read"]
    <3>1. SetOp(o, r) /\ UNCHANGED slot
      BY <2>14 DEF ReadRevision
    <3>2. r.ver \in Nat
      BY <2>1 DEF OpShape
    <3> HIDE DEF r
    <3> QED BY <1>3, <2>2, <3>1, <3>2
  <2>8. CASE DropLocal(o)
    <3> DEFINE r == [op[o] EXCEPT !.pc = "retire", !.was = slot[n].st]
               d == [op[o] EXCEPT !.pc = "delete"]
    <3>3. r.ver \in Nat /\ d.ver \in Nat
      BY <2>1 DEF OpShape
    <3>4. SetOp(o, r) \/ SetOp(o, d) \/ SetOp(o, Idle)
      BY <2>0, <2>8 DEF DropLocal
    <3> HIDE DEF r, d
    <3>1. OpVers
      BY <2>2, <2>13, <3>3, <3>4
    <3> DEFINE s == [slot[n] EXCEPT !.st = "dropping"]
    <3>2. n \in Nodes /\ (UNCHANGED slot \/ slot' = [slot EXCEPT ![n] = s]) /\ s.ver \in Nat
      BY <2>0, <2>1, <2>8 DEF DropLocal, At
    <3> HIDE DEF s
    <3> QED BY <1>0, <1>3, <2>2, <3>1, <3>2, SlotVers
  <2>9. CASE RetireLocal(o)
    <3>1. OpVers
      BY <2>1, <2>13, <2>9 DEF RetireLocal, OpShape, SetOp
    <3>2. n \in Nodes /\ NoSlot.ver \in Nat
      BY <2>1, <2>9 DEF RetireLocal, At, NoSlot
    <3>3. PICK s : slot' = [slot EXCEPT ![n] = s] /\ s.ver \in Nat
      BY <2>0, <2>1, <2>9, <3>2 DEF RetireLocal, At
    <3> QED BY <1>0, <2>2, <3>1, <3>2, <3>3, SlotVers
  <2>10. CASE AlterSchema(o)
    <3>1. n \in Nodes /\ slot[n].ver \in Nat /\ DOMAIN slot[n] = {"st", "id", "ver"}
      BY <2>1, <2>10 DEF AlterSchema, At
    <3> DEFINE s == [slot[n] EXCEPT !.ver = @ + 1]
               r == [op[o] EXCEPT !.pc = "publish", !.ver = slot[n].ver + 1, !.tries = 1]
    <3>2. \/ SetOp(o, Idle) /\ UNCHANGED slot
          \/ SetOp(o, r) /\ slot' = [slot EXCEPT ![n] = s]
      BY <2>0, <2>10 DEF AlterSchema
    <3>3. r.ver \in Nat /\ s.ver \in Nat
      BY <2>1, <3>1 DEF OpShape
    <3> HIDE DEF s, r
    <3> QED BY <1>0, <1>3, <2>1, <2>2, <3>1, <3>2, <3>3, SlotVers
  <2>11. CASE Describe(o)
    <3>1. n \in Nodes /\ slot[n].ver \in Nat
      BY <2>1, <2>11 DEF Describe, At
    <3>2. OpVers
      BY <2>0, <2>1, <2>13, <2>11, <3>1 DEF Describe, OpShape, SetOp
    <3>3. UNCHANGED slot
      BY <2>11 DEF Describe
    <3> QED BY <1>3, <2>2, <3>2, <3>3
  <2>12. CASE ReadDescriptor(o) \/ PutSchema(o) \/ ReadOwner(o) \/ CheckPromotion(o) \/ DatabaseGate(o)
    <3> DEFINE Read(pc, k) == [op[o] EXCEPT !.pc = pc, !.revs[k] = etcd.meta.revs[k]]
               again == [op[o] EXCEPT !.pc = "publish", !.tries = @ + 1, !.revs = Idle.revs]
               change == [op[o] EXCEPT !.pc = "change_database", !.fence = snap[op[o].node].lead]
    <3>1. UNCHANGED slot
      BY <2>12 DEF ReadDescriptor, PutSchema, ReadOwner, CheckPromotion, DatabaseGate
    <3>2. again.ver \in Nat /\ change.ver \in Nat /\ \A pc, k : Read(pc, k).ver \in Nat
      BY <2>1 DEF OpShape
    <3>3. \/ SetOp(o, Idle) \/ SetOp(o, again) \/ SetOp(o, change)
          \/ SetOp(o, Read("put_schema", Descriptor)) \/ SetOp(o, Read("check", Owner))
          \/ SetOp(o, Read("move", Descriptor))
      BY <2>12 DEF ReadDescriptor, PutSchema, ReadOwner, CheckPromotion, DatabaseGate
    <3> HIDE DEF Read, again, change
    <3> QED BY <1>3, <2>2, <2>13, <3>1, <3>2, <3>3
  <2> QED BY <1>6, <2>3, <2>4, <2>5, <2>6, <2>7, <2>8, <2>9, <2>10, <2>11, <2>12, <2>14 DEF OpStep
<1>7. ASSUME NEW o \in Ops, NEW n \in Nodes, NEW kind \in KindsOf[o], Start(o, n, kind) PROVE OpVers /\ SlotVersions
  <2> DEFINE r == [Idle EXCEPT !.kind = kind, !.node = n, !.pc = kind]
  <2>1. SetOp(o, r) /\ UNCHANGED slot /\ r.ver \in Nat
    BY <1>7 DEF Start, Idle
  <2> HIDE DEF r
  <2> QED BY <1>0, <1>3, <1>7, <2>1, SetsVer
<1>8. ASSUME NEW lease, Expire(lease) PROVE OpVers /\ SlotVersions
  BY <1>2, <1>3, <1>8 DEF Expire
<1>9. OpVers /\ SlotVersions
  BY <1>4, <1>5, <1>6, <1>7, <1>8 DEF Next
<1> QED BY <1>1, <1>9 DEF VerInv

(* The schema version of a collection in the catalog never goes back:      *)
(* publish_collection_schema puts over the descriptor it read only.        *)
THEOREM SchemaNeverGoesBack == Spec => SchemaForward
<1>1. Init => VerInv
  BY DEF Init, VerInv, NewEtcd, NoMeta, NoSlot, Idle
<1>2. IInv /\ VerInv /\ [Next]_vars => VerInv'
  <2>1. CASE Next
    BY <2>1, VerTyped
  <2>2. CASE UNCHANGED vars
    BY <2>2 DEF vars, VerInv
  <2> QED BY <2>1, <2>2
<1>3. IInv /\ VerInv /\ [Next]_vars =>
        [etcd'.meta.id = etcd.meta.id /\ etcd.meta.ready => etcd'.meta.ver >= etcd.meta.ver]_vars
  <2>1. SUFFICES ASSUME IInv, VerInv, Next, etcd'.meta.id = etcd.meta.id, etcd.meta.ready
                 PROVE  etcd'.meta.ver >= etcd.meta.ver
    OBVIOUS
  <2>2. VerMoves
    BY <2>1, VerSteps
  <2>3. etcd.meta.id # 0
    BY <2>1 DEF IInv, MetaInv, NoMeta
  <2>4. etcd'.meta # NoMeta
    BY <2>1, <2>3 DEF NoMeta
  <2> QED BY <2>1, <2>2, <2>4 DEF VerMoves, VerInv
<1> QED BY <1>1, <1>2, <1>3, Inductive, InitIInv, PTL DEF Spec, SchemaForward
=============================================================================
