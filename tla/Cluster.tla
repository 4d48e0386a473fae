------------------------------- MODULE Cluster -------------------------------
(***************************************************************************)
(* The nodes of a cluster over etcd: each node's coordination loop, with   *)
(* its membership and leadership leases (logpose-service/src/lib.rs), the  *)
(* control-plane requests it serves (logpose-core, logpose-service), the   *)
(* collection catalog over its engine (logpose-storage-etcd) and the       *)
(* reconciliation of creates that stopped between their steps.             *)
(*                                                                         *)
(* A step of a process is one etcd round trip or one engine call, with the *)
(* local work up to the next.  A round trip may fail without effect, or    *)
(* take effect and lose its answer.  One collection name is enough: names  *)
(* share nothing but the database, the leases and the engine's map.        *)
(***************************************************************************)
EXTENDS Etcd, Access

CONSTANTS
    Ops,            \* slots for requests in progress
    KindsOf,        \* slot -> the kinds of request made through it
    NodeRole,       \* node -> its configured role
    CallerOf,       \* slot -> who makes its requests
    Policies,       \* policies that are stored
    MaxEvents,      \* bound on requests and faults together
    MaxVer,         \* bound on schema versions
    MaxFaults       \* bound on faults

ASSUME ClusterAssumption ==
    /\ Nobody \notin Nodes /\ NodeRole \in [Nodes -> AnyRole] /\ Policies \subseteq {"bound", "disabled"}
    /\ DOMAIN CallerOf = Ops /\ DOMAIN KindsOf = Ops /\ MaxEvents \in Nat /\ MaxVer \in Nat /\ MaxFaults \in Nat
    /\ \A o \in Ops : CallerOf[o] \in DOMAIN TierOf /\ CallerOf[o] \in DOMAIN RoleOf
    /\ \A o \in Ops : KindsOf[o] \subseteq {"create", "drop", "alter", "describe", "promote", "drop_database", "policy"}
    /\ IsFiniteSet(Nodes) /\ IsFiniteSet(Ops)

VARIABLES
    etcd,
    up,         \* node -> its process runs
    loop,       \* node -> the coordination loop (run_coordination_loop)
    snap,       \* node -> what CoordinationStatus tells the request gates: member, and the
                \*         leadership lease when the node leads, else NoLease
    pass,       \* node -> the reconciliation pass (reconcile_pending)
    slot,       \* node -> the engine's slot of the collection name
    op,         \* slot -> the request in progress
    dropped,    \* ghost: the local collection of the present metadata was dropped by a drop
    ops, faults

vars == <<etcd, up, loop, snap, pass, slot, op, dropped, ops, faults>>

\* The engine's CollectionSlot.  Of a collection that failed to open, or whose create or drop
\* is under way, the descriptor stays known.
NoSlot == [st |-> "none", id |-> 0, ver |-> 0]

\* The loop's local state: the leases it holds, what it read in this tick, the leases to
\* revoke, whether it campaigned and whether it acquired something.  `lease` is the membership the
\* last reconciliation pass ran under.
NewLoop == [pc |-> "tick", ml |-> NoLease, ll |-> NoLease, mem |-> "err", lead |-> NoLeader, drops |-> {},
            ran |-> FALSE, acquired |-> FALSE, lease |-> NoLease]
NoClaims == [member |-> FALSE, lead |-> NoLease]
NoPass == [pc |-> "idle", lease |-> NoLease, seen |-> NoMeta]
Idle == [kind |-> "none", pc |-> "idle", node |-> Nobody, fence |-> NoLease, id |-> 0,
         revs |-> <<0, 0, 0>>, ver |-> 0, tries |-> 0, was |-> "none"]

Init ==
    /\ etcd = NewEtcd
    /\ up = [n \in Nodes |-> TRUE] /\ loop = [n \in Nodes |-> NewLoop]
    /\ snap = [n \in Nodes |-> NoClaims] /\ pass = [n \in Nodes |-> NoPass]
    /\ slot = [n \in Nodes |-> NoSlot] /\ op = [o \in Ops |-> Idle]
    /\ dropped = FALSE /\ ops = 0 /\ faults = 0

----------------------------------------------------------------------------
(* Numbers nothing refers to, and the outcome of a round trip.             *)

Fresh(used) == CHOOSE k \in 1 .. (Cardinality(used) + 1) : k \notin used
Leases == etcd.live \cup {op[o].fence : o \in Ops}
          \cup UNION {{loop[n].ml, loop[n].ll, loop[n].lead.lease, loop[n].lease, snap[n].lead,
                       pass[n].lease} \cup loop[n].drops : n \in Nodes}
FreshLease(n, use) ==
    Lease(<<n, use>>, Fresh({l.nr : l \in {x \in Leases : x.of = <<n, use>>}}))
AllRevs == {etcd.meta.revs[k] : k \in 1..3} \cup {pass[n].seen.revs[k] : n \in Nodes, k \in 1..3}
           \cup {op[o].revs[k] : o \in Ops, k \in 1..3}
FreshRev == Fresh(AllRevs \cup {0})
FreshId == Fresh({etcd.meta.id, etcd.meta.of, 0} \cup {slot[n].id : n \in Nodes}
                 \cup {pass[n].seen.id : n \in Nodes} \cup {op[o].id : o \in Ops})

\* "ok"; "failed" without effect; "lost": it took effect and the caller sees an error.
Outcomes == {"ok", "failed", "lost"}
MayFail == faults < MaxFaults /\ ops + faults < MaxEvents
Outcome(out) == out = "ok" \/ MayFail
Charge(out) == faults' = IF out = "ok" THEN faults ELSE faults + 1
Send(out, applies, after) ==
    /\ Outcome(out) /\ Charge(out)
    /\ etcd' = IF applies /\ out # "failed" THEN after ELSE etcd

----------------------------------------------------------------------------
(* The coordination loop.                                                  *)

SetLoop(n, l) == loop' = [loop EXCEPT ![n] = l]

Unreadable == [node |-> Nobody, lease |-> Lease(<<Nobody, "unknown">>, 1)]

\* demote_lost_claims.
Demoted(s, ml, ll) ==
    [member |-> s.member /\ ml # NoLease,
     lead |-> IF NoLease \in {ml, ll} THEN NoLease ELSE s.lead]

\* The claims etcd does not back: a membership key that is missing, a leadership without
\* membership, a leader key that is missing or not this lease's.
LostClaims(l, lead) ==
    LET ml == IF l.mem = "no" THEN NoLease ELSE l.ml
        ll == IF ml = NoLease \/ (lead # Unreadable /\ lead.lease # l.ll) THEN NoLease
              ELSE l.ll
    IN [ml |-> ml, ll |-> ll, drops |-> {l.ml, l.ll} \ {ml, ll, NoLease}]

\* What a tick still has to send: revokes, a registration, a campaign (only when the role
\* allows it and the leader key looks vacant or could not be read), the lists again.
Todo(n, l) ==
    IF l.drops # {} THEN "revoke"
    ELSE IF l.ml = NoLease THEN "register"
    ELSE IF NodeRole[n] \in DatabaseRoles /\ l.ll = NoLease /\ l.lead \in {NoLeader, Unreadable} /\ ~l.ran
    THEN "campaign"
    ELSE IF l.acquired THEN "observe_again" ELSE "end"

\* reconcile_coordination_snapshot.
Confirmed(n, l) ==
    LET member == l.ml # NoLease /\ l.mem = "yes"
    IN [member |-> member,
        lead |-> IF member /\ l.ll # NoLease /\ l.lead = [node |-> n, lease |-> l.ll]
                 THEN l.ll ELSE NoLease]

\* Reconciliation::tick: a pass is due under a new membership, or once the interval passed.
PassDue(n, l, elapsed) == pass[n].pc = "idle" /\ (l.lease # l.ml \/ elapsed)

\* The loop goes on to its next round trip, or ends its tick: the status is published, and a
\* due pass is started; whether RECONCILE_INTERVAL has passed is the clock's choice.
GoOn(n, l) ==
    \E elapsed \in BOOLEAN :
    LET ends == Todo(n, l) = "end"
        starts == ends /\ PassDue(n, l, elapsed)
    IN /\ SetLoop(n, IF ends THEN [NewLoop EXCEPT !.ml = l.ml, !.ll = l.ll,
                                       !.lease = IF starts THEN l.ml ELSE l.lease]
                     ELSE [l EXCEPT !.pc = Todo(n, l)])
       /\ snap' = [snap EXCEPT ![n] = IF ends THEN Confirmed(n, l) ELSE Demoted(@, l.ml, l.ll)]
       /\ pass' = IF starts THEN [pass EXCEPT ![n] = [NoPass EXCEPT !.pc = "list", !.lease = l.ml]]
                  ELSE pass
       /\ UNCHANGED <<up, slot, op, dropped, ops>>

\* The reads of a tick may fail one by one.
Reads(failed) ==
    /\ faults' = faults + Cardinality(failed)
    /\ failed # {} => faults' <= MaxFaults /\ ops + faults' <= MaxEvents
MemberRead(n, failed) ==
    IF "members" \in failed THEN "err" ELSE IF etcd.member[n] # NoLease THEN "yes" ELSE "no"
LeaderRead(failed) == IF "leader" \in failed THEN Unreadable ELSE etcd.leader

\* A tick: keep_alive of the leases held (one etcd no longer knows is given up),
\* list_membership and current_leader, then the claims that are lost are given up, and the
\* request gates stop seeing them before they are revoked.  The three round trips are one
\* step: what changes between them, the expiry of a lease, could as well come after them.
Observe(n) ==
    /\ up[n] /\ loop[n].pc = "tick"
    /\ \E failed \in SUBSET {"keep_alive", "members", "leader"} :
         LET kept(lease) == IF "keep_alive" \in failed \/ lease \in etcd.live THEN lease ELSE NoLease
             l == [loop[n] EXCEPT !.ml = kept(@), !.ll = kept(@), !.mem = MemberRead(n, failed),
                                  !.lead = LeaderRead(failed)]
             still == LostClaims(l, l.lead)
         IN /\ Reads(failed)
            /\ GoOn(n, [l EXCEPT !.ml = still.ml, !.ll = still.ll, !.drops = still.drops])
    /\ UNCHANGED etcd

\* The same reads once something was acquired, for the status.
ObserveAgain(n) ==
    /\ up[n] /\ loop[n].pc = "observe_again"
    /\ \E failed \in SUBSET {"members", "leader"} :
         /\ Reads(failed)
         /\ GoOn(n, [loop[n] EXCEPT !.mem = MemberRead(n, failed), !.lead = LeaderRead(failed),
                                    !.acquired = FALSE, !.ran = TRUE])
    /\ UNCHANGED etcd

\* revoke_lease of every lost claim; a failure is ignored.  A leader key that named one of
\* them counts as vacant.
RevokeLost(n) ==
    /\ up[n] /\ loop[n].pc = "revoke"
    /\ \E out \in Outcomes : Send(out, TRUE, Revoke(etcd, loop[n].drops))
    /\ GoOn(n, [loop[n] EXCEPT !.drops = {},
                    !.lead = IF @.lease \in loop[n].drops THEN NoLeader ELSE @])

\* register_membership when the node is no member.  On an error the loop records it, clears
\* the status (record_coordination_error) and waits for the next tick; the key may be left
\* behind under a lease nobody refreshes.
RegisterMembership(n) ==
    /\ up[n] /\ loop[n].pc = "register"
    /\ \E out \in Outcomes :
         /\ Send(out, TRUE, Register(etcd, n, FreshLease(n, "member")))
         /\ IF out = "ok"
            THEN GoOn(n, [loop[n] EXCEPT !.ml = FreshLease(n, "member"), !.acquired = TRUE])
            ELSE /\ SetLoop(n, [NewLoop EXCEPT !.lease = loop[n].lease])
                 /\ snap' = [snap EXCEPT ![n] = NoClaims]
                 /\ UNCHANGED <<up, pass, slot, op, dropped, ops>>

\* try_acquire_leadership.
Campaign(n) ==
    /\ up[n] /\ loop[n].pc = "campaign"
    /\ \E out \in Outcomes :
         LET won == out = "ok" /\ Vacant(etcd)
         IN /\ Send(out, Vacant(etcd), Acquire(etcd, n, FreshLease(n, "leader")))
            /\ GoOn(n, [loop[n] EXCEPT !.ll = IF won THEN FreshLease(n, "leader") ELSE NoLease, !.ran = TRUE,
                                       !.acquired = @ \/ won])

\* The end of the loop: the pass is aborted, the claims are withdrawn.
StopLoop(n) ==
    /\ up[n] /\ loop[n].pc = "tick" /\ MayFail
    /\ faults' = faults + 1
    /\ SetLoop(n, [loop[n] EXCEPT !.pc = "stop"])
    /\ pass' = [pass EXCEPT ![n] = NoPass] /\ snap' = [snap EXCEPT ![n] = NoClaims]
    /\ UNCHANGED <<etcd, up, slot, op, dropped, ops>>

\* The process goes: nothing of it is left but its leases and its storage root.
Die(n) ==
    /\ up' = [up EXCEPT ![n] = FALSE]
    /\ loop' = [loop EXCEPT ![n] = NewLoop] /\ snap' = [snap EXCEPT ![n] = NoClaims]
    /\ pass' = [pass EXCEPT ![n] = NoPass]
    /\ op' = [o \in Ops |-> IF op[o].node = n THEN Idle ELSE op[o]]
    /\ slot' = [slot EXCEPT ![n] = CASE @.st = "creating" -> NoSlot
                                     [] @.st = "dropping" -> [@ EXCEPT !.st = "open"]
                                     [] OTHER -> @]

\* EtcdRuntime::stop: both leases are revoked, then the process exits.
StopRevokes(n) ==
    /\ up[n] /\ loop[n].pc = "stop"
    /\ \E out \in Outcomes : Send(out, TRUE, Revoke(etcd, {loop[n].ml, loop[n].ll} \ {NoLease}))
    /\ Die(n) /\ UNCHANGED <<dropped, ops>>

Crash(n) ==
    /\ up[n] /\ MayFail /\ faults' = faults + 1
    /\ Die(n) /\ UNCHANGED <<etcd, dropped, ops>>

\* The process starts again and its engine recovers the collection, or fails to open it.
Restart(n) ==
    /\ ~up[n] /\ up' = [up EXCEPT ![n] = TRUE]
    /\ \/ UNCHANGED <<slot, faults>>
       \/ /\ slot[n].st = "open" /\ UNCHANGED faults
          /\ slot' = [slot EXCEPT ![n].st = "failed"]
       \/ slot[n].st = "failed" /\ slot' = [slot EXCEPT ![n].st = "open"] /\ UNCHANGED faults
    /\ UNCHANGED <<etcd, loop, snap, pass, op, dropped, ops>>

\* A lease a running loop still refreshes expires only when its keep-alives are late.
Refreshed == UNION {{loop[n].ml, loop[n].ll} : n \in {m \in Nodes : up[m]}}
Expire(lease) ==
    /\ lease \in etcd.live
    /\ etcd' = Revoke(etcd, {lease})
    /\ IF lease \in Refreshed THEN MayFail /\ faults' = faults + 1
       ELSE UNCHANGED faults
    /\ UNCHANGED <<up, loop, snap, pass, slot, op, dropped, ops>>

----------------------------------------------------------------------------
(* Requests.                                                               *)

SetOp(o, r) == op' = [op EXCEPT ![o] = r]
At(o, pc) == op[o].pc = pc
Leads(n) == snap[n].lead # NoLease        \* require_local_control_plane_leader finds its fence
Fence(o) == LeaderFence(op[o].node, op[o].fence)
Open(n) == slot[n].st = "open"
Registered(n) == slot[n].st \in {"open", "failed"}

\* require_local_write_ownership and local_placement: the route is local.
ServesWrites(n) ==
    /\ etcd.meta.ready /\ Open(n) /\ slot[n].id = etcd.meta.id
    /\ etcd.meta.owner = n /\ snap[n].member /\ CanServe(NodeRole[n], NodeRole[etcd.meta.node])

\* A request passes the permission and role checks of its handler; an operator's tool moves a
\* shard in etcd itself.  Bounds: MaxEvents, and until a create has made the database, where any
\* other request would find nothing, only creates are made.
Start(o, n, kind) ==
    /\ At(o, "idle") /\ up[n] /\ loop[n].pc # "stop" /\ ops + faults < MaxEvents
    /\ etcd.db \/ kind = "create"
    /\ kind # "promote" =>
         Allowed(etcd.policy, CallerOf[o], kind) /\ NodeRole[n] \in NeedsOf(kind).roles
    /\ ops' = ops + 1
    /\ SetOp(o, [Idle EXCEPT !.kind = kind, !.node = n, !.pc = kind])
    /\ UNCHANGED <<etcd, up, loop, snap, pass, slot, dropped, faults>>

\* ensure_shared_database_descriptor, which puts a missing database.
EnsureDatabase(o) ==
    LET n == op[o].node
    IN /\ At(o, "create")
       /\ SetOp(o, CASE etcd.db -> [op[o] EXCEPT !.pc = "gate"]
                     [] ~etcd.db /\ Leads(n) ->
                          [op[o] EXCEPT !.pc = "put_database", !.fence = snap[n].lead]
                     [] OTHER -> Idle)
       /\ UNCHANGED <<etcd, up, loop, snap, pass, slot, dropped, ops, faults>>

PutDatabaseFenced(o) ==
    /\ At(o, "put_database")
    /\ \E out \in Outcomes :
         LET ok == Holds(etcd, Fence(o))
         IN /\ Send(out, ok, PutDatabase(etcd))
            /\ SetOp(o, IF out = "ok" /\ ok THEN [op[o] EXCEPT !.pc = "gate"] ELSE Idle)
    /\ UNCHANGED <<up, loop, snap, pass, slot, dropped, ops>>

\* LogPoseControlService::create_collection up to the first etcd call of create_steps: the
\* leader's fence, and no collection of the name in the engine.
CreateGate(o) ==
    LET n == op[o].node
    IN /\ At(o, "gate")
       /\ SetOp(o, IF Leads(n) /\ ~Registered(n)
                   THEN [op[o] EXCEPT !.pc = "put", !.fence = snap[n].lead, !.id = FreshId]
                   ELSE Idle)
       /\ UNCHANGED <<etcd, up, loop, snap, pass, slot, dropped, ops, faults>>

PutMetadata(o) ==
    /\ At(o, "put")
    /\ \E out \in Outcomes :
         LET ok == CanPutPending(etcd, Fence(o))
         IN /\ Send(out, ok, PutPending(etcd, op[o].id, op[o].node, FreshRev))
            /\ dropped' = (dropped /\ etcd'.meta # NoMeta)
            /\ SetOp(o, IF out = "ok" /\ ok
                        THEN [op[o] EXCEPT !.pc = "reserve", !.revs = etcd'.meta.revs] ELSE Idle)
    /\ UNCHANGED <<up, loop, snap, pass, slot, ops>>

\* EngineCore::reserve.
ReserveLocal(o) ==
    LET n == op[o].node
    IN /\ At(o, "reserve")
       /\ IF slot[n].st = "none"
          THEN /\ slot' = [slot EXCEPT ![n] = [st |-> "creating", id |-> op[o].id, ver |-> 1]]
               /\ SetOp(o, [op[o] EXCEPT !.pc = "create_local"])
          ELSE SetOp(o, [op[o] EXCEPT !.pc = "undo"]) /\ UNCHANGED slot
       /\ UNCHANGED <<etcd, up, loop, snap, pass, dropped, ops, faults>>

\* Mutant: the metadata is marked ready whether or not the local create succeeded.
CreateLocalUnchecked(o) ==
    LET n == op[o].node
    IN /\ At(o, "create_local")
       /\ \E out \in {"ok", "failed"} :
            /\ Outcome(out) /\ Charge(out)
            /\ slot' = [slot EXCEPT ![n] = IF out = "ok" THEN [@ EXCEPT !.st = "open"] ELSE NoSlot]
            /\ SetOp(o, [op[o] EXCEPT !.pc = "mark_ready"])
       /\ UNCHANGED <<etcd, up, loop, snap, pass, dropped, ops>>

\* CoreRef::create_collection: the files, then the slot opens; a failure removes both.
CreateLocal(o) ==
    LET n == op[o].node
    IN /\ At(o, "create_local")
       /\ \E out \in {"ok", "failed"} :
            /\ Outcome(out) /\ Charge(out)
            /\ slot' = [slot EXCEPT ![n] = IF out = "ok" THEN [@ EXCEPT !.st = "open"] ELSE NoSlot]
            /\ SetOp(o, [op[o] EXCEPT !.pc = IF out = "ok" THEN "mark_ready" ELSE "undo"])
       /\ UNCHANGED <<etcd, up, loop, snap, pass, dropped, ops>>

MarkCreateReady(o) ==
    /\ At(o, "mark_ready")
    /\ \E out \in Outcomes :
         Send(out, CanChange(etcd, Fence(o), op[o].revs), MarkReady(etcd, op[o].id, FreshRev))
    /\ SetOp(o, Idle)
    /\ UNCHANGED <<up, loop, snap, pass, slot, dropped, ops>>

\* The rollback of a failed local create, which no lease fences.
UndoCreate(o) ==
    /\ At(o, "undo")
    /\ \E out \in Outcomes : Send(out, CanChange(etcd, NoFence, op[o].revs), DeleteMeta(etcd))
    /\ dropped' = (dropped /\ etcd'.meta # NoMeta)
    /\ SetOp(o, Idle)
    /\ UNCHANGED <<up, loop, snap, pass, slot, ops>>

\* LogPoseControlService::drop_collection: the leader's fence, and a ready descriptor.
DropGate(o) ==
    LET n == op[o].node
    IN /\ At(o, "drop")
       /\ SetOp(o, IF Leads(n) /\ etcd.meta.ready
                   THEN [op[o] EXCEPT !.pc = "read", !.fence = snap[n].lead, !.tries = 1] ELSE Idle)
       /\ UNCHANGED <<etcd, up, loop, snap, pass, slot, dropped, ops, faults>>

\* drop_steps reads the revisions, one key at a time.
ReadRevision(o) ==
    LET k == op[o].tries
    IN /\ At(o, "read")
       /\ SetOp(o, [op[o] EXCEPT !.revs[k] = RevisionOf(etcd, k), !.tries = (k % 3) + 1,
                                 !.pc = IF k = 3 THEN "drop_local" ELSE "read"])
       /\ UNCHANGED <<etcd, up, loop, snap, pass, slot, dropped, ops, faults>>

\* CoreRef::drop_collection takes the slot, whichever collection has the name by now.
DropLocal(o) ==
    LET n == op[o].node
        goesOn == IF op[o].revs[Descriptor] # 0 THEN [op[o] EXCEPT !.pc = "delete"] ELSE Idle
    IN /\ At(o, "drop_local")
       /\ IF Registered(n)
          THEN /\ slot' = [slot EXCEPT ![n].st = "dropping"]
               /\ SetOp(o, [op[o] EXCEPT !.pc = "retire", !.was = slot[n].st])
          ELSE /\ UNCHANGED slot
               /\ SetOp(o, IF slot[n].st = "creating" THEN Idle ELSE goesOn)
       /\ UNCHANGED <<etcd, up, loop, snap, pass, dropped, ops, faults>>

RetireLocal(o) ==
    LET n == op[o].node
    IN /\ At(o, "retire")
       /\ \E out \in {"ok", "failed"} :
            /\ Outcome(out) /\ Charge(out)
            /\ slot' = [slot EXCEPT ![n] = IF out = "ok" THEN NoSlot
                                           ELSE [@ EXCEPT !.st = op[o].was]]
            /\ dropped' = (dropped \/ (out = "ok" /\ n = etcd.meta.node /\ slot[n].id = etcd.meta.id))
            /\ SetOp(o, IF out = "ok" /\ op[o].revs[Descriptor] # 0
                        THEN [op[o] EXCEPT !.pc = "delete", !.was = "none"] ELSE Idle)
       /\ UNCHANGED <<etcd, up, loop, snap, pass, ops>>

DeleteMetadata(o) ==
    /\ At(o, "delete")
    /\ \E out \in Outcomes : Send(out, CanChange(etcd, Fence(o), op[o].revs), DeleteMeta(etcd))
    /\ dropped' = (dropped /\ etcd'.meta # NoMeta)
    /\ SetOp(o, Idle)
    /\ UNCHANGED <<up, loop, snap, pass, slot, ops>>

\* alter_collection: the gate, the engine's change of the handle it found, the publication.
AlterGate(o) ==
    LET n == op[o].node
    IN /\ At(o, "alter")
       /\ SetOp(o, IF ServesWrites(n) THEN [op[o] EXCEPT !.pc = "change", !.id = slot[n].id]
                   ELSE Idle)
       /\ UNCHANGED <<etcd, up, loop, snap, pass, slot, dropped, ops, faults>>

AlterSchema(o) ==
    LET n == op[o].node
    IN /\ At(o, "change")
       /\ IF Open(n) /\ slot[n].id = op[o].id /\ slot[n].ver < MaxVer
          THEN /\ slot' = [slot EXCEPT ![n].ver = @ + 1]
               /\ SetOp(o, [op[o] EXCEPT !.pc = "publish", !.ver = slot[n].ver + 1, !.tries = 1])
          ELSE SetOp(o, Idle) /\ UNCHANGED slot
       /\ UNCHANGED <<etcd, up, loop, snap, pass, dropped, ops, faults>>

\* describe of a ready collection, and materialize_runtime_descriptor: the node that serves
\* the collection publishes the schema when the catalog lags it.
Describe(o) ==
    LET n == op[o].node
        lags == etcd.meta.ready /\ Open(n) /\ slot[n].id = etcd.meta.id
                /\ slot[n].ver > etcd.meta.ver
    IN /\ At(o, "describe")
       /\ SetOp(o, IF lags THEN [op[o] EXCEPT !.pc = "publish", !.id = slot[n].id,
                                              !.ver = slot[n].ver, !.tries = 1]
                   ELSE Idle)
       /\ UNCHANGED <<etcd, up, loop, snap, pass, slot, dropped, ops, faults>>

\* publish_collection_schema: the descriptor is read, by name, and put if unchanged; three
\* attempts.
ReadDescriptor(o) ==
    /\ At(o, "publish")
    /\ SetOp(o, IF TakesSchema(etcd.meta, op[o].ver)
                THEN [op[o] EXCEPT !.pc = "put_schema",
                                   !.revs[Descriptor] = etcd.meta.revs[Descriptor]]
                ELSE Idle)
    /\ UNCHANGED <<etcd, up, loop, snap, pass, slot, dropped, ops, faults>>

PutSchema(o) ==
    /\ At(o, "put_schema")
    /\ \E out \in Outcomes :
         LET ok == CanPublish(etcd, op[o].revs[Descriptor])
         IN /\ Send(out, ok, Publish(etcd, op[o].id, op[o].ver, FreshRev))
            /\ SetOp(o, IF out = "ok" /\ ~ok /\ op[o].tries < 3
                        THEN [op[o] EXCEPT !.pc = "publish", !.tries = @ + 1,
                                           !.revs = Idle.revs]
                        ELSE Idle)
    /\ UNCHANGED <<up, loop, snap, pass, slot, dropped, ops>>

\* promote_shard_owner, an operator's move of the shard to another registered data node.
ReadOwner(o) ==
    /\ At(o, "promote")
    /\ SetOp(o, IF etcd.meta = NoMeta THEN Idle
                ELSE [op[o] EXCEPT !.pc = "check", !.revs[Owner] = etcd.meta.revs[Owner]])
    /\ UNCHANGED <<etcd, up, loop, snap, pass, slot, dropped, ops, faults>>

CheckPromotion(o) ==
    /\ At(o, "check")
    /\ SetOp(o, IF etcd.member[op[o].node] # NoLease /\ etcd.meta.ready
                THEN [op[o] EXCEPT !.pc = "move", !.revs[Descriptor] = etcd.meta.revs[Descriptor]]
                ELSE Idle)
    /\ UNCHANGED <<etcd, up, loop, snap, pass, slot, dropped, ops, faults>>

MoveShard(o) ==
    /\ At(o, "move")
    /\ \E out \in Outcomes :
         Send(out, CanPromote(etcd, op[o].revs), Promote(etcd, op[o].node, FreshRev))
    /\ SetOp(o, Idle)
    /\ UNCHANGED <<up, loop, snap, pass, slot, dropped, ops>>

\* drop_database and put_database_access_policy: the leader's fence and the advisory check,
\* then the transaction.
DatabaseGate(o) ==
    LET n == op[o].node
    IN /\ op[o].pc \in {"drop_database", "policy"}
       /\ SetOp(o, IF Leads(n) /\ (IF op[o].pc = "policy" THEN etcd.db ELSE etcd.meta = NoMeta)
                   THEN [op[o] EXCEPT !.pc = "change_database", !.fence = snap[n].lead] ELSE Idle)
       /\ UNCHANGED <<etcd, up, loop, snap, pass, slot, dropped, ops, faults>>

ChangeDatabase(o) ==
    /\ At(o, "change_database")
    /\ \E out \in Outcomes :
         IF op[o].kind = "policy"
         THEN \E p \in Policies : Send(out, Holds(etcd, Fence(o)), PutPolicy(etcd, p))
         ELSE Send(out, CanDeleteDatabase(etcd, Fence(o)), DeleteDatabase(etcd))
    /\ SetOp(o, Idle)
    /\ UNCHANGED <<up, loop, snap, pass, slot, dropped, ops>>

----------------------------------------------------------------------------
(* Reconciliation of the pending metadata placed on a node.                *)

\* Operation: a create or drop of the name is in flight on the node.
InFlight(n) ==
    \E o \in Ops : op[o].node = n /\ op[o].pc \in
        {"put", "reserve", "create_local", "mark_ready", "undo", "read", "drop_local", "retire",
         "delete"}

SetPass(n, p) == pass' = [pass EXCEPT ![n] = p]

\* list_collection_metadata: one range read.
ListMetadata(n) ==
    /\ pass[n].pc = "list"
    /\ \E out \in {"ok", "failed"} :
         /\ Outcome(out) /\ Charge(out)
         /\ SetPass(n, IF out = "ok" /\ Pending(etcd.meta) /\ etcd.meta.node = n
                       THEN [pass[n] EXCEPT !.pc = "resolve", !.seen = etcd.meta] ELSE NoPass)
    /\ UNCHANGED <<etcd, up, loop, snap, slot, op, dropped, ops>>

\* resolve_pending: what the engine says about the pending collection.
Resolved(n, seen) ==
    CASE Open(n) /\ slot[n].id = seen.id -> "forward"
      [] slot[n].st = "failed" /\ slot[n].id = seen.id -> "drop"
      [] OTHER -> "back"

ResolvePending(n) ==
    /\ pass[n].pc = "resolve"
    /\ SetPass(n, IF InFlight(n) THEN NoPass
                  ELSE [pass[n] EXCEPT !.pc = Resolved(n, pass[n].seen)])
    /\ UNCHANGED <<etcd, up, loop, snap, slot, op, dropped, ops, faults>>

\* A collection of the create that failed to open is dropped first, by name.
DropFailed(n) ==
    /\ pass[n].pc = "drop"
    /\ \E out \in {"ok", "failed"} :
         LET ok == out = "ok" /\ Registered(n)
         IN /\ Outcome(out) /\ Charge(out)
            /\ slot' = IF ok THEN [slot EXCEPT ![n] = NoSlot] ELSE slot
            /\ SetPass(n, IF ok THEN [pass[n] EXCEPT !.pc = "back"] ELSE NoPass)
    /\ UNCHANGED <<etcd, up, loop, snap, op, dropped, ops>>

RollForward(n) ==
    /\ pass[n].pc = "forward"
    /\ \E out \in Outcomes :
         Send(out, CanChange(etcd, MemberFence(n, pass[n].lease), pass[n].seen.revs),
              MarkReady(etcd, pass[n].seen.id, FreshRev))
    /\ SetPass(n, NoPass)
    /\ UNCHANGED <<up, loop, snap, slot, op, dropped, ops>>

RollBack(n) ==
    /\ pass[n].pc = "back"
    /\ \E out \in Outcomes :
         Send(out, CanChange(etcd, MemberFence(n, pass[n].lease), pass[n].seen.revs),
              DeleteMeta(etcd))
    /\ dropped' = (dropped /\ etcd'.meta # NoMeta)
    /\ SetPass(n, NoPass)
    /\ UNCHANGED <<up, loop, snap, slot, op, ops>>

----------------------------------------------------------------------------
LoopStep(n) ==
    \/ Observe(n) \/ ObserveAgain(n) \/ RevokeLost(n) \/ RegisterMembership(n)
    \/ Campaign(n) \/ StopRevokes(n)

PassStep(n) ==
    ListMetadata(n) \/ ResolvePending(n) \/ DropFailed(n) \/ RollForward(n) \/ RollBack(n)

OpStep(o) ==
    \/ EnsureDatabase(o) \/ PutDatabaseFenced(o) \/ CreateGate(o) \/ PutMetadata(o)
    \/ ReserveLocal(o) \/ CreateLocal(o) \/ MarkCreateReady(o) \/ UndoCreate(o)
    \/ DropGate(o) \/ ReadRevision(o) \/ DropLocal(o) \/ RetireLocal(o) \/ DeleteMetadata(o)
    \/ AlterGate(o) \/ AlterSchema(o) \/ Describe(o) \/ ReadDescriptor(o) \/ PutSchema(o)
    \/ ReadOwner(o) \/ CheckPromotion(o) \/ MoveShard(o) \/ DatabaseGate(o) \/ ChangeDatabase(o)

Next ==
    \/ \E n \in Nodes : LoopStep(n) \/ PassStep(n) \/ StopLoop(n) \/ Crash(n)
                        \/ Restart(n)
    \/ \E o \in Ops : OpStep(o) \/ \E n \in Nodes, kind \in KindsOf[o] : Start(o, n, kind)
    \/ \E lease \in etcd.live : Expire(lease)

\* Every process that can step steps (a node that is up is at some step of its loop), a node
\* that died restarts, a lease nobody refreshes expires, and RECONCILE_INTERVAL passes again
\* and again; only requests and faults need not happen.
Fairness ==
    /\ \A n \in Nodes :
         /\ []<>~up[n] \/ []<><<LoopStep(n)>>_vars
         /\ []<>(pass[n].pc = "idle") \/ []<><<PassStep(n)>>_vars
         /\ []<>up[n]
         /\ []<>~up[n] \/ []<>(pass[n].pc # "idle")
    /\ \A o \in Ops : []<>At(o, "idle") \/ []<><<OpStep(o)>>_vars
    /\ []<>(etcd.live \subseteq Refreshed)

Spec == Init /\ [][Next]_vars /\ Fairness

----------------------------------------------------------------------------
(* Properties.                                                             *)

\* A collection that the catalog calls ready has its data: the engine of the node it is
\* placed on holds the collection of that id, unless a drop already took it (create_steps,
\* resolve_pending, drop_steps).  A create is acknowledged only once it is ready.
ReadyHasData ==
    etcd.meta.ready /\ ~dropped =>
        /\ slot[etcd.meta.node].id = etcd.meta.id
        /\ slot[etcd.meta.node].st \in {"open", "failed", "dropping"}

\* The schema version the catalog holds for a collection never goes back, however delayed a
\* publication is (publish_collection_schema).
SchemaForward ==
    [][etcd'.meta.id = etcd.meta.id /\ etcd.meta.ready => etcd'.meta.ver >= etcd.meta.ver]_vars

\* A create that stopped between its steps does not stay pending: its node rolls it forward
\* or back (reconcile_pending), whoever leads meanwhile.
PendingResolves == []<>~Pending(etcd.meta)

\* The schema in the catalog is one of the collection it describes
\* (publish_collection_schema's comment).
SchemaIsOwn == etcd.meta.ready => etcd.meta.of = etcd.meta.id
=============================================================================
