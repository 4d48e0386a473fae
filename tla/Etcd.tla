-------------------------------- MODULE Etcd ---------------------------------
(***************************************************************************)
(* The cluster metadata in etcd (logpose-storage-etcd/src/lib.rs) as       *)
(* operators on a record, one per guarded transaction the node code sends: *)
(*   live      leases etcd holds                                           *)
(*   member    node -> the lease of its membership key, or NoLease         *)
(*   leader    the control-plane leader key: [node, lease], or NoLeader    *)
(*   meta      the metadata of the one collection name: its descriptor     *)
(*             (collection id, ready, schema version and, as a ghost, the  *)
(*             collection whose schema it is), the node it is assigned to, *)
(*             the shard owner, and the mod revision of each of the three  *)
(*             keys; NoMeta when the keys are absent                       *)
(*   db        whether the descriptor of the collection's database exists  *)
(*   policy    the access policy of that database, "none" without one      *)
(* Leases, revisions and collection ids are only compared for equality, so *)
(* a number nothing refers to any more may name a new one.                 *)
(***************************************************************************)
EXTENDS Integers, Sequences, FiniteSets, FiniteSetsExt

CONSTANTS Nodes, Nobody

NoLease == [of |-> <<Nobody, "none">>, nr |-> 0]
Lease(of, nr) == [of |-> of, nr |-> nr]
NoLeader == [node |-> Nobody, lease |-> NoLease]
NoMeta == [id |-> 0, ready |-> FALSE, ver |-> 0, of |-> 0, node |-> Nobody, owner |-> Nobody,
           revs |-> <<0, 0, 0>>]

\* CollectionMetadataRevision: the positions of the three mod revisions.
Assignment == 1
Descriptor == 2
Owner == 3

NewEtcd == [live |-> {}, member |-> [n \in Nodes |-> NoLease], leader |-> NoLeader, meta |-> NoMeta,
            db |-> FALSE, policy |-> "none"]

Pending(meta) == meta # NoMeta /\ ~meta.ready

\* Revoking a lease, or its expiry, deletes the keys attached to it.
Revoke(e, leases) ==
    [e EXCEPT !.live = @ \ leases,
              !.member = [n \in Nodes |-> IF @[n] \in leases THEN NoLease ELSE @[n]],
              !.leader = IF @.lease \in leases THEN NoLeader ELSE @]

\* register_membership: a lease, and the membership key put under it.
Register(e, n, lease) == [e EXCEPT !.live = @ \cup {lease}, !.member[n] = lease]

\* try_acquire_leadership: a lease, and the leader key put under it if the key is absent.
Vacant(e) == e.leader = NoLeader
Acquire(e, n, lease) == [e EXCEPT !.live = @ \cup {lease}, !.leader = [node |-> n, lease |-> lease]]

\* fence_compare: whether the comparison that stands for a fence holds.
LeaderFence(n, lease) == [kind |-> "leader", node |-> n, lease |-> lease]
MemberFence(n, lease) == [kind |-> "member", node |-> n, lease |-> lease]
NoFence == [kind |-> "none", node |-> Nobody, lease |-> NoLease]
Holds(e, fence) ==
    CASE fence.kind = "leader" -> e.leader = [node |-> fence.node, lease |-> fence.lease]
      [] fence.kind = "member" -> e.member[fence.node] = fence.lease
      [] OTHER -> TRUE

\* put_collection_metadata_if_absent.
CanPutPending(e, fence) == Holds(e, fence) /\ e.meta = NoMeta
PutPending(e, id, n, rev) ==
    [e EXCEPT !.meta = [id |-> id, ready |-> FALSE, ver |-> 1, of |-> id, node |-> n,
                        owner |-> n, revs |-> <<rev, rev, rev>>]]

\* Mutant: only the leader may finish or undo a create.
CanChangeLeading(e, fence, revs) ==
    fence.kind = "leader" /\ Holds(e, fence) /\ e.meta.revs = revs

\* The guard of mark_collection_ready_if_revision_matches and of
\* delete_collection_metadata_if_revision_matches.
CanChange(e, fence, revs) == Holds(e, fence) /\ e.meta.revs = revs

\* The descriptor written is the one the caller planned, at its first schema version.
MarkReady(e, id, rev) ==
    [e EXCEPT !.meta.id = id, !.meta.ready = TRUE, !.meta.ver = 1, !.meta.of = id,
              !.meta.revs[Descriptor] = rev]
DeleteMeta(e) == [e EXCEPT !.meta = NoMeta]

\* collection_metadata_revision reads the three keys one after the other.
RevisionOf(e, key) == e.meta.revs[key]

\* publish_collection_schema: when a read descriptor takes the schema, and the guarded put.
TakesSchema(meta, ver) == meta # NoMeta /\ meta.ready /\ meta.ver < ver

\* Mutant: the put is not guarded by the descriptor's mod revision.
CanPublishUnguarded(e, rev) == e.meta # NoMeta
CanPublish(e, rev) == e.meta.revs[Descriptor] = rev
Publish(e, id, ver, rev) ==
    [e EXCEPT !.meta.ver = ver, !.meta.of = id, !.meta.revs[Descriptor] = rev]

\* promote_shard_owner.
CanPromote(e, revs) ==
    e.meta.revs[Owner] = revs[Owner] /\ e.meta.revs[Descriptor] = revs[Descriptor]
Promote(e, n, rev) == [e EXCEPT !.meta.owner = n, !.meta.revs[Owner] = rev]

\* put_database, put_database_access_policy and delete_database of EtcdCatalogStore.
PutDatabase(e) == [e EXCEPT !.db = TRUE]
PutPolicy(e, policy) == [e EXCEPT !.policy = policy]
CanDeleteDatabase(e, fence) == Holds(e, fence) /\ e.db /\ e.meta = NoMeta
DeleteDatabase(e) == [e EXCEPT !.db = FALSE, !.policy = "none"]
=============================================================================
