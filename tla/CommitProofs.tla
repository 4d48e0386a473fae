---------------------------- MODULE CommitProofs ----------------------------
(***************************************************************************)
(* Proofs about the commit pipeline, for every set of requests, every kind *)
(* of request and every group limit.                                       *)
(*                                                                         *)
(* The argument is one chain.  The log, the version readers see, the group *)
(* in flight and the private state are four prefixes of one sequence while *)
(* nothing has failed:                                                     *)
(*                                                                         *)
(*   published \o (in flight) \o (prepared) = private                      *)
(*                                                                         *)
(* with the log at the end of published or of the group in flight, and a   *)
(* failure that breaks the chain poisons the collection before anything is *)
(* started from what it broke.                                             *)
(***************************************************************************)
EXTENDS Commit, SequenceTheorems, TLAPS

Flying == inflight.io # "none"

(* The group in flight continues the published version, and the log is at  *)
(* one end of it or the other.                                             *)
FlightInv ==
  /\ inflight.io = "none" => inflight = NoFlight
  /\ inflight.io \in {"running", "ok"} => inflight.version = published \o inflight.reqs
  /\ inflight.io = "running" => durable = published /\ inflight.first = Len(durable) + 1
  /\ inflight.io \in {"ok", "published"} => durable = inflight.version
  /\ inflight.io = "published" => published = inflight.version
  /\ Flying => ToSet(inflight.reqs) \subseteq ToSet(inflight.version)

(* The published version never passes the log; with nothing in flight and  *)
(* nothing failed they are equal.                                          *)
LogInv ==
  /\ IsPrefix(published, durable)
  /\ ~Flying /\ poison = "none" => durable = published

(* Where the next group starts: after the group in flight, if there is one. *)
Base == IF Flying THEN inflight.version ELSE published

(* While nothing failed, the private state is the base and the prepared    *)
(* group, and the savepoint is the base.                                   *)
WriterInv ==
  /\ pc # "preparing" => prepared = << >> /\ group = << >>
  /\ poison = "none" /\ pc # "preparing" => private = Base /\ next = Len(private) + 1
  /\ poison = "none" /\ pc = "preparing" =>
       /\ before.private = Base
       /\ before.next = Len(before.private) + 1
       /\ private = before.private \o prepared
       /\ next = Len(private) + 1

(* From quiescing on the handle refuses, so that nothing starts; once       *)
(* quiesced, nothing is in flight or about to be.                          *)
DropInv ==
  /\ dropper \in {"quiescing", "retiring"} => dropped
  /\ dropper = "retiring" => ~Flying /\ pc # "preparing"
  /\ dir = "removed" => dropper = "idle" /\ dropped /\ ~Flying /\ pc # "preparing"

AckInv == \A r \in Req : answer[r] = "ok" => r \in ToSet(published)

(* A request is in one place of the pipeline at most, once, and unanswered  *)
(* while it is there.                                                      *)
PipeInv ==
  /\ IsInjective(requests) /\ IsInjective(group)
  /\ ToSet(requests) \cap ToSet(group) = {}
  /\ (ToSet(requests) \cup ToSet(group)) \cap (ToSet(prepared) \cup ToSet(inflight.reqs)) = {}
  /\ ToSet(prepared) \cap ToSet(inflight.reqs) = {}
  /\ \A r \in ToSet(requests) \cup ToSet(group) \cup ToSet(prepared) \cup ToSet(inflight.reqs) :
       answer[r] = "queued"

(* What is in the log was acknowledged, has an unknown outcome, or is in    *)
(* flight past its append.                                                 *)
LoggedInv ==
  \A r \in ToSet(durable) :
    \/ answer[r] \in {"ok", "unknown"}
    \/ r \in ToSet(inflight.reqs) /\ inflight.io \in {"ok", "published", "unknown", "lost"}

IInv == TypeOK /\ FlightInv /\ LogInv /\ WriterInv /\ DropInv /\ AckInv /\ PipeInv /\ LoggedInv

-----------------------------------------------------------------------------
(* Facts about sequences.                                                  *)

(* A sequence is a prefix of itself and of whatever is appended to it.     *)
LEMMA PrefixConcat ==
  ASSUME NEW S, NEW s \in Seq(S), NEW t \in Seq(S)
  PROVE  IsPrefix(s, s) /\ IsPrefix(s, s \o t)
  BY ConcatProperties, SubSeqProperties DEF IsPrefix

(* The elements of a concatenation, and of a sequence with a prefix.       *)
LEMMA ToSetConcat ==
  ASSUME NEW S, NEW s \in Seq(S), NEW t \in Seq(S)
  PROVE  ToSet(s) \subseteq ToSet(s \o t) /\ ToSet(t) \subseteq ToSet(s \o t)
  <1>1. ASSUME NEW i \in DOMAIN s PROVE s[i] \in ToSet(s \o t)
    <2>1. i \in DOMAIN (s \o t) /\ (s \o t)[i] = s[i]
      BY ConcatProperties
    <2> QED BY <2>1 DEF ToSet
  <1>2. ASSUME NEW i \in DOMAIN t PROVE t[i] \in ToSet(s \o t)
    <2>1. i + Len(s) \in DOMAIN (s \o t) /\ (s \o t)[i + Len(s)] = t[i]
      BY ConcatProperties
    <2> QED BY <2>1 DEF ToSet
  <1> QED BY <1>1, <1>2 DEF ToSet

(* Appending to a concatenation appends to its second part.                *)
LEMMA AppendConcat ==
  ASSUME NEW S, NEW s \in Seq(S), NEW t \in Seq(S), NEW e \in S
  PROVE  Append(s \o t, e) = s \o Append(t, e)
  OBVIOUS

LEMMA ToSetPrefix ==
  ASSUME NEW S, NEW s \in Seq(S), NEW t \in Seq(S), IsPrefix(s, t)
  PROVE  ToSet(s) \subseteq ToSet(t)
  BY SubSeqProperties DEF ToSet, IsPrefix

(* The elements of a sequence that is extended, joined, or cut in two.     *)
LEMMA ToSetAppend ==
  ASSUME NEW S, NEW s \in Seq(S), NEW e \in S
  PROVE  /\ ToSet(Append(s, e)) = ToSet(s) \cup {e}
         /\ IsInjective(s) /\ e \notin ToSet(s) => IsInjective(Append(s, e))
  <1>1. /\ DOMAIN Append(s, e) = DOMAIN s \cup {Len(s) + 1}
        /\ Append(s, e)[Len(s) + 1] = e
        /\ \A i \in DOMAIN s : Append(s, e)[i] = s[i]
    OBVIOUS
  <1>2. Len(s) + 1 \notin DOMAIN s
    OBVIOUS
  <1> HIDE DEF ToSet
  <1>3. ToSet(Append(s, e)) = ToSet(s) \cup {e}
    BY <1>1, Zenon DEF ToSet
  <1>4. IsInjective(s) /\ e \notin ToSet(s) => IsInjective(Append(s, e))
    BY <1>1, <1>2, Zenon DEF ToSet, IsInjective
  <1> QED BY <1>3, <1>4

LEMMA ToSetJoin ==
  ASSUME NEW S, NEW s \in Seq(S), NEW t \in Seq(S), NEW x \in ToSet(s \o t)
  PROVE  x \in ToSet(s) \cup ToSet(t)
  <1>1. PICK i \in DOMAIN (s \o t) : x = (s \o t)[i]
    BY DEF ToSet
  <1>2. CASE i <= Len(s)
    <2>1. i \in DOMAIN s /\ x = s[i]
      BY <1>1, <1>2
    <2> QED BY <2>1 DEF ToSet
  <1>3. CASE i > Len(s)
    <2>1. i - Len(s) \in DOMAIN t /\ x = t[i - Len(s)]
      BY <1>1, <1>3
    <2> QED BY <2>1 DEF ToSet
  <1> QED BY <1>1, <1>2, <1>3

LEMMA ToSetCut ==
  ASSUME NEW S, NEW s \in Seq(S), NEW n \in 1..Len(s), IsInjective(s)
  PROVE  /\ IsInjective(SubSeq(s, 1, n)) /\ IsInjective(SubSeq(s, n + 1, Len(s)))
         /\ ToSet(SubSeq(s, 1, n)) \cup ToSet(SubSeq(s, n + 1, Len(s))) \subseteq ToSet(s)
         /\ ToSet(SubSeq(s, 1, n)) \cap ToSet(SubSeq(s, n + 1, Len(s))) = {}
  <1> DEFINE a == SubSeq(s, 1, n)  b == SubSeq(s, n + 1, Len(s))
  <1>1. /\ DOMAIN a = 1..n /\ \A i \in 1..n : a[i] = s[i] /\ i \in DOMAIN s
        /\ DOMAIN b = 1..(Len(s) - n)
        /\ \A i \in 1..(Len(s) - n) : b[i] = s[n + i] /\ n + i \in DOMAIN s
    OBVIOUS
  <1> HIDE DEF a, b
  <1>2. IsInjective(a)
    BY <1>1 DEF IsInjective
  <1>3. IsInjective(b)
    BY <1>1 DEF IsInjective
  <1>4. ToSet(a) \subseteq ToSet(s) /\ ToSet(b) \subseteq ToSet(s)
    BY <1>1 DEF ToSet
  <1>5. ASSUME NEW x \in ToSet(a), x \in ToSet(b) PROVE FALSE
    <2>1. PICK i \in 1..n : x = s[i] /\ i \in DOMAIN s
      BY <1>1 DEF ToSet
    <2>2. PICK j \in 1..(Len(s) - n) : x = s[n + j] /\ n + j \in DOMAIN s
      BY <1>1, <1>5 DEF ToSet
    <2>3. i # n + j
      BY <2>1, <2>2
    <2> HIDE <1>1
    <2> QED BY <2>1, <2>2, <2>3, Zenon DEF IsInjective
  <1> QED BY <1>2, <1>3, <1>4, <1>5 DEF a, b

LEMMA ToSetHeadTail ==
  ASSUME NEW S, NEW s \in Seq(S), s # << >>, IsInjective(s)
  PROVE  /\ IsInjective(Tail(s)) /\ Head(s) \in ToSet(s)
         /\ ToSet(Tail(s)) \subseteq ToSet(s) \ {Head(s)}
  <1>1. /\ DOMAIN s = 1..Len(s) /\ 1 \in DOMAIN s /\ Head(s) = s[1]
        /\ DOMAIN Tail(s) = 1..(Len(s) - 1)
        /\ \A i \in DOMAIN Tail(s) : Tail(s)[i] = s[i + 1] /\ i + 1 \in DOMAIN s /\ i + 1 # 1
    OBVIOUS
  <1>2. IsInjective(Tail(s))
    BY <1>1 DEF IsInjective
  <1>3. ASSUME NEW x \in ToSet(Tail(s)) PROVE x \in ToSet(s) /\ x # Head(s)
    <2>1. PICK i \in DOMAIN Tail(s) : x = s[i + 1]
      BY <1>1 DEF ToSet
    <2> QED BY <1>1, <2>1 DEF ToSet, IsInjective
  <1> QED BY <1>1, <1>2, <1>3 DEF ToSet

LEMMA ToSetEmpty ==
  ToSet(<< >>) = {} /\ IsInjective(<< >>)
  BY DEF ToSet, IsInjective
-----------------------------------------------------------------------------
(* Type correctness.                                                       *)

LEMMA AnsweredType ==
  ASSUME TypeOK, NEW reqs, NEW a \in Final
  PROVE  Answered(reqs, a) \in [Req -> Final \cup {"new", "checked", "queued"}]
  BY DEF Answered, TypeOK

LEMMA TypeStep ==
  ASSUME TypeOK, [Next]_vars
  PROVE  TypeOK'
  <1> USE KindAssumption, BoundsAssumption
  <1> USE DEF TypeOK, callerVars, groupVars, ioVars, dropVars, engineVars, NoFlight, Failures, Final
  <1>1. CASE \E r \in Req : Check(r)
    BY <1>1, AnsweredType DEF Check
  <1>2. CASE \E r \in Req : Send(r)
    BY <1>2, AppendProperties DEF Send
  <1>3. CASE \E n \in 1..MaxGroup : Refuse(n)
    BY <1>3, AnsweredType DEF Refuse, Collects
  <1>4. CASE \E n \in 1..MaxGroup : Collect(n)
    <2>1. PICK n \in 1..MaxGroup : Collect(n)
      BY <1>4
    <2>2. n \in 1..Len(requests)
      BY <2>1 DEF Collect, Collects
    <2>3. SubSeq(requests, 1, n) \in Seq(Req) /\ SubSeq(requests, n + 1, Len(requests)) \in Seq(Req)
      BY <2>2
    <2>4. group' \in Seq(Req) /\ requests' \in Seq(Req) /\ pc' = "preparing"
      BY <2>1, <2>3 DEF Collect
    <2>5. before' \in [private : Seq(Req), next : Nat]
      BY <2>1 DEF Collect
    <2>6. UNCHANGED <<answer, prepared, private, next, inflight, wal, durable, published, poison,
        dropped, dropper, drops, dir, full, shutdown, stop>>
      BY <2>1 DEF Collect
    <2> QED BY <2>4, <2>5, <2>6
  <1>5. CASE \E a \in {"nothing", "internal"} : ResolveFilter(a)
    BY <1>5, AnsweredType DEF ResolveFilter, Collects
  <1>6. CASE ExpireStalled
    BY <1>6, AnsweredType DEF ExpireStalled
  <1>7. CASE Prepare
    <2>1. Head(group) \in Req /\ Tail(group) \in Seq(Req)
      BY <1>7 DEF Prepare
    <2>2. Append(private, Head(group)) \in Seq(Req) /\ Append(prepared, Head(group)) \in Seq(Req)
      BY <2>1, AppendProperties
    <2> QED BY <1>7, <2>1, <2>2 DEF Prepare
  <1>8. CASE PrepareFatal
    <2>1. answer' \in [Req -> Final \cup {"new", "checked", "queued"}]
      BY <1>8, AnsweredType DEF PrepareFatal
    <2>2. wal' \in BOOLEAN /\ poison' \in {"none", "read_only", "failed"}
      BY <1>8 DEF PrepareFatal, Poison
    <2> QED BY <1>8, <2>1, <2>2 DEF PrepareFatal
  <1>9. CASE PreparePanics
    <2>1. answer' \in [Req -> Final \cup {"new", "checked", "queued"}]
      BY <1>9, AnsweredType DEF PreparePanics
    <2>2. wal' \in BOOLEAN /\ poison' \in {"none", "read_only", "failed"}
      BY <1>9 DEF PreparePanics, Poison
    <2> QED BY <1>9, <2>1, <2>2 DEF PreparePanics
  <1>10. CASE StartIo
    <2>1. wal' \in BOOLEAN /\ before.next \in Nat
      BY <1>10 DEF StartIo
    <2>2. inflight' \in [reqs : Seq(Req), version : Seq(Req), first : Nat,
                         io : Failures \cup {"none", "running", "ok", "published"}]
      BY <1>10, <2>1 DEF StartIo
    <2> QED BY <1>10, <2>1, <2>2 DEF StartIo
  <1>11. CASE StartRefused
    BY <1>11, AnsweredType DEF StartRefused
  <1>12. CASE NothingToStart
    BY <1>12, AnsweredType DEF NothingToStart
  <1>13. CASE AppendGroup
    <2>1. durable' \in Seq(Req)
      BY <1>13, ConcatProperties DEF AppendGroup
    <2>2. inflight' \in [reqs : Seq(Req), version : Seq(Req), first : Nat,
                         io : Failures \cup {"none", "running", "ok", "published"}]
      BY <1>13 DEF AppendGroup
    <2>3. UNCHANGED <<answer, requests, pc, group, prepared, before, private, next, wal, published,
        poison, dropped, dropper, drops, dir, full, shutdown, stop>>
      BY <1>13 DEF AppendGroup
    <2> QED BY <2>1, <2>2, <2>3
  <1>14. CASE \E failure \in Failures : AppendFails(failure)
    <2>1. PICK failure \in Failures : AppendFails(failure)
      BY <1>14
    <2>2. durable \o inflight.reqs \in Seq(Req)
      BY ConcatProperties
    <2>3. durable' \in Seq(Req)
      BY <2>1, <2>2 DEF AppendFails
    <2>4. inflight' \in [reqs : Seq(Req), version : Seq(Req), first : Nat,
                         io : Failures \cup {"none", "running", "ok", "published"}]
      BY <2>1 DEF AppendFails
    <2>5. UNCHANGED <<answer, requests, pc, group, prepared, before, private, next, wal, published,
        poison, dropped, dropper, drops, dir, full, shutdown, stop>>
      BY <2>1 DEF AppendFails
    <2> QED BY <2>3, <2>4, <2>5
  <1>15. CASE Publish
    <2>1. published' \in Seq(Req) /\ wal' \in BOOLEAN
      BY <1>15 DEF Publish
    <2>2. inflight' \in [reqs : Seq(Req), version : Seq(Req), first : Nat,
                         io : Failures \cup {"none", "running", "ok", "published"}]
      BY <1>15 DEF Publish
    <2>3. UNCHANGED <<answer, requests, pc, group, prepared, before, private, next, durable, poison,
        dropped, dropper, drops, dir, full, shutdown, stop>>
      BY <1>15 DEF Publish
    <2> QED BY <2>1, <2>2, <2>3
  <1>16. CASE Acknowledge
    BY <1>16, AnsweredType DEF Acknowledge
  <1>17. CASE WalFailed
    <2>1. answer' \in [Req -> Final \cup {"new", "checked", "queued"}]
      BY <1>17, AnsweredType DEF WalFailed
    <2>2. wal' \in BOOLEAN /\ poison' \in {"none", "read_only", "failed"}
      BY <1>17 DEF WalFailed, Poison
    <2> QED BY <1>17, <2>1, <2>2 DEF WalFailed
  <1>18. CASE MarkDropped
    BY <1>18, AnsweredType DEF MarkDropped
  <1>19. CASE Quiesce
    BY <1>19, AnsweredType DEF Quiesce
  <1>20. CASE Retire
    BY <1>20, AnsweredType DEF Retire
  <1>21. CASE RenameFails
    <2>1. dropped' \in BOOLEAN /\ dropper' \in {"idle", "quiescing", "retiring"}
      BY <1>21 DEF RenameFails
    <2>2. UNCHANGED <<answer, requests, pc, group, prepared, before, private, next, inflight, wal,
        durable, published, poison, drops, dir, full, shutdown, stop>>
      BY <1>21 DEF RenameFails
    <2> QED BY <2>1, <2>2
  <1>22. CASE RenameUnsynced
    BY <1>22, AnsweredType DEF RenameUnsynced
  <1>23. CASE MemtablesChange
    BY <1>23, AnsweredType DEF MemtablesChange
  <1>24. CASE Shutdown
    <2>1. shutdown' \in BOOLEAN /\ stop' \in BOOLEAN
      BY <1>24 DEF Shutdown
    <2> QED BY <1>24, <2>1 DEF Shutdown
  <1>25. CASE Stop
    BY <1>25, AnsweredType DEF Stop
  <1>26. CASE UNCHANGED vars
    BY <1>26 DEF vars
  <1>27. CASE \E r \in Req : SendClosed(r)
    BY <1>27 DEF SendClosed
  <1>28. CASE PrepareInvalid
    <2>1. Head(group) \in Req /\ Tail(group) \in Seq(Req)
      BY <1>28 DEF PrepareInvalid
    <2> QED BY <1>28, <2>1 DEF PrepareInvalid
  <1> QED
    BY <1>1, <1>2, <1>3, <1>4, <1>5, <1>6, <1>7, <1>8, <1>9, <1>10, <1>11, <1>12, <1>13, <1>14, <1>15, <1>16, <1>17, <1>18, <1>19, <1>20, <1>21, <1>22, <1>23, <1>24, <1>25, <1>26, <1>27, <1>28
       DEF Next, Writer, Io, Dropper, Take, Complete
-----------------------------------------------------------------------------
(* The chain: the log, the version, the group in flight, the private state. *)

ChainInv == FlightInv /\ LogInv /\ WriterInv

(* A step that touches none of them keeps it.                              *)
LEMMA ChainFrame ==
  ASSUME ChainInv,
         UNCHANGED <<group, prepared, before, private, next, inflight, durable,
                     published, poison>>,
         pc' = pc \/ (pc # "preparing" /\ pc' # "preparing")
  PROVE  ChainInv'
  BY DEF ChainInv, FlightInv, LogInv, WriterInv, Base, Flying

(* A step of the I/O thread: the group is appended, or not.                *)
LEMMA ChainIo ==
  ASSUME TypeOK, TypeOK', ChainInv, Io
  PROVE  ChainInv'
  <1> USE DEF TypeOK, ChainInv, callerVars, groupVars, dropVars, engineVars
  <1>1. inflight.io = "running" /\ durable = published
    BY DEF Io, AppendGroup, AppendFails, FlightInv
  <1>2. durable' \in {published, published \o inflight.reqs}
    BY <1>1 DEF Io, AppendGroup, AppendFails
  <1>3. IsPrefix(published, durable')
    <2>1. published \in Seq(Req) /\ inflight.reqs \in Seq(Req)
      OBVIOUS
    <2>2. IsPrefix(published, published) /\ IsPrefix(published, published \o inflight.reqs)
      BY <2>1, PrefixConcat, Zenon
    <2> QED BY <1>2, <2>2
  <1>4. /\ inflight' = [inflight EXCEPT !.io = inflight'.io]
        /\ inflight'.io \in Failures \cup {"ok"}
        /\ inflight'.io = "ok" => durable' = published \o inflight.reqs
        /\ UNCHANGED <<pc, group, prepared, before, private, next, published, poison>>
    <2>1. CASE AppendGroup
      BY <1>1, <2>1 DEF AppendGroup
    <2>2. CASE \E failure \in Failures : AppendFails(failure)
      BY <2>2 DEF AppendFails, Failures
    <2> QED BY <2>1, <2>2 DEF Io
  <1>5. FlightInv'
    BY <1>1, <1>4 DEF FlightInv, Flying, Failures
  <1>6. LogInv'
    BY <1>3, <1>4 DEF LogInv, Flying, Failures
  <1>7. WriterInv'
    BY <1>1, <1>4 DEF WriterInv, Base, Flying, Failures
  <1> QED BY <1>5, <1>6, <1>7

(* Completing the group in flight: it is published, acknowledged or failed. *)
LEMMA ChainComplete ==
  ASSUME TypeOK, TypeOK', ChainInv, Complete
  PROVE  ChainInv'
  <1> USE DEF TypeOK, ChainInv, callerVars, groupVars, dropVars, engineVars
  <1>1. CASE Publish
    <2>1. /\ inflight' = [inflight EXCEPT !.io = "published"]
          /\ published' = inflight.version /\ durable' = inflight.version
          /\ UNCHANGED <<pc, group, prepared, before, private, next, poison>>
      BY <1>1 DEF Publish, FlightInv
    <2>2. IsPrefix(published', durable')
      BY <2>1, PrefixConcat
    <2>3. FlightInv' /\ LogInv'
      BY <1>1, <2>1, <2>2 DEF FlightInv, LogInv, Flying, Publish
    <2>4. WriterInv'
      BY <1>1, <2>1 DEF WriterInv, Base, Flying, Publish
    <2> QED BY <2>3, <2>4
  <1>2. CASE Acknowledge
    <2>1. /\ inflight' = NoFlight
          /\ published = inflight.version /\ durable = inflight.version
          /\ UNCHANGED <<pc, group, prepared, before, private, next, poison, published, durable>>
      BY <1>2 DEF Acknowledge, FlightInv
    <2>2. FlightInv' /\ LogInv'
      BY <2>1 DEF FlightInv, LogInv, Flying, NoFlight
    <2>3. WriterInv'
      BY <1>2, <2>1 DEF WriterInv, Base, Flying, NoFlight, Acknowledge
    <2> QED BY <2>2, <2>3
  <1>3. CASE WalFailed
    <2>1. /\ inflight' = NoFlight /\ poison' # "none"
          /\ UNCHANGED <<pc, group, prepared, before, private, next, published, durable>>
      BY <1>3 DEF WalFailed, Poison
    <2> QED BY <2>1 DEF FlightInv, LogInv, WriterInv, Base, Flying, NoFlight
  <1> QED BY <1>1, <1>2, <1>3 DEF Complete

(* Collecting and preparing: the private state runs ahead by what is        *)
(* prepared, or the collection is poisoned.                                *)
LEMMA ChainPrepare ==
  ASSUME TypeOK, TypeOK', ChainInv,
         (\E n \in 1..MaxGroup : Collect(n)) \/ Prepare \/ PrepareInvalid
           \/ PrepareFatal \/ PreparePanics
  PROVE  ChainInv'
  <1> USE DEF TypeOK, ChainInv, callerVars, ioVars, dropVars, engineVars
  <1>1. CASE \E n \in 1..MaxGroup : Collect(n)
    <2>1. /\ pc = "select" /\ pc' = "preparing" /\ prepared = << >> /\ poison = "none"
          /\ before' = [private |-> private, next |-> next]
          /\ UNCHANGED <<prepared, private, next, inflight, durable, published, poison>>
      BY <1>1 DEF Collect, Collects, Refusal, WriterInv
    <2>2. private = private \o prepared
      BY <2>1, ConcatEmptySeq
    <2>3. private = Base /\ next = Len(private) + 1
      BY <2>1 DEF WriterInv
    <2>4. WriterInv'
      BY <2>1, <2>2, <2>3 DEF WriterInv, Base, Flying
    <2> QED BY <2>1, <2>4 DEF FlightInv, LogInv, Flying
  <1>2. CASE Prepare
    <2>1. Head(group) \in Req
      BY <1>2 DEF Prepare
    <2>2. before.private \in Seq(Req) /\ prepared \in Seq(Req)
      OBVIOUS
    <2>3. Append(before.private \o prepared, Head(group))
            = before.private \o Append(prepared, Head(group))
      <3> HIDE DEF TypeOK
      <3>1. \A s, t \in Seq(Req), e \in Req : Append(s \o t, e) = s \o Append(t, e)
        BY AppendConcat
      <3> QED BY <2>1, <2>2, <3>1, Zenon
    <2>4. poison = "none" => private' = before.private \o prepared'
      BY <1>2, <2>3 DEF Prepare, WriterInv
    <2>5. Len(private') = Len(private) + 1
      BY <1>2, <2>1 DEF Prepare
    <2>6. WriterInv'
      BY <1>2, <2>4, <2>5 DEF Prepare, WriterInv, Base, Flying
    <2> QED BY <1>2, <2>6 DEF Prepare, FlightInv, LogInv, Flying
  <1>3. CASE PrepareInvalid
    BY <1>3 DEF PrepareInvalid, FlightInv, LogInv, WriterInv, Base, Flying
  <1>4. CASE PrepareFatal \/ PreparePanics
    <2>1. /\ poison' # "none" /\ pc' = "preparing"
          /\ UNCHANGED <<inflight, durable, published>>
      BY <1>4 DEF PrepareFatal, PreparePanics, Poison
    <2> QED BY <2>1 DEF FlightInv, LogInv, WriterInv, Flying
  <1> QED BY <1>1, <1>2, <1>3, <1>4

(* Starting the prepared group, or taking it back.                         *)
LEMMA ChainStart ==
  ASSUME TypeOK, TypeOK', ChainInv, StartIo \/ StartRefused \/ NothingToStart
  PROVE  ChainInv'
  <1> USE DEF TypeOK, ChainInv, callerVars, ioVars, dropVars, engineVars
  <1>1. pc = "preparing" /\ group = << >> /\ ~Flying /\ pc' = "select"
    <2>1. CanStart /\ pc' = "select"
      BY Zenon DEF StartIo, StartRefused, NothingToStart
    <2>2. inflight.io = "none"
      BY <2>1 DEF CanStart, NoFlight
    <2> QED BY <2>1, <2>2 DEF CanStart, Flying
  <1>2. CASE StartIo
    <2>1. /\ poison = "none" /\ durable = published
          /\ private = published \o prepared
          /\ before.next = Len(published) + 1 /\ next = Len(private) + 1
      BY <1>1, <1>2 DEF StartIo, Refusal, LogInv, WriterInv, Base
    <2>2. /\ inflight' = [reqs |-> prepared, version |-> private, first |-> before.next,
                          io |-> "running"]
          /\ pc' = "select" /\ prepared' = << >> /\ group' = << >>
          /\ UNCHANGED <<private, next, durable, published, poison>>
      BY <1>1, <1>2 DEF StartIo
    <2>3. ToSet(prepared) \subseteq ToSet(private)
      BY <2>1, ToSetConcat
    <2>4. FlightInv'
      BY <2>1, <2>2, <2>3 DEF FlightInv, Flying
    <2>5. LogInv' /\ WriterInv'
      BY <2>1, <2>2 DEF LogInv, WriterInv, Base, Flying
    <2> QED BY <2>4, <2>5
  <1>3. CASE StartRefused
    BY <1>1, <1>3 DEF StartRefused, FlightInv, LogInv, WriterInv, Base, Flying
  <1>4. CASE NothingToStart
    <2>1. poison = "none" => private = before.private
      BY <1>1, <1>4, ConcatEmptySeq DEF NothingToStart, WriterInv
    <2> QED
      BY <1>1, <1>4, <2>1 DEF NothingToStart, FlightInv, LogInv, WriterInv, Base, Flying
  <1> QED BY <1>2, <1>3, <1>4

LEMMA ChainStep ==
  ASSUME TypeOK, TypeOK', ChainInv, [Next]_vars
  PROVE  ChainInv'
  <1> USE DEF callerVars, groupVars, ioVars, dropVars, engineVars
  <1>1. CASE Io
    BY <1>1, ChainIo
  <1>2. CASE Complete
    BY <1>2, ChainComplete
  <1>3. CASE (\E n \in 1..MaxGroup : Collect(n)) \/ Prepare \/ PrepareInvalid
               \/ PrepareFatal \/ PreparePanics
    BY <1>3, ChainPrepare
  <1>4. CASE StartIo \/ StartRefused \/ NothingToStart
    BY <1>4, ChainStart
  <1>5. CASE Stop
    BY <1>5, ChainFrame DEF Stop
  <1>6. CASE \E r \in Req : Check(r) \/ Send(r) \/ SendClosed(r)
    BY <1>6, ChainFrame DEF Check, Send, SendClosed
  <1>7. CASE (\E n \in 1..MaxGroup : Refuse(n)) \/ ExpireStalled
               \/ \E a \in {"nothing", "internal"} : ResolveFilter(a)
    BY <1>7, ChainFrame DEF Refuse, ExpireStalled, ResolveFilter
  <1>8. CASE MarkDropped \/ Dropper
    BY <1>8, ChainFrame DEF MarkDropped, Dropper, Quiesce, Retire, RenameFails, RenameUnsynced
  <1>9. CASE MemtablesChange \/ Shutdown \/ UNCHANGED vars
    BY <1>9, ChainFrame DEF MemtablesChange, Shutdown, vars
  <1> QED
    BY <1>1, <1>2, <1>3, <1>4, <1>5, <1>6, <1>7, <1>8, <1>9 DEF Next, Writer, Take

-----------------------------------------------------------------------------
(* The drop, and the acknowledgements.                                     *)

LEMMA DropStep ==
  ASSUME TypeOK, FlightInv, DropInv, [Next]_vars
  PROVE  DropInv'
  <1> USE DEF DropInv, callerVars, groupVars, ioVars, dropVars, engineVars
  <1>1. CASE Io
    <2>1. Flying /\ Flying' /\ UNCHANGED <<dropVars, pc>>
      BY <1>1 DEF Io, AppendGroup, AppendFails, Flying, TypeOK, Failures
    <2> QED BY <2>1
  <1>2. CASE Complete
    <2>1. Flying /\ UNCHANGED <<dropVars, pc>>
      BY <1>2 DEF Complete, Publish, Acknowledge, WalFailed, Flying, Failures
    <2> QED BY <2>1
  <1>3. CASE (\E n \in 1..MaxGroup : Collect(n)) \/ StartIo
    <2>1. ~dropped /\ UNCHANGED dropVars
      BY <1>3 DEF Collect, StartIo, Refusal
    <2> QED BY <2>1
  <1>4. CASE Prepare \/ PrepareInvalid \/ PrepareFatal \/ PreparePanics
    <2>1. pc = "preparing" /\ UNCHANGED <<dropVars, pc, inflight>>
      BY <1>4 DEF Prepare, PrepareInvalid, PrepareFatal, PreparePanics
    <2> QED BY <2>1 DEF Flying
  <1>5. CASE StartRefused \/ NothingToStart \/ Stop
    <2>1. pc' # "preparing" /\ UNCHANGED <<dropVars, inflight>>
      BY <1>5 DEF StartRefused, NothingToStart, Stop
    <2> QED BY <2>1 DEF Flying
  <1>6. CASE \E r \in Req : Check(r) \/ Send(r) \/ SendClosed(r)
    BY <1>6 DEF Check, Send, SendClosed, Flying
  <1>7. CASE (\E n \in 1..MaxGroup : Refuse(n)) \/ ExpireStalled
               \/ \E a \in {"nothing", "internal"} : ResolveFilter(a)
    BY <1>7 DEF Refuse, ExpireStalled, ResolveFilter, Flying
  <1>8. CASE MarkDropped
    BY <1>8 DEF MarkDropped
  <1>9. CASE Quiesce
    <2>1. ~Flying
      BY <1>9 DEF Quiesce, Drained, NoFlight, Flying
    <2> QED BY <1>9, <2>1 DEF Quiesce, Drained, Flying
  <1>10. CASE Retire \/ RenameFails \/ RenameUnsynced
    BY <1>10 DEF Retire, RenameFails, RenameUnsynced, Flying
  <1>11. CASE MemtablesChange \/ Shutdown \/ UNCHANGED vars
    BY <1>11 DEF MemtablesChange, Shutdown, vars, Flying
  <1> QED
    BY <1>1, <1>2, <1>3, <1>4, <1>5, <1>6, <1>7, <1>8, <1>9, <1>10, <1>11
       DEF Next, Writer, Take, Dropper

(* Only Publish changes the version, to a longer one.                      *)
LEMMA PublishedStep ==
  ASSUME TypeOK, FlightInv, [Next]_vars
  PROVE  published' = published \/ (Publish /\ published' = published \o inflight.reqs)
  <1> USE DEF callerVars, groupVars, ioVars, dropVars, engineVars
  <1>1. CASE Publish
    BY <1>1 DEF Publish, FlightInv
  <1>2. CASE ~Publish
    <2>1. CASE Io \/ Acknowledge \/ WalFailed
      BY <2>1 DEF Io, AppendGroup, AppendFails, Acknowledge, WalFailed
    <2>2. CASE Take
      BY <2>2 DEF Take, Collect, Refuse, ResolveFilter, ExpireStalled
    <2>3. CASE Prepare \/ PrepareInvalid \/ PrepareFatal \/ PreparePanics
      BY <2>3 DEF Prepare, PrepareInvalid, PrepareFatal, PreparePanics
    <2>4. CASE StartIo \/ StartRefused \/ NothingToStart \/ Stop
      BY <2>4 DEF StartIo, StartRefused, NothingToStart, Stop
    <2>5. CASE \E r \in Req : Check(r) \/ Send(r) \/ SendClosed(r)
      BY <2>5 DEF Check, Send, SendClosed
    <2>6. CASE MarkDropped \/ Dropper
      BY <2>6 DEF MarkDropped, Dropper, Quiesce, Retire, RenameFails, RenameUnsynced
    <2>7. CASE MemtablesChange \/ Shutdown \/ UNCHANGED vars
      BY <2>7 DEF MemtablesChange, Shutdown, vars
    <2> QED
      BY <1>2, <2>1, <2>2, <2>3, <2>4, <2>5, <2>6, <2>7 DEF Next, Writer, Complete
  <1> QED BY <1>1, <1>2

(* Only Acknowledge answers Ok.                                            *)
LEMMA OkStep ==
  ASSUME TypeOK, [Next]_vars, NEW r \in Req, answer'[r] = "ok", answer[r] # "ok"
  PROVE  Acknowledge /\ r \in ToSet(inflight.reqs)
  <1> USE DEF TypeOK, Answered, callerVars, groupVars, ioVars, dropVars, engineVars
  <1>1. CASE Io \/ Publish
    BY <1>1 DEF Io, AppendGroup, AppendFails, Publish
  <1>2. CASE Acknowledge
    BY <1>2 DEF Acknowledge
  <1>3. CASE WalFailed
    BY <1>3 DEF WalFailed
  <1>4. CASE Take
    BY <1>4 DEF Take, Collect, Refuse, ResolveFilter, ExpireStalled
  <1>5. CASE Prepare \/ PrepareInvalid \/ PrepareFatal \/ PreparePanics
    BY <1>5 DEF Prepare, PrepareInvalid, PrepareFatal, PreparePanics
  <1>6. CASE StartIo \/ StartRefused \/ NothingToStart \/ Stop
    BY <1>6 DEF StartIo, StartRefused, NothingToStart, Stop
  <1>7. CASE \E q \in Req : Check(q) \/ Send(q) \/ SendClosed(q)
    BY <1>7 DEF Check, Send, SendClosed
  <1>8. CASE MarkDropped \/ Dropper
    BY <1>8 DEF MarkDropped, Dropper, Quiesce, Retire, RenameFails, RenameUnsynced
  <1>9. CASE MemtablesChange \/ Shutdown \/ UNCHANGED vars
    BY <1>9 DEF MemtablesChange, Shutdown, vars
  <1> QED
    BY <1>1, <1>2, <1>3, <1>4, <1>5, <1>6, <1>7, <1>8, <1>9 DEF Next, Writer, Complete

LEMMA AckStep ==
  ASSUME TypeOK, FlightInv, AckInv, [Next]_vars
  PROVE  AckInv'
  <1>1. ToSet(published) \subseteq ToSet(published')
    <2>1. published \in Seq(Req) /\ inflight.reqs \in Seq(Req)
      BY DEF TypeOK
    <2>2. ToSet(published) \subseteq ToSet(published \o inflight.reqs)
      BY <2>1, ToSetConcat
    <2> QED BY <2>2, PublishedStep
  <1>2. SUFFICES ASSUME NEW r \in Req, answer'[r] = "ok"
                 PROVE  r \in ToSet(published')
    BY DEF AckInv
  <1>3. CASE answer[r] = "ok"
    BY <1>1, <1>3 DEF AckInv
  <1>4. CASE answer[r] # "ok"
    <2>1. Acknowledge /\ r \in ToSet(inflight.reqs)
      BY <1>2, <1>4, OkStep
    <2>2. published = inflight.version /\ ToSet(inflight.reqs) \subseteq ToSet(inflight.version)
      BY <2>1 DEF Acknowledge, FlightInv, Flying
    <2> QED BY <1>1, <2>1, <2>2
  <1> QED BY <1>3, <1>4

-----------------------------------------------------------------------------
(* One place at a time: a request moves along the pipeline, and its answer  *)
(* goes out where it leaves.                                               *)

(* Requests enter and leave the channel.                                   *)
LEMMA PipeTake ==
  ASSUME TypeOK, PipeInv, WriterInv,
         Take \/ Stop \/ \E r \in Req : Check(r) \/ Send(r) \/ SendClosed(r)
  PROVE  PipeInv'
  <1> USE DEF TypeOK, PipeInv, Answered, callerVars, ioVars, dropVars, engineVars
  <1>0. \A r \in ToSet(requests) \cup ToSet(group) \cup ToSet(prepared) \cup ToSet(inflight.reqs) : r \in Req
    BY DEF ToSet
  <1>1. CASE \E r \in Req : Check(r) \/ SendClosed(r)
    <2>1. PICK r \in Req : Check(r) \/ SendClosed(r)
      BY <1>1
    <2>2. \A q \in Req : answer[q] = "queued" => answer'[q] = answer[q]
      BY <2>1 DEF Check, SendClosed
    <2>3. UNCHANGED <<requests, group, prepared, inflight>>
      BY <2>1 DEF Check, SendClosed, groupVars
    <2> QED BY <1>0, <2>2, <2>3
  <1>2. CASE \E r \in Req : Send(r)
    <2>1. PICK r \in Req : Send(r)
      BY <1>2
    <2>2. /\ ToSet(requests') = ToSet(requests) \cup {r}
          /\ r \notin ToSet(requests) => IsInjective(requests')
      BY <2>1, ToSetAppend DEF Send
    <2> QED BY <2>1, <2>2 DEF Send, groupVars
  <1>3. CASE \E n \in 1..MaxGroup : Refuse(n) \/ Collect(n)
    <2>1. PICK n \in 1..MaxGroup : Refuse(n) \/ Collect(n)
      BY <1>3
    <2>2. n \in 1..Len(requests) /\ requests' = SubSeq(requests, n + 1, Len(requests))
      BY <2>1 DEF Refuse, Collect, Collects
    <2> DEFINE taken == SubSeq(requests, 1, n)
    <2>3. /\ IsInjective(taken) /\ IsInjective(requests')
          /\ ToSet(taken) \cup ToSet(requests') \subseteq ToSet(requests)
          /\ ToSet(taken) \cap ToSet(requests') = {}
      BY <2>2, ToSetCut
    <2>4. CASE Refuse(n)
      <3>1. \A q \in Req : q \notin ToSet(taken) => answer'[q] = answer[q]
        BY <2>4 DEF Refuse
      <3>2. UNCHANGED <<group, prepared, inflight>>
        BY <2>4 DEF Refuse, groupVars
      <3> HIDE DEF taken
      <3> QED BY <1>0, <2>3, <3>1, <3>2
    <2>5. CASE Collect(n)
      BY <2>3, <2>5 DEF Collect
    <2> QED BY <2>1, <2>4, <2>5
  <1>4. CASE (\E a \in {"nothing", "internal"} : ResolveFilter(a)) \/ ExpireStalled
    <2>1. /\ requests # << >> /\ requests' = Tail(requests)
          /\ \A r \in Req : r # Head(requests) => answer'[r] = answer[r]
          /\ UNCHANGED <<group, prepared, inflight>>
      BY <1>4 DEF ResolveFilter, ExpireStalled, Collects, groupVars
    <2>2. /\ IsInjective(Tail(requests))
          /\ ToSet(Tail(requests)) \subseteq ToSet(requests) \ {Head(requests)}
          /\ Head(requests) \in ToSet(requests)
      BY <2>1, ToSetHeadTail
    <2> QED BY <1>0, <2>1, <2>2
  <1>5. CASE Stop
    <2>1. /\ requests' = << >> /\ UNCHANGED <<group, prepared, inflight>>
          /\ \A q \in Req : q \notin ToSet(requests) => answer'[q] = answer[q]
      BY <1>5 DEF Stop
    <2> QED BY <1>0, <2>1, ToSetEmpty
  <1> QED BY <1>1, <1>2, <1>3, <1>4, <1>5 DEF Take

(* Requests are prepared, started and completed.                           *)
LEMMA PipeMove ==
  ASSUME TypeOK, PipeInv, FlightInv,
         \/ Prepare \/ PrepareInvalid \/ PrepareFatal \/ PreparePanics
         \/ StartIo \/ StartRefused \/ NothingToStart \/ Complete \/ Io
  PROVE  PipeInv'
  <1> USE DEF TypeOK, PipeInv, Answered, callerVars, dropVars, engineVars
  <1>0. \A r \in ToSet(requests) \cup ToSet(group) \cup ToSet(prepared) \cup ToSet(inflight.reqs) : r \in Req
    BY DEF ToSet
  <1>1. CASE Prepare \/ PrepareInvalid
    <2>1. /\ group # << >> /\ group' = Tail(group)
          /\ \A r \in Req : r # Head(group) => answer'[r] = answer[r]
          /\ UNCHANGED <<requests, inflight>>
      BY <1>1 DEF Prepare, PrepareInvalid, ioVars
    <2>2. /\ IsInjective(Tail(group)) /\ Head(group) \in ToSet(group)
          /\ ToSet(Tail(group)) \subseteq ToSet(group) \ {Head(group)}
      BY <2>1, ToSetHeadTail
    <2>3. CASE Prepare
      <3>1. ToSet(prepared') = ToSet(prepared) \cup {Head(group)} /\ answer' = answer
        BY <1>0, <2>2, <2>3, ToSetAppend DEF Prepare
      <3> QED BY <2>1, <2>2, <3>1
    <2>4. CASE PrepareInvalid
      BY <1>0, <2>1, <2>2, <2>4 DEF PrepareInvalid
    <2> QED BY <1>1, <2>3, <2>4
  <1>2. CASE PrepareFatal \/ PreparePanics
    <2>1. /\ group' = << >> /\ prepared' = << >> /\ UNCHANGED <<requests, inflight>>
      BY <1>2 DEF PrepareFatal, PreparePanics
    <2>2. \A r \in ToSet(requests) \cup ToSet(inflight.reqs) : answer'[r] = answer[r]
      <3>1. CASE PrepareFatal
        BY <1>0, <3>1 DEF PrepareFatal
      <3>2. CASE PreparePanics
        <4>1. \A r \in ToSet(prepared \o group) : r \in ToSet(prepared) \cup ToSet(group)
          BY ToSetJoin
        <4> QED BY <1>0, <3>2, <4>1 DEF PreparePanics
      <3> QED BY <1>2, <3>1, <3>2
    <2> QED BY <2>1, <2>2, ToSetEmpty
  <1>3. CASE StartIo
    <2>1. /\ inflight.reqs = << >> /\ inflight'.reqs = prepared /\ prepared' = << >>
          /\ UNCHANGED <<answer, requests, group>>
      BY <1>3 DEF StartIo, CanStart, NoFlight
    <2> QED BY <2>1, ToSetEmpty
  <1>4. CASE StartRefused
    <2>1. /\ prepared' = << >> /\ UNCHANGED <<requests, group, inflight>>
          /\ \A r \in Req : r \notin ToSet(prepared) => answer'[r] = answer[r]
      BY <1>4 DEF StartRefused, ioVars
    <2> QED BY <1>0, <2>1, ToSetEmpty
  <1>5. CASE NothingToStart \/ Publish \/ Io
    <2>1. UNCHANGED <<answer, requests, group, prepared>> /\ inflight'.reqs = inflight.reqs
      BY <1>5 DEF NothingToStart, Publish, Io, AppendGroup, AppendFails, ioVars, groupVars
    <2> QED BY <2>1
  <1>6. CASE Acknowledge \/ WalFailed
    <2>1. /\ inflight'.reqs = << >> /\ UNCHANGED <<requests, group, prepared>>
          /\ \A r \in Req : r \notin ToSet(inflight.reqs) => answer'[r] = answer[r]
      BY <1>6 DEF Acknowledge, WalFailed, NoFlight, groupVars
    <2> QED BY <1>0, <2>1, ToSetEmpty
  <1> QED BY <1>1, <1>2, <1>3, <1>4, <1>5, <1>6 DEF Complete

LEMMA PipeStep ==
  ASSUME TypeOK, PipeInv, FlightInv, WriterInv, [Next]_vars
  PROVE  PipeInv'
  <1>1. CASE MarkDropped \/ Dropper \/ MemtablesChange \/ Shutdown \/ UNCHANGED vars
    BY <1>1 DEF MarkDropped, Dropper, Quiesce, Retire, RenameFails, RenameUnsynced, MemtablesChange,
       Shutdown, vars, callerVars, groupVars, ioVars, PipeInv
  <1> QED BY <1>1, PipeTake, PipeMove DEF Next, Writer

(* An answer that is final for good or leaves the outcome open stays as it  *)
(* is, and nobody but the request in flight is affected by its end.         *)
LEMMA LoggedStep ==
  ASSUME TypeOK, PipeInv, FlightInv, WriterInv, LoggedInv, [Next]_vars
  PROVE  LoggedInv'
  <1> USE DEF TypeOK
  <1> DEFINE Past == {"ok", "published", "unknown", "lost"}
  <1>1. CASE Io
    <2>1. /\ inflight.io = "running" /\ answer' = answer /\ inflight'.reqs = inflight.reqs
          /\ \/ durable' = durable
             \/ durable' = durable \o inflight.reqs /\ inflight'.io \in Past
      BY <1>1 DEF Io, AppendGroup, AppendFails, callerVars, Failures
    <2>2. \A r \in ToSet(durable) : answer[r] \in {"ok", "unknown"}
      BY <2>1 DEF LoggedInv
    <2>3. \A r \in ToSet(durable \o inflight.reqs) : r \in ToSet(durable) \cup ToSet(inflight.reqs)
      BY ToSetJoin
    <2> QED BY <2>1, <2>2, <2>3 DEF LoggedInv
  <1>2. CASE Complete
    <2>1. CASE Publish
      BY <2>1 DEF Publish, LoggedInv, callerVars
    <2>2. CASE Acknowledge
      <3>1. ASSUME NEW r \in ToSet(durable) PROVE answer'[r] \in {"ok", "unknown"}
        <4>1. r \in Req
          BY DEF ToSet
        <4>2. r \in ToSet(inflight.reqs) => answer'[r] = "ok"
          BY <2>2, <4>1 DEF Acknowledge, Answered
        <4>3. r \notin ToSet(inflight.reqs) => answer'[r] = answer[r]
          BY <2>2, <4>1 DEF Acknowledge, Answered
        <4> QED BY <4>2, <4>3 DEF LoggedInv
      <3> QED BY <2>2, <3>1 DEF Acknowledge, LoggedInv
    <2>3. CASE WalFailed
      <3>1. ASSUME NEW r \in ToSet(durable) PROVE answer'[r] \in {"ok", "unknown"}
        <4>1. r \in Req
          BY DEF ToSet
        <4>2. CASE answer[r] \in {"ok", "unknown"}
          <5>1. r \notin ToSet(inflight.reqs)
            BY <4>2 DEF PipeInv
          <5> QED BY <2>3, <4>1, <4>2, <5>1 DEF WalFailed, Answered
        <4>3. CASE r \in ToSet(inflight.reqs) /\ inflight.io \in Past
          BY <2>3, <4>1, <4>3 DEF WalFailed, Answered, Failures
        <4> QED BY <4>2, <4>3 DEF LoggedInv
      <3> QED BY <2>3, <3>1 DEF WalFailed, LoggedInv
    <2> QED BY <1>2, <2>1, <2>2, <2>3 DEF Complete
  <1>3. CASE ~Io /\ ~Complete
    <2>1. durable' = durable
      BY <1>3 DEF Next, Writer, Take, Collect, Refuse, ResolveFilter, ExpireStalled, Prepare,
         PrepareInvalid, PrepareFatal, PreparePanics, StartIo, StartRefused, NothingToStart, Stop,
         Check, Send, SendClosed, Dropper, MarkDropped, MemtablesChange, Shutdown, Quiesce, Retire,
         RenameFails, RenameUnsynced, vars, callerVars, groupVars, ioVars
    <2>2. inflight' = inflight \/ inflight.io = "none"
      BY <1>3 DEF Next, Writer, Take, Collect, Refuse, ResolveFilter, ExpireStalled, Prepare,
         PrepareInvalid, PrepareFatal, PreparePanics, StartIo, CanStart, NoFlight, StartRefused, NothingToStart,
         Stop, Check, Send, SendClosed, Dropper, MarkDropped, MemtablesChange, Shutdown, Quiesce, Retire,
         RenameFails, RenameUnsynced, vars, callerVars, groupVars, ioVars
    <2>3. ASSUME NEW r \in Req, answer[r] \in {"ok", "unknown"} PROVE answer'[r] = answer[r]
      <3>1. r \notin ToSet(requests) \cup ToSet(group) \cup ToSet(prepared)
        BY <2>3 DEF PipeInv
      <3>2. CASE Take \/ Stop
        <4>1. \A n \in 1..Len(requests) : ToSet(SubSeq(requests, 1, n)) \subseteq ToSet(requests)
          BY ToSetCut DEF PipeInv
        <4>2. requests # << >> => Head(requests) \in ToSet(requests)
          BY ToSetHeadTail DEF PipeInv
        <4>3. CASE \E n \in 1..MaxGroup : Refuse(n)
          BY <2>3, <3>1, <4>1, <4>3 DEF Refuse, Collects, Answered
        <4>4. CASE \E n \in 1..MaxGroup : Collect(n)
          BY <2>3, <4>4 DEF Collect
        <4>5. CASE \E a \in {"nothing", "internal"} : ResolveFilter(a)
          BY <2>3, <3>1, <4>2, <4>5 DEF ResolveFilter, Collects
        <4>6. CASE ExpireStalled
          BY <2>3, <3>1, <4>2, <4>6 DEF ExpireStalled
        <4>7. CASE Stop
          BY <2>3, <3>1, <4>7 DEF Stop, Answered
        <4> QED BY <3>2, <4>3, <4>4, <4>5, <4>6, <4>7 DEF Take
      <3>3. CASE Prepare \/ PrepareInvalid \/ PrepareFatal \/ PreparePanics
        <4>1. group # << >> => Head(group) \in ToSet(group)
          BY ToSetHeadTail DEF PipeInv
        <4>2. r \notin ToSet(prepared \o group)
          BY <3>1, ToSetJoin
        <4> QED BY <2>3, <3>1, <3>3, <4>1, <4>2 DEF Prepare, PrepareInvalid, PrepareFatal,
               PreparePanics, Answered, callerVars
      <3>4. CASE StartIo \/ StartRefused \/ NothingToStart
        BY <2>3, <3>1, <3>4 DEF StartIo, StartRefused, NothingToStart, Answered, callerVars
      <3>5. CASE \E q \in Req : Check(q) \/ Send(q) \/ SendClosed(q)
        BY <2>3, <3>5 DEF Check, Send, SendClosed
      <3>6. CASE MarkDropped \/ Dropper \/ MemtablesChange \/ Shutdown \/ UNCHANGED vars
        BY <3>6 DEF MarkDropped, Dropper, Quiesce, Retire, RenameFails, RenameUnsynced,
           MemtablesChange, Shutdown, vars, callerVars
      <3> QED BY <1>3, <3>2, <3>3, <3>4, <3>5, <3>6 DEF Next, Writer
    <2>4. \A r \in ToSet(durable) : r \in Req
      BY DEF ToSet
    <2>5. ASSUME NEW r \in ToSet(durable)
          PROVE  \/ answer'[r] \in {"ok", "unknown"}
                 \/ r \in ToSet(inflight'.reqs) /\ inflight'.io \in Past
      BY <2>2, <2>3, <2>4 DEF LoggedInv
    <2> QED BY <2>1, <2>5 DEF LoggedInv
  <1> QED BY <1>1, <1>2, <1>3

-----------------------------------------------------------------------------
(* The theorems.                                                           *)

LEMMA IInvInit == Init => IInv
  <1> SUFFICES ASSUME Init PROVE IInv
    OBVIOUS
  <1> USE DEF Init
  <1>1. TypeOK
    <2>1. NoFlight \in [reqs : Seq(Req), version : Seq(Req), first : Nat,
                        io : Failures \cup {"none", "running", "ok", "published"}]
      BY DEF NoFlight
    <2>2. before \in [private : Seq(Req), next : Nat] /\ drops \in 0..MaxDrops
      BY BoundsAssumption
    <2>3. answer \in [Req -> Final \cup {"new", "checked", "queued"}]
      OBVIOUS
    <2> QED BY <2>1, <2>2, <2>3 DEF TypeOK
  <1>2. IsPrefix(published, durable)
    BY <1>1, PrefixConcat DEF TypeOK
  <1>3. FlightInv /\ LogInv
    BY <1>2 DEF FlightInv, LogInv, Flying, NoFlight
  <1>4. WriterInv /\ DropInv /\ AckInv
    BY DEF WriterInv, DropInv, AckInv, Base, Flying, NoFlight
  <1>5. PipeInv /\ LoggedInv
    BY ToSetEmpty DEF PipeInv, LoggedInv, NoFlight
  <1> QED BY <1>1, <1>3, <1>4, <1>5 DEF IInv

LEMMA IInvStep == IInv /\ [Next]_vars => IInv'
  <1> SUFFICES ASSUME IInv, [Next]_vars PROVE IInv'
    OBVIOUS
  <1>1. TypeOK'
    BY TypeStep DEF IInv
  <1>2. ChainInv'
    BY <1>1, ChainStep DEF IInv, ChainInv
  <1>3. DropInv' /\ AckInv'
    BY DropStep, AckStep DEF IInv
  <1>4. PipeInv' /\ LoggedInv'
    BY PipeStep, LoggedStep DEF IInv
  <1> QED BY <1>1, <1>2, <1>3, <1>4 DEF IInv, ChainInv

(* The inductive invariant holds in every reachable state of the pipeline.  *)
THEOREM Invariance == Spec => []IInv
  BY IInvInit, IInvStep, PTL DEF Spec

(* The variables of the pipeline always have their types: positions in the  *)
(* log stay natural numbers and nothing but a request enters a sequence.    *)
THEOREM TypeCorrect == Spec => []TypeOK
  <1>1. IInv => TypeOK
    BY DEF IInv
  <1> QED BY <1>1, Invariance, PTL

(* What readers see is always in the log (I14): whatever interleaving of    *)
(* callers, I/O failures, a drop and a shutdown, for any number of requests.*)
THEOREM NothingShownIsLost == Spec => []PublishedDurable
  <1>1. IInv => PublishedDurable
    BY DEF IInv, LogInv, PublishedDurable
  <1> QED BY <1>1, Invariance, PTL

(* A write answered Ok is in the published version and in the log (I1, I2). *)
THEOREM AcksAreDurable == Spec => []AckedVisible
  <1>1. IInv => AckedVisible
    <2> SUFFICES ASSUME IInv, NEW r \in Req, answer[r] = "ok"
                 PROVE  r \in ToSet(published) \cap ToSet(durable)
      BY DEF AckedVisible
    <2>1. ToSet(published) \subseteq ToSet(durable)
      BY ToSetPrefix DEF IInv, LogInv, TypeOK
    <2> QED BY <2>1 DEF IInv, AckInv
  <1> QED BY <1>1, Invariance, PTL

(* A write that was refused, found invalid or answered NotApplied is not in  *)
(* the log, so that its retry cannot apply it twice: the promise fail_all    *)
(* makes for the group prepared behind a failed one.                        *)
THEOREM RefusalsLeaveNoTrace == Spec => []RefusedNotLogged
  <1>1. IInv => RefusedNotLogged
    BY DEF IInv, PipeInv, LoggedInv, RefusedNotLogged
  <1> QED BY <1>1, Invariance, PTL

(* A group always reaches the log at the number the log expects next.       *)
THEOREM GroupsFit == Spec => []GroupFitsLog
  <1>1. IInv => GroupFitsLog
    BY DEF IInv, FlightInv, GroupFitsLog
  <1> QED BY <1>1, Invariance, PTL

(* A drained, unpoisoned writer is exactly where the log is.                *)
THEOREM DrainedWriterAgrees == Spec => []DrainedAgrees
  <1>1. IInv => DrainedAgrees
    BY DEF IInv, LogInv, WriterInv, Base, Flying, NoFlight, DrainedAgrees
  <1> QED BY <1>1, Invariance, PTL

(* No step takes an operation out of the version readers see.               *)
THEOREM VersionsOnlyGrow == Spec => PublishedExtends
  <1>1. IInv /\ [Next]_vars => [IsPrefix(published, published')]_published
    <2> SUFFICES ASSUME IInv, [Next]_vars
                 PROVE  IsPrefix(published, published')
      OBVIOUS
    <2>1. published \in Seq(Req) /\ inflight.reqs \in Seq(Req)
      BY DEF IInv, TypeOK
    <2>2. IsPrefix(published, published) /\ IsPrefix(published, published \o inflight.reqs)
      BY <2>1, PrefixConcat, Zenon
    <2> QED BY <2>2, PublishedStep DEF IInv
  <1> QED BY <1>1, Invariance, PTL DEF Spec, PublishedExtends

(* Nothing is written to the log while a drop retires the directory, nor    *)
(* after the drop committed.                                                *)
THEOREM DropsAreQuiet == Spec => QuiescedIsQuiet
  <1>1. IInv /\ [Next]_vars
          => [dropper = "retiring" \/ dir = "removed" => durable' = durable]_vars
    <2> SUFFICES ASSUME IInv, [Next]_vars, dropper = "retiring" \/ dir = "removed"
                 PROVE  durable' = durable
      OBVIOUS
    <2> USE DEF callerVars, groupVars, ioVars, dropVars, engineVars
    <2>1. ~Io
      BY DEF IInv, DropInv, Flying, Io, AppendGroup, AppendFails
    <2>2. CASE Writer
      BY <2>2 DEF Writer, Take, Collect, Refuse, ResolveFilter, ExpireStalled, Prepare,
         PrepareInvalid, PrepareFatal, PreparePanics, StartIo, StartRefused,
         NothingToStart, Complete, Publish, Acknowledge, WalFailed, Stop
    <2>3. CASE (\E r \in Req : Check(r) \/ Send(r) \/ SendClosed(r)) \/ UNCHANGED vars
      BY <2>3 DEF Check, Send, SendClosed, vars
    <2>4. CASE Dropper \/ MarkDropped \/ MemtablesChange \/ Shutdown
      BY <2>4 DEF Dropper, MarkDropped, MemtablesChange, Shutdown, Quiesce, Retire,
         RenameFails, RenameUnsynced
    <2> QED BY <2>1, <2>2, <2>3, <2>4 DEF Next
  <1> QED BY <1>1, Invariance, PTL DEF Spec, QuiescedIsQuiet
=============================================================================
