--------------------------- MODULE Retries_proofs ---------------------------
(***************************************************************************)
(* Proofs about what is tried again: writes under an Idempotency-Key       *)
(* (IdempotentWrites), for any number of requests and bodies, whether      *)
(* handlers are slow, processes die and records expire or not; and pushes  *)
(* (PushDelivery), for any number of pushes, telephones, browsers and      *)
(* workers, any limit of retries and any number of mishaps.                *)
(***************************************************************************)
EXTENDS MCRetries, FiniteSetTheorems, TLAPS

-----------------------------------------------------------------------------
(* Writes: the inductive invariant *)

\* Requests that were given the key and have not given it back.
Claimed == {p \in Requests : pc[p] \in Live \cup {"completed", "failed", "dead"}}

\* No more of them than takeovers, recyclings and purges have let through, and
\* the one the record itself is worth.
ClaimsAccounted ==
    /\ IsFiniteSet(Claimed)
    /\ Cardinality(Claimed) <= reclaims + (IF record = None THEN 0 ELSE 1)

\* Who has written was given the key before, and only then stores a response.
WritersClaimed ==
    /\ \A p \in writes : pc[p] \in {"written", "completed", "dead"}
    /\ \A p \in Requests : pc[p] = "written" => p \in writes

\* No primary key is given twice.
KeysAreFresh ==
    /\ \A p \in Requests : recordId[p] <= lastPk
    /\ record # None => record.pk <= lastPk

\* Whoever still works under a record works on the body the record is for, or
\* had it recycled under its hands: any other late completion stores the right
\* response.
LiveMatchRecord ==
    record # None =>
        \A p \in Requests :
            Handling(p) => payload[p] = record.payload \/ p \in outlived

\* A stored response is that of a write of the record's body, but for those.
ResponseIsOfWrite ==
    record # None /\ record.response # None =>
        /\ record.response \in writes
        /\ \/ payload[record.response] = record.payload
           \/ record.response \in outlived

IInv ==
    /\ TypeOK
    /\ ClaimsAccounted
    /\ WritersClaimed
    /\ KeysAreFresh
    /\ LiveMatchRecord
    /\ ResponseIsOfWrite
    /\ ReplayIsFaithful

LEMMA InitInv == ASSUME Init PROVE IInv
  <1>1. TypeOK
    BY DEF Init, TypeOK, States
  <1>2. Claimed = {} /\ record = None /\ reclaims = 0
    BY DEF Init, Claimed, Live
  <1>3. ClaimsAccounted
    BY <1>2, FS_EmptySet DEF ClaimsAccounted
  <1>4. WritersClaimed /\ KeysAreFresh /\ LiveMatchRecord
    BY DEF Init, WritersClaimed, KeysAreFresh, LiveMatchRecord
  <1>5. ResponseIsOfWrite /\ ReplayIsFaithful
    BY DEF Init, ResponseIsOfWrite, ReplayIsFaithful
  <1> QED  BY <1>1, <1>3, <1>4, <1>5 DEF IInv

\* A record that is claimed again keeps its primary key.
LEMMA RowKept ==
    ASSUME TypeOK, NEW p \in Requests, Recycle(p) \/ TakeOver(p)
    PROVE  /\ record \in Record /\ record # None
           /\ record' \in Record /\ record'.pk = record.pk
  <1> USE DEF TypeOK
  <1>1. CASE Recycle(p)
    BY <1>1 DEF Recycle, Reclaim, Locks, Record
  <1>2. CASE TakeOver(p)
    BY <1>2 DEF TakeOver, Reclaim, Matches, Locks, Record
  <1> QED  BY <1>1, <1>2

LEMMA TypeStep == ASSUME TypeOK, [Next]_vars PROVE TypeOK'
  <1> USE DEF TypeOK, States, Goto
  <1>1. ASSUME NEW p \in Requests, Insert(p) PROVE TypeOK'
    <2>1. record' \in Record
      BY <1>1 DEF Insert, Record
    <2> QED  BY <1>1, <2>1 DEF Insert
  <1>2. ASSUME NEW p \in Requests, Collide(p) \/ FindNothing(p) \/ Reuse(p) \/ Refuse(p)
        PROVE  TypeOK'
    BY <1>2 DEF Collide, FindNothing, Reuse, Refuse
  <1>3. ASSUME NEW p \in Requests, Replay(p) PROVE TypeOK'
    BY <1>3 DEF Replay, Record, Matches, Locks
  <1>4. ASSUME NEW p \in Requests, Recycle(p) \/ TakeOver(p) PROVE TypeOK'
    <2>1. record \in Record /\ record' \in Record
      BY <1>4, RowKept
    <2>2. record.pk \in Nat
      BY <2>1 DEF Record
    <2> QED  BY <1>4, <2>1, <2>2 DEF Recycle, TakeOver, Reclaim
  <1>5. ASSUME NEW p \in Requests, Write(p) \/ Reject(p) \/ Fail(p) \/ Die(p)
        PROVE  TypeOK'
    BY <1>5 DEF Write, Reject, Fail, Die
  <1>6. ASSUME NEW p \in Requests, Release(p) PROVE TypeOK'
    BY <1>6 DEF Release
  <1>7. ASSUME NEW p \in Requests, Complete(p) PROVE TypeOK'
    <2>1. record' \in Record \cup {None}
      BY <1>7 DEF Complete, Record
    <2> QED  BY <1>7, <2>1 DEF Complete
  <1>8. CASE GrowOld \/ Expire
    <2>1. record' \in Record
      BY <1>8 DEF GrowOld, Expire, Record
    <2> QED  BY <1>8, <2>1 DEF GrowOld, Expire
  <1>9. CASE PurgeRead
    BY <1>9 DEF PurgeRead, Record
  <1>10. CASE PurgeDelete
    BY <1>10 DEF PurgeDelete
  <1>11. CASE UNCHANGED vars
    BY <1>11 DEF vars
  <1> QED
    BY <1>1, <1>2, <1>3, <1>4, <1>5, <1>6, <1>7, <1>8, <1>9, <1>10, <1>11
       DEF Next, Begin, Run

\* One more claim is one more element, unless it was one already.
LEMMA OneMore ==
    ASSUME NEW S, NEW T, NEW p, IsFiniteSet(S), T \subseteq S \cup {p}
    PROVE  IsFiniteSet(T) /\ Cardinality(T) <= Cardinality(S) + 1
  <1>1. /\ IsFiniteSet(S \cup {p})
        /\ Cardinality(S \cup {p}) <= Cardinality(S) + 1
    <2>1. Cardinality(S) \in Nat
      BY FS_CardinalityType
    <2>2. /\ IsFiniteSet(S \cup {p})
          /\ \/ Cardinality(S \cup {p}) = Cardinality(S)
             \/ Cardinality(S \cup {p}) = Cardinality(S) + 1
      BY FS_AddElement
    <2> QED  BY <2>1, <2>2
  <1>2. IsFiniteSet(T) /\ Cardinality(T) <= Cardinality(S \cup {p})
    BY <1>1, FS_Subset
  <1> QED  BY <1>1, <1>2, FS_CardinalityType

\* The claims are accounted for: a release gives one back with the record.
LEMMA ClaimsStep ==
    ASSUME TypeOK, ClaimsAccounted, [Next]_vars PROVE ClaimsAccounted'
  <1> USE DEF TypeOK, Goto, States, Live
  <1>0. Cardinality(Claimed) \in Nat /\ IsFiniteSet(Claimed)
    BY FS_CardinalityType DEF ClaimsAccounted
  <1>1. ASSUME Claimed' \subseteq Claimed,
               reclaims' \in Nat,
               \/ reclaims' = reclaims /\ (record' = None => record = None)
               \/ reclaims' = reclaims + 1
        PROVE  ClaimsAccounted'
    <2>1. IsFiniteSet(Claimed') /\ Cardinality(Claimed') <= Cardinality(Claimed)
          /\ Cardinality(Claimed') \in Nat
      BY <1>0, <1>1, FS_Subset, FS_CardinalityType
    <2> QED  BY <1>0, <1>1, <2>1 DEF ClaimsAccounted
  <1>2. ASSUME NEW p \in Requests, Insert(p) PROVE ClaimsAccounted'
    <2>1. Claimed' \subseteq Claimed \cup {p}
      BY <1>2 DEF Insert, Claimed
    <2>2. IsFiniteSet(Claimed') /\ Cardinality(Claimed') <= Cardinality(Claimed) + 1
          /\ Cardinality(Claimed') \in Nat
      BY <1>0, <2>1, OneMore, FS_CardinalityType
    <2>3. record' \in Record
      BY <1>2 DEF Insert, Record
    <2>4. record' # None
      BY <2>3, IdempotencyAssumption
    <2> QED  BY <1>0, <1>2, <2>2, <2>4 DEF Insert, ClaimsAccounted
  <1>3. ASSUME NEW p \in Requests, Recycle(p) \/ TakeOver(p) PROVE ClaimsAccounted'
    <2>1. Claimed' \subseteq Claimed \cup {p}
      BY <1>3 DEF Recycle, TakeOver, Reclaim, Claimed
    <2>2. IsFiniteSet(Claimed') /\ Cardinality(Claimed') <= Cardinality(Claimed) + 1
          /\ Cardinality(Claimed') \in Nat
      BY <1>0, <2>1, OneMore, FS_CardinalityType
    <2>3. record \in Record /\ record' \in Record /\ reclaims' = reclaims + 1
      BY <1>3, RowKept DEF Recycle, TakeOver, Reclaim
    <2> QED  BY <1>0, <2>2, <2>3, IdempotencyAssumption DEF ClaimsAccounted
  <1>4. ASSUME NEW p \in Requests, Release(p) PROVE ClaimsAccounted'
    <2>1. Claimed' = Claimed \ {p} /\ p \in Claimed /\ reclaims' = reclaims
      BY <1>4 DEF Release, Claimed
    <2>2. IsFiniteSet(Claimed') /\ Cardinality(Claimed') = Cardinality(Claimed) - 1
      BY <1>0, <2>1, FS_RemoveElement
    <2> QED  BY <1>0, <2>1, <2>2 DEF ClaimsAccounted
  <1>5. ASSUME NEW p \in Requests,
               \/ Collide(p) \/ FindNothing(p) \/ Reuse(p) \/ Replay(p) \/ Refuse(p)
               \/ Write(p) \/ Reject(p) \/ Fail(p) \/ Die(p)
        PROVE  ClaimsAccounted'
    <2>1. Claimed' \subseteq Claimed
      BY <1>5 DEF Collide, FindNothing, Reuse, Replay, Refuse, Matches, Locks, Write,
                  Reject, Fail, Die, Claimed
    <2>2. UNCHANGED <<record, reclaims>>
      BY <1>5 DEF Collide, FindNothing, Reuse, Replay, Refuse, Write, Reject, Fail, Die
    <2> QED  BY <1>1, <2>1, <2>2
  <1>6. ASSUME NEW p \in Requests, Complete(p) PROVE ClaimsAccounted'
    <2>1. Claimed' \subseteq Claimed /\ reclaims' = reclaims
      BY <1>6 DEF Complete, Claimed
    <2>2. record' = None => record = None
      BY <1>6, IdempotencyAssumption DEF Complete, Record
    <2> QED  BY <1>1, <2>1, <2>2
  <1>7. CASE GrowOld \/ Expire
    <2>1. Claimed' = Claimed /\ reclaims' = reclaims
      BY <1>7 DEF GrowOld, Expire, Claimed
    <2>2. record # None
      BY <1>7 DEF GrowOld, Expire
    <2>3. record' \in Record
      BY <1>7 DEF GrowOld, Expire, Record
    <2> QED  BY <1>1, <2>1, <2>3, IdempotencyAssumption
  <1>8. CASE PurgeRead \/ UNCHANGED vars
    <2>1. Claimed' = Claimed /\ UNCHANGED <<record, reclaims>>
      BY <1>8 DEF PurgeRead, vars, Claimed
    <2> QED  BY <1>1, <2>1
  <1>9. CASE PurgeDelete
    <2>1. Claimed' = Claimed
      BY <1>9 DEF PurgeDelete, Claimed
    <2> QED  BY <1>1, <1>9, <2>1 DEF PurgeDelete
  <1> QED
    BY <1>2, <1>3, <1>4, <1>5, <1>6, <1>7, <1>8, <1>9 DEF Next, Begin, Run

\* Whoever writes was running, and its write stays.
LEMMA WritersStep ==
    ASSUME TypeOK, WritersClaimed, [Next]_vars PROVE WritersClaimed'
  <1> USE DEF TypeOK, WritersClaimed, Goto, States, Live
  <1>1. ASSUME NEW p \in Requests, Begin(p) PROVE WritersClaimed'
    BY <1>1 DEF Begin, Insert, Collide, FindNothing, Recycle, Reuse, Replay, TakeOver,
                Refuse, Reclaim, Matches, Locks
  <1>2. ASSUME NEW p \in Requests, Run(p) \/ Die(p) PROVE WritersClaimed'
    BY <1>2 DEF Run, Write, Reject, Fail, Release, Complete, Die
  <1>3. CASE GrowOld \/ Expire \/ PurgeRead \/ PurgeDelete \/ UNCHANGED vars
    BY <1>3 DEF GrowOld, Expire, PurgeRead, PurgeDelete, vars
  <1> QED  BY <1>1, <1>2, <1>3 DEF Next

\* Keys are given in their order.
LEMMA KeysStep ==
    ASSUME TypeOK, KeysAreFresh, [Next]_vars PROVE KeysAreFresh'
  <1> USE DEF TypeOK, KeysAreFresh
  <1>1. ASSUME NEW p \in Requests, Insert(p) PROVE KeysAreFresh'
    BY <1>1 DEF Insert
  <1>2. ASSUME NEW p \in Requests, Recycle(p) \/ TakeOver(p) PROVE KeysAreFresh'
    <2>1. record \in Record /\ record' \in Record /\ record'.pk = record.pk
          /\ recordId' = [recordId EXCEPT ![p] = record.pk] /\ lastPk' = lastPk
          /\ record # None
      BY <1>2, RowKept DEF Recycle, TakeOver, Reclaim
    <2> QED  BY <2>1
  <1>3. ASSUME lastPk' = lastPk, recordId' = recordId,
               \/ record' = None \/ record' = record
               \/ record # None /\ record'.pk = record.pk
        PROVE  KeysAreFresh'
    BY <1>3
  <1>4. ASSUME NEW p \in Requests,
               \/ Collide(p) \/ FindNothing(p) \/ Reuse(p) \/ Replay(p) \/ Refuse(p)
               \/ Write(p) \/ Reject(p) \/ Fail(p) \/ Die(p) \/ Release(p)
        PROVE  KeysAreFresh'
    BY <1>3, <1>4 DEF Collide, FindNothing, Reuse, Replay, Refuse, Write, Reject, Fail,
                      Die, Release
  <1>5. ASSUME NEW p \in Requests, Complete(p) PROVE KeysAreFresh'
    BY <1>3, <1>5 DEF Complete, Record
  <1>6. CASE GrowOld \/ Expire
    BY <1>3, <1>6 DEF GrowOld, Expire, Record
  <1>7. CASE PurgeRead \/ PurgeDelete \/ UNCHANGED vars
    BY <1>3, <1>7 DEF PurgeRead, PurgeDelete, vars
  <1> QED
    BY <1>1, <1>2, <1>4, <1>5, <1>6, <1>7 DEF Next, Begin, Run

\* Whoever is at work when a record is claimed for another body is noted.
LEMMA LiveStep ==
    ASSUME TypeOK, KeysAreFresh, LiveMatchRecord, [Next]_vars PROVE LiveMatchRecord'
  <1> USE DEF TypeOK, Goto, States, Live, Handling
  <1>1. ASSUME NEW p \in Requests, Insert(p) PROVE LiveMatchRecord'
    <2>1. /\ record'.pk = lastPk + 1 /\ record'.payload = payload[p]
          /\ payload' = payload
          /\ \A q \in Requests : q # p => recordId'[q] = recordId[q]
      BY <1>1 DEF Insert
    <2>2. \A q \in Requests : q # p => recordId'[q] # record'.pk
      BY <2>1 DEF KeysAreFresh
    <2> QED  BY <2>1, <2>2 DEF LiveMatchRecord
  <1>2. ASSUME NEW p \in Requests, Recycle(p) PROVE LiveMatchRecord'
    <2>1. /\ recordId' = [recordId EXCEPT ![p] = record.pk]
          /\ pc' = [pc EXCEPT ![p] = "running"] /\ payload' = payload
          /\ outlived' = outlived \cup {q \in Requests : Handling(q)}
      BY <1>2 DEF Recycle, Reclaim
    <2>2. record'.pk = record.pk /\ record'.payload = payload[p]
      BY <1>2 DEF Recycle, Reclaim, Locks, Record
    <2> QED  BY <2>1, <2>2 DEF LiveMatchRecord
  <1>3. ASSUME NEW p \in Requests, TakeOver(p) PROVE LiveMatchRecord'
    <2>1. /\ record # None /\ record.payload = payload[p]
          /\ recordId' = [recordId EXCEPT ![p] = record.pk]
          /\ pc' = [pc EXCEPT ![p] = "running"]
          /\ payload' = payload /\ outlived' = outlived
      BY <1>3 DEF TakeOver, Reclaim, Matches, Locks
    <2>2. record'.pk = record.pk /\ record'.payload = record.payload
      BY <1>3 DEF TakeOver, Reclaim, Matches, Locks, Record
    <2> QED  BY <2>1, <2>2 DEF LiveMatchRecord
  <1>4. ASSUME UNCHANGED <<payload, recordId, outlived>>,
               \A q \in Requests : pc'[q] \in Live => pc[q] \in Live,
               \/ record' = None \/ record' = record
               \/ /\ record # None /\ record'.pk = record.pk
                  /\ record'.payload = record.payload
        PROVE  LiveMatchRecord'
    BY <1>4 DEF LiveMatchRecord
  <1>5. ASSUME NEW p \in Requests,
               \/ Collide(p) \/ FindNothing(p) \/ Reuse(p) \/ Replay(p) \/ Refuse(p)
        PROVE  LiveMatchRecord'
    BY <1>4, <1>5 DEF Collide, FindNothing, Reuse, Replay, Refuse
  <1>6. ASSUME NEW p \in Requests,
               \/ Write(p) \/ Reject(p) \/ Fail(p) \/ Die(p) \/ Release(p)
        PROVE  LiveMatchRecord'
    BY <1>4, <1>6 DEF Write, Reject, Fail, Die, Release
  <1>7. ASSUME NEW p \in Requests, Complete(p) PROVE LiveMatchRecord'
    <2>1. \/ record' = record
          \/ /\ record # None /\ record'.pk = record.pk
             /\ record'.payload = record.payload
      BY <1>7 DEF Complete, Record
    <2> QED  BY <1>4, <1>7, <2>1 DEF Complete
  <1>8. CASE GrowOld \/ Expire
    BY <1>4, <1>8 DEF GrowOld, Expire, Record
  <1>9. CASE PurgeRead \/ PurgeDelete \/ UNCHANGED vars
    BY <1>4, <1>9 DEF PurgeRead, PurgeDelete, vars
  <1> QED
    BY <1>1, <1>2, <1>3, <1>5, <1>6, <1>7, <1>8, <1>9 DEF Next, Begin, Run

\* A response is stored by who has written, for the body of the record or late.
LEMMA ResponseStep ==
    ASSUME TypeOK, WritersClaimed, LiveMatchRecord, ResponseIsOfWrite, ReplayIsFaithful,
           [Next]_vars
    PROVE  ResponseIsOfWrite' /\ ReplayIsFaithful'
  <1> USE DEF TypeOK, Goto, States, Live
  <1>1. payload' = payload /\ writes \subseteq writes' /\ outlived \subseteq outlived'
    BY DEF Next, Begin, Run, Insert, Collide, FindNothing, Recycle, Reuse, Replay,
           TakeOver, Refuse, Reclaim, Write, Reject, Fail, Release, Complete, Die,
           GrowOld, Expire, PurgeRead, PurgeDelete, vars
  <1>2. ASSUME NEW p \in Requests, Replay(p)
        PROVE  ResponseIsOfWrite' /\ ReplayIsFaithful'
    BY <1>2 DEF Replay, Matches, Locks, ResponseIsOfWrite, ReplayIsFaithful
  <1>3. ASSUME \A q \in Requests : pc'[q] = "replayed" =>
                   pc[q] = "replayed" /\ replayOf'[q] = replayOf[q]
        PROVE  ReplayIsFaithful'
    BY <1>1, <1>3 DEF ReplayIsFaithful
  <1>4. ASSUME \/ record' = None
               \/ record' = record
               \/ record'.response = None
               \/ /\ record # None /\ record'.response = record.response
                  /\ record'.payload = record.payload
        PROVE  ResponseIsOfWrite'
    BY <1>1, <1>4 DEF ResponseIsOfWrite
  <1>5. ASSUME NEW p \in Requests, Insert(p)
        PROVE  ResponseIsOfWrite' /\ ReplayIsFaithful'
    BY <1>3, <1>4, <1>5 DEF Insert
  <1>6. ASSUME NEW p \in Requests, Recycle(p)
        PROVE  ResponseIsOfWrite' /\ ReplayIsFaithful'
    <2>1. record'.response = None
      BY <1>6 DEF Recycle, Reclaim, Locks, Record
    <2> QED  BY <1>3, <1>4, <1>6, <2>1 DEF Recycle, Reclaim
  <1>7. ASSUME NEW p \in Requests, TakeOver(p)
        PROVE  ResponseIsOfWrite' /\ ReplayIsFaithful'
    <2>1. /\ record # None /\ record'.response = record.response
          /\ record'.payload = record.payload
      BY <1>7 DEF TakeOver, Reclaim, Matches, Locks, Record
    <2> QED  BY <1>3, <1>4, <1>7, <2>1 DEF TakeOver, Reclaim
  <1>8. ASSUME NEW p \in Requests,
               \/ Collide(p) \/ FindNothing(p) \/ Reuse(p) \/ Refuse(p)
        PROVE  ResponseIsOfWrite' /\ ReplayIsFaithful'
    BY <1>3, <1>4, <1>8 DEF Collide, FindNothing, Reuse, Refuse
  <1>9. ASSUME NEW p \in Requests,
               \/ Write(p) \/ Reject(p) \/ Fail(p) \/ Die(p) \/ Release(p)
        PROVE  ResponseIsOfWrite' /\ ReplayIsFaithful'
    BY <1>3, <1>4, <1>9 DEF Write, Reject, Fail, Die, Release
  <1>10. ASSUME NEW p \in Requests, Complete(p)
         PROVE  ResponseIsOfWrite' /\ ReplayIsFaithful'
    <2>1. CASE record # None /\ record.pk = recordId[p]
      <3>1. record'.response = p /\ record'.payload = record.payload
        BY <1>10, <2>1 DEF Complete, Record
      <3>2. p \in writes /\ (payload[p] = record.payload \/ p \in outlived)
        BY <1>10, <2>1 DEF Complete, WritersClaimed, LiveMatchRecord, Handling
      <3> QED  BY <1>1, <1>3, <1>10, <3>1, <3>2 DEF Complete, ResponseIsOfWrite
    <2>2. CASE ~(record # None /\ record.pk = recordId[p])
      BY <1>3, <1>4, <1>10, <2>2 DEF Complete
    <2> QED  BY <2>1, <2>2
  <1>11. CASE GrowOld \/ Expire
    <2>1. /\ record # None /\ record'.response = record.response
          /\ record'.payload = record.payload
      BY <1>11 DEF GrowOld, Expire, Record
    <2> QED  BY <1>3, <1>4, <1>11, <2>1 DEF GrowOld, Expire
  <1>12. CASE PurgeRead \/ PurgeDelete \/ UNCHANGED vars
    BY <1>3, <1>4, <1>12 DEF PurgeRead, PurgeDelete, vars
  <1> QED
    BY <1>2, <1>5, <1>6, <1>7, <1>8, <1>9, <1>10, <1>11, <1>12 DEF Next, Begin, Run

LEMMA InvStep == ASSUME IInv, [Next]_vars PROVE IInv'
  BY TypeStep, ClaimsStep, WritersStep, KeysStep, LiveStep, ResponseStep DEF IInv

-----------------------------------------------------------------------------
(* What is proved *)

\* The invariant holds of every reachable state.
THEOREM IdempotencyInvariance == Spec => []IInv
  <1>1. Init => IInv
    BY InitInv
  <1>2. IInv /\ [Next]_vars => IInv'
    BY InvStep
  <1> QED  BY <1>1, <1>2, PTL DEF Spec

\* Every variable keeps its type.
THEOREM IdempotencyTypeCorrect == Spec => []TypeOK
  <1>1. IInv => TypeOK
    BY DEF IInv
  <1> QED  BY <1>1, IdempotencyInvariance, PTL

\* A replayed response is that of a committed write, and of the same body but
\* for the one way in which the code stores another: by a request that was still
\* at work when its record was recycled.
THEOREM ReplaysFaithful == Spec => []ReplayIsFaithful
  <1>1. IInv => ReplayIsFaithful
    BY DEF IInv
  <1> QED  BY <1>1, IdempotencyInvariance, PTL

\* No more requests write than the record was reclaimed times, and one; so no
\* two do while nothing was taken over, recycled or purged.
WritesAccounted == IsFiniteSet(writes) /\ Cardinality(writes) <= 1 + reclaims

THEOREM WritesBounded == Spec => []WritesAccounted
  <1>1. IInv => WritesAccounted
    <2>1. SUFFICES ASSUME IInv PROVE WritesAccounted
      OBVIOUS
    <2>2. writes \subseteq Claimed
      BY <2>1 DEF IInv, TypeOK, WritersClaimed, Claimed, Live
    <2>3. /\ IsFiniteSet(Claimed) /\ Cardinality(Claimed) \in Nat
          /\ Cardinality(Claimed) <= reclaims + 1 /\ reclaims \in Nat
      BY <2>1, FS_CardinalityType DEF IInv, TypeOK, ClaimsAccounted
    <2>4. /\ IsFiniteSet(writes) /\ Cardinality(writes) <= Cardinality(Claimed)
          /\ Cardinality(writes) \in Nat
      BY <2>2, <2>3, FS_Subset, FS_CardinalityType
    <2> QED  BY <2>3, <2>4 DEF WritesAccounted
  <1> QED  BY <1>1, IdempotencyInvariance, PTL

-----------------------------------------------------------------------------
(* The protocol implements the promise *)

active == {p \in Requests : pc[p] = "running"}
replayed == {p \in Requests : pc[p] = "replayed"}

\* A request to which the key is handed while no record is there is within the
\* permits: those who have it otherwise are accounted for by reclaims.
LEMMA RoomForOne ==
    ASSUME TypeOK, ClaimsAccounted, WritersClaimed, record = None
    PROVE  Cardinality(active \cup writes) < 1 + reclaims
  <1>1. active \cup writes \subseteq Claimed
    BY DEF TypeOK, WritersClaimed, active, Claimed, Live
  <1>2. /\ IsFiniteSet(Claimed) /\ Cardinality(Claimed) \in Nat
        /\ Cardinality(Claimed) <= reclaims /\ reclaims \in Nat
    BY FS_CardinalityType DEF TypeOK, ClaimsAccounted
  <1>3. /\ Cardinality(active \cup writes) <= Cardinality(Claimed)
        /\ Cardinality(active \cup writes) \in Nat
    BY <1>1, <1>2, FS_Subset, FS_CardinalityType
  <1> QED  BY <1>2, <1>3

\* The promise counts as the protocol does.
LEMMA SameCardinality ==
    ASSUME NEW S
    PROVE  Promise!Cardinality(S) = Cardinality(S)
  BY Zenon DEF Promise!Cardinality, Cardinality

\* Every step is one of the promise, or changes nothing of what it is about.
LEMMA StepSimulation ==
    ASSUME IInv, [Next]_vars
    PROVE  [Promise!Next]_<<1 + reclaims, active, writes, replayed>>
  <1> USE DEF IInv, TypeOK, Goto, States
  <1>1. ASSUME NEW p \in Requests, Insert(p) PROVE Promise!Start(p)
    <2>1. p \notin active \cup writes /\ record = None
      BY <1>1 DEF Insert, active, WritersClaimed
    <2>2. active' = active \cup {p} /\ replayed' = replayed
          /\ UNCHANGED <<writes, reclaims>>
      BY <1>1 DEF Insert, active, replayed
    <2>3. Cardinality(active \cup writes) < 1 + reclaims
      BY <2>1, RoomForOne
    <2>4. /\ p \notin active \cup writes
          /\ active' = active \cup {p}
          /\ UNCHANGED <<1 + reclaims, writes, replayed>>
      BY <2>1, <2>2
    <2> HIDE DEF IInv, TypeOK, Goto, States
    <2>5. Promise!Cardinality(active \cup writes) < 1 + reclaims
      BY <2>3, SameCardinality
    <2> QED  BY ONLY <2>4, <2>5 DEF Promise!Start, active, replayed
  <1>2. ASSUME NEW p \in Requests, Recycle(p) \/ TakeOver(p)
        PROVE  Promise!StartAgain(p)
    <2>1. p \notin active \cup writes
      BY <1>2 DEF Recycle, TakeOver, Matches, Locks, active, WritersClaimed
    <2>2. active' = active \cup {p} /\ replayed' = replayed
          /\ writes' = writes /\ 1 + reclaims' = 1 + reclaims + 1
      BY <1>2 DEF Recycle, TakeOver, Reclaim, Matches, Locks, active, replayed
    <2> QED  BY <2>1, <2>2 DEF Promise!StartAgain, active, replayed
  <1>3. ASSUME NEW p \in Requests, Replay(p) PROVE Promise!Replay(p)
    <2>1. p \notin active \cup writes /\ writes # {}
      BY <1>3 DEF Replay, Matches, Locks, active, WritersClaimed, ResponseIsOfWrite
    <2>2. active' = active /\ replayed' = replayed \cup {p}
          /\ UNCHANGED <<writes, reclaims>>
      BY <1>3 DEF Replay, Matches, Locks, active, replayed
    <2> QED  BY <2>1, <2>2 DEF Promise!Replay, active, replayed
  <1>4. ASSUME NEW p \in Requests, Write(p) PROVE Promise!Write(p)
    <2>1. p \in active /\ active' = active \ {p} /\ replayed' = replayed
          /\ writes' = writes \cup {p} /\ reclaims' = reclaims
      BY <1>4 DEF Write, active, replayed
    <2> QED  BY <2>1 DEF Promise!Write, active, replayed
  <1>5. ASSUME NEW p \in Requests,
               Reject(p) \/ Fail(p) \/ (Die(p) /\ pc[p] = "running")
        PROVE  Promise!Stop(p)
    <2>1. p \in active /\ active' = active \ {p} /\ replayed' = replayed
          /\ UNCHANGED <<writes, reclaims>>
      BY <1>5 DEF Reject, Fail, Die, active, replayed
    <2> QED  BY <2>1 DEF Promise!Stop, active, replayed
  <1>6. ASSUME NEW p \in Requests,
               \/ Collide(p) \/ FindNothing(p) \/ Reuse(p) \/ Refuse(p)
               \/ Release(p) \/ Complete(p) \/ (Die(p) /\ pc[p] # "running")
        PROVE  UNCHANGED <<reclaims, active, writes, replayed>>
    BY <1>6 DEF Collide, FindNothing, Reuse, Refuse, Matches, Locks, Release, Complete,
                Die, Live, active, replayed
  <1>7. CASE GrowOld \/ Expire \/ PurgeRead \/ UNCHANGED vars
    <2>1. UNCHANGED <<reclaims, active, writes, replayed>>
      BY <1>7 DEF GrowOld, Expire, PurgeRead, vars, active, replayed
    <2> QED  BY <2>1
  <1>8. CASE PurgeDelete
    <2>1. UNCHANGED <<active, writes, replayed>>
          /\ reclaims' \in {reclaims, reclaims + 1}
      BY <1>8 DEF PurgeDelete, active, replayed
    <2>2. CASE reclaims' = reclaims
      BY <2>1, <2>2
    <2>3. CASE reclaims' = reclaims + 1
      <3>1. Promise!Forget
        BY <2>1, <2>3 DEF Promise!Forget, active, replayed
      <3> QED  BY <3>1 DEF Promise!Next
    <2> QED  BY <2>1, <2>2, <2>3
  <1> QED
    BY <1>1, <1>2, <1>3, <1>4, <1>5, <1>6, <1>7, <1>8
       DEF Next, Begin, Run, Promise!Next

\* Whatever dies, outlasts the timeout or comes late, no more attempts write or
\* may write than were permitted, and what is replayed was written.
THEOREM PromiseKept == Spec => ImplementsPromise
  <1>1. Init => Promise!Init
    BY DEF Init, Promise!Init
  <1>2. IInv /\ [Next]_vars
            => [Promise!Next]_<<1 + reclaims, active, writes, replayed>>
    BY StepSimulation
  <1> QED
    BY <1>1, <1>2, IdempotencyInvariance, PTL
       DEF Spec, ImplementsPromise, Promise!Spec, active, replayed

-----------------------------------------------------------------------------
(* Pushes: the inductive invariant *)

\* Dead devices a process has still to switch off in a store.
ToSwitchOff(process, s) ==
    IF process.at \in {"rows", "write", "tokens"} \/ process.at = s THEN process.dead ELSE {}

\* A dead device is off, in each store, or its finder will get to it, or was lost.
DeadIsKnown ==
    \A s \in Push!Stores : \A d \in known \cap stored[s] :
        \/ d \in missed
        \/ \E w \in Workers : d \in ToSwitchOff(run[w], s)
        \/ d \in ToSwitchOff(check, s)

\* Before the browsers are tried, a run knows of telephones only.
RunsInOrder ==
    \A w \in Workers :
        /\ run[w].at = "rows" => run[w].ok \cup run[w].dead \cup run[w].failed \subseteq Devices
        /\ run[w].at = "expo" => run[w].retry = {} /\ run[w].to \subseteq run[w].msg.only
        /\ run[w].at \in {"rows", "tokens", "installations", "web"} =>
               run[w].retry \subseteq Devices \cap run[w].msg.only

\* A run, or a retry it has not asked for yet, may still hand push p to r.
MaySend(x, p, r) ==
    \/ x.at = "expo" /\ x.msg.push = p /\ r \in x.msg.only
    \/ /\ x.at \in {"rows", "tokens", "installations", "web"} /\ x.msg.push = p
       /\ r \in x.retry \cup (x.msg.only \cap Browsers)
    \/ x.at \in {"record", "settle"} /\ x.msg.push = p /\ r \in x.retry

Sending(p, r) == {w \in Workers : MaySend(run[w], p, r)}

\* How often message m is in a bag.
Times(bag, m) == IF m \in DOMAIN bag THEN bag[m] ELSE 0

\* The copies of messages in a bag that may hand push p to r.
WaitingIn(bag, p, r) ==
    {c \in Push!Message \X (Nat \ {0}) :
        c[1].push = p /\ r \in c[1].only /\ c[2] <= Times(bag, c[1])}

Allowed(p) == mishaps[p] + (IF p \in queued THEN 1 ELSE 0)

\* What was handed over and what may still be is one copy, and one for each mishap.
CopiesBounded ==
    \A p \in Pushes, r \in Push!Recipients :
        /\ IsFiniteSet(WaitingIn(queue, p, r)) /\ IsFiniteSet(Sending(p, r))
        /\ got[p][r] + Cardinality(WaitingIn(queue, p, r)) + Cardinality(Sending(p, r))
             <= Allowed(p)

PushInv == Push!TypeOK /\ RunsInOrder /\ DeadIsKnown /\ CopiesBounded

-----------------------------------------------------------------------------
(* The queue is a bag, of which copies are counted *)

IsQueue(bag) == bag \in [DOMAIN bag -> Nat \ {0}] /\ DOMAIN bag \subseteq Push!Message

LEMMA QueueTypes == Push!TypeOK => IsQueue(queue)
  BY DEF Push!TypeOK, Push!IsABag, Push!BagToSet, IsQueue

\* A message is for a recipient, or is not.
Copy(m, p, r) == IF m.push = p /\ r \in m.only THEN 1 ELSE 0

LEMMA MessageAdded ==
    ASSUME NEW bag, IsQueue(bag), NEW m \in Push!Message, NEW p, NEW r,
           IsFiniteSet(WaitingIn(bag, p, r))
    PROVE  LET more == Push!BagAdd(bag, m) IN
           /\ IsQueue(more) /\ IsFiniteSet(WaitingIn(more, p, r))
           /\ Cardinality(WaitingIn(more, p, r))
                = Cardinality(WaitingIn(bag, p, r)) + Copy(m, p, r)
  <1> DEFINE more == Push!BagAdd(bag, m)
             c == <<m, Times(bag, m) + 1>>
  <1>1. IsQueue(more)
    BY DEF IsQueue, Push!BagAdd
  <1>2. /\ Times(more, m) = Times(bag, m) + 1
        /\ \A n \in Push!Message \ {m} : Times(more, n) = Times(bag, n)
        /\ \A n \in Push!Message : Times(bag, n) \in Nat
    BY DEF IsQueue, Push!BagAdd, Times
  <1> HIDE DEF more
  <1>3. c \in Push!Message \X (Nat \ {0}) /\ c[1] = m /\ c[2] = Times(bag, m) + 1
    BY <1>2
  <1>4. c \notin WaitingIn(bag, p, r)
    BY <1>2, <1>3 DEF WaitingIn
  <1>5. CASE m.push = p /\ r \in m.only
    <2>1. ASSUME NEW d \in Push!Message \X (Nat \ {0})
          PROVE  d[2] <= Times(more, d[1]) <=> d[2] <= Times(bag, d[1]) \/ d = c
      <3>1. CASE d[1] = m
        <4>1. d[2] <= Times(bag, m) + 1 <=> d[2] <= Times(bag, m) \/ d[2] = Times(bag, m) + 1
          BY <1>2, <2>1
        <4>2. d = <<d[1], d[2]>>
          BY <2>1
        <4> QED  BY <1>2, <3>1, <4>1, <4>2
      <3>2. CASE d[1] # m
        BY <1>2, <1>3, <2>1, <3>2
      <3> QED  BY <3>1, <3>2
    <2>2. WaitingIn(more, p, r) = WaitingIn(bag, p, r) \cup {c}
      BY <1>3, <1>5, <2>1 DEF WaitingIn
    <2>3. /\ IsFiniteSet(WaitingIn(more, p, r))
          /\ Cardinality(WaitingIn(more, p, r)) = Cardinality(WaitingIn(bag, p, r)) + 1
      BY <1>4, <2>2, FS_AddElement
    <2>4. Copy(m, p, r) = 1
      BY <1>5 DEF Copy
    <2> QED  BY <1>1, <2>3, <2>4 DEF more
  <1>6. CASE ~(m.push = p /\ r \in m.only)
    <2>1. WaitingIn(more, p, r) = WaitingIn(bag, p, r)
      BY <1>2, <1>6 DEF WaitingIn
    <2> QED  BY <1>1, <1>6, <2>1, FS_CardinalityType DEF Copy, more
  <1> QED  BY <1>5, <1>6

LEMMA QueueAfter ==
    ASSUME Push!TypeOK, NEW m \in Push!Message
    PROVE  LET more == Push!BagAdd(queue, m) IN
           Push!IsABag(more) /\ Push!BagToSet(more) \subseteq Push!Message
  BY DEF Push!TypeOK, Push!IsABag, Push!BagToSet, Push!BagAdd

LEMMA MessageTaken ==
    ASSUME NEW bag, IsQueue(bag), NEW m, Push!BagIn(m, bag), NEW p, NEW r,
           IsFiniteSet(WaitingIn(bag, p, r))
    PROVE  LET less == Push!BagRemove(bag, m) IN
           /\ m \in Push!Message
           /\ IsQueue(less) /\ IsFiniteSet(WaitingIn(less, p, r))
           /\ Cardinality(WaitingIn(less, p, r)) + Copy(m, p, r)
                = Cardinality(WaitingIn(bag, p, r))
  <1> DEFINE less == Push!BagRemove(bag, m)
             c == <<m, Times(bag, m)>>
  <1>0. m \in DOMAIN bag /\ m \in Push!Message
    BY DEF IsQueue, Push!BagIn, Push!BagToSet
  <1>1. IsQueue(less)
    BY <1>0 DEF IsQueue, Push!BagRemove
  <1>2. /\ Times(less, m) = Times(bag, m) - 1 /\ Times(bag, m) > 0
        /\ \A n \in Push!Message \ {m} : Times(less, n) = Times(bag, n)
        /\ \A n \in Push!Message : Times(bag, n) \in Nat
    BY <1>0 DEF IsQueue, Push!BagRemove, Times
  <1> HIDE DEF less
  <1>3. c \in Push!Message \X (Nat \ {0}) /\ c[1] = m /\ c[2] = Times(bag, m)
    BY <1>0, <1>2
  <1>4. CASE m.push = p /\ r \in m.only
    <2>1. ASSUME NEW d \in Push!Message \X (Nat \ {0})
          PROVE  d[2] <= Times(less, d[1]) <=> d[2] <= Times(bag, d[1]) /\ d # c
      <3>1. CASE d[1] = m
        <4>1. d[2] <= Times(bag, m) - 1 <=> d[2] <= Times(bag, m) /\ d[2] # Times(bag, m)
          BY <1>0, <1>2, <2>1
        <4>2. d = <<d[1], d[2]>>
          BY <2>1
        <4> QED  BY <1>2, <3>1, <4>1, <4>2
      <3>2. CASE d[1] # m
        BY <1>2, <1>3, <2>1, <3>2
      <3> QED  BY <3>1, <3>2
    <2>2. WaitingIn(less, p, r) = WaitingIn(bag, p, r) \ {c}
      BY <1>4, <2>1 DEF WaitingIn
    <2>3. c \in WaitingIn(bag, p, r)
      BY <1>2, <1>3, <1>4 DEF WaitingIn
    <2>4. /\ IsFiniteSet(WaitingIn(less, p, r))
          /\ Cardinality(WaitingIn(less, p, r)) = Cardinality(WaitingIn(bag, p, r)) - 1
      BY <2>2, <2>3, FS_RemoveElement
    <2>5. Copy(m, p, r) = 1 /\ Cardinality(WaitingIn(bag, p, r)) \in Nat
      BY <1>4, FS_CardinalityType DEF Copy
    <2> QED  BY <1>0, <1>1, <2>4, <2>5 DEF less
  <1>5. CASE ~(m.push = p /\ r \in m.only)
    <2>1. WaitingIn(less, p, r) = WaitingIn(bag, p, r)
      BY <1>2, <1>5 DEF WaitingIn
    <2> QED  BY <1>0, <1>1, <1>5, <2>1, FS_CardinalityType DEF Copy, less
  <1> QED  BY <1>4, <1>5

\* One worker enters a set of workers, leaves it, or neither.
LEMMA OneMoves ==
    ASSUME NEW S, NEW T, NEW w, IsFiniteSet(S), T \ {w} = S \ {w}
    PROVE  /\ IsFiniteSet(T)
           /\ Cardinality(T) + (IF w \in S THEN 1 ELSE 0)
                = Cardinality(S) + (IF w \in T THEN 1 ELSE 0)
  <1>1. Cardinality(S) \in Nat
    BY FS_CardinalityType
  <1>2. CASE (w \in S) <=> (w \in T)
    <2>1. S = T
      BY <1>2
    <2> QED  BY <1>1, <2>1
  <1>3. CASE w \in S /\ w \notin T
    <2>1. T = S \ {w}
      BY <1>3
    <2> QED  BY <1>1, <1>3, <2>1, FS_RemoveElement
  <1>4. CASE w \notin S /\ w \in T
    <2>1. T = S \cup {w}
      BY <1>4
    <2> QED  BY <1>1, <1>4, <2>1, FS_AddElement
  <1> QED  BY <1>2, <1>3, <1>4

-----------------------------------------------------------------------------
(* What a step does to the copies *)

MayCount(x, p, r) == IF MaySend(x, p, r) THEN 1 ELSE 0

\* A step that hands out nothing leaves the bound alone.
LEMMA NothingHanded ==
    ASSUME Push!TypeOK, CopiesBounded, UNCHANGED <<queue, queued, run, got>>,
           \A p \in Pushes : mishaps'[p] \in Nat /\ mishaps[p] <= mishaps'[p]
    PROVE  CopiesBounded'
  <1> SUFFICES ASSUME NEW p \in Pushes, NEW r \in Push!Recipients
               PROVE  /\ IsFiniteSet(WaitingIn(queue, p, r)) /\ IsFiniteSet(Sending(p, r))
                      /\ got[p][r] + Cardinality(WaitingIn(queue, p, r))
                           + Cardinality(Sending(p, r)) <= Allowed(p)'
    BY Zenon DEF CopiesBounded, Sending
  <1>1. /\ IsFiniteSet(WaitingIn(queue, p, r)) /\ IsFiniteSet(Sending(p, r))
        /\ got[p][r] + Cardinality(WaitingIn(queue, p, r)) + Cardinality(Sending(p, r))
             <= Allowed(p)
    BY DEF CopiesBounded
  <1>2. /\ Cardinality(WaitingIn(queue, p, r)) \in Nat
        /\ Cardinality(Sending(p, r)) \in Nat /\ got[p][r] \in Nat
    BY <1>1, FS_CardinalityType DEF Push!TypeOK
  <1>3. /\ Allowed(p) \in Nat /\ Allowed(p)' \in Nat /\ Allowed(p) <= Allowed(p)'
    <2>1. mishaps[p] \in Nat /\ MaxMishaps \in Nat
      BY PushAssumption DEF Push!TypeOK, Push!Parameters
    <2> QED  BY <2>1 DEF Allowed
  <1> QED  BY <1>1, <1>2, <1>3

\* A step of one worker keeps it if it keeps the balance of each recipient.
LEMMA Balance ==
    ASSUME Push!TypeOK, Push!TypeOK', CopiesBounded, NEW w \in Workers,
           \A v \in Workers \ {w} : run'[v] = run[v],
           \A p \in Pushes, r \in Push!Recipients :
               /\ IsFiniteSet(WaitingIn(queue', p, r))
               /\ got'[p][r] + Cardinality(WaitingIn(queue', p, r))
                      + MayCount(run'[w], p, r) + Allowed(p)
                    <= got[p][r] + Cardinality(WaitingIn(queue, p, r))
                         + MayCount(run[w], p, r) + Allowed(p)'
    PROVE  CopiesBounded'
  <1> SUFFICES ASSUME NEW p \in Pushes, NEW r \in Push!Recipients
               PROVE  /\ IsFiniteSet(WaitingIn(queue', p, r)) /\ IsFiniteSet(Sending(p, r)')
                      /\ got'[p][r] + Cardinality(WaitingIn(queue', p, r))
                           + Cardinality(Sending(p, r)') <= Allowed(p)'
    BY DEF CopiesBounded
  <1> DEFINE S == Sending(p, r)
             T == Sending(p, r)'
             few == Cardinality(WaitingIn(queue, p, r))
             few2 == Cardinality(WaitingIn(queue', p, r))
  <1>1. IsFiniteSet(WaitingIn(queue, p, r)) /\ IsFiniteSet(S)
        /\ got[p][r] + few + Cardinality(S) <= Allowed(p)
    BY DEF CopiesBounded
  <1>2. T \ {w} = S \ {w}
    BY DEF Sending
  <1>3. (w \in S <=> MaySend(run[w], p, r)) /\ (w \in T <=> MaySend(run'[w], p, r))
    BY DEF Sending
  <1> HIDE DEF S, T
  <1>4. IsFiniteSet(T) /\ Cardinality(T) + MayCount(run[w], p, r)
                            = Cardinality(S) + MayCount(run'[w], p, r)
    BY <1>1, <1>2, <1>3, OneMoves DEF MayCount
  <1>5. Cardinality(S) \in Nat /\ Cardinality(T) \in Nat /\ few \in Nat /\ few2 \in Nat
    BY <1>1, <1>4, FS_CardinalityType
  <1>6. got[p][r] \in Nat /\ got'[p][r] \in Nat
    BY DEF Push!TypeOK, Push!Recipients
  <1>7. Allowed(p) \in Nat /\ Allowed(p)' \in Nat
    <2>1. mishaps[p] \in Nat /\ mishaps'[p] \in Nat
      BY PushAssumption DEF Push!TypeOK, Push!Parameters
    <2> QED  BY <2>1 DEF Allowed
  <1>8. MayCount(run[w], p, r) \in Nat /\ MayCount(run'[w], p, r) \in Nat
    BY DEF MayCount
  <1>9. got'[p][r] + few2 + MayCount(run'[w], p, r) + Allowed(p)
          <= got[p][r] + few + MayCount(run[w], p, r) + Allowed(p)'
    OBVIOUS
  <1> HIDE DEF few, few2
  <1>10. got'[p][r] + few2 + Cardinality(T) <= Allowed(p)'
    BY <1>1, <1>4, <1>5, <1>6, <1>7, <1>8, <1>9
  <1> QED  BY <1>4, <1>10 DEF T, few2

\* Most steps of a worker leave the queue alone.
LEMMA WorkerBalance ==
    ASSUME Push!TypeOK, Push!TypeOK', CopiesBounded, NEW w \in Workers,
           \A v \in Workers \ {w} : run'[v] = run[v], UNCHANGED <<queue, queued>>,
           \A p \in Pushes, r \in Push!Recipients :
               got'[p][r] + MayCount(run'[w], p, r) + mishaps[p]
                 <= got[p][r] + MayCount(run[w], p, r) + mishaps'[p]
    PROVE  CopiesBounded'
  <1>1. ASSUME NEW p \in Pushes, NEW r \in Push!Recipients
        PROVE  /\ IsFiniteSet(WaitingIn(queue', p, r))
               /\ got'[p][r] + Cardinality(WaitingIn(queue', p, r))
                      + MayCount(run'[w], p, r) + Allowed(p)
                    <= got[p][r] + Cardinality(WaitingIn(queue, p, r))
                         + MayCount(run[w], p, r) + Allowed(p)'
    <2>1. IsFiniteSet(WaitingIn(queue, p, r)) /\ queue' = queue
      BY DEF CopiesBounded
    <2>2. Cardinality(WaitingIn(queue, p, r)) \in Nat
      BY <2>1, FS_CardinalityType
    <2>3. got[p][r] \in Nat /\ got'[p][r] \in Nat
      BY DEF Push!TypeOK, Push!Recipients
    <2>4. mishaps[p] \in Nat /\ mishaps'[p] \in Nat
      BY PushAssumption DEF Push!TypeOK, Push!Parameters
    <2>5. MayCount(run[w], p, r) \in Nat /\ MayCount(run'[w], p, r) \in Nat
      BY DEF MayCount
    <2>6. Allowed(p)' = Allowed(p) + mishaps'[p] - mishaps[p] /\ Allowed(p) \in Nat
      BY <2>4 DEF Allowed
    <2>7. got'[p][r] + MayCount(run'[w], p, r) + mishaps[p]
            <= got[p][r] + MayCount(run[w], p, r) + mishaps'[p]
      OBVIOUS
    <2> QED  BY <2>1, <2>2, <2>3, <2>4, <2>5, <2>6, <2>7
  <1> QED  BY <1>1, Balance

\* What a provider hands over is counted.
LEMMA Handed ==
    ASSUME Push!TypeOK, NEW w \in Workers, NEW R, Push!Hand(w, R)
    PROVE  /\ got' \in [Pushes -> [Push!Recipients -> Nat]]
           /\ \A p \in Pushes, r \in Push!Recipients :
                 got'[p][r] = got[p][r] + IF p = run[w].msg.push /\ r \in R THEN 1 ELSE 0
  <1> DEFINE q == run[w].msg.push
             new(p) == [r \in Push!Recipients |-> got[p][r] + IF r \in R THEN 1 ELSE 0]
  <1>1. got \in [Pushes -> [Push!Recipients -> Nat]]
    BY DEF Push!TypeOK
  <1>2. got' = [got EXCEPT ![q] = new(q)]
    BY Zenon DEF Push!Hand
  <1>3. \A p \in Pushes : new(p) \in [Push!Recipients -> Nat]
    BY <1>1
  <1>4. \A p \in Pushes, r \in Push!Recipients :
           new(p)[r] = got[p][r] + (IF r \in R THEN 1 ELSE 0) /\ got[p][r] \in Nat
    BY <1>1
  <1> HIDE DEF new, q
  <1>5. \A p \in Pushes : got'[p] = IF p = q THEN new(p) ELSE got[p]
    BY <1>1, <1>2
  <1>6. got' \in [Pushes -> [Push!Recipients -> Nat]]
    BY <1>1, <1>2, <1>3
  <1>7. \A p \in Pushes, r \in Push!Recipients :
           got'[p][r] = got[p][r] + IF p = q /\ r \in R THEN 1 ELSE 0
    BY <1>4, <1>5
  <1> QED  BY <1>6, <1>7 DEF q

LEMMA AtWork ==
    ASSUME Push!TypeOK, NEW w \in Workers, run[w].at # "idle"
    PROVE  run[w] \in Push!Run
  BY DEF Push!TypeOK, Push!NoRun

\* A mishap is counted.
LEMMA MishapCounted ==
    ASSUME Push!TypeOK, NEW p \in Pushes, Push!Mishap(p)
    PROVE  /\ mishaps' \in [Pushes -> 0..MaxMishaps]
           /\ mishaps'[p] = mishaps[p] + 1
           /\ \A q \in Pushes \ {p} : mishaps'[q] = mishaps[q]
           /\ \A q \in Pushes : mishaps[q] \in Nat /\ mishaps'[q] \in Nat
  BY PushAssumption DEF Push!TypeOK, Push!Mishap, Push!Parameters

-----------------------------------------------------------------------------
(* The steps of a run *)

\* The run of a worker turns into another.
Turned(w, x) == run' = [run EXCEPT ![w] = x]

LEMMA OnlyThatRun ==
    ASSUME Push!TypeOK, NEW w \in Workers, NEW x \in Push!Run \cup {Push!NoRun}, Turned(w, x)
    PROVE  /\ run' \in [Workers -> Push!Run \cup {Push!NoRun}]
           /\ run'[w] = x
           /\ \A v \in Workers \ {w} : run'[v] = run[v]
  BY DEF Push!TypeOK, Turned

\* A step of a run that forgets no dead device keeps DeadIsKnown.
LEMMA RunForgetsNone ==
    ASSUME DeadIsKnown, NEW w \in Workers, \A v \in Workers \ {w} : run'[v] = run[v],
           check' = check, missed \subseteq missed',
           \A s \in Push!Stores :
               \A d \in known' \cap stored'[s] :
                   /\ d \in known \cap stored[s] \/ d \in ToSwitchOff(run'[w], s)
                   /\ d \in ToSwitchOff(run[w], s) =>
                          d \in ToSwitchOff(run'[w], s) \/ d \in missed'
    PROVE  DeadIsKnown'
  <1> SUFFICES ASSUME NEW s \in Push!Stores, NEW d \in known' \cap stored'[s]
               PROVE  \/ d \in missed'
                      \/ \E v \in Workers : d \in ToSwitchOff(run'[v], s)
                      \/ d \in ToSwitchOff(check', s)
    BY Zenon DEF DeadIsKnown, ToSwitchOff, Push!Stores
  <1>1. CASE d \in ToSwitchOff(run'[w], s)
    BY <1>1
  <1>2. CASE d \notin ToSwitchOff(run'[w], s)
    <2>1. d \in known \cap stored[s]
      BY <1>2
    <2>2. \/ d \in missed
          \/ \E v \in Workers : d \in ToSwitchOff(run[v], s)
          \/ d \in ToSwitchOff(check, s)
      BY <2>1 DEF DeadIsKnown
    <2> QED  BY <1>2, <2>2
  <1> QED  BY <1>1, <1>2

\* What a post to Expo makes of a run.
Posted(w, x, handed) ==
    /\ Turned(w, x) /\ x \in Push!Run
    /\ x.msg = run[w].msg /\ x.at \in {"rows", "web"}
    /\ x.retry \subseteq Devices \cap run[w].msg.only
    /\ handed \subseteq Devices \cap run[w].msg.only
    /\ x.at = "rows" => x.ok \cup x.dead \cup x.failed \subseteq Devices
    /\ known' = known \cup (IF x.at = "rows" THEN x.dead ELSE {})
    /\ Push!Hand(w, handed) \/ (UNCHANGED got /\ handed = {})
    /\ \/ Push!Mishap(run[w].msg.push)
       \/ UNCHANGED mishaps /\ handed \cap x.retry = {}

LEMMA ExpoPosts ==
    ASSUME PushInv, NEW w \in Workers, Push!PostExpo(w)
    PROVE  \E x, handed : Posted(w, x, handed)
  <1> DEFINE r == run[w]
  <1>0. r \in Push!Run /\ r.at = "expo" /\ Push!TypeOK
    BY AtWork DEF PushInv, Push!PostExpo
  <1>1. r.retry = {} /\ r.to \subseteq Devices \cap r.msg.only
    BY <1>0 DEF PushInv, RunsInOrder, Push!Run
  <1>2. CASE r.to = {}
    <2> DEFINE x == [r EXCEPT !.at = "web"]
    <2>1. Turned(w, x)
      BY <1>2 DEF Push!PostExpo, Push!Goes, Turned
    <2>2. x \in Push!Run /\ x.msg = r.msg /\ x.at = "web" /\ x.retry = r.retry
      BY <1>0 DEF Push!Run
    <2>3. UNCHANGED <<got, known, mishaps>>
      BY <1>2 DEF Push!PostExpo
    <2> HIDE DEF x
    <2>4. Posted(w, x, {})
      BY <1>1, <2>1, <2>2, <2>3 DEF Posted
    <2> QED  BY <2>4
  <1>3. CASE r.to # {} /\ Push!Tickets(w)
    <2>1. PICK ticket \in [r.to -> {"ok", "dead", "busy", "error"}] :
            LET Having(answer) == {d \in r.to : ticket[d] = answer} IN
            /\ Having("dead") \subseteq gone
            /\ Push!Hand(w, Having("ok"))
            /\ known' = known \cup Having("dead")
            /\ run' = [run EXCEPT ![w].at = "rows", ![w].to = {}, ![w].ok = Having("ok"),
                              ![w].dead = Having("dead"),
                              ![w].failed = Having("error"),
                              ![w].retry = Having("busy")]
            /\ UNCHANGED mishaps
      BY <1>3, Zenon DEF Push!Tickets
    <2> DEFINE Having(answer) == {d \in r.to : ticket[d] = answer}
    <2>2. PICK O, D, E, B :
            /\ O = Having("ok") /\ D = Having("dead")
            /\ E = Having("error") /\ B = Having("busy")
      OBVIOUS
    <2>3. /\ O \subseteq r.to /\ D \subseteq r.to /\ E \subseteq r.to /\ B \subseteq r.to
          /\ O \cap B = {}
      BY <2>2
    <2>4. /\ Push!Hand(w, O) /\ known' = known \cup D /\ UNCHANGED mishaps
          /\ run' = [run EXCEPT ![w].at = "rows", ![w].to = {}, ![w].ok = O, ![w].dead = D,
                                ![w].failed = E, ![w].retry = B]
      BY <2>1, <2>2
    <2> DEFINE z == [r EXCEPT !.at = "rows", !.to = {}, !.ok = O]
               x == [z EXCEPT !.dead = D, !.failed = E, !.retry = B]
    <2> HIDE DEF Having
    <2>5. run' = [run EXCEPT ![w] = x]
      BY <1>0, <2>4 DEF Push!TypeOK
    <2>6. z \in Push!Run /\ z.msg = r.msg /\ z.at = "rows" /\ z.ok = O
      BY <1>0, <1>1, <2>3 DEF Push!Run, Push!Recipients
    <2> HIDE DEF z
    <2>7. x \in Push!Run
      BY <1>0, <1>1, <2>3, <2>6 DEF Push!Run, Push!Recipients
    <2>8. /\ x.msg = r.msg /\ x.at = "rows"
          /\ x.ok = O /\ x.dead = D /\ x.failed = E /\ x.retry = B
      BY <2>6 DEF Push!Run
    <2> HIDE DEF x
    <2>9. Posted(w, x, O)
      BY <1>1, <2>3, <2>4, <2>5, <2>7, <2>8 DEF Posted, Turned
    <2> QED  BY <2>9
  <1>4. CASE r.to # {} /\ Push!NoTickets(w)
    <2> DEFINE x == [r EXCEPT !.at = "web", !.to = {}, !.ok = {}, !.dead = {}, !.failed = {}]
    <2>1. Turned(w, x)
      BY <1>4 DEF Push!NoTickets, Push!Turns, Turned
    <2>2. x \in Push!Run /\ x.msg = r.msg /\ x.at = "web" /\ x.retry = r.retry
      BY <1>0 DEF Push!Run
    <2>3. UNCHANGED <<known, mishaps>> /\ (Push!Hand(w, r.to) \/ UNCHANGED got)
      BY <1>4 DEF Push!NoTickets
    <2> HIDE DEF x
    <2>4. Posted(w, x, r.to) \/ Posted(w, x, {})
      BY <1>1, <2>1, <2>2, <2>3 DEF Posted
    <2> QED  BY <2>4
  <1>5. CASE r.to # {} /\ Push!Unreachable(w)
    <2> DEFINE x == [msg |-> r.msg, at |-> "web", to |-> {}, ok |-> r.ok,
                     dead |-> r.dead, failed |-> r.failed, retry |-> r.to]
    <2>1. Turned(w, x)
      BY <1>0, <1>5 DEF Push!Unreachable, Turned, Push!TypeOK, Push!Run
    <2>2. x \in Push!Run
      BY <1>0, <1>1 DEF Push!Run, Push!Recipients
    <2>3. /\ UNCHANGED known
          /\ \/ UNCHANGED <<got, mishaps>>
             \/ Push!Hand(w, r.to) /\ Push!Mishap(r.msg.push)
      BY <1>5 DEF Push!Unreachable
    <2>4. Posted(w, x, r.to) \/ Posted(w, x, {})
      BY <1>1, <2>1, <2>2, <2>3 DEF Posted
    <2> QED  BY <2>4
  <1> QED  BY <1>2, <1>3, <1>4, <1>5 DEF Push!PostExpo

LEMMA PostExpoInv ==
    ASSUME PushInv, NEW w \in Workers, Push!PostExpo(w) PROVE PushInv'
  <1>0. /\ Push!TypeOK /\ run[w] \in Push!Run /\ run[w].at = "expo"
        /\ UNCHANGED <<stored, subs, gone, queue, queued, row, check, missed, dropped, changes>>
    BY AtWork DEF PushInv, Push!PostExpo
  <1>1. PICK x, handed : Posted(w, x, handed)
    BY ExpoPosts
  <1>2. /\ run' \in [Workers -> Push!Run \cup {Push!NoRun}] /\ run'[w] = x
        /\ \A v \in Workers \ {w} : run'[v] = run[v]
    BY <1>0, <1>1, OnlyThatRun DEF Posted
  <1>3. run[w].msg.push \in Pushes
    BY <1>0 DEF Push!Run, Push!Message
  <1>4. /\ got' \in [Pushes -> [Push!Recipients -> Nat]]
        /\ \A p \in Pushes, r \in Push!Recipients :
              got'[p][r] = got[p][r] + IF p = run[w].msg.push /\ r \in handed THEN 1 ELSE 0
    <2>1. CASE Push!Hand(w, handed)
      BY <1>0, <2>1, Handed
    <2>2. CASE UNCHANGED got /\ handed = {}
      BY <1>0, <2>2 DEF Push!TypeOK
    <2> QED  BY <1>1, <2>1, <2>2 DEF Posted
  <1>5. /\ mishaps' \in [Pushes -> 0..MaxMishaps]
        /\ \A p \in Pushes : mishaps[p] \in Nat /\ mishaps'[p] \in Nat /\ mishaps[p] <= mishaps'[p]
        /\ \/ mishaps'[run[w].msg.push] = mishaps[run[w].msg.push] + 1
           \/ handed \cap x.retry = {}
    <2>1. CASE Push!Mishap(run[w].msg.push)
      BY <1>0, <1>3, <2>1, MishapCounted
    <2>2. CASE UNCHANGED mishaps /\ handed \cap x.retry = {}
      BY <1>0, <2>2, PushAssumption DEF Push!TypeOK, Push!Parameters
    <2> QED  BY <1>1, <2>1, <2>2 DEF Posted
  <1>6. known \subseteq known' /\ known' \subseteq Devices
    BY <1>0, <1>1 DEF Posted, Push!TypeOK
  <1>7. Push!TypeOK'
    BY <1>0, <1>2, <1>4, <1>5, <1>6 DEF Push!TypeOK
  <1>8. RunsInOrder'
    BY <1>0, <1>1, <1>2 DEF PushInv, RunsInOrder, Posted
  <1>9. DeadIsKnown'
    <2>1. ASSUME NEW s \in Push!Stores, NEW d \in known' \cap stored'[s]
          PROVE  /\ d \in known \cap stored[s] \/ d \in ToSwitchOff(run'[w], s)
                 /\ d \in ToSwitchOff(run[w], s) =>
                        d \in ToSwitchOff(run'[w], s) \/ d \in missed'
      BY <1>0, <1>1, <1>2, <2>1 DEF Posted, ToSwitchOff, Push!Stores
    <2> QED  BY <1>0, <1>2, <2>1, RunForgetsNone DEF PushInv
  <1>10. CopiesBounded'
    <2>1. ASSUME NEW p \in Pushes, NEW r \in Push!Recipients
          PROVE  got'[p][r] + MayCount(run'[w], p, r) + mishaps[p]
                   <= got[p][r] + MayCount(run[w], p, r) + mishaps'[p]
      <3>0. got[p][r] \in Nat
        BY <1>0 DEF Push!TypeOK
      <3>1. Devices \cap Browsers = {}
        BY PushAssumption DEF Push!Parameters
      <3>2. MayCount(run'[w], p, r) \in {0, 1} /\ MayCount(run[w], p, r) \in {0, 1}
        BY DEF MayCount
      <3>3. CASE p # run[w].msg.push
        BY <1>0, <1>1, <1>2, <1>4, <1>5, <3>0, <3>3 DEF MayCount, MaySend, Posted
      <3>4. CASE p = run[w].msg.push /\ r \in handed
        <4>1. MayCount(run[w], p, r) = 1
          BY <1>0, <1>1, <3>4 DEF MayCount, MaySend, Posted
        <4>2. CASE mishaps'[p] = mishaps[p] + 1
          BY <1>4, <1>5, <3>0, <3>2, <3>4, <4>1, <4>2
        <4>3. CASE handed \cap x.retry = {}
          <5>1. MayCount(run'[w], p, r) = 0
            BY <1>1, <1>2, <3>1, <3>4, <4>3 DEF MayCount, MaySend, Posted
          <5> QED  BY <1>4, <1>5, <3>0, <3>4, <4>1, <5>1
        <4> QED  BY <1>5, <3>4, <4>2, <4>3
      <3>5. CASE p = run[w].msg.push /\ r \notin handed
        <4>1. MayCount(run'[w], p, r) <= MayCount(run[w], p, r)
          BY <1>0, <1>1, <1>2, <3>5 DEF MayCount, MaySend, Posted
        <4> QED  BY <1>4, <1>5, <3>0, <3>2, <3>5, <4>1
      <3> QED  BY <3>3, <3>4, <3>5
    <2> QED  BY <1>0, <1>2, <1>7, <2>1, WorkerBalance DEF PushInv
  <1> QED  BY <1>7, <1>8, <1>9, <1>10 DEF PushInv

\* A step that hands out nothing, and after which a run may send no more.
LEMMA QuietWork ==
    ASSUME Push!TypeOK, Push!TypeOK', CopiesBounded, NEW w \in Workers,
           \A v \in Workers \ {w} : run'[v] = run[v], UNCHANGED <<queue, queued, got, mishaps>>,
           \A p \in Pushes, r \in Push!Recipients :
               MaySend(run'[w], p, r) => MaySend(run[w], p, r)
    PROVE  CopiesBounded'
  <1>1. ASSUME NEW p \in Pushes, NEW r \in Push!Recipients
        PROVE  got'[p][r] + MayCount(run'[w], p, r) + mishaps[p]
                 <= got[p][r] + MayCount(run[w], p, r) + mishaps'[p]
    <2>1. got[p][r] \in Nat /\ mishaps[p] \in Nat
      BY PushAssumption DEF Push!TypeOK, Push!Parameters
    <2> QED  BY <2>1 DEF MayCount
  <1> QED  BY <1>1, WorkerBalance

LEMMA StoreRowsInv ==
    ASSUME PushInv, NEW w \in Workers, Push!StoreRows(w) PROVE PushInv'
  <1> DEFINE x == [run[w] EXCEPT !.at = "tokens"]
  <1>0. /\ Push!TypeOK /\ run[w] \in Push!Run /\ run[w].at = "rows"
        /\ UNCHANGED <<stored, subs, gone, queue, queued, check, got, mishaps, known, missed,
                       dropped, changes>>
    BY AtWork DEF PushInv, Push!StoreRows
  <1>1. Turned(w, x)
    BY DEF Push!StoreRows, Push!Goes, Turned
  <1>2. /\ x \in Push!Run /\ x.at = "tokens" /\ x.msg = run[w].msg /\ x.retry = run[w].retry
        /\ x.dead = run[w].dead
    BY <1>0 DEF Push!Run
  <1> HIDE DEF x
  <1>3. /\ run' \in [Workers -> Push!Run \cup {Push!NoRun}] /\ run'[w] = x
        /\ \A v \in Workers \ {w} : run'[v] = run[v]
    BY <1>0, <1>1, <1>2, OnlyThatRun
  <1>4. row' \subseteq Push!Row
    <2> DEFINE Rows(D, status) ==
                {[device |-> d, status |-> status, there |-> d \notin gone] : d \in D}
    <2>1. \/ UNCHANGED row
          \/ row' = row \cup Rows(run[w].ok, "sent") \cup Rows(run[w].dead, "dead")
                        \cup Rows(run[w].failed, "failed")
      BY DEF Push!StoreRows
    <2>2. row \subseteq Push!Row
      BY <1>0 DEF Push!TypeOK
    <2>3. /\ run[w].ok \subseteq Devices /\ run[w].dead \subseteq Devices
          /\ run[w].failed \subseteq Devices
      BY <1>0 DEF PushInv, RunsInOrder
    <2>4. ASSUME NEW D \in SUBSET Devices, NEW status \in {"sent", "dead", "failed"}
          PROVE  Rows(D, status) \subseteq Push!Row
      <3>1. ASSUME NEW d \in D
            PROVE  [device |-> d, status |-> status, there |-> d \notin gone] \in Push!Row
        <4>1. d \in Devices /\ (d \notin gone) \in BOOLEAN
          OBVIOUS
        <4>2. status \in {"sent", "delivered", "failed", "dead"}
          OBVIOUS
        <4> QED  BY <4>1, <4>2 DEF Push!Row
      <3> QED  BY <3>1
    <2>5. /\ Rows(run[w].ok, "sent") \subseteq Push!Row
          /\ Rows(run[w].dead, "dead") \subseteq Push!Row
          /\ Rows(run[w].failed, "failed") \subseteq Push!Row
      BY <2>3, <2>4
    <2> HIDE DEF Rows
    <2> QED  BY <2>1, <2>2, <2>5
  <1>5. Push!TypeOK'
    BY <1>0, <1>3, <1>4 DEF Push!TypeOK
  <1>6. RunsInOrder'
    BY <1>0, <1>2, <1>3 DEF PushInv, RunsInOrder
  <1>7. DeadIsKnown'
    BY <1>0, <1>2, <1>3, RunForgetsNone DEF PushInv, ToSwitchOff
  <1>8. CopiesBounded'
    BY <1>0, <1>2, <1>3, <1>5, QuietWork DEF PushInv, MaySend
  <1> QED  BY <1>5, <1>6, <1>7, <1>8 DEF PushInv

LEMMA SwitchOffInv ==
    ASSUME PushInv, NEW w \in Workers, Push!SwitchOff(w) PROVE PushInv'
  <1>0. /\ Push!TypeOK /\ run[w] \in Push!Run /\ run[w].at \in Push!Stores
        /\ stored' = [stored EXCEPT ![run[w].at] = @ \ run[w].dead]
        /\ UNCHANGED <<subs, gone, queue, queued, row, check, got, mishaps, known, missed,
                       dropped, changes>>
    BY AtWork DEF PushInv, Push!SwitchOff, Push!Stores
  <1>1. PICK x : /\ Turned(w, x) /\ x \in Push!Run /\ x.msg = run[w].msg
                 /\ x.retry = run[w].retry
                 /\ \/ run[w].at = "tokens" /\ x.at = "installations" /\ x.dead = run[w].dead
                    \/ run[w].at = "installations" /\ x.at = "web"
    <2>1. CASE run[w].at = "tokens"
      <3> DEFINE x == [run[w] EXCEPT !.at = "installations"]
      <3>1. Turned(w, x)
        BY <2>1 DEF Push!SwitchOff, Push!Goes, Turned
      <3>2. x \in Push!Run /\ x.msg = run[w].msg /\ x.at = "installations"
            /\ x.retry = run[w].retry /\ x.dead = run[w].dead
        BY <1>0 DEF Push!Run
      <3> QED  BY <2>1, <3>1, <3>2
    <2>2. CASE run[w].at = "installations"
      <3> DEFINE x == [run[w] EXCEPT !.at = "web", !.to = {}, !.ok = {}, !.dead = {},
                                     !.failed = {}]
      <3>1. Turned(w, x)
        BY <2>2 DEF Push!SwitchOff, Push!Turns, Turned
      <3>2. x \in Push!Run /\ x.msg = run[w].msg /\ x.at = "web" /\ x.retry = run[w].retry
        BY <1>0 DEF Push!Run
      <3> QED  BY <2>2, <3>1, <3>2
    <2> QED  BY <1>0, <2>1, <2>2 DEF Push!Stores
  <1>2. /\ run' \in [Workers -> Push!Run \cup {Push!NoRun}] /\ run'[w] = x
        /\ \A v \in Workers \ {w} : run'[v] = run[v]
    BY <1>0, <1>1, OnlyThatRun
  <1>3. /\ stored' \in [Push!Stores -> SUBSET Devices]
        /\ stored'[run[w].at] = stored[run[w].at] \ run[w].dead
        /\ \A s \in Push!Stores : stored'[s] \subseteq stored[s]
    BY <1>0 DEF Push!TypeOK
  <1>4. Push!TypeOK'
    BY <1>0, <1>2, <1>3 DEF Push!TypeOK
  <1>5. RunsInOrder'
    BY <1>0, <1>1, <1>2 DEF PushInv, RunsInOrder, Push!Stores
  <1>6. DeadIsKnown'
    <2>1. ASSUME NEW s \in Push!Stores, NEW d \in known' \cap stored'[s],
                 d \in ToSwitchOff(run[w], s)
          PROVE  d \in ToSwitchOff(run'[w], s)
      BY <1>0, <1>1, <1>2, <1>3, <2>1 DEF ToSwitchOff, Push!Stores
    <2> QED  BY <1>0, <1>2, <1>3, <2>1, RunForgetsNone DEF PushInv
  <1>7. CopiesBounded'
    BY <1>0, <1>1, <1>2, <1>4, QuietWork DEF PushInv, MaySend
  <1> QED  BY <1>4, <1>5, <1>6, <1>7 DEF PushInv

LEMMA PostWebInv ==
    ASSUME PushInv, NEW w \in Workers, Push!PostWeb(w) PROVE PushInv'
  <1> DEFINE r == run[w]
             to == Push!ActiveBrowsers \cap r.msg.only
  <1>0. /\ Push!TypeOK /\ r \in Push!Run /\ r.at = "web"
        /\ UNCHANGED <<stored, subs, gone, queue, queued, row, check, known, missed, dropped,
                       changes>>
    BY AtWork DEF PushInv, Push!PostWeb
  <1>1. PICK answer \in [to -> {"ok", "gone", "refused", "transient", "lost"}] :
          LET Having(a) == {b \in to : answer[b] = a} IN
          /\ Push!Hand(w, Having("ok") \cup Having("lost"))
          /\ IF Having("lost") = {} THEN UNCHANGED mishaps
             ELSE Push!Mishap(run[w].msg.push)
          /\ run' = [run EXCEPT
                ![w].at = "record", ![w].ok = Having("ok"),
                ![w].dead = Having("gone"), ![w].failed = Having("refused"),
                ![w].retry = @ \cup Having("transient") \cup Having("lost")]
    BY Zenon DEF Push!PostWeb
  <1> DEFINE Having(a) == {b \in to : answer[b] = a}
  <1>2. PICK O, D, E, T, L :
            /\ O = Having("ok") /\ D = Having("gone") /\ E = Having("refused")
            /\ T = Having("transient") /\ L = Having("lost")
    OBVIOUS
  <1>3. /\ O \subseteq to /\ D \subseteq to /\ E \subseteq to /\ T \subseteq to /\ L \subseteq to
        /\ O \cap (T \cup L) = {}
    BY <1>2
  <1>4. /\ Push!Hand(w, O \cup L)
        /\ \/ L = {} /\ UNCHANGED mishaps
           \/ L # {} /\ Push!Mishap(r.msg.push)
        /\ run' = [run EXCEPT ![w].at = "record", ![w].ok = O, ![w].dead = D, ![w].failed = E,
                              ![w].retry = @ \cup T \cup L]
    <2>1. /\ Push!Hand(w, O \cup L)
          /\ IF L = {} THEN UNCHANGED mishaps ELSE Push!Mishap(r.msg.push)
      BY <1>1, <1>2, Zenon
    <2>2. run' = [run EXCEPT ![w].at = "record", ![w].ok = O, ![w].dead = D, ![w].failed = E,
                             ![w].retry = @ \cup T \cup L]
      BY <1>1, <1>2, Zenon
    <2>3. \/ L = {} /\ UNCHANGED mishaps
          \/ L # {} /\ Push!Mishap(r.msg.push)
      BY <2>1
    <2> QED  BY <2>1, <2>2, <2>3
  <1> HIDE DEF Having
  <1>5. to \subseteq Browsers /\ to \subseteq r.msg.only
    BY DEF Push!ActiveBrowsers
  <1> HIDE DEF to
  <1> DEFINE z == [r EXCEPT !.at = "record", !.ok = O, !.dead = D]
             x == [z EXCEPT !.failed = E, !.retry = r.retry \cup T \cup L]
  <1>6. Turned(w, x)
    <2>1. run' = [run EXCEPT ![w].at = "record", ![w].ok = O, ![w].dead = D, ![w].failed = E,
                             ![w].retry = r.retry \cup T \cup L]
      BY <1>0, <1>4 DEF Push!TypeOK, Push!Run
    <2> QED  BY <1>0, <2>1 DEF Push!TypeOK, Turned
  <1>7. z \in Push!Run /\ z.msg = r.msg /\ z.at = "record" /\ z.retry = r.retry
    BY <1>0, <1>3, <1>5 DEF Push!Run, Push!Recipients
  <1> HIDE DEF z
  <1>8. x \in Push!Run
    BY <1>3, <1>5, <1>7 DEF Push!Run, Push!Recipients
  <1>9. x.msg = r.msg /\ x.at = "record" /\ x.retry = r.retry \cup T \cup L
    BY <1>7 DEF Push!Run
  <1> HIDE DEF x
  <1>10. /\ run' \in [Workers -> Push!Run \cup {Push!NoRun}] /\ run'[w] = x
         /\ \A v \in Workers \ {w} : run'[v] = run[v]
    BY <1>0, <1>6, <1>8, OnlyThatRun
  <1>11. r.msg.push \in Pushes /\ r.retry \subseteq Devices \cap r.msg.only
    BY <1>0 DEF PushInv, RunsInOrder, Push!Run, Push!Message
  <1>12. /\ got' \in [Pushes -> [Push!Recipients -> Nat]]
         /\ \A p \in Pushes, b \in Push!Recipients :
               got'[p][b] = got[p][b] + IF p = r.msg.push /\ b \in O \cup L THEN 1 ELSE 0
    BY <1>0, <1>4, Handed
  <1>13. /\ mishaps' \in [Pushes -> 0..MaxMishaps]
         /\ \A p \in Pushes : mishaps[p] \in Nat /\ mishaps'[p] \in Nat /\ mishaps[p] <= mishaps'[p]
         /\ mishaps'[r.msg.push] = mishaps[r.msg.push] + 1 \/ L = {}
    <2>1. CASE L # {} /\ Push!Mishap(r.msg.push)
      BY <1>0, <1>11, <2>1, MishapCounted
    <2>2. CASE UNCHANGED mishaps /\ L = {}
      BY <1>0, <2>2, PushAssumption DEF Push!TypeOK, Push!Parameters
    <2> QED  BY <1>4, <2>1, <2>2
  <1>14. Push!TypeOK'
    BY <1>0, <1>10, <1>12, <1>13 DEF Push!TypeOK
  <1>15. RunsInOrder'
    BY <1>0, <1>9, <1>10 DEF PushInv, RunsInOrder
  <1>16. DeadIsKnown'
    BY <1>0, <1>9, <1>10, RunForgetsNone DEF PushInv, ToSwitchOff, Push!Stores
  <1>17. CopiesBounded'
    <2>1. ASSUME NEW p \in Pushes, NEW b \in Push!Recipients
          PROVE  got'[p][b] + MayCount(run'[w], p, b) + mishaps[p]
                   <= got[p][b] + MayCount(run[w], p, b) + mishaps'[p]
      <3>0. got[p][b] \in Nat
        BY <1>0 DEF Push!TypeOK
      <3>1. Devices \cap Browsers = {}
        BY PushAssumption DEF Push!Parameters
      <3>2. MayCount(run'[w], p, b) \in {0, 1} /\ MayCount(run[w], p, b) \in {0, 1}
        BY DEF MayCount
      <3>3. CASE p # r.msg.push
        BY <1>0, <1>9, <1>10, <1>12, <1>13, <3>0, <3>3 DEF MayCount, MaySend
      <3>4. CASE p = r.msg.push /\ b \in O \cup L
        <4>1. MayCount(run[w], p, b) = 1
          BY <1>0, <1>3, <1>5, <3>4 DEF MayCount, MaySend
        <4>2. CASE mishaps'[p] = mishaps[p] + 1
          BY <1>12, <1>13, <3>0, <3>2, <3>4, <4>1, <4>2
        <4>3. CASE L = {}
          <5>1. b \notin r.retry \cup T \cup L
            BY <1>3, <1>5, <1>11, <3>1, <3>4, <4>3
          <5>2. MayCount(run'[w], p, b) = 0
            BY <1>9, <1>10, <5>1 DEF MayCount, MaySend
          <5> QED  BY <1>12, <1>13, <3>0, <3>4, <4>1, <5>2
        <4> QED  BY <1>13, <3>4, <4>2, <4>3
      <3>5. CASE p = r.msg.push /\ b \notin O \cup L
        <4>1. MayCount(run'[w], p, b) <= MayCount(run[w], p, b)
          BY <1>0, <1>3, <1>5, <1>9, <1>10, <3>5 DEF MayCount, MaySend
        <4> QED  BY <1>12, <1>13, <3>0, <3>2, <3>5, <4>1
      <3> QED  BY <3>3, <3>4, <3>5
    <2> QED  BY <1>0, <1>10, <1>14, <2>1, WorkerBalance DEF PushInv
  <1> QED  BY <1>14, <1>15, <1>16, <1>17 DEF PushInv

LEMMA RecordWebInv ==
    ASSUME PushInv, NEW w \in Workers, Push!RecordWeb(w) PROVE PushInv'
  <1> DEFINE x == [run[w] EXCEPT !.at = "settle", !.to = {}, !.ok = {}, !.dead = {},
                                 !.failed = {}]
  <1>0. /\ Push!TypeOK /\ run[w] \in Push!Run /\ run[w].at = "record"
        /\ UNCHANGED <<stored, gone, queue, queued, row, check, got, mishaps, known, missed,
                       dropped, changes>>
    BY AtWork DEF PushInv, Push!RecordWeb
  <1>1. Turned(w, x)
    BY DEF Push!RecordWeb, Push!Turns, Turned
  <1>2. x \in Push!Run /\ x.msg = run[w].msg /\ x.at = "settle" /\ x.retry = run[w].retry
    BY <1>0 DEF Push!Run
  <1> HIDE DEF x
  <1>3. /\ run' \in [Workers -> Push!Run \cup {Push!NoRun}] /\ run'[w] = x
        /\ \A v \in Workers \ {w} : run'[v] = run[v]
    BY <1>0, <1>1, <1>2, OnlyThatRun
  <1>4. subs' \in [Browsers -> [active : BOOLEAN, failures : Nat]]
    <2>1. subs \in [Browsers -> [active : BOOLEAN, failures : Nat]]
      BY <1>0 DEF Push!TypeOK
    <2>2. ASSUME NEW b \in Browsers
          PROVE  subs'[b] \in [active : BOOLEAN, failures : Nat]
      <3>1. subs[b] \in [active : BOOLEAN, failures : Nat] /\ subs[b].failures + 1 \in Nat
        BY <2>1
      <3>2. (subs[b].active /\ subs[b].failures + 1 < FailureLimit) \in BOOLEAN
        OBVIOUS
      <3>3. PICK off \in BOOLEAN :
                 off = (subs[b].active /\ subs[b].failures + 1 < FailureLimit)
        BY <3>2, Zenon
      <3>4. subs'[b] = CASE b \in run[w].ok     -> [subs[b] EXCEPT !.failures = 0]
                         [] b \in run[w].dead   -> [subs[b] EXCEPT !.active = FALSE]
                         [] b \in run[w].failed -> [active |-> off, failures |-> subs[b].failures + 1]
                         [] OTHER -> subs[b]
        BY <3>3 DEF Push!RecordWeb
      <3>5. [active |-> off, failures |-> subs[b].failures + 1]
                 \in [active : BOOLEAN, failures : Nat]
        BY <3>1
      <3>6. /\ [subs[b] EXCEPT !.failures = 0] \in [active : BOOLEAN, failures : Nat]
            /\ [subs[b] EXCEPT !.active = FALSE] \in [active : BOOLEAN, failures : Nat]
        BY <3>1
      <3> QED  BY <3>1, <3>4, <3>5, <3>6
    <2>3. DOMAIN subs' = Browsers /\ subs' = [b \in Browsers |-> subs'[b]]
      BY DEF Push!RecordWeb
    <2> QED  BY <2>2, <2>3
  <1>5. Push!TypeOK'
    BY <1>0, <1>3, <1>4 DEF Push!TypeOK
  <1>6. RunsInOrder'
    BY <1>0, <1>2, <1>3 DEF PushInv, RunsInOrder
  <1>7. DeadIsKnown'
    BY <1>0, <1>2, <1>3, RunForgetsNone DEF PushInv, ToSwitchOff, Push!Stores
  <1>8. CopiesBounded'
    BY <1>0, <1>2, <1>3, <1>5, QuietWork DEF PushInv, MaySend
  <1> QED  BY <1>5, <1>6, <1>7, <1>8 DEF PushInv


\* A run that has nothing more to send ends.
LEMMA EndInv ==
    ASSUME PushInv, NEW w \in Workers, run[w].at \in {"settle", "ack"}, Push!End(w),
           UNCHANGED <<stored, subs, gone, queue, queued, row, check, got, mishaps, known,
                       missed, changes>>,
           dropped' \subseteq Pushes \X Push!Recipients \X (0..MaxRetries)
    PROVE  PushInv'
  <1>0. Push!TypeOK
    BY DEF PushInv
  <1>1. Turned(w, Push!NoRun)
    BY DEF Push!End, Turned
  <1>2. /\ run' \in [Workers -> Push!Run \cup {Push!NoRun}] /\ run'[w] = Push!NoRun
        /\ \A v \in Workers \ {w} : run'[v] = run[v]
    BY <1>0, <1>1, OnlyThatRun
  <1>3. Push!TypeOK'
    BY <1>0, <1>2 DEF Push!TypeOK
  <1>4. RunsInOrder'
    BY <1>2 DEF PushInv, RunsInOrder, Push!NoRun
  <1>5. DeadIsKnown'
    BY <1>2, RunForgetsNone DEF PushInv, ToSwitchOff, Push!Stores
  <1>6. CopiesBounded'
    BY <1>0, <1>2, <1>3, QuietWork DEF PushInv, MaySend, Push!NoRun
  <1> QED  BY <1>3, <1>4, <1>5, <1>6 DEF PushInv

LEMMA AcknowledgeInv ==
    ASSUME PushInv, NEW w \in Workers, Push!Acknowledge(w) PROVE PushInv'
  BY EndInv DEF Push!Acknowledge, PushInv, Push!TypeOK

\* The retry takes the place of the run in the bound.
LEMMA RetrySentInv ==
    ASSUME PushInv, NEW w \in Workers, run[w].at = "settle", run[w].msg.tries < MaxRetries,
           queue' = Push!BagAdd(queue, Push!Retry(w)), Push!Goes(w, "ack"),
           UNCHANGED <<stored, subs, gone, queued, row, check, got, mishaps, known, missed,
                       dropped, changes>>
    PROVE  PushInv'
  <1> DEFINE x == [run[w] EXCEPT !.at = "ack"]
             m == Push!Retry(w)
  <1>0. Push!TypeOK /\ run[w] \in Push!Run
    BY AtWork DEF PushInv
  <1>1. Turned(w, x)
    BY DEF Push!Goes, Turned
  <1>2. x \in Push!Run /\ x.at = "ack"
    BY <1>0 DEF Push!Run
  <1> HIDE DEF x
  <1>3. /\ run' \in [Workers -> Push!Run \cup {Push!NoRun}] /\ run'[w] = x
        /\ \A v \in Workers \ {w} : run'[v] = run[v]
    BY <1>0, <1>1, <1>2, OnlyThatRun
  <1>4. /\ m \in Push!Message
        /\ m.push = run[w].msg.push /\ m.only = run[w].retry
    <2>1. /\ run[w].msg \in Push!Message /\ run[w].retry \subseteq Push!Recipients
          /\ MaxRetries \in Nat
      BY <1>0, PushAssumption DEF Push!Run, Push!Parameters
    <2>2. run[w].msg.push \in Pushes /\ run[w].msg.tries + 1 \in 0..MaxRetries
      BY <2>1 DEF Push!Message
    <2> QED  BY <2>1, <2>2 DEF Push!Retry, Push!Message
  <1> HIDE DEF m
  <1>5. queue' = Push!BagAdd(queue, m)
    BY DEF m
  <1>6. ASSUME NEW p \in Pushes, NEW r \in Push!Recipients
        PROVE  /\ IsQueue(queue') /\ IsFiniteSet(WaitingIn(queue', p, r))
               /\ Cardinality(WaitingIn(queue', p, r))
                    = Cardinality(WaitingIn(queue, p, r)) + Copy(m, p, r)
    <2>1. IsFiniteSet(WaitingIn(queue, p, r)) /\ IsQueue(queue)
      BY <1>0, QueueTypes DEF PushInv, CopiesBounded
    <2> QED  BY <1>4, <1>5, <2>1, MessageAdded
  <1>7. Push!IsABag(queue') /\ Push!BagToSet(queue') \subseteq Push!Message
    BY <1>0, <1>4, <1>5, QueueAfter
  <1>8. Push!TypeOK'
    BY <1>0, <1>3, <1>7 DEF Push!TypeOK
  <1>9. RunsInOrder'
    BY <1>2, <1>3 DEF PushInv, RunsInOrder
  <1>10. DeadIsKnown'
    BY <1>2, <1>3, RunForgetsNone DEF PushInv, ToSwitchOff, Push!Stores
  <1>11. CopiesBounded'
    <2>1. ASSUME NEW p \in Pushes, NEW r \in Push!Recipients
          PROVE  /\ IsFiniteSet(WaitingIn(queue', p, r))
                 /\ got'[p][r] + Cardinality(WaitingIn(queue', p, r))
                        + MayCount(run'[w], p, r) + Allowed(p)
                      <= got[p][r] + Cardinality(WaitingIn(queue, p, r))
                           + MayCount(run[w], p, r) + Allowed(p)'
      <3>1. MayCount(run'[w], p, r) = 0 /\ MayCount(run[w], p, r) = Copy(m, p, r)
        BY <1>2, <1>3, <1>4 DEF MayCount, MaySend, Copy
      <3>2. Cardinality(WaitingIn(queue, p, r)) \in Nat
        BY FS_CardinalityType DEF PushInv, CopiesBounded
      <3>3. got[p][r] \in Nat /\ got' = got
        BY <1>0 DEF Push!TypeOK
      <3>4. Allowed(p) \in Nat /\ Allowed(p)' = Allowed(p)
        BY <1>0, PushAssumption DEF Push!TypeOK, Push!Parameters, Allowed
      <3>5. Copy(m, p, r) \in Nat
        BY DEF Copy
      <3> QED  BY <1>6, <3>1, <3>2, <3>3, <3>4, <3>5
    <2> QED  BY <1>0, <1>3, <1>8, <2>1, Balance DEF PushInv
  <1> QED  BY <1>8, <1>9, <1>10, <1>11 DEF PushInv

LEMMA SettleInv ==
    ASSUME PushInv, NEW w \in Workers, Push!Settle(w) PROVE PushInv'
  <1>0. /\ Push!TypeOK /\ run[w] \in Push!Run /\ run[w].at = "settle"
        /\ UNCHANGED <<stored, subs, gone, queued, row, check, got, mishaps, known, missed,
                       changes>>
    BY AtWork DEF PushInv, Push!Settle
  <1>1. CASE Push!End(w) /\ UNCHANGED <<queue, dropped>>
    BY <1>0, <1>1, EndInv DEF Push!TypeOK
  <1>2. CASE Push!Drop(w) /\ UNCHANGED queue
    <2>1. dropped' \subseteq Pushes \X Push!Recipients \X (0..MaxRetries)
      <3>1. /\ run[w].msg.push \in Pushes /\ run[w].retry \subseteq Push!Recipients
            /\ run[w].msg.tries \in 0..MaxRetries
        BY <1>0 DEF Push!Run, Push!Message
      <3> QED  BY <1>0, <1>2, <3>1 DEF Push!Drop, Push!TypeOK
    <2> QED  BY <1>0, <1>2, <2>1, EndInv DEF Push!Drop
  <1>3. CASE /\ run[w].msg.tries < MaxRetries /\ queue' = Push!BagAdd(queue, Push!Retry(w))
             /\ Push!Goes(w, "ack") /\ UNCHANGED dropped
    BY <1>0, <1>3, RetrySentInv
  <1> QED  BY <1>1, <1>2, <1>3, Zenon DEF Push!Settle

\* A lost worker leaves a copy in the queue and a mishap that allows for it.
LEMMA LoseInv ==
    ASSUME PushInv, NEW w \in Workers, Push!Lose(w) PROVE PushInv'
  <1> DEFINE m == run[w].msg
  <1>0. /\ Push!TypeOK /\ run[w] \in Push!Run
        /\ Push!Mishap(m.push) /\ queue' = Push!BagAdd(queue, m)
        /\ missed' = missed \cup (Push!Found(run[w]) \cap known)
        /\ Turned(w, Push!NoRun)
        /\ UNCHANGED <<stored, subs, gone, queued, row, check, got, known, dropped, changes>>
    BY DEF PushInv, Push!TypeOK, Push!Lose, Push!End, Turned
  <1>1. m \in Push!Message /\ m.push \in Pushes
    BY <1>0 DEF Push!Run, Push!Message
  <1>2. /\ run' \in [Workers -> Push!Run \cup {Push!NoRun}] /\ run'[w] = Push!NoRun
        /\ \A v \in Workers \ {w} : run'[v] = run[v]
    BY <1>0, OnlyThatRun
  <1>3. /\ mishaps' \in [Pushes -> 0..MaxMishaps]
        /\ mishaps'[m.push] = mishaps[m.push] + 1
        /\ \A q \in Pushes \ {m.push} : mishaps'[q] = mishaps[q]
        /\ \A q \in Pushes : mishaps[q] \in Nat /\ mishaps'[q] \in Nat
    BY <1>0, <1>1, MishapCounted
  <1>4. Push!IsABag(queue') /\ Push!BagToSet(queue') \subseteq Push!Message
    BY <1>0, <1>1, QueueAfter
  <1>5. Push!TypeOK'
    BY <1>0, <1>2, <1>3, <1>4 DEF Push!TypeOK
  <1>6. RunsInOrder'
    BY <1>2 DEF PushInv, RunsInOrder, Push!NoRun
  <1>7. DeadIsKnown'
    <2>1. ASSUME NEW s \in Push!Stores, NEW d \in known' \cap stored'[s],
                 d \in ToSwitchOff(run[w], s)
          PROVE  d \in missed'
      BY <1>0, <2>1 DEF ToSwitchOff, Push!Found, Push!Stores
    <2> QED  BY <1>0, <1>2, <2>1, RunForgetsNone DEF PushInv
  <1>8. CopiesBounded'
    <2>1. ASSUME NEW p \in Pushes, NEW r \in Push!Recipients
          PROVE  /\ IsFiniteSet(WaitingIn(queue', p, r))
                 /\ got'[p][r] + Cardinality(WaitingIn(queue', p, r))
                        + MayCount(run'[w], p, r) + Allowed(p)
                      <= got[p][r] + Cardinality(WaitingIn(queue, p, r))
                           + MayCount(run[w], p, r) + Allowed(p)'
      <3>1. MayCount(run'[w], p, r) = 0 /\ MayCount(run[w], p, r) \in Nat
        BY <1>2 DEF MayCount, MaySend, Push!NoRun
      <3>2. IsFiniteSet(WaitingIn(queue, p, r)) /\ IsQueue(queue)
        BY <1>0, QueueTypes DEF PushInv, CopiesBounded
      <3>3. /\ IsFiniteSet(WaitingIn(queue', p, r))
            /\ Cardinality(WaitingIn(queue', p, r))
                 = Cardinality(WaitingIn(queue, p, r)) + Copy(m, p, r)
        BY <1>0, <1>1, <3>2, MessageAdded
      <3>4. Cardinality(WaitingIn(queue, p, r)) \in Nat
        BY <3>2, FS_CardinalityType
      <3>5. got[p][r] \in Nat /\ got' = got
        BY <1>0 DEF Push!TypeOK
      <3>6. Allowed(p) \in Nat /\ Allowed(p)' = Allowed(p) + IF p = m.push THEN 1 ELSE 0
        BY <1>0, <1>1, <1>3 DEF Allowed
      <3>7. Copy(m, p, r) \in Nat /\ Copy(m, p, r) <= IF p = m.push THEN 1 ELSE 0
        BY DEF Copy
      <3> HIDE DEF m
      <3> QED  BY <3>1, <3>3, <3>4, <3>5, <3>6, <3>7
    <2> QED  BY <1>0, <1>2, <1>5, <2>1, Balance DEF PushInv
  <1> QED  BY <1>5, <1>6, <1>7, <1>8 DEF PushInv

\* A worker takes over the copy of the message it takes.
LEMMA TakeInv ==
    ASSUME PushInv, NEW w \in Workers, NEW m, Push!Take(w, m) PROVE PushInv'
  <1> DEFINE x == [msg |-> m, at |-> "expo", to |-> Push!ActiveTokens \cap m.only,
                   ok |-> {}, dead |-> {}, failed |-> {}, retry |-> {}]
  <1>0. /\ Push!TypeOK /\ run[w] = Push!NoRun /\ IsQueue(queue)
        /\ Push!BagIn(m, queue) /\ queue' = Push!BagRemove(queue, m)
        /\ Turned(w, x)
        /\ UNCHANGED <<stored, subs, gone, queued, row, check, got, mishaps, known, missed,
                       dropped, changes>>
    BY QueueTypes DEF PushInv, Push!Take, Turned
  <1>1. m \in Push!Message
    BY <1>0 DEF IsQueue, Push!BagIn, Push!BagToSet
  <1>2. x \in Push!Run
    <2>1. Push!ActiveTokens \subseteq Devices
      BY <1>0 DEF Push!TypeOK, Push!ActiveTokens, Push!Stores
    <2> QED  BY <1>1, <2>1 DEF Push!Run
  <1>3. /\ x.msg = m /\ x.at = "expo" /\ x.to \subseteq m.only /\ x.retry = {}
    OBVIOUS
  <1> HIDE DEF x
  <1>4. /\ run' \in [Workers -> Push!Run \cup {Push!NoRun}] /\ run'[w] = x
        /\ \A v \in Workers \ {w} : run'[v] = run[v]
    BY <1>0, <1>2, OnlyThatRun
  <1>5. Push!IsABag(queue') /\ Push!BagToSet(queue') \subseteq Push!Message
    <2>1. queue \in [DOMAIN queue -> Nat \ {0}] /\ DOMAIN queue \subseteq Push!Message
          /\ m \in DOMAIN queue
      BY <1>0 DEF IsQueue, Push!BagIn, Push!BagToSet
    <2> QED  BY <1>0, <2>1 DEF Push!IsABag, Push!BagToSet, Push!BagRemove
  <1>6. Push!TypeOK'
    BY <1>0, <1>4, <1>5 DEF Push!TypeOK
  <1>7. RunsInOrder'
    BY <1>3, <1>4 DEF PushInv, RunsInOrder
  <1>8. DeadIsKnown'
    BY <1>0, <1>4, RunForgetsNone DEF PushInv, ToSwitchOff, Push!NoRun, Push!Stores
  <1>9. CopiesBounded'
    <2>1. ASSUME NEW p \in Pushes, NEW r \in Push!Recipients
          PROVE  /\ IsFiniteSet(WaitingIn(queue', p, r))
                 /\ got'[p][r] + Cardinality(WaitingIn(queue', p, r))
                        + MayCount(run'[w], p, r) + Allowed(p)
                      <= got[p][r] + Cardinality(WaitingIn(queue, p, r))
                           + MayCount(run[w], p, r) + Allowed(p)'
      <3>1. MayCount(run[w], p, r) = 0 /\ MayCount(run'[w], p, r) = Copy(m, p, r)
        BY <1>0, <1>3, <1>4 DEF MayCount, MaySend, Copy, Push!NoRun
      <3>2. IsFiniteSet(WaitingIn(queue, p, r))
        BY DEF PushInv, CopiesBounded
      <3>3. /\ IsFiniteSet(WaitingIn(queue', p, r))
            /\ Cardinality(WaitingIn(queue', p, r)) + Copy(m, p, r)
                 = Cardinality(WaitingIn(queue, p, r))
        BY <1>0, <3>2, MessageTaken
      <3>4. /\ Cardinality(WaitingIn(queue, p, r)) \in Nat
            /\ Cardinality(WaitingIn(queue', p, r)) \in Nat
        BY <3>2, <3>3, FS_CardinalityType
      <3>5. got[p][r] \in Nat /\ got' = got
        BY <1>0 DEF Push!TypeOK
      <3>6. Allowed(p) \in Nat /\ Allowed(p)' = Allowed(p)
        BY <1>0, PushAssumption DEF Push!TypeOK, Push!Parameters, Allowed
      <3>7. Copy(m, p, r) \in Nat
        BY DEF Copy
      <3> QED  BY <3>1, <3>3, <3>4, <3>5, <3>6, <3>7
    <2> QED  BY <1>0, <1>4, <1>6, <2>1, Balance DEF PushInv
  <1> QED  BY <1>6, <1>7, <1>8, <1>9 DEF PushInv

\* A push that is asked for is in the queue once.
LEMMA AskInv ==
    ASSUME PushInv, NEW p \in Pushes, Push!Ask(p) PROVE PushInv'
  <1> DEFINE m == [push |-> p, only |-> Push!Recipients, tries |-> 0]
  <1>0. /\ Push!TypeOK /\ p \notin queued /\ queued' = queued \cup {p}
        /\ queue' = Push!BagAdd(queue, m)
        /\ UNCHANGED <<stored, subs, gone, run, row, check, got, mishaps, known, missed,
                       dropped, changes>>
    BY DEF PushInv, Push!Ask
  <1>1. m \in Push!Message
    BY PushAssumption DEF Push!Message, Push!Parameters
  <1>2. m.push = p
    OBVIOUS
  <1> HIDE DEF m
  <1>3. Push!IsABag(queue') /\ Push!BagToSet(queue') \subseteq Push!Message
    BY <1>0, <1>1, QueueAfter
  <1>4. Push!TypeOK'
    BY <1>0, <1>3 DEF Push!TypeOK
  <1>5. RunsInOrder' /\ DeadIsKnown'
    BY <1>0 DEF PushInv, RunsInOrder, DeadIsKnown
  <1>6. CopiesBounded'
    <2> SUFFICES ASSUME NEW q \in Pushes, NEW r \in Push!Recipients
                 PROVE  /\ IsFiniteSet(WaitingIn(queue', q, r)) /\ IsFiniteSet(Sending(q, r)')
                        /\ got'[q][r] + Cardinality(WaitingIn(queue', q, r))
                             + Cardinality(Sending(q, r)') <= Allowed(q)'
      BY DEF CopiesBounded
    <2>1. IsFiniteSet(WaitingIn(queue, q, r)) /\ IsFiniteSet(Sending(q, r)) /\ IsQueue(queue)
          /\ got[q][r] + Cardinality(WaitingIn(queue, q, r)) + Cardinality(Sending(q, r))
               <= Allowed(q)
      BY <1>0, QueueTypes DEF PushInv, CopiesBounded
    <2>2. /\ IsFiniteSet(WaitingIn(queue', q, r))
          /\ Cardinality(WaitingIn(queue', q, r))
               = Cardinality(WaitingIn(queue, q, r)) + Copy(m, q, r)
      BY <1>0, <1>1, <2>1, MessageAdded
    <2>3. Sending(q, r)' = Sending(q, r) /\ got' = got
      BY <1>0 DEF Sending
    <2>4. /\ Cardinality(WaitingIn(queue, q, r)) \in Nat /\ Cardinality(Sending(q, r)) \in Nat
          /\ got[q][r] \in Nat
      BY <1>0, <2>1, FS_CardinalityType DEF Push!TypeOK
    <2>5. Allowed(q) \in Nat /\ Allowed(q)' = Allowed(q) + IF q = p THEN 1 ELSE 0
      BY <1>0, PushAssumption DEF Push!TypeOK, Push!Parameters, Allowed
    <2>6. Copy(m, q, r) \in Nat /\ Copy(m, q, r) <= IF q = p THEN 1 ELSE 0
      BY <1>2 DEF Copy
    <2> QED  BY <2>1, <2>2, <2>3, <2>4, <2>5, <2>6
  <1> QED  BY <1>4, <1>5, <1>6 DEF PushInv

-----------------------------------------------------------------------------
(* The steps of the member and of the check of receipts *)

LEMMA QuietInv ==
    ASSUME PushInv, Push!TypeOK', UNCHANGED <<queue, queued, run, got>>,
           \A p \in Pushes : mishaps'[p] \in Nat /\ mishaps[p] <= mishaps'[p],
           \A s \in Push!Stores : \A d \in known' \cap stored'[s] :
               /\ d \in known \cap stored[s] \/ d \in ToSwitchOff(check', s)
               /\ d \in missed => d \in missed'
               /\ d \in ToSwitchOff(check, s) => d \in ToSwitchOff(check', s) \cup missed'
    PROVE  PushInv'
  <1>1. RunsInOrder'
    BY DEF PushInv, RunsInOrder
  <1>2. DeadIsKnown'
    <2> SUFFICES ASSUME NEW s \in Push!Stores, NEW d \in known' \cap stored'[s]
                 PROVE  \/ d \in missed'
                        \/ \E v \in Workers : d \in ToSwitchOff(run'[v], s)
                        \/ d \in ToSwitchOff(check', s)
      BY Zenon DEF DeadIsKnown, ToSwitchOff, Push!Stores
    <2>1. CASE d \in known \cap stored[s]
      <3>1. \/ d \in missed
            \/ \E v \in Workers : d \in ToSwitchOff(run[v], s)
            \/ d \in ToSwitchOff(check, s)
        BY <2>1 DEF PushInv, DeadIsKnown
      <3> QED  BY <3>1
    <2>2. CASE d \in ToSwitchOff(check', s)
      BY <2>2
    <2> QED  BY <2>1, <2>2
  <1>3. CopiesBounded'
    BY NothingHanded DEF PushInv
  <1> QED  BY <1>1, <1>2, <1>3 DEF PushInv

LEMMA MishapsGrow ==
    ASSUME Push!TypeOK, UNCHANGED mishaps
    PROVE  \A p \in Pushes : mishaps'[p] \in Nat /\ mishaps[p] <= mishaps'[p]
  BY PushAssumption DEF Push!TypeOK, Push!Parameters

LEMMA OneMoreChange ==
    ASSUME Push!TypeOK, Push!Change PROVE changes' \in 0..MaxChanges
  BY PushAssumption DEF Push!TypeOK, Push!Parameters, Push!Change

LEMMA RegisterInv ==
    ASSUME PushInv, NEW d \in Devices, NEW s \in Push!Stores, Push!Register(d, s) PROVE PushInv'
  <1>0. /\ Push!TypeOK /\ stored' = [stored EXCEPT ![s] = @ \cup {d}]
        /\ gone' = gone \ {d} /\ known' = known \ {d} /\ missed' = missed \ {d}
        /\ UNCHANGED <<subs, queue, queued, run, row, check, got, mishaps, dropped>>
    BY DEF PushInv, Push!Register
  <1>1. /\ stored' \in [Push!Stores -> SUBSET Devices]
        /\ \A t \in Push!Stores : stored'[t] \subseteq stored[t] \cup {d}
    BY <1>0 DEF Push!TypeOK
  <1>2. changes' \in 0..MaxChanges
    BY <1>0, OneMoreChange DEF Push!Register
  <1>3. Push!TypeOK'
    BY <1>0, <1>1, <1>2 DEF Push!TypeOK
  <1>4. ASSUME NEW t \in Push!Stores, NEW e \in known' \cap stored'[t]
        PROVE  /\ e \in known \cap stored[t] \/ e \in ToSwitchOff(check', t)
               /\ e \in missed => e \in missed'
               /\ e \in ToSwitchOff(check, t) => e \in ToSwitchOff(check', t) \cup missed'
    BY <1>0, <1>1
  <1> QED  BY <1>0, <1>3, <1>4, MishapsGrow, QuietInv

LEMMA RevokeInv ==
    ASSUME PushInv, NEW d \in Devices, NEW s \in Push!Stores, Push!Revoke(d, s) PROVE PushInv'
  <1>0. /\ Push!TypeOK /\ stored' = [stored EXCEPT ![s] = @ \ {d}]
        /\ UNCHANGED <<subs, gone, queue, queued, run, row, check, got, mishaps, known, missed,
                       dropped>>
    BY DEF PushInv, Push!Revoke
  <1>1. /\ stored' \in [Push!Stores -> SUBSET Devices]
        /\ \A t \in Push!Stores : stored'[t] \subseteq stored[t]
    BY <1>0 DEF Push!TypeOK
  <1>2. changes' \in 0..MaxChanges
    BY <1>0, OneMoreChange DEF Push!Revoke
  <1>3. Push!TypeOK'
    BY <1>0, <1>1, <1>2 DEF Push!TypeOK
  <1> QED  BY <1>0, <1>1, <1>3, MishapsGrow, QuietInv

LEMMA VanishInv ==
    ASSUME PushInv, NEW d \in Devices, Push!Vanish(d) PROVE PushInv'
  <1>0. /\ Push!TypeOK /\ gone' = gone \cup {d}
        /\ UNCHANGED <<stored, subs, queue, queued, run, row, check, got, mishaps, known, missed,
                       dropped>>
    BY DEF PushInv, Push!Vanish
  <1>1. changes' \in 0..MaxChanges
    BY <1>0, OneMoreChange DEF Push!Vanish
  <1>2. Push!TypeOK'
    BY <1>0, <1>1 DEF Push!TypeOK
  <1> QED  BY <1>0, <1>2, MishapsGrow, QuietInv

LEMMA BrowsersInv ==
    ASSUME PushInv, NEW b \in Browsers, Push!Subscribe(b) \/ Push!Unsubscribe(b) PROVE PushInv'
  <1>0. /\ Push!TypeOK
        /\ UNCHANGED <<stored, gone, queue, queued, run, row, check, got, mishaps, known, missed,
                       dropped>>
    BY DEF PushInv, Push!Subscribe, Push!Unsubscribe
  <1>1. changes' \in 0..MaxChanges
    BY <1>0, OneMoreChange DEF Push!Subscribe, Push!Unsubscribe
  <1>2. subs' \in [Browsers -> [active : BOOLEAN, failures : Nat]]
    <2>1. subs \in [Browsers -> [active : BOOLEAN, failures : Nat]]
      BY <1>0 DEF Push!TypeOK
    <2>2. CASE Push!Subscribe(b)
      BY <2>1, <2>2 DEF Push!Subscribe
    <2>3. CASE Push!Unsubscribe(b)
      BY <2>1, <2>3 DEF Push!Unsubscribe
    <2> QED  BY <2>2, <2>3
  <1>3. Push!TypeOK'
    BY <1>0, <1>1, <1>2 DEF Push!TypeOK
  <1> QED  BY <1>0, <1>3, MishapsGrow, QuietInv

LEMMA ChecksOn ==
    ASSUME Push!TypeOK, check.at # "idle" PROVE check \in Push!Check
  BY DEF Push!TypeOK, Push!NoCheck

LEMMA ExpireInv ==
    ASSUME PushInv, Push!Expire PROVE PushInv'
  <1>0. /\ Push!TypeOK /\ check = Push!NoCheck
        /\ check' = [at |-> "read", pending |-> {}, dead |-> {}]
        /\ UNCHANGED <<stored, subs, gone, queue, queued, run, got, mishaps, known, missed,
                       dropped, changes>>
    BY DEF PushInv, Push!Expire
  <1>1. row' \subseteq Push!Row
    <2>1. PICK old \in SUBSET Push!Awaiting :
            row' = (row \ old) \cup {[r EXCEPT !.status = "failed"] : r \in old}
      BY DEF Push!Expire
    <2>2. old \subseteq Push!Row /\ row \subseteq Push!Row
      BY <1>0 DEF Push!TypeOK, Push!Awaiting
    <2>3. ASSUME NEW r \in old PROVE [r EXCEPT !.status = "failed"] \in Push!Row
      BY <2>2 DEF Push!Row
    <2> QED  BY <2>1, <2>2, <2>3
  <1>2. check' \in Push!Check
    BY <1>0 DEF Push!Check
  <1>3. Push!TypeOK'
    BY <1>0, <1>1, <1>2 DEF Push!TypeOK
  <1>4. \A s \in Push!Stores : ToSwitchOff(check, s) = {}
    BY <1>0 DEF ToSwitchOff, Push!NoCheck, Push!Stores
  <1> QED  BY <1>0, <1>3, <1>4, MishapsGrow, QuietInv

LEMMA ReadDueInv ==
    ASSUME PushInv, Push!ReadDue PROVE PushInv'
  <1>0. /\ Push!TypeOK /\ check \in Push!Check /\ check.at = "read"
        /\ UNCHANGED <<stored, subs, gone, queue, queued, run, row, got, mishaps, known, missed,
                       dropped, changes>>
    BY ChecksOn DEF PushInv, Push!ReadDue
  <1>1. check' = Push!NoCheck \/ check' \in Push!Check
    <2>1. PICK due \in SUBSET Push!Awaiting :
            check' = IF due = {} THEN Push!NoCheck
                     ELSE [check EXCEPT !.at = "fetch", !.pending = due]
      BY DEF Push!ReadDue
    <2>2. due \subseteq Push!Row
      BY <1>0 DEF Push!TypeOK, Push!Awaiting
    <2> QED  BY <1>0, <2>1, <2>2 DEF Push!Check
  <1>2. Push!TypeOK'
    BY <1>0, <1>1 DEF Push!TypeOK
  <1>3. \A s \in Push!Stores : ToSwitchOff(check, s) = {}
    BY <1>0 DEF ToSwitchOff, Push!Stores
  <1> QED  BY <1>0, <1>2, <1>3, MishapsGrow, QuietInv

LEMMA FetchInv ==
    ASSUME PushInv, Push!Fetch PROVE PushInv'
  <1>0. /\ Push!TypeOK /\ check \in Push!Check /\ check.at = "fetch"
        /\ UNCHANGED <<stored, subs, gone, queue, queued, run, row, got, mishaps, known, missed,
                       dropped, changes>>
    BY ChecksOn DEF PushInv, Push!Fetch
  <1>1. check' = Push!NoCheck \/ check' \in Push!Check
    <2>1. PICK ready \in SUBSET check.pending :
            check' = IF ready = {} THEN Push!NoCheck
                     ELSE [at |-> "write", pending |-> ready,
                           dead |-> {r.device : r \in {x \in ready : ~x.there}}]
      BY DEF Push!Fetch
    <2>2. ready \subseteq Push!Row
      BY <1>0 DEF Push!Check
    <2>3. {r.device : r \in {x \in ready : ~x.there}} \subseteq Devices
      BY <2>2 DEF Push!Row
    <2> QED  BY <2>1, <2>2, <2>3 DEF Push!Check
  <1>2. Push!TypeOK'
    BY <1>0, <1>1 DEF Push!TypeOK
  <1>3. \A s \in Push!Stores : ToSwitchOff(check, s) = {}
    BY <1>0 DEF ToSwitchOff, Push!Stores
  <1> QED  BY <1>0, <1>2, <1>3, MishapsGrow, QuietInv

LEMMA WriteVerdictsInv ==
    ASSUME PushInv, Push!WriteVerdicts PROVE PushInv'
  <1> DEFINE c == [check EXCEPT !.at = "tokens", !.pending = {}]
  <1>0. /\ Push!TypeOK /\ check \in Push!Check /\ check.at = "write"
        /\ known' = known \cup check.dead /\ check' = c
        /\ UNCHANGED <<stored, subs, gone, queue, queued, run, got, mishaps, missed, dropped,
                       changes>>
    BY ChecksOn DEF PushInv, Push!WriteVerdicts
  <1>1. c \in Push!Check /\ c.at = "tokens" /\ c.dead = check.dead
    BY <1>0 DEF Push!Check
  <1> HIDE DEF c
  <1>2. row' \subseteq Push!Row
    <2>1. PICK verdict \in [check.pending -> {"delivered", "failed", "dead"}] :
            row' = (row \ check.pending) \cup
                    {[r EXCEPT !.status = verdict[r]] : r \in check.pending}
      BY DEF Push!WriteVerdicts
    <2>2. row \subseteq Push!Row /\ check.pending \subseteq Push!Row
      BY <1>0 DEF Push!TypeOK, Push!Check
    <2>3. ASSUME NEW r \in check.pending PROVE [r EXCEPT !.status = verdict[r]] \in Push!Row
      BY <2>2 DEF Push!Row
    <2> QED  BY <2>1, <2>2, <2>3
  <1>3. check.dead \subseteq Devices
    BY <1>0 DEF Push!Check
  <1>4. Push!TypeOK'
    BY <1>0, <1>1, <1>2, <1>3 DEF Push!TypeOK
  <1>5. ASSUME NEW s \in Push!Stores, NEW d \in known' \cap stored'[s]
        PROVE  /\ d \in known \cap stored[s] \/ d \in ToSwitchOff(check', s)
               /\ d \in missed => d \in missed'
               /\ d \in ToSwitchOff(check, s) => d \in ToSwitchOff(check', s) \cup missed'
    BY <1>0, <1>1, <1>5 DEF ToSwitchOff
  <1> QED  BY <1>0, <1>4, <1>5, MishapsGrow, QuietInv

LEMMA SwitchOffDeadInv ==
    ASSUME PushInv, Push!SwitchOffDead PROVE PushInv'
  <1>0. /\ Push!TypeOK /\ check \in Push!Check /\ check.at \in Push!Stores
        /\ stored' = [stored EXCEPT ![check.at] = @ \ check.dead]
        /\ check' = IF check.at = "tokens" THEN [check EXCEPT !.at = "installations"]
                    ELSE Push!NoCheck
        /\ UNCHANGED <<subs, gone, queue, queued, run, row, got, mishaps, known, missed, dropped,
                       changes>>
    BY ChecksOn DEF PushInv, Push!SwitchOffDead, Push!Stores
  <1>1. /\ check' = Push!NoCheck \/ check' \in Push!Check
        /\ check.at = "tokens" => check'.at = "installations" /\ check'.dead = check.dead
    BY <1>0 DEF Push!Check
  <1>2. /\ stored' \in [Push!Stores -> SUBSET Devices]
        /\ stored'[check.at] = stored[check.at] \ check.dead
        /\ \A s \in Push!Stores : stored'[s] \subseteq stored[s]
    BY <1>0 DEF Push!TypeOK
  <1>3. Push!TypeOK'
    BY <1>0, <1>1, <1>2 DEF Push!TypeOK
  <1>4. ASSUME NEW s \in Push!Stores, NEW d \in known' \cap stored'[s]
        PROVE  /\ d \in known \cap stored[s] \/ d \in ToSwitchOff(check', s)
               /\ d \in missed => d \in missed'
               /\ d \in ToSwitchOff(check, s) => d \in ToSwitchOff(check', s) \cup missed'
    BY <1>0, <1>1, <1>2, <1>4 DEF ToSwitchOff, Push!Stores
  <1> QED  BY <1>0, <1>3, <1>4, MishapsGrow, QuietInv

LEMMA LoseCheckInv ==
    ASSUME PushInv, Push!LoseCheck PROVE PushInv'
  <1>0. /\ Push!TypeOK /\ check' = Push!NoCheck
        /\ missed' = missed \cup (Push!Found(check) \cap known)
        /\ UNCHANGED <<stored, subs, gone, queue, queued, run, row, got, known, dropped, changes>>
    BY DEF PushInv, Push!LoseCheck
  <1>1. PICK p \in Pushes : Push!Mishap(p)
    BY DEF Push!LoseCheck
  <1>2. /\ mishaps' \in [Pushes -> 0..MaxMishaps]
        /\ \A q \in Pushes : mishaps'[q] \in Nat /\ mishaps[q] <= mishaps'[q]
    <2>1. /\ mishaps' \in [Pushes -> 0..MaxMishaps]
          /\ mishaps'[p] = mishaps[p] + 1
          /\ \A q \in Pushes \ {p} : mishaps'[q] = mishaps[q]
          /\ \A q \in Pushes : mishaps[q] \in Nat /\ mishaps'[q] \in Nat
      BY <1>0, <1>1, MishapCounted
    <2> QED  BY <2>1
  <1>3. Push!TypeOK'
    BY <1>0, <1>2 DEF Push!TypeOK
  <1>4. ASSUME NEW s \in Push!Stores, NEW d \in known' \cap stored'[s]
        PROVE  /\ d \in known \cap stored[s] \/ d \in ToSwitchOff(check', s)
               /\ d \in missed => d \in missed'
               /\ d \in ToSwitchOff(check, s) => d \in ToSwitchOff(check', s) \cup missed'
    BY <1>0, <1>4 DEF ToSwitchOff, Push!Found, Push!Stores
  <1> QED  BY <1>0, <1>2, <1>3, <1>4, QuietInv

-----------------------------------------------------------------------------
(* The invariant is inductive *)

LEMMA InitPushInv == ASSUME Push!Init PROVE PushInv
  <1>1. Push!TypeOK
    <2>1. /\ MaxMishaps \in Nat /\ MaxChanges \in Nat
          /\ Devices \subseteq Push!Recipients
      BY PushAssumption DEF Push!Parameters, Push!Recipients
    <2>2. Push!IsABag(Push!EmptyBag) /\ Push!BagToSet(Push!EmptyBag) = {}
      BY DEF Push!IsABag, Push!BagToSet, Push!EmptyBag, Push!SetToBag
    <2> QED  BY <2>1, <2>2 DEF Push!Init, Push!TypeOK
  <1>2. RunsInOrder
    BY DEF Push!Init, RunsInOrder, Push!NoRun
  <1>3. DeadIsKnown
    BY DEF Push!Init, DeadIsKnown
  <1>4. CopiesBounded
    <2> SUFFICES ASSUME NEW p \in Pushes, NEW r \in Push!Recipients
                 PROVE  /\ IsFiniteSet(WaitingIn(queue, p, r)) /\ IsFiniteSet(Sending(p, r))
                        /\ got[p][r] + Cardinality(WaitingIn(queue, p, r))
                             + Cardinality(Sending(p, r)) <= Allowed(p)
      BY DEF CopiesBounded
    <2>1. DOMAIN queue = {}
      BY DEF Push!Init, Push!EmptyBag, Push!SetToBag
    <2>2. \A m \in Push!Message : Times(queue, m) = 0
      BY <2>1 DEF Times
    <2>3. WaitingIn(queue, p, r) = {}
      BY <2>2 DEF WaitingIn
    <2>4. Sending(p, r) = {}
      BY DEF Push!Init, Sending, MaySend, Push!NoRun
    <2>5. got[p][r] = 0 /\ Allowed(p) = 0
      BY DEF Push!Init, Allowed
    <2> QED  BY <2>3, <2>4, <2>5, FS_EmptySet
  <1> QED  BY <1>1, <1>2, <1>3, <1>4 DEF PushInv

LEMMA WorkInv ==
    ASSUME PushInv, NEW w \in Workers, Push!Work(w) PROVE PushInv'
  BY PostExpoInv, StoreRowsInv, SwitchOffInv, PostWebInv, RecordWebInv, SettleInv,
     AcknowledgeInv DEF Push!Work

LEMMA PushStep == ASSUME PushInv, [Push!Next]_(Push!vars) PROVE PushInv'
  <1>1. CASE \E d \in Devices, s \in Push!Stores : Push!Register(d, s) \/ Push!Revoke(d, s)
    BY <1>1, RegisterInv, RevokeInv
  <1>2. CASE \E d \in Devices : Push!Vanish(d)
    BY <1>2, VanishInv
  <1>3. CASE \E b \in Browsers : Push!Subscribe(b) \/ Push!Unsubscribe(b)
    BY <1>3, BrowsersInv
  <1>4. CASE \E p \in Pushes : Push!Ask(p)
    BY <1>4, AskInv
  <1>5. CASE \E w \in Workers, m \in Push!BagToSet(queue) : Push!Take(w, m)
    BY <1>5, TakeInv
  <1>6. CASE \E w \in Workers : Push!Work(w) \/ Push!Lose(w)
    BY <1>6, WorkInv, LoseInv
  <1>7. CASE \/ Push!Expire \/ Push!ReadDue \/ Push!Fetch \/ Push!WriteVerdicts
             \/ Push!SwitchOffDead \/ Push!LoseCheck
    BY <1>7, ExpireInv, ReadDueInv, FetchInv, WriteVerdictsInv, SwitchOffDeadInv, LoseCheckInv
  <1>8. CASE UNCHANGED Push!vars
    <2>1. UNCHANGED <<stored, subs, gone, queue, queued, run, row, check, got, mishaps, known,
                      missed, dropped, changes>>
      BY <1>8 DEF Push!vars
    <2>2. Push!TypeOK /\ Push!TypeOK'
      BY <2>1 DEF PushInv, Push!TypeOK
    <2> QED  BY <2>1, <2>2, MishapsGrow, QuietInv
  <1> QED  BY <1>1, <1>2, <1>3, <1>4, <1>5, <1>6, <1>7, <1>8, Zenon DEF Push!Next

-----------------------------------------------------------------------------
(* Theorems about pushes *)

\* The invariant holds of every run, for any number of pushes, telephones,
\* browsers, workers, retries and mishaps.
THEOREM PushInvariance == Push!Spec => []PushInv
  <1>1. Push!Init => PushInv
    BY InitPushInv
  <1>2. PushInv /\ [Push!Next]_(Push!vars) => PushInv'
    BY PushStep
  <1> QED  BY <1>1, <1>2, PTL DEF Push!Spec

\* Every variable of the push task keeps its type.
THEOREM PushTypeCorrect == Push!Spec => []Push!TypeOK
  <1>1. PushInv => Push!TypeOK
    BY DEF PushInv
  <1> QED  BY <1>1, PushInvariance, PTL

\* A recipient is handed a push a second time only when a worker was lost or
\* the answer of a provider did not arrive, as often as that and no more.
THEOREM OneCopyCorrect == Push!Spec => []NoSecondCopy
  <1>1. PushInv => NoSecondCopy
    <2> SUFFICES ASSUME PushInv, NEW p \in Pushes, NEW r \in Push!Recipients
                 PROVE  got[p][r] <= 1 + mishaps[p]
      BY DEF NoSecondCopy, Push!NoSecondCopy
    <2>1. /\ IsFiniteSet(WaitingIn(queue, p, r)) /\ IsFiniteSet(Sending(p, r))
          /\ got[p][r] + Cardinality(WaitingIn(queue, p, r)) + Cardinality(Sending(p, r))
               <= Allowed(p)
      BY DEF PushInv, CopiesBounded
    <2>2. /\ Cardinality(WaitingIn(queue, p, r)) \in Nat
          /\ Cardinality(Sending(p, r)) \in Nat
      BY <2>1, FS_CardinalityType
    <2>3. got[p][r] \in Nat /\ mishaps[p] \in Nat
      BY PushAssumption DEF PushInv, Push!TypeOK, Push!Parameters
    <2>4. Allowed(p) \in Nat /\ Allowed(p) <= 1 + mishaps[p]
      BY <2>3 DEF Allowed
    <2> QED  BY <2>1, <2>2, <2>3, <2>4
  <1> QED  BY <1>1, PushInvariance, PTL

\* A device that a ticket or a receipt has told to be gone is off in both
\* stores, or its finder is about to see to it, or was lost before it could.
THEOREM DeadCorrect == Push!Spec => []DeadIsSwitchedOff
  <1>1. PushInv => DeadIsSwitchedOff
    <2> DEFINE finders == UNION {Push!Found(run[w]) : w \in Workers}
    <2> SUFFICES ASSUME PushInv, NEW d \in known \cap Push!ActiveTokens
                 PROVE  d \in missed \/ d \in finders \/ d \in Push!Found(check)
      BY DEF DeadIsSwitchedOff, Push!DeadIsSwitchedOff
    <2>0. PICK s \in Push!Stores : d \in known \cap stored[s]
      BY DEF Push!ActiveTokens, Push!Stores
    <2>1. \/ d \in missed
          \/ \E w \in Workers : d \in ToSwitchOff(run[w], s)
          \/ d \in ToSwitchOff(check, s)
      BY <2>0 DEF PushInv, DeadIsKnown
    <2>2. \A w \in Workers : ToSwitchOff(run[w], s) \subseteq finders
      BY DEF ToSwitchOff, Push!Found, Push!Stores
    <2> QED  BY <2>1, <2>2 DEF ToSwitchOff, Push!Found, Push!Stores
  <1> QED  BY <1>1, PushInvariance, PTL
=============================================================================
