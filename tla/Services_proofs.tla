-------------------------- MODULE Services_proofs --------------------------
(***************************************************************************)
(* Proofs about the services of MCServices, for any devices, requests,     *)
(* workers, tickets, files and bounds.  Each service is proved about as a  *)
(* specification of its own.                                               *)
(***************************************************************************)
EXTENDS MCServices, RecursionTheorems, FiniteSetTheorems, SequenceTheorems, TLAPS

-----------------------------------------------------------------------------
(* Annotations: the inductive invariant *)

\* No row, device or answer is ahead of the document.
NoneAhead ==
    /\ \A m \in Marks : item[m] # NoMark => item[m].revision <= revision
    /\ \A d \in Devices :
          /\ base[d] <= revision
          /\ poll[d] # Idle => poll[d] <= revision
          /\ reply[d] # Idle => reply[d].revision <= revision

\* A device waits for one thing at a time, and does not catch up while it
\* waits for an answer.
OneAtATime ==
    \A d \in Devices :
        /\ reply[d] # Idle => out[d] # Idle
        /\ out[d] # Idle => poll[d] = Idle /\ out[d].base = base[d]

\* What somebody was told of a mark is how it is, or an older version.
Genuine(i, m) ==
    /\ item[m] # NoMark
    /\ i = item[m] \/ i.version < item[m].version

TellsTruth ==
    \A d \in Devices, m \in Marks :
        /\ copy[d][m] # NoMark => Genuine(copy[d][m], m)
        /\ reply[d] # Idle /\ m \in DOMAIN reply[d].news
              => Genuine(reply[d].news[m], m)
        /\ out[d] # Idle /\ m \in DOMAIN out[d].ops =>
              LET op == out[d].ops[m] IN
              op.version # 0 =>
                  op.seen # NoMark /\ op.seen.version = op.version /\ Genuine(op.seen, m)

\* An answer has the marks that changed between what its device had caught up
\* with and its revision, as they are, unless they have changed again.
AnswerIsComplete ==
    \A d \in Devices, m \in Marks :
        reply[d] # Idle =>
            /\ (/\ item[m] # NoMark
                /\ item[m].revision > base[d]
                /\ item[m].revision <= reply[d].revision) => m \in DOMAIN reply[d].news
            /\ m \in DOMAIN reply[d].news =>
                  \/ reply[d].news[m] = item[m]
                  \/ item[m].revision > reply[d].revision

IInv ==
    /\ TypeOK /\ NoneAhead /\ OneAtATime /\ TellsTruth /\ AnswerIsComplete
    /\ NothingMissed /\ VersionProtects

-----------------------------------------------------------------------------
(* What a request does to the marks *)

\* The marks a request changes.
Changed(q) == Created(q) \cup Updated(q) \cup Deleted(q)

LEMMA RequestType ==
    ASSUME NEW q, IsRequest(q)
    PROVE  /\ q.edit \in Nat
           /\ q.base \in Nat
           /\ DOMAIN q.ops \subseteq Marks
           /\ \A m \in DOMAIN q.ops : q.ops[m] \in Op
  BY DEF IsRequest

\* They are marks of the request, and finitely many.
LEMMA ChangedMarks ==
    ASSUME NEW q, IsRequest(q)
    PROVE  /\ Changed(q) \subseteq DOMAIN q.ops
           /\ Changed(q) \subseteq Marks
           /\ Cardinality(Changed(q)) \in Nat
  <1>1. Changed(q) \subseteq DOMAIN q.ops
    BY DEF Changed, Created, Updated, Deleted
  <1>2. Changed(q) \subseteq Marks
    BY <1>1, RequestType
  <1>3. IsFiniteSet(Changed(q))
    BY <1>2, FS_Subset, SyncAssumption
  <1> QED BY <1>1, <1>2, <1>3, FS_CardinalityType

\* A changed mark has a row, of its next version.
LEMMA StoredRow ==
    ASSUME TypeOK, NEW q, IsRequest(q), NEW m \in Changed(q), NEW r \in Nat
    PROVE  /\ Stored(q, m, r) \in Item
           /\ Stored(q, m, r).revision = r
           /\ item[m] # NoMark => Stored(q, m, r).version = item[m].version + 1
  <1>1. m \in Marks
    BY ChangedMarks
  <1>2. item[m] = NoMark \/ item[m] \in Item
    BY <1>1 DEF TypeOK
  <1>3. q.edit \in Nat
    BY RequestType
  <1>4. m \in Deleted(q) => item[m] \in Item
    BY <1>2 DEF Deleted
  <1>5. (IF m \in Deleted(q) THEN item[m].edit ELSE q.edit) \in Nat
    BY <1>3, <1>4 DEF Item
  <1>6. (IF item[m] = NoMark THEN 1 ELSE item[m].version + 1) \in Nat \ {0}
    BY <1>2 DEF Item
  <1>7. (m \in Deleted(q)) \in BOOLEAN
    OBVIOUS
  <1> QED BY <1>5, <1>6, <1>7 DEF Stored, Item

\* A sync leaves a mark as it is, or gives it its next version and a revision
\* that nobody has caught up with.
LEMMA ApplyMarks ==
    ASSUME TypeOK, NEW d \in Devices, IsRequest(out[d]), Apply(d, out[d])
    PROVE  /\ revision' \in Nat /\ revision' >= revision
           /\ item' \in [Marks -> Item \cup {NoMark}]
           /\ \A m \in Marks \ Changed(out[d]) : item'[m] = item[m]
           /\ \A m \in Changed(out[d]) :
                 /\ item'[m] \in Item
                 /\ item'[m].revision > revision
                 /\ item'[m].revision <= revision'
                 /\ item[m] # NoMark => item'[m].version = item[m].version + 1
  <1> DEFINE q == out[d]
             n == Cardinality(Changed(q))
  <1>1. revision \in Nat /\ n \in Nat /\ Changed(q) \subseteq Marks
    BY ChangedMarks DEF TypeOK
  <1>2. PICK number \in Numbering(revision, Changed(q)) :
          /\ revision' = revision + n
          /\ item' = [m \in Marks |->
                IF m \in Changed(q) THEN Stored(q, m, number[m]) ELSE item[m]]
    BY DEF Apply, Changed
  <1>3. \A m \in Changed(q) : /\ number[m] \in Nat
                              /\ number[m] > revision
                              /\ number[m] <= revision + n
    <2>1. number \in [Changed(q) -> (revision + 1)..(revision + n)]
      BY <1>2 DEF Numbering
    <2> QED BY <2>1, <1>1
  <1>4. \A m \in Changed(q) :
          /\ Stored(q, m, number[m]) \in Item
          /\ Stored(q, m, number[m]).revision = number[m]
          /\ item[m] # NoMark =>
                Stored(q, m, number[m]).version = item[m].version + 1
    BY <1>3, StoredRow
  <1>5. item \in [Marks -> Item \cup {NoMark}]
    BY DEF TypeOK
  <1>6. \A m \in Marks : item'[m] = IF m \in Changed(q) THEN Stored(q, m, number[m])
                                    ELSE item[m]
    BY <1>2
  <1>7. item' \in [Marks -> Item \cup {NoMark}]
    BY <1>2, <1>4, <1>5
  <1> HIDE DEF q, n
  <1>8. \A m \in Changed(q) :
                 /\ item'[m] \in Item
                 /\ item'[m].revision > revision
                 /\ item'[m].revision <= revision'
                 /\ item[m] # NoMark => item'[m].version = item[m].version + 1
    BY <1>1, <1>2, <1>3, <1>4, <1>6
  <1> QED BY <1>1, <1>2, <1>6, <1>7, <1>8 DEF q

\* The answer to a sync tells what is in the table afterwards.
LEMMA NewsOfTable ==
    ASSUME NEW table \in [Marks -> Item \cup {NoMark}], NEW n \in Nat
    PROVE  /\ \E D \in SUBSET Marks : Since(table, n) \in [D -> Item]
           /\ \A m \in DOMAIN Since(table, n) :
                 /\ m \in Marks /\ table[m] # NoMark /\ table[m].revision > n
                 /\ Since(table, n)[m] = table[m]
           /\ \A m \in Marks :
                 (table[m] # NoMark /\ table[m].revision > n)
                    => m \in DOMAIN Since(table, n)
  <1> DEFINE D == {x \in Marks : table[x] # NoMark /\ table[x].revision > n}
  <1>1. Since(table, n) = [m \in D |-> table[m]]
    BY DEF Since
  <1>2. Since(table, n) \in [D -> Item]
    BY <1>1
  <1> QED BY <1>1, <1>2

\* What was told before a sync is still true after it.
LEMMA GenuineStays ==
    ASSUME TypeOK, NEW d \in Devices, IsRequest(out[d]), Apply(d, out[d]),
           NEW i, NEW m \in Marks, Genuine(i, m), i \in Item
    PROVE  Genuine(i, m)'
  <1>1. item[m] \in Item
    BY DEF Genuine, TypeOK
  <1>2. CASE m \in Changed(out[d])
    <2>1. item'[m] \in Item /\ item'[m].version = item[m].version + 1
      BY <1>2, ApplyMarks DEF Genuine
    <2>2. item'[m] # NoMark
      BY <2>1, SyncAssumption
    <2>3. i.version <= item[m].version /\ i.version \in Nat /\ item[m].version \in Nat
      BY <1>1 DEF Genuine, Item
    <2> QED BY <2>1, <2>2, <2>3 DEF Genuine
  <1>3. CASE m \notin Changed(out[d])
    <2>1. item'[m] = item[m]
      BY <1>3, ApplyMarks
    <2> QED BY <2>1 DEF Genuine
  <1> QED BY <1>2, <1>3

-----------------------------------------------------------------------------
(* Every step *)

\* The parts of the invariant.
LEMMA InvParts ==
    IInv <=> /\ TypeOK /\ NoneAhead /\ OneAtATime /\ TellsTruth
             /\ AnswerIsComplete /\ NothingMissed /\ VersionProtects
  BY DEF IInv

LEMMA InitInv == Init => IInv
  BY SyncAssumption
     DEF Init, IInv, TypeOK, NoneAhead, OneAtATime, TellsTruth, AnswerIsComplete,
         NothingMissed, VersionProtects

LEMMA StutterInv == IInv /\ UNCHANGED vars => IInv'
  BY DEF vars, IInv, TypeOK, NoneAhead, OneAtATime, TellsTruth, Genuine,
         AnswerIsComplete, NothingMissed, VersionProtects, IsRequest, IsAnswer

\* A request names what its device was told.
LEMMA SendInv == ASSUME IInv, NEW d \in Devices, Send(d) PROVE IInv'
  <1> USE DEF Send
  <1>0. PICK D \in SUBSET Known(d) : \E deleted \in SUBSET D :
          out' = [out EXCEPT ![d] =
                    [ops  |-> [m \in D |-> Change(d, m, m \in deleted)],
                     edit |-> edits', base |-> base[d]]]
    OBVIOUS
  <1>1. PICK deleted \in SUBSET D :
          out' = [out EXCEPT ![d] =
                    [ops  |-> [m \in D |-> Change(d, m, m \in deleted)],
                     edit |-> edits', base |-> base[d]]]
    BY <1>0
  <1> DEFINE q == [ops  |-> [m \in D |-> Change(d, m, m \in deleted)],
                   edit |-> edits', base |-> base[d]]
  <1>2. /\ out'[d] = q
        /\ \A e \in Devices \ {d} : out'[e] = out[e]
        /\ out' = [e \in Devices |-> out'[e]]
    BY <1>1 DEF IInv, TypeOK
  <1>3. D \in SUBSET Marks
    BY <1>1 DEF Known
  <1>4. edits' \in 0..MaxEdits /\ edits' \in Nat /\ base[d] \in Nat
    BY SyncAssumption DEF IInv, TypeOK
  <1>5. \A m \in D : /\ copy[d][m] \in Item \cup {NoMark}
                     /\ Change(d, m, m \in deleted) \in Op
    <2> SUFFICES ASSUME NEW m \in D
                 PROVE  /\ copy[d][m] \in Item \cup {NoMark}
                        /\ Change(d, m, m \in deleted) \in Op
      OBVIOUS
    <2>1. copy[d][m] \in Item \cup {NoMark}
      BY <1>3 DEF IInv, TypeOK
    <2>2. (IF copy[d][m] = NoMark THEN 0 ELSE copy[d][m].version) \in Nat
      BY <2>1 DEF Item
    <2>3. (m \in deleted) \in BOOLEAN
      OBVIOUS
    <2> QED BY <2>1, <2>2, <2>3 DEF Change, Op
  <1>6. IsRequest(q)
    BY <1>3, <1>4, <1>5 DEF IsRequest
  <1>7. TypeOK'
    BY <1>2, <1>4, <1>6 DEF IInv, TypeOK, IsRequest, IsAnswer
  <1>8. NoneAhead' /\ NothingMissed' /\ VersionProtects' /\ AnswerIsComplete'
    BY DEF IInv, NoneAhead, NothingMissed, VersionProtects, AnswerIsComplete
  <1>9. OneAtATime'
    BY <1>2 DEF IInv, OneAtATime
  <1>10. TellsTruth'
    <2> SUFFICES ASSUME NEW m \in DOMAIN q.ops, q.ops[m].version # 0
                 PROVE  /\ q.ops[m].seen # NoMark
                        /\ q.ops[m].seen.version = q.ops[m].version
                        /\ Genuine(q.ops[m].seen, m)
      BY <1>2 DEF IInv, TellsTruth, Genuine
    <2>1. m \in Marks /\ q.ops[m] = Change(d, m, m \in deleted)
      BY <1>3
    <2> QED BY <2>1 DEF Change, IInv, TellsTruth
  <1> QED BY <1>7, <1>8, <1>9, <1>10, InvParts DEF IInv

\* A request that is applied: nobody loses sight of what it changes.
LEMMA ApplyInv ==
    ASSUME IInv, NEW d \in Devices, out[d] # Idle, Apply(d, out[d]),
           syncs' \in 0..MaxSyncs, UNCHANGED <<base, copy, out, poll, edits>>
    PROVE  IInv'
  <1> DEFINE q == out[d]
             a == [revision |-> revision', news |-> Since(item', q.base)]
  <1>1. IsRequest(q)
    BY DEF IInv, TypeOK
  <1>2. /\ revision' \in Nat /\ revision' >= revision
        /\ item' \in [Marks -> Item \cup {NoMark}]
        /\ \A m \in Marks \ Changed(q) : item'[m] = item[m]
        /\ \A m \in Changed(q) :
              /\ item'[m] \in Item
              /\ item'[m].revision > revision
              /\ item'[m].revision <= revision'
              /\ item[m] # NoMark => item'[m].version = item[m].version + 1
    BY <1>1, ApplyMarks DEF IInv
  <1>3. reply' = [reply EXCEPT ![d] = a]
    BY DEF Apply
  <1>4. /\ reply'[d] = a
        /\ \A e \in Devices \ {d} : reply'[e] = reply[e]
        /\ reply' = [e \in Devices |-> reply'[e]]
    BY <1>3 DEF IInv, TypeOK
  <1>5. q.base \in Nat /\ q.base = base[d]
    BY <1>1, RequestType DEF IInv, OneAtATime
  <1>6. /\ \E D \in SUBSET Marks : a.news \in [D -> Item]
        /\ \A m \in DOMAIN a.news :
              /\ m \in Marks /\ item'[m] # NoMark /\ item'[m].revision > base[d]
              /\ a.news[m] = item'[m]
        /\ \A m \in Marks :
              (item'[m] # NoMark /\ item'[m].revision > base[d])
                 => m \in DOMAIN a.news
    BY <1>2, <1>5, NewsOfTable
  <1>7. a.revision = revision' /\ IsAnswer(a)
    BY <1>2, <1>6 DEF IsAnswer
  <1>8. /\ revision \in Nat /\ item \in [Marks -> Item \cup {NoMark}]
        /\ base \in [Devices -> Nat]
        /\ \A e \in Devices : reply[e] # Idle => reply[e].revision \in Nat
        /\ \A e \in Devices : poll[e] # Idle => poll[e] \in Nat
    BY DEF IInv, TypeOK, IsAnswer
  <1>9. \A e \in Devices : IsRequest(out[e])' <=> IsRequest(out[e])
    BY DEF IsRequest
  <1>10. \A e \in Devices : out[e] # Idle =>
           \A m \in DOMAIN out[e].ops : m \in Marks /\ out[e].ops[m] \in Op
    BY RequestType DEF IInv, TypeOK
  <1> HIDE DEF q, a
  <1>11. TypeOK'
    <2>1. unseen' \subseteq {"versioned", "unversioned", "delete"}
      BY DEF Apply, How, IInv, TypeOK
    <2>2. \A e \in Devices : (reply[e] = Idle \/ IsAnswer(reply[e]))'
      BY <1>4, <1>7 DEF IInv, TypeOK, IsAnswer
    <2> QED BY <1>2, <1>4, <1>9, <2>1, <2>2 DEF IInv, TypeOK
  <1>12. NoneAhead'
    <2>1. \A m \in Marks : item'[m] # NoMark => item'[m].revision <= revision'
      <3> SUFFICES ASSUME NEW m \in Marks, item'[m] # NoMark
                   PROVE  item'[m].revision <= revision'
        OBVIOUS
      <3>1. CASE m \in Changed(q)
        BY <3>1, <1>2
      <3>2. CASE m \notin Changed(q)
        <4>1. item'[m] = item[m] /\ item[m] \in Item /\ item[m].revision <= revision
          BY <3>2, <1>2, <1>8 DEF IInv, NoneAhead
        <4> QED BY <4>1, <1>2, <1>8 DEF Item
      <3> QED BY <3>1, <3>2
    <2>2. \A e \in Devices : reply'[e] # Idle => reply'[e].revision <= revision'
      BY <1>2, <1>4, <1>7, <1>8 DEF IInv, NoneAhead
    <2>3. \A e \in Devices : /\ base[e] <= revision'
                             /\ poll[e] # Idle => poll[e] <= revision'
      BY <1>2, <1>8 DEF IInv, NoneAhead
    <2> QED BY <2>1, <2>2, <2>3 DEF NoneAhead
  <1>13. OneAtATime'
    BY <1>4 DEF IInv, OneAtATime
  <1>14. TellsTruth'
    <2> SUFFICES ASSUME NEW e \in Devices, NEW m \in Marks
                 PROVE  /\ copy[e][m] # NoMark => Genuine(copy[e][m], m)'
                        /\ reply'[e] # Idle /\ m \in DOMAIN reply'[e].news
                              => Genuine(reply[e].news[m], m)'
                        /\ out[e] # Idle /\ m \in DOMAIN out[e].ops =>
                              LET op == out[e].ops[m] IN
                              op.version # 0 =>
                                  /\ op.seen # NoMark
                                  /\ op.seen.version = op.version
                                  /\ Genuine(op.seen, m)'
      BY DEF TellsTruth, Genuine
    <2>1. ASSUME NEW i \in Item, Genuine(i, m)
          PROVE  /\ item'[m] # NoMark
                 /\ i = item'[m] \/ i.version < item'[m].version
      BY <2>1, <1>1, GenuineStays DEF Genuine, IInv, q
    <2>2. copy[e][m] # NoMark => copy[e][m] \in Item /\ Genuine(copy[e][m], m)
      BY DEF IInv, TypeOK, TellsTruth
    <2>3. copy[e][m] # NoMark => Genuine(copy[e][m], m)'
      BY <2>1, <2>2 DEF Genuine
    <2>4. ASSUME reply'[e] # Idle, m \in DOMAIN reply'[e].news
          PROVE  Genuine(reply[e].news[m], m)'
      <3>1. CASE e = d
        BY <3>1, <2>4, <1>4, <1>6 DEF Genuine
      <3>2. CASE e # d
        <4>1. reply'[e] = reply[e] /\ reply[e] # Idle /\ m \in DOMAIN reply[e].news
          BY <3>2, <2>4, <1>4
        <4>2. reply[e].news[m] \in Item
          BY <4>1 DEF IInv, TypeOK, IsAnswer
        <4>3. Genuine(reply[e].news[m], m)
          BY <4>1 DEF IInv, TellsTruth
        <4> QED BY <4>1, <4>2, <4>3, <2>1 DEF Genuine
      <3> QED BY <3>1, <3>2
    <2>5. ASSUME out[e] # Idle, m \in DOMAIN out[e].ops, out[e].ops[m].version # 0
          PROVE  /\ out[e].ops[m].seen # NoMark
                 /\ out[e].ops[m].seen.version = out[e].ops[m].version
                 /\ Genuine(out[e].ops[m].seen, m)'
      <3>1. /\ out[e].ops[m].seen # NoMark
            /\ out[e].ops[m].seen.version = out[e].ops[m].version
            /\ Genuine(out[e].ops[m].seen, m)
        BY <2>5 DEF IInv, TellsTruth
      <3>2. out[e].ops[m].seen \in Item
        BY <2>5, <3>1, <1>10 DEF Op
      <3> QED BY <3>1, <3>2, <2>1 DEF Genuine
    <2> QED BY <2>3, <2>4, <2>5
  <1>15. AnswerIsComplete'
    <2> SUFFICES ASSUME NEW e \in Devices, NEW m \in Marks, reply'[e] # Idle
                 PROVE  /\ (/\ item'[m] # NoMark
                            /\ item'[m].revision > base[e]
                            /\ item'[m].revision <= reply'[e].revision)
                               => m \in DOMAIN reply'[e].news
                        /\ m \in DOMAIN reply'[e].news =>
                              \/ reply'[e].news[m] = item'[m]
                              \/ item'[m].revision > reply'[e].revision
      BY DEF AnswerIsComplete
    <2>1. CASE e = d
      BY <2>1, <1>4, <1>6
    <2>2. CASE e # d
      <3>1. reply'[e] = reply[e] /\ reply[e] # Idle
        BY <2>2, <1>4
      <3>2. reply[e].revision \in Nat /\ reply[e].revision <= revision
        BY <3>1, <1>8 DEF IInv, NoneAhead
      <3>3. CASE m \in Changed(q)
        <4>1. item'[m].revision \in Nat /\ item'[m].revision > reply[e].revision
          BY <3>2, <3>3, <1>2, <1>8 DEF Item
        <4> QED BY <3>1, <3>2, <4>1
      <3>4. CASE m \notin Changed(q)
        BY <3>1, <3>4, <1>2 DEF IInv, AnswerIsComplete
      <3> QED BY <3>3, <3>4
    <2> QED BY <2>1, <2>2
  <1>16. NothingMissed'
    <2> SUFFICES ASSUME NEW e \in Devices, NEW m \in Marks,
                        item'[m] # NoMark, item'[m].revision <= base[e]
                 PROVE  copy[e][m] = item'[m]
      BY DEF NothingMissed
    <2>1. base[e] \in Nat /\ base[e] <= revision
      BY <1>8 DEF IInv, NoneAhead
    <2>2. m \notin Changed(q)
      <3> SUFFICES ASSUME m \in Changed(q) PROVE FALSE
        OBVIOUS
      <3>1. item'[m].revision \in Nat /\ item'[m].revision > revision
        BY <1>2 DEF Item
      <3> QED BY <3>1, <2>1, <1>8
    <2> QED BY <2>2, <1>2 DEF IInv, NothingMissed
  <1>17. VersionProtects'
    <2> SUFFICES ASSUME NEW m \in Changed(q), Replaces(q, m)
                 PROVE  How(q.ops[m]) # "versioned"
      BY DEF Apply, Changed, VersionProtects, IInv, q
    <2> SUFFICES ASSUME ~q.ops[m].delete, q.ops[m].version # 0
                 PROVE  FALSE
      BY DEF How
    <2>1. m \in DOMAIN q.ops /\ m \in Marks
      BY <1>1, ChangedMarks
    <2>2. m \in Updated(q)
      BY DEF Changed, Created, Deleted, Replaces
    <2>3. q.ops[m].version = item[m].version
      BY <2>1, <2>2 DEF Updated, Conflicts
    <2>4. q.ops[m].seen.version = q.ops[m].version /\ Genuine(q.ops[m].seen, m)
      BY <2>1 DEF IInv, TellsTruth, q
    <2>5. item[m] \in Item
      BY <2>1, <1>8 DEF Replaces
    <2>6. q.ops[m].seen = item[m]
      BY <2>3, <2>4, <2>5 DEF Genuine, Item
    <2> QED BY <2>6 DEF Replaces
  <1> QED BY <1>11, <1>12, <1>13, <1>14, <1>15, <1>16, <1>17, InvParts DEF IInv

\* A request that has too many marks is refused and forgotten.
LEMMA SyncInv == ASSUME IInv, NEW d \in Devices, Sync(d) PROVE IInv'
  <1>1. syncs' \in 0..MaxSyncs /\ out[d] # Idle
    BY SyncAssumption DEF Sync, IInv, TypeOK
  <1>2. CASE Apply(d, out[d]) /\ UNCHANGED out
    BY <1>1, <1>2, ApplyInv DEF Sync
  <1>3. CASE /\ out' = [out EXCEPT ![d] = Idle]
             /\ reply' = [reply EXCEPT ![d] = Idle]
             /\ UNCHANGED <<revision, item, unseen>>
    <2>1. UNCHANGED <<revision, item, unseen, base, copy, poll, edits>>
      BY <1>3 DEF Sync
    <2>2. /\ out'[d] = Idle /\ reply'[d] = Idle
          /\ \A e \in Devices \ {d} : out'[e] = out[e] /\ reply'[e] = reply[e]
          /\ out' = [e \in Devices |-> out'[e]]
          /\ reply' = [e \in Devices |-> reply'[e]]
      BY <1>3 DEF IInv, TypeOK
    <2>3. TypeOK'
      BY <1>1, <2>1, <2>2 DEF IInv, TypeOK, IsRequest, IsAnswer
    <2>4. NoneAhead' /\ OneAtATime' /\ AnswerIsComplete'
      BY <2>1, <2>2 DEF IInv, NoneAhead, OneAtATime, AnswerIsComplete
    <2>5. TellsTruth'
      BY <2>1, <2>2 DEF IInv, TellsTruth, Genuine
    <2>6. NothingMissed' /\ VersionProtects'
      BY <2>1 DEF IInv, NothingMissed, VersionProtects
    <2> QED BY <2>3, <2>4, <2>5, <2>6, InvParts DEF IInv
  <1> QED BY <1>2, <1>3 DEF Sync

\* An answer brings its device up to the revision of the answer.
LEMMA ReceiveInv == ASSUME IInv, NEW d \in Devices, Receive(d) PROVE IInv'
  <1> USE DEF Receive
  <1> DEFINE a == reply[d]
  <1>1. /\ a # Idle /\ IsAnswer(a)
        /\ UNCHANGED <<revision, item, poll, edits, syncs, unseen>>
    BY DEF IInv, TypeOK
  <1>2. /\ \A m \in Marks : copy'[d][m] = IF m \in DOMAIN a.news THEN a.news[m]
                                          ELSE copy[d][m]
        /\ \A e \in Devices \ {d} : copy'[e] = copy[e]
    BY DEF Told, IInv, TypeOK
  <1>3. /\ base'[d] = a.revision
        /\ \A e \in Devices \ {d} : base'[e] = base[e]
    BY DEF IInv, TypeOK
  <1>4. /\ out'[d] = Idle /\ reply'[d] = Idle
        /\ \A e \in Devices \ {d} : out'[e] = out[e] /\ reply'[e] = reply[e]
        /\ out' = [e \in Devices |-> out'[e]]
        /\ reply' = [e \in Devices |-> reply'[e]]
    BY DEF IInv, TypeOK
  <1>5. /\ a.revision \in Nat
        /\ \A m \in DOMAIN a.news : m \in Marks /\ a.news[m] \in Item
    BY <1>1 DEF IsAnswer
  <1>6. TypeOK'
    <2>1. copy' \in [Devices -> [Marks -> Item \cup {NoMark}]]
      <3>1. \A m \in Marks :
              (IF m \in DOMAIN a.news THEN a.news[m] ELSE copy[d][m])
                 \in Item \cup {NoMark}
        BY <1>5 DEF IInv, TypeOK
      <3>2. [m \in Marks |-> IF m \in DOMAIN a.news THEN a.news[m] ELSE copy[d][m]]
               \in [Marks -> Item \cup {NoMark}]
        BY <3>1
      <3> QED BY <3>2 DEF Told, IInv, TypeOK
    <2>2. base' \in [Devices -> Nat]
      BY <1>5 DEF IInv, TypeOK
    <2>3. \A e \in Devices : /\ (out[e] = Idle \/ IsRequest(out[e]))'
                             /\ (reply[e] = Idle \/ IsAnswer(reply[e]))'
      BY <1>4 DEF IInv, TypeOK, IsRequest, IsAnswer
    <2> QED BY <1>1, <1>4, <2>1, <2>2, <2>3 DEF IInv, TypeOK
  <1> HIDE DEF a
  <1>7. NoneAhead'
    BY <1>1, <1>3, <1>4 DEF IInv, NoneAhead, a
  <1>8. OneAtATime'
    BY <1>1, <1>3, <1>4 DEF IInv, OneAtATime
  <1>9. TellsTruth'
    <2> SUFFICES ASSUME NEW e \in Devices, NEW m \in Marks
                 PROVE  /\ copy'[e][m] # NoMark => Genuine(copy'[e][m], m)
                        /\ reply'[e] # Idle /\ m \in DOMAIN reply'[e].news
                              => Genuine(reply'[e].news[m], m)
                        /\ out'[e] # Idle /\ m \in DOMAIN out'[e].ops =>
                              LET op == out'[e].ops[m] IN
                              op.version # 0 =>
                                  /\ op.seen # NoMark
                                  /\ op.seen.version = op.version
                                  /\ Genuine(op.seen, m)
      BY <1>1 DEF TellsTruth, Genuine
    <2>1. CASE e = d
      BY <2>1, <1>1, <1>2, <1>4 DEF IInv, TellsTruth, a
    <2>2. CASE e # d
      BY <2>2, <1>2, <1>4 DEF IInv, TellsTruth
    <2> QED BY <2>1, <2>2
  <1>10. AnswerIsComplete'
    BY <1>1, <1>3, <1>4 DEF IInv, AnswerIsComplete
  <1>11. NothingMissed'
    <2> SUFFICES ASSUME NEW e \in Devices, NEW m \in Marks,
                        item[m] # NoMark, item[m].revision <= base'[e]
                 PROVE  copy'[e][m] = item[m]
      BY <1>1 DEF NothingMissed
    <2>1. CASE e # d
      BY <2>1, <1>2, <1>3 DEF IInv, NothingMissed
    <2>2. CASE e = d /\ m \in DOMAIN a.news
      <3>1. item[m].revision \in Nat /\ item[m].revision <= a.revision
        BY <2>2, <1>3 DEF IInv, TypeOK, Item
      <3>2. a.news[m] = item[m]
        BY <1>1, <1>5, <2>2, <3>1 DEF IInv, AnswerIsComplete, a
      <3> QED BY <2>2, <3>2, <1>2
    <2>3. CASE e = d /\ m \notin DOMAIN a.news
      <3>1. item[m].revision \in Nat /\ base[d] \in Nat
        BY DEF IInv, TypeOK, Item
      <3>2. ~(item[m].revision > base[d])
        BY <1>1, <1>3, <2>3 DEF IInv, AnswerIsComplete, a
      <3>3. copy[d][m] = item[m]
        BY <3>1, <3>2 DEF IInv, NothingMissed
      <3> QED BY <2>3, <3>3, <1>2
    <2> QED BY <2>1, <2>2, <2>3
  <1>12. VersionProtects'
    BY <1>1 DEF IInv, VersionProtects
  <1> QED BY <1>6, <1>7, <1>8, <1>9, <1>10, <1>11, <1>12, InvParts DEF IInv

LEMMA ReadRevisionInv ==
    ASSUME IInv, NEW d \in Devices, ReadRevision(d) PROVE IInv'
  <1> USE DEF ReadRevision
  <1>1. /\ UNCHANGED <<revision, item, base, copy, out, reply, edits, syncs, unseen>>
        /\ poll'[d] = revision
        /\ \A e \in Devices \ {d} : poll'[e] = poll[e]
        /\ poll' \in [Devices -> Nat \cup {Idle}]
        /\ out[d] = Idle /\ revision \in Nat
    BY DEF IInv, TypeOK
  <1>2. TypeOK'
    BY <1>1 DEF IInv, TypeOK, IsRequest, IsAnswer
  <1>3. NoneAhead' /\ OneAtATime'
    BY <1>1 DEF IInv, NoneAhead, OneAtATime
  <1>4. TellsTruth' /\ AnswerIsComplete' /\ NothingMissed' /\ VersionProtects'
    BY <1>1 DEF IInv, TellsTruth, Genuine, AnswerIsComplete, NothingMissed,
                VersionProtects
  <1> QED BY <1>2, <1>3, <1>4, InvParts DEF IInv

\* The marks are read after the revision, so that nothing is skipped.
LEMMA ReadItemsInv == ASSUME IInv, NEW d \in Devices, ReadItems(d) PROVE IInv'
  <1> USE DEF ReadItems
  <1> DEFINE table == Since(item, base[d])
  <1>1. /\ UNCHANGED <<revision, item, out, reply, edits, syncs, unseen>>
        /\ poll'[d] = Idle
        /\ \A e \in Devices \ {d} : poll'[e] = poll[e]
        /\ poll' \in [Devices -> Nat \cup {Idle}]
        /\ poll[d] # Idle /\ poll[d] \in Nat
        /\ out[d] = Idle /\ reply[d] = Idle
    BY DEF IInv, TypeOK, OneAtATime
  <1>2. CASE UNCHANGED <<copy, base>>
    <2>1. TypeOK'
      BY <1>1, <1>2 DEF IInv, TypeOK, IsRequest, IsAnswer
    <2>2. NoneAhead' /\ OneAtATime'
      BY <1>1, <1>2 DEF IInv, NoneAhead, OneAtATime
    <2>3. TellsTruth' /\ AnswerIsComplete' /\ NothingMissed' /\ VersionProtects'
      BY <1>1, <1>2 DEF IInv, TellsTruth, Genuine, AnswerIsComplete, NothingMissed,
                        VersionProtects
    <2> QED BY <2>1, <2>2, <2>3, InvParts DEF IInv
  <1>3. CASE Told(d, table) /\ base' = [base EXCEPT ![d] = poll[d]]
    <2>1. /\ \A m \in DOMAIN table : m \in Marks /\ table[m] = item[m]
                                                /\ item[m] # NoMark
          /\ \A m \in Marks : item[m] # NoMark /\ item[m].revision > base[d]
                                 => m \in DOMAIN table
      BY NewsOfTable DEF IInv, TypeOK
    <2> HIDE DEF table
    <2>2. /\ \A m \in Marks : copy'[d][m] = IF m \in DOMAIN table THEN table[m]
                                            ELSE copy[d][m]
          /\ \A e \in Devices \ {d} : copy'[e] = copy[e]
          /\ base'[d] = poll[d]
          /\ \A e \in Devices \ {d} : base'[e] = base[e]
      BY <1>3 DEF Told, IInv, TypeOK
    <2>3. TypeOK'
      <3>1. \A m \in Marks : (IF m \in DOMAIN table THEN table[m] ELSE copy[d][m])
                                \in Item \cup {NoMark}
        BY <2>1 DEF IInv, TypeOK
      <3>2. [m \in Marks |-> IF m \in DOMAIN table THEN table[m] ELSE copy[d][m]]
               \in [Marks -> Item \cup {NoMark}]
        BY <3>1
      <3>3. copy' \in [Devices -> [Marks -> Item \cup {NoMark}]]
        BY <3>2, <1>3 DEF Told, IInv, TypeOK
      <3>4. base' \in [Devices -> Nat]
        BY <1>1, <1>3 DEF IInv, TypeOK
      <3> QED BY <1>1, <3>3, <3>4 DEF IInv, TypeOK, IsRequest, IsAnswer
    <2>4. NoneAhead' /\ OneAtATime'
      BY <1>1, <2>2 DEF IInv, NoneAhead, OneAtATime
    <2>5. TellsTruth'
      <3> SUFFICES ASSUME NEW e \in Devices, NEW m \in Marks, copy'[e][m] # NoMark
                   PROVE  Genuine(copy'[e][m], m)
        BY <1>1 DEF IInv, TellsTruth, Genuine
      <3>1. CASE e = d /\ m \in DOMAIN table
        BY <3>1, <2>1, <2>2 DEF Genuine
      <3>2. CASE e # d \/ m \notin DOMAIN table
        <4>1. copy'[e][m] = copy[e][m]
          BY <3>2, <2>2
        <4> QED BY <4>1 DEF IInv, TellsTruth
      <3> QED BY <3>1, <3>2
    <2>6. AnswerIsComplete' /\ VersionProtects'
      BY <1>1, <2>2 DEF IInv, AnswerIsComplete, VersionProtects
    <2>7. NothingMissed'
      <3> SUFFICES ASSUME NEW e \in Devices, NEW m \in Marks,
                          item[m] # NoMark, item[m].revision <= base'[e]
                   PROVE  copy'[e][m] = item[m]
        BY <1>1 DEF NothingMissed
      <3>1. CASE e # d
        BY <3>1, <2>2 DEF IInv, NothingMissed
      <3>2. CASE e = d /\ m \in DOMAIN table
        BY <3>2, <2>1, <2>2
      <3>3. CASE e = d /\ m \notin DOMAIN table
        <4>1. item[m].revision \in Nat /\ base[d] \in Nat
          BY DEF IInv, TypeOK, Item
        <4>2. item[m].revision <= base[d]
          BY <3>3, <4>1, <2>1
        <4> QED BY <3>3, <4>2, <2>2 DEF IInv, NothingMissed
      <3> QED BY <3>1, <3>2, <3>3
    <2> QED BY <2>3, <2>4, <2>5, <2>6, <2>7, InvParts DEF IInv
  <1> QED BY <1>2, <1>3

-----------------------------------------------------------------------------
(* Theorems *)

\* The invariant of devices, answers and marks holds in every reachable state:
\* types, revisions that nobody is ahead of, devices that wait for one thing at
\* a time, and copies and answers that tell what is or what was.
THEOREM SyncInvariance == Spec => []IInv
  <1>1. Init => IInv
    BY InitInv
  <1>2. IInv /\ [Next]_vars => IInv'
    BY SendInv, SyncInv, ReceiveInv, ReadRevisionInv, ReadItemsInv, StutterInv DEF Next
  <1> QED BY <1>1, <1>2, PTL DEF Spec

\* Revisions, marks, copies, requests and answers keep their types.
THEOREM SyncTypeCorrect == Spec => []TypeOK
  <1>1. IInv => TypeOK
    BY DEF IInv
  <1> QED BY <1>1, SyncInvariance, PTL

\* For any devices and marks, and whatever requests and answers are lost,
\* repeated or late: what a device will not be told again it has been told.
THEOREM NothingIsMissed == Spec => []NothingMissed
  <1>1. IInv => NothingMissed
    BY DEF IInv
  <1> QED BY <1>1, SyncInvariance, PTL

\* For any devices and marks, a change that names a version replaces nothing
\* its device has not seen.
THEOREM VersionsProtect == Spec => []VersionProtects
  <1>1. IInv => VersionProtects
    BY DEF IInv
  <1> QED BY <1>1, SyncInvariance, PTL

-----------------------------------------------------------------------------
(* Codes: the inductive invariant *)

\* What a sender holds are rows that are there, for rows stay.
SendersHoldRows ==
    \A s \in Senders : \A c \in Codes!Codes :
        sender[s] # Codes!NoRequest /\ c \in sender[s].held => row[c] # NoCode

\* A row knows how it was answered: the wrong guesses are its attempts, and one
\* that was accepted is used.
CodeKnowsAnswers ==
    \A c \in Codes!Codes :
        IF row[c] = NoCode THEN wrong[c] = 0 /\ consumed[c] = 0
        ELSE /\ wrong[c] = row[c].attempts
             /\ consumed[c] <= IF row[c].used THEN 1 ELSE 0

CodesInv == Codes!TypeOK /\ SendersHoldRows /\ CodeKnowsAnswers

LEMMA CodesAssumption == Codes!Parameters
  BY ServicesAssumption

\* A set of codes has a newest.
LEMMA NewestCode ==
    ASSUME NEW S \in SUBSET Codes!Codes, S # {}
    PROVE  Codes!Max(S) \in S
  <1> DEFINE below == {n \in Nat : \E c \in S : n = MaxCodes - c}
  <1>1. MaxCodes \in Nat
    BY CodesAssumption DEF Codes!Parameters
  <1>2. below \in SUBSET Nat /\ below # {}
    <2>1. PICK d \in S : TRUE
      OBVIOUS
    <2>2. MaxCodes - d \in below
      BY <1>1 DEF Codes!Codes
    <2> QED  BY <2>2
  <1> HIDE DEF below
  <1>3. PICK n \in below : \A m \in below : n <= m
    BY <1>2, SmallestElement
  <1>4. PICK c \in S : n = MaxCodes - c
    BY <1>3 DEF below
  <1>5. \A d \in S : c >= d
    <2>1. ASSUME NEW d \in S PROVE c >= d
      <3>1. MaxCodes - d \in below
        BY <1>1 DEF below, Codes!Codes
      <3>2. n <= MaxCodes - d
        BY <1>3, <3>1
      <3> QED  BY <1>1, <1>4, <3>2 DEF Codes!Codes
    <2> QED  BY <2>1
  <1>6. \E x \in S : \A y \in S : x >= y
    BY <1>5
  <1> QED  BY <1>6 DEF Codes!Max

\* The code a request gets is unused.
LEMMA GetsUnused ==
    ASSUME NEW asked, NEW c \in Codes!Codes, Codes!Gets(asked, c)
    PROVE  c \in Codes!Unused
  <1> DEFINE left == asked.seen \cap Codes!Unused
  <1>1. c = IF left = {} THEN NoCode ELSE Codes!Max(left)
    BY DEF Codes!Gets
  <1>2. NoCode \notin Codes!Codes
    BY CodesAssumption DEF Codes!Parameters, Codes!Codes
  <1>3. left \in SUBSET Codes!Codes /\ left # {}
    BY <1>1, <1>2 DEF Codes!Unused
  <1> QED  BY <1>1, <1>3, NewestCode

LEMMA CodesInit == Codes!Init => CodesInv
  BY CodesAssumption DEF Codes!Init, CodesInv, Codes!TypeOK, SendersHoldRows, CodeKnowsAnswers,
         Codes!Parameters

\* What is sent replaces rows that are there.
LEMMA DeliveredRows ==
    ASSUME Codes!TypeOK, SendersHoldRows, NEW s \in Senders, Codes!Deliver(s),
           NEW b \in Codes!Codes
    PROVE  /\ row'[b] \in Codes!OTPCode \cup {NoCode}
           /\ \/ row'[b] = row[b]
              \/ row[b] = NoCode /\ row'[b].attempts = 0 /\ ~row'[b].used
              \/ row[b] # NoCode /\ row'[b].attempts = row[b].attempts /\ row'[b].used
           /\ row[b] # NoCode => row'[b] # NoCode
  <1>0. MaxAttempts \in Nat \ {0} /\ NoCode \notin Codes!OTPCode
    BY CodesAssumption DEF Codes!Parameters
  <1> DEFINE fresh == [used |-> FALSE, attempts |-> 0, cooling |-> TRUE, expired |-> FALSE]
  <1>a. fresh \in Codes!OTPCode
    BY <1>0 DEF Codes!OTPCode
  <1>b. fresh.attempts = 0 /\ fresh.used = FALSE
    OBVIOUS
  <1>1. /\ fresh \in Codes!OTPCode /\ fresh # NoCode
        /\ fresh.attempts = 0 /\ ~fresh.used
    BY <1>0, <1>a, <1>b
  <1> HIDE DEF fresh
  <1>2. PICK c \in Codes!Codes :
            /\ row[c] = NoCode
            /\ row' = [x \in Codes!Codes |->
                 CASE x = c                -> fresh
                   [] x \in sender[s].held -> [row[x] EXCEPT !.used = TRUE]
                   [] OTHER                -> row[x]]
    BY DEF Codes!Deliver, fresh
  <1>3. CASE b = c
    <2>0. b \notin sender[s].held
      BY <1>2, <1>3 DEF SendersHoldRows, Codes!Deliver, Codes!NoRequest
    <2>1. row'[b] = fresh /\ row[b] = NoCode
      BY <1>2, <1>3, <2>0
    <2> QED  BY <1>1, <2>1
  <1>4. CASE b # c /\ b \in sender[s].held
    <2>1. row[b] # NoCode
      BY <1>4 DEF SendersHoldRows, Codes!Deliver, Codes!NoRequest
    <2>2. row[b] \in Codes!OTPCode
      BY <2>1 DEF Codes!TypeOK
    <2>3. row'[b] = [row[b] EXCEPT !.used = TRUE]
      BY <1>2, <1>4
    <2>4. row'[b] \in Codes!OTPCode /\ row'[b].attempts = row[b].attempts /\ row'[b].used
      BY <2>2, <2>3 DEF Codes!OTPCode
    <2> QED  BY <1>0, <2>1, <2>4
  <1>5. CASE b # c /\ b \notin sender[s].held
    BY <1>2, <1>5 DEF Codes!TypeOK
  <1> QED  BY <1>3, <1>4, <1>5

\* Growing old and being accepted leave the attempts of a row.
LEMMA Flagged ==
    ASSUME NEW r \in Codes!OTPCode
    PROVE  /\ \A new \in {[r EXCEPT !.cooling = FALSE], [r EXCEPT !.expired = TRUE]} :
                  /\ new \in Codes!OTPCode /\ new # NoCode
                  /\ new.attempts = r.attempts /\ new.used = r.used
           /\ \A new \in {[r EXCEPT !.used = TRUE]} :
                  /\ new \in Codes!OTPCode /\ new # NoCode
                  /\ new.attempts = r.attempts /\ new.used
  <1>1. NoCode \notin Codes!OTPCode
    BY CodesAssumption DEF Codes!Parameters
  <1> QED  BY <1>1 DEF Codes!OTPCode

LEMMA AgedRow ==
    ASSUME Codes!TypeOK, NEW c \in Codes!Codes, Codes!Age(c)
    PROVE  /\ row[c] # NoCode /\ row'[c] # NoCode
           /\ row'[c].attempts = row[c].attempts /\ row'[c].used = row[c].used
           /\ \A b \in Codes!Codes : b # c => row'[b] = row[b]
  <1>1. row[c] \in Codes!OTPCode
    BY DEF Codes!Age, Codes!TypeOK
  <1>2. row'[c] \in {[row[c] EXCEPT !.cooling = FALSE], [row[c] EXCEPT !.expired = TRUE]}
    BY DEF Codes!Age, Codes!TypeOK
  <1>3. /\ row[c] # NoCode
        /\ \A b \in Codes!Codes : b # c => row'[b] = row[b]
    BY DEF Codes!Age, Codes!TypeOK
  <1> QED  BY <1>1, <1>2, <1>3, Flagged

LEMMA AcceptedRow ==
    ASSUME Codes!TypeOK, NEW k \in Checks, NEW c \in Codes!Codes, Codes!Accept(k, c)
    PROVE  /\ row[c] # NoCode /\ row'[c] # NoCode
           /\ row'[c].attempts = row[c].attempts /\ ~row[c].used /\ row'[c].used
           /\ \A b \in Codes!Codes : b # c => row'[b] = row[b]
  <1>1. row[c] \in Codes!OTPCode /\ row[c] # NoCode /\ ~row[c].used
    BY GetsUnused DEF Codes!Accept, Codes!Unused, Codes!TypeOK
  <1>2. /\ row'[c] \in {[row[c] EXCEPT !.used = TRUE]}
        /\ \A b \in Codes!Codes : b # c => row'[b] = row[b]
    BY DEF Codes!Accept, Codes!TypeOK
  <1> QED  BY <1>1, <1>2, Flagged

LEMMA CodesTypeStep ==
    Codes!TypeOK /\ SendersHoldRows /\ [Codes!Next]_(Codes!vars) => Codes!TypeOK'
  <1> SUFFICES ASSUME Codes!TypeOK, SendersHoldRows, [Codes!Next]_(Codes!vars) PROVE Codes!TypeOK'
    OBVIOUS
  <1> USE DEF Codes!TypeOK
  <1>0. MaxAttempts \in Nat \ {0} /\ NoCode \notin Codes!Codes
    BY CodesAssumption DEF Codes!Parameters, Codes!Codes
  <1>1. ASSUME NEW s \in Senders, Codes!Look(s) PROVE Codes!TypeOK'
    <2>1. [at |-> "look", seen |-> Codes!Unused, held |-> {}] \in Codes!Sender
      BY DEF Codes!Sender, Codes!Unused
    <2> QED  BY <1>1, <2>1 DEF Codes!Look
  <1>2. ASSUME NEW s \in Senders, Codes!TooEarly(s) \/ Codes!DeliveryFails(s)
        PROVE  Codes!TypeOK'
    BY <1>2 DEF Codes!TooEarly, Codes!DeliveryFails
  <1>3. ASSUME NEW s \in Senders, Codes!Prepare(s) PROVE Codes!TypeOK'
    <2>1. PICK H \in SUBSET Codes!Codes :
              sender' = [sender EXCEPT ![s] = [at |-> "deliver", seen |-> {}, held |-> H]]
      BY <1>3 DEF Codes!Prepare, Codes!Unused
    <2>2. [at |-> "deliver", seen |-> {}, held |-> H] \in Codes!Sender
      BY DEF Codes!Sender
    <2> QED  BY <1>3, <2>1, <2>2 DEF Codes!Prepare
  <1>4. ASSUME NEW s \in Senders, Codes!Deliver(s) PROVE Codes!TypeOK'
    <2>1. \A b \in Codes!Codes : row'[b] \in Codes!OTPCode \cup {NoCode}
      BY <1>4, DeliveredRows
    <2> QED  BY <1>4, <2>1 DEF Codes!Deliver
  <1>5. ASSUME NEW c \in Codes!Codes, Codes!SendMail(c) PROVE Codes!TypeOK'
    BY <1>5 DEF Codes!SendMail
  <1>6. ASSUME NEW c \in Codes!Codes, Codes!Age(c) PROVE Codes!TypeOK'
    <2>1. row[c] \in Codes!OTPCode
      BY <1>6 DEF Codes!Age
    <2>2. /\ [row[c] EXCEPT !.cooling = FALSE] \in Codes!OTPCode
          /\ [row[c] EXCEPT !.expired = TRUE] \in Codes!OTPCode
      BY <2>1 DEF Codes!OTPCode
    <2> QED  BY <1>6, <2>2 DEF Codes!Age
  <1>7. ASSUME NEW k \in Checks, NEW guess \in Codes!Codes \cup {NoCode},
               Codes!Enter(k, guess)
        PROVE  Codes!TypeOK'
    <2>1. [at |-> "look", seen |-> Codes!Unused, guess |-> guess] \in Codes!Check
      BY DEF Codes!Check, Codes!Unused
    <2> QED  BY <1>7, <2>1 DEF Codes!Enter
  <1>8. ASSUME NEW k \in Checks, NEW c \in Codes!Codes, Codes!Accept(k, c)
        PROVE  Codes!TypeOK'
    <2>1. row[c] \in Codes!OTPCode
      BY <1>8, GetsUnused DEF Codes!Accept, Codes!Unused
    <2>2. [row[c] EXCEPT !.used = TRUE] \in Codes!OTPCode
      BY <2>1 DEF Codes!OTPCode
    <2> QED  BY <1>8, <2>2 DEF Codes!Accept
  <1>9. ASSUME NEW k \in Checks, NEW c \in Codes!Codes, Codes!Reject(k, c)
        PROVE  Codes!TypeOK'
    <2>1. row[c] \in Codes!OTPCode /\ row[c].attempts < MaxAttempts
      BY <1>0, <1>9, GetsUnused DEF Codes!Reject, Codes!Unused, Codes!Locked, Codes!OTPCode
    <2>2. [row[c] EXCEPT !.attempts = @ + 1] \in Codes!OTPCode
      BY <1>0, <2>1 DEF Codes!OTPCode
    <2> QED  BY <1>9, <2>2 DEF Codes!Reject
  <1>10. ASSUME NEW k \in Checks, Codes!Refuse(k) PROVE Codes!TypeOK'
    BY <1>10 DEF Codes!Refuse
  <1>11. CASE UNCHANGED Codes!vars
    BY <1>11 DEF Codes!vars
  <1> QED
    BY <1>1, <1>2, <1>3, <1>4, <1>5, <1>6, <1>7, <1>8, <1>9, <1>10, <1>11 DEF Codes!Next

\* A step adds a row, ages one, or answers a guess on the row the check holds.
LEMMA CodesAnswerStep == CodesInv /\ [Codes!Next]_(Codes!vars) => CodeKnowsAnswers'
  <1> SUFFICES ASSUME CodesInv, [Codes!Next]_(Codes!vars) PROVE CodeKnowsAnswers'
    OBVIOUS
  <1> USE DEF CodesInv, Codes!TypeOK, CodeKnowsAnswers
  <1>0. MaxAttempts \in Nat \ {0} /\ NoCode \notin Codes!OTPCode
    BY CodesAssumption DEF Codes!Parameters
  <1>1. ASSUME UNCHANGED <<row, wrong, consumed>> PROVE CodeKnowsAnswers'
    BY <1>1
  <1>2. ASSUME NEW s \in Senders, Codes!Deliver(s) PROVE CodeKnowsAnswers'
    <2>1. \A b \in Codes!Codes :
              /\ \/ row'[b] = row[b]
                 \/ row[b] = NoCode /\ row'[b].attempts = 0 /\ ~row'[b].used
                 \/ row[b] # NoCode /\ row'[b].attempts = row[b].attempts /\ row'[b].used
              /\ row[b] # NoCode => row'[b] # NoCode
      BY <1>2, DeliveredRows
    <2>2. UNCHANGED <<wrong, consumed>>
      BY <1>2 DEF Codes!Deliver
    <2> QED  BY <2>1, <2>2
  <1>3. ASSUME NEW c \in Codes!Codes, Codes!Age(c) PROVE CodeKnowsAnswers'
    <2>1. UNCHANGED <<wrong, consumed>>
      BY <1>3 DEF Codes!Age
    <2> QED  BY <1>3, <2>1, AgedRow
  <1>4. ASSUME NEW k \in Checks, NEW c \in Codes!Codes, Codes!Accept(k, c)
        PROVE  CodeKnowsAnswers'
    <2>1. /\ consumed' = [consumed EXCEPT ![c] = consumed[c] + 1]
          /\ UNCHANGED wrong
      BY <1>4 DEF Codes!Accept
    <2>2. /\ row[c] # NoCode /\ row'[c] # NoCode
          /\ row'[c].attempts = row[c].attempts /\ ~row[c].used /\ row'[c].used
          /\ \A b \in Codes!Codes : b # c => row'[b] = row[b]
      BY <1>4, AcceptedRow
    <2>3. consumed[c] = 0 /\ wrong[c] = row[c].attempts
      BY <2>2
    <2>4. consumed'[c] = 1 /\ \A b \in Codes!Codes : b # c => consumed'[b] = consumed[b]
      BY <2>1, <2>3
    <2> QED  BY <2>1, <2>2, <2>3, <2>4
  <1>5. ASSUME NEW k \in Checks, NEW c \in Codes!Codes, Codes!Reject(k, c)
        PROVE  CodeKnowsAnswers'
    <2>1. row[c] \in Codes!OTPCode
      BY <1>5, GetsUnused DEF Codes!Reject, Codes!Unused
    <2>2. /\ row' = [row EXCEPT ![c] = [row[c] EXCEPT !.attempts = @ + 1]]
          /\ wrong' = [wrong EXCEPT ![c] = wrong[c] + 1]
          /\ UNCHANGED consumed
          /\ row[c].attempts < MaxAttempts
      BY <1>0, <1>5, <2>1 DEF Codes!Reject, Codes!Locked, Codes!OTPCode
    <2>3. /\ row'[c] \in Codes!OTPCode /\ row'[c].used = row[c].used
          /\ row'[c].attempts = row[c].attempts + 1
          /\ wrong'[c] = wrong[c] + 1
      BY <1>0, <2>1, <2>2 DEF Codes!OTPCode
    <2>4. \A b \in Codes!Codes : b # c => row'[b] = row[b] /\ wrong'[b] = wrong[b]
      BY <2>2
    <2>5. row[c] # NoCode /\ wrong[c] = row[c].attempts
      BY <1>0, <2>1
    <2> QED  BY <1>0, <2>2, <2>3, <2>4, <2>5
  <1> QED
    BY <1>1, <1>2, <1>3, <1>4, <1>5
       DEF Codes!Next, Codes!vars, Codes!Look, Codes!TooEarly, Codes!Prepare,
           Codes!DeliveryFails, Codes!SendMail, Codes!Enter, Codes!Refuse

\* No row goes, and a sender takes hold of rows that are there.
LEMMA CodesHeldStep ==
    Codes!TypeOK /\ SendersHoldRows /\ [Codes!Next]_(Codes!vars) => SendersHoldRows'
  <1> SUFFICES ASSUME Codes!TypeOK, SendersHoldRows, [Codes!Next]_(Codes!vars)
               PROVE  SendersHoldRows'
    OBVIOUS
  <1>0. MaxAttempts \in Nat \ {0} /\ NoCode \notin Codes!OTPCode
    BY CodesAssumption DEF Codes!Parameters
  <1>1. ASSUME NEW c \in Codes!Codes, row[c] # NoCode PROVE row'[c] # NoCode
    <2>0. row[c] \in Codes!OTPCode /\ Codes!TypeOK'
      BY <1>1, CodesTypeStep DEF Codes!TypeOK
    <2>1. CASE row' = row
      BY <1>1, <2>1
    <2>2. ASSUME NEW s \in Senders, Codes!Deliver(s) PROVE row'[c] # NoCode
      BY <1>1, <2>2, DeliveredRows
    <2>3. ASSUME NEW b \in Codes!Codes, Codes!Age(b) PROVE row'[c] # NoCode
      BY <1>1, <2>3, AgedRow
    <2>4. ASSUME NEW k \in Checks, NEW b \in Codes!Codes, Codes!Accept(k, b)
          PROVE  row'[c] # NoCode
      BY <1>1, <2>4, AcceptedRow
    <2>5. ASSUME NEW k \in Checks, NEW b \in Codes!Codes, Codes!Reject(k, b)
          PROVE  row'[c] # NoCode
      <3>1. b # c => row'[c] = row[c]
        BY <2>5 DEF Codes!Reject, Codes!TypeOK
      <3>2. row[c].attempts < MaxAttempts /\ b = c
              => [row[c] EXCEPT !.attempts = @ + 1] \in Codes!OTPCode
        BY <1>0, <2>0 DEF Codes!OTPCode
      <3>3. b = c => row'[c] = [row[c] EXCEPT !.attempts = @ + 1]
                     /\ row[c].attempts < MaxAttempts
        BY <1>0, <2>0, <2>5 DEF Codes!Reject, Codes!TypeOK, Codes!Locked, Codes!OTPCode
      <3> QED  BY <1>0, <1>1, <3>1, <3>2, <3>3
    <2> QED
      BY <2>1, <2>2, <2>3, <2>4, <2>5
         DEF Codes!Next, Codes!vars, Codes!Look, Codes!TooEarly, Codes!Prepare,
             Codes!DeliveryFails, Codes!SendMail, Codes!Enter, Codes!Refuse
  <1>2. ASSUME NEW s \in Senders, NEW c \in Codes!Codes,
               sender'[s] # Codes!NoRequest, c \in sender'[s].held
        PROVE  row[c] # NoCode
    <2>1. CASE sender' = sender
      BY <1>2, <2>1 DEF SendersHoldRows
    <2>2. ASSUME NEW r \in Senders, Codes!Look(r) PROVE row[c] # NoCode
      BY <1>2, <2>2 DEF Codes!Look, Codes!TypeOK, SendersHoldRows
    <2>3. ASSUME NEW r \in Senders,
                 Codes!TooEarly(r) \/ Codes!Deliver(r) \/ Codes!DeliveryFails(r)
          PROVE  row[c] # NoCode
      BY <1>2, <2>3 DEF Codes!TooEarly, Codes!Deliver, Codes!DeliveryFails,
                        Codes!TypeOK, SendersHoldRows
    <2>4. ASSUME NEW r \in Senders, Codes!Prepare(r) PROVE row[c] # NoCode
      <3>1. PICK H \in SUBSET Codes!Unused :
                sender' = [sender EXCEPT ![r] =
                             [at |-> "deliver", seen |-> {}, held |-> H]]
        BY <2>4 DEF Codes!Prepare
      <3>2. CASE s = r
        BY <1>2, <3>1, <3>2 DEF Codes!Unused, Codes!TypeOK
      <3>3. CASE s # r
        BY <1>2, <3>1, <3>3 DEF Codes!TypeOK, SendersHoldRows
      <3> QED  BY <3>2, <3>3
    <2> QED
      BY <2>1, <2>2, <2>3, <2>4
         DEF Codes!Next, Codes!vars, Codes!SendMail, Codes!Age, Codes!Enter,
             Codes!Accept, Codes!Reject, Codes!Refuse
  <1> QED  BY <1>1, <1>2 DEF SendersHoldRows

\* Codes, mails and what is under way always have their types, and a row counts
\* what it answered.
THEOREM CodesInvariance == Codes!Spec => []CodesInv
  <1>1. CodesInv /\ [Codes!Next]_(Codes!vars) => CodesInv'
    BY CodesTypeStep, CodesHeldStep, CodesAnswerStep DEF CodesInv
  <1> QED  BY <1>1, CodesInit, PTL DEF Codes!Spec

\* However many guesses are entered at a time, by any number of checks and with
\* any number of codes sent meanwhile, a code answers MaxAttempts wrong ones and
\* no more, and is accepted once.
THEOREM CodesCorrect == Codes!Spec => []CodeIsSpent
  <1>1. CodesInv => CodeIsSpent
    <2> SUFFICES ASSUME CodesInv, NEW c \in Codes!Codes
                 PROVE  wrong[c] <= MaxAttempts /\ consumed[c] <= 1
      BY DEF CodeIsSpent, Codes!CodeIsSpent
    <2>1. MaxAttempts \in Nat
      BY CodesAssumption DEF Codes!Parameters
    <2> QED  BY <2>1 DEF CodesInv, Codes!TypeOK, CodeKnowsAnswers, Codes!OTPCode
  <1> QED  BY <1>1, CodesInvariance, PTL

-----------------------------------------------------------------------------
(* Socket: the inductive invariant *)

\* The handshake of a socket has got its ticket, and has not opened it yet.
Won(s) ==
    \/ socket[s].at \in {"delete", "claims", "connect"}
    \/ socket[s].at = "checked" /\ socket[s].why = "open"

\* Nobody gets a ticket any more: it has been used, or it can neither be read
\* nor is it in the hands of one who has read it.
Taken(t) ==
    \/ ticket[t].consumed
    \/ ~ticket[t].key /\ \A s \in Sockets : socket[s].at = "reserve" => socket[s].ticket # t

TicketsAreIssued ==
    \A s \in Sockets : socket[s] # Socket!NoSocket => ticket[socket[s].ticket] # NoTicket

\* One handshake gets a ticket, and it is taken then.
OneWins ==
    \A s \in Sockets : Won(s) =>
        /\ Taken(socket[s].ticket)
        /\ opened[socket[s].ticket] = 0
        /\ \A r \in Sockets \ {s} : Won(r) => socket[r].ticket # socket[s].ticket

\* The ticket of a socket that was opened is taken.
OpenedIsTaken ==
    \A t \in Tickets : opened[t] # 0 => opened[t] = 1 /\ ticket[t] # NoTicket /\ Taken(t)

TicketsInv == Socket!TypeOK /\ TicketsAreIssued /\ OneWins /\ OpenedIsTaken

\* A socket whose member has the right has no lapse.
RightHasNoLapse ==
    \A s \in Sockets : socket[s] # Socket!NoSocket /\ Socket!Right(s) => lapse[s] = 0

\* No time has passed since a right was found that is about to be granted.
AnswerIsFresh ==
    \A s \in Sockets :
        socket[s].at = "store" \/ (socket[s].at = "checked" /\ socket[s].right)
            => lapse[s] <= 1

\* What remains of the trust is less the longer the lapse.
TrustRunsOut ==
    \A s \in Sockets :
        socket[s].at = "wait" /\ socket[s].left > 0 => lapse[s] + socket[s].left <= TTL + 1

LapsesInv == RightHasNoLapse /\ AnswerIsFresh /\ TrustRunsOut /\ StaleBounded

LEMMA SocketAssumption == TTL \in Nat \ {0} /\ MaxVersion \in Nat /\ NoTicket \notin Socket!Ticket
  BY ServicesAssumption DEF Socket!Parameters

Places == {"reserve", "delete", "claims", "connect", "wait", "checked", "store"}

LEMMA SocketIsOpen ==
    ASSUME NEW r \in Socket!Socket
    PROVE  r # Socket!NoSocket /\ r.at # "closed"
  <1>1. r.at \in Places
    BY DEF Socket!Socket, Places
  <1> QED  BY <1>1 DEF Socket!NoSocket, Places

\* The steps of a socket leave the others alone.
Others(s) ==
    /\ socket' \in [Sockets -> Socket!Socket \cup {Socket!NoSocket}]
    /\ \A r \in Sockets \ {s} : socket'[r] = socket[r]

LEMMA SocketGoes ==
    ASSUME Socket!TypeOK, NEW s \in Sockets, NEW place \in Places,
           socket[s].at # "closed", Socket!Goes(s, place)
    PROVE  /\ Others(s) /\ socket[s] # Socket!NoSocket /\ socket'[s] # Socket!NoSocket
           /\ socket'[s].at = place /\ socket'[s].ticket = socket[s].ticket
           /\ socket'[s].version = socket[s].version /\ socket'[s].right = socket[s].right
           /\ socket'[s].why = socket[s].why /\ socket'[s].left = socket[s].left
  <1>1. socket[s] \in Socket!Socket
    BY DEF Socket!TypeOK, Socket!NoSocket
  <1> DEFINE new == [socket[s] EXCEPT !.at = place]
  <1>2. /\ new \in Socket!Socket
        /\ new.at = place /\ new.ticket = socket[s].ticket
        /\ new.version = socket[s].version /\ new.right = socket[s].right
        /\ new.why = socket[s].why /\ new.left = socket[s].left
    BY <1>1 DEF Socket!Socket, Places
  <1>3. socket' = [socket EXCEPT ![s] = new]
    BY DEF Socket!Goes
  <1> HIDE DEF new
  <1>4. new # Socket!NoSocket /\ socket[s] # Socket!NoSocket
    BY <1>1, <1>2, SocketIsOpen
  <1> QED  BY <1>1, <1>2, <1>3, <1>4 DEF Others, Socket!TypeOK

LEMMA SocketTrusts ==
    ASSUME Socket!TypeOK, NEW s \in Sockets, NEW place \in Places,
           socket[s].at # "closed", Socket!Trusts(s, place)
    PROVE  /\ Others(s) /\ socket[s] # Socket!NoSocket /\ socket'[s] # Socket!NoSocket
           /\ socket'[s].at = place /\ socket'[s].ticket = socket[s].ticket
           /\ socket'[s].version = socket[s].version /\ socket'[s].right = socket[s].right
           /\ socket'[s].why = socket[s].why /\ socket'[s].left = TTL
  <1>1. socket[s] \in Socket!Socket
    BY DEF Socket!TypeOK, Socket!NoSocket
  <1> DEFINE new == [socket[s] EXCEPT !.left = TTL, !.at = place]
  <1>2. /\ new \in Socket!Socket
        /\ new.at = place /\ new.ticket = socket[s].ticket
        /\ new.version = socket[s].version /\ new.right = socket[s].right
        /\ new.why = socket[s].why /\ new.left = TTL
    <2>1. TTL \in 0..TTL
      BY SocketAssumption
    <2> QED  BY <1>1, <2>1 DEF Socket!Socket, Places
  <1>3. socket' = [socket EXCEPT ![s] = new]
    BY DEF Socket!Trusts
  <1> HIDE DEF new
  <1>4. new # Socket!NoSocket /\ socket[s] # Socket!NoSocket
    BY <1>1, <1>2, SocketIsOpen
  <1> QED  BY <1>1, <1>2, <1>3, <1>4 DEF Others, Socket!TypeOK

LEMMA SocketAsks ==
    ASSUME Socket!TypeOK, NEW s \in Sockets, NEW why \in Socket!Grants, Socket!Ask(s, why)
    PROVE  /\ Others(s) /\ socket[s] # Socket!NoSocket /\ socket'[s] # Socket!NoSocket
           /\ socket'[s].at = "checked" /\ socket'[s].ticket = socket[s].ticket
           /\ socket'[s].version = socket[s].version /\ socket'[s].right = Socket!Right(s)
           /\ socket'[s].why = why /\ socket'[s].left = socket[s].left
  <1>1. socket[s] \in Socket!Socket
    BY DEF Socket!TypeOK, Socket!NoSocket, Socket!Ask, Socket!At
  <1>2. Socket!Right(s) \in BOOLEAN
    BY DEF Socket!Right, Socket!TypeOK
  <1> DEFINE right == Socket!Right(s)
             new   == [socket[s] EXCEPT !.at = "checked", !.right = right, !.why = why]
  <1>3. socket' = [socket EXCEPT ![s] = new]
    BY DEF Socket!Ask
  <1>4. right \in BOOLEAN
    BY <1>2
  <1> HIDE DEF right
  <1>5. /\ new \in Socket!Socket
        /\ new.at = "checked" /\ new.ticket = socket[s].ticket
        /\ new.version = socket[s].version /\ new.right = right
        /\ new.why = why /\ new.left = socket[s].left
    BY <1>1, <1>4 DEF Socket!Socket
  <1> HIDE DEF new
  <1>6. new # Socket!NoSocket /\ socket[s] # Socket!NoSocket
    BY <1>1, <1>5, SocketIsOpen
  <1> QED  BY <1>1, <1>3, <1>5, <1>6 DEF Others, Socket!TypeOK, right

LEMMA SocketPresents ==
    ASSUME Socket!TypeOK, NEW s \in Sockets, NEW t \in Tickets, Socket!Present(s, t)
    PROVE  /\ Others(s) /\ socket'[s] # Socket!NoSocket
           /\ socket'[s].at = "reserve" /\ socket'[s].ticket = t
           /\ socket'[s].version = ticket[t].version /\ socket'[s].right = FALSE
  <1> DEFINE v   == ticket[t].version
             new == [at |-> "reserve", ticket |-> t, version |-> v, right |-> FALSE,
                     why |-> "open", left |-> 0]
  <1>1. v \in Nat
    BY DEF Socket!Present, Socket!TypeOK, Socket!Ticket
  <1>2. socket' = [socket EXCEPT ![s] = new]
    BY DEF Socket!Present
  <1> HIDE DEF v
  <1>3. new \in Socket!Socket
    <2>1. 0 \in 0..TTL
      BY SocketAssumption
    <2> QED  BY <1>1, <2>1 DEF Socket!Socket, Socket!Grants
  <1>4. /\ new.at = "reserve" /\ new.ticket = t /\ new.version = v /\ new.right = FALSE
    OBVIOUS
  <1> HIDE DEF new
  <1>5. new # Socket!NoSocket
    BY <1>3, SocketIsOpen
  <1> QED  BY <1>2, <1>3, <1>4, <1>5 DEF Others, Socket!TypeOK, v

LEMMA SocketCloses ==
    ASSUME Socket!TypeOK, NEW s \in Sockets, Socket!Closes(s)
    PROVE  Others(s) /\ socket'[s] = Socket!NoSocket /\ socket'[s].at = "closed"
  BY DEF Others, Socket!Closes, Socket!TypeOK, Socket!NoSocket

\* What is left of the trust of a socket after some time.
LEMMA SocketTicks ==
    ASSUME Socket!TypeOK, Socket!Tick, NEW s \in Sockets
    PROVE  /\ socket'[s] \in Socket!Socket \cup {Socket!NoSocket}
           /\ socket[s] = Socket!NoSocket <=> socket'[s] = Socket!NoSocket
           /\ socket'[s].at = socket[s].at
           /\ socket[s] # Socket!NoSocket =>
                /\ socket'[s].ticket = socket[s].ticket
                /\ socket'[s].version = socket[s].version
                /\ socket'[s].right = socket[s].right /\ socket'[s].why = socket[s].why
                /\ socket[s].at = "wait"
                /\ socket'[s].left = IF socket[s].left > 0 THEN socket[s].left - 1
                                     ELSE socket[s].left
  <1>1. CASE socket[s] = Socket!NoSocket
    <2>1. socket'[s] = socket[s]
      BY <1>1 DEF Socket!Tick, Socket!At, Socket!NoSocket
    <2> QED  BY <1>1, <2>1
  <1>2. CASE socket[s] # Socket!NoSocket /\ socket[s].left > 0
    <2>1. socket[s] \in Socket!Socket /\ socket[s].at = "wait"
      BY <1>2 DEF Socket!TypeOK, Socket!Tick, Socket!At
    <2> DEFINE new == [socket[s] EXCEPT !.left = @ - 1]
    <2>2. socket'[s] = new
      BY <1>2, <2>1 DEF Socket!Tick, Socket!At
    <2>3. /\ new \in Socket!Socket
          /\ new.at = socket[s].at /\ new.ticket = socket[s].ticket
          /\ new.version = socket[s].version /\ new.right = socket[s].right
          /\ new.why = socket[s].why /\ new.left = socket[s].left - 1
      <3>1. socket[s].left - 1 \in 0..TTL
        BY <1>2, <2>1, SocketAssumption DEF Socket!Socket
      <3> QED  BY <2>1, <3>1 DEF Socket!Socket
    <2> HIDE DEF new
    <2>4. new # Socket!NoSocket
      BY <2>3, SocketIsOpen
    <2> QED  BY <1>2, <2>1, <2>2, <2>3, <2>4
  <1>3. CASE socket[s] # Socket!NoSocket /\ ~(socket[s].left > 0)
    <2>1. socket[s] \in Socket!Socket /\ socket[s].at = "wait"
      BY <1>3 DEF Socket!TypeOK, Socket!Tick, Socket!At
    <2>2. socket'[s] = socket[s]
      BY <1>3, <2>1 DEF Socket!Tick, Socket!At
    <2> QED  BY <1>3, <2>1, <2>2
  <1> QED  BY <1>1, <1>2, <1>3

LEMMA SocketTypeStep ==
    Socket!TypeOK /\ TicketsAreIssued /\ [Socket!Next]_(Socket!vars) => Socket!TypeOK'
  <1> SUFFICES ASSUME Socket!TypeOK, TicketsAreIssued, [Socket!Next]_(Socket!vars)
               PROVE  Socket!TypeOK'
    OBVIOUS
  <1>0. TTL \in Nat \ {0} /\ MaxVersion \in Nat /\ 0 \in Socket!Lapse /\ 1 \in Socket!Lapse
    BY SocketAssumption DEF Socket!Lapse
  <1> USE DEF Socket!TypeOK
  <1>1. ASSUME Socket!Lapses PROVE lapse' \in [Sockets -> Socket!Lapse]
    BY <1>0, <1>1 DEF Socket!Lapses
  <1>2. ASSUME NEW s \in Sockets, NEW g \in Socket!Grants, Socket!Grant(s, g)
        PROVE  worst' \in [Socket!Grants -> Socket!Lapse]
    BY <1>2 DEF Socket!Grant
  <1>3. ASSUME Socket!EndSessions \/ Socket!SwitchAccount \/ Socket!ChangeMembership
        PROVE  Socket!TypeOK'
    <2>1. version' \in 0..MaxVersion
      BY <1>0, <1>3
         DEF Socket!EndSessions, Socket!SwitchAccount, Socket!ChangeMembership
    <2>2. active' \in BOOLEAN /\ member' \in BOOLEAN
      BY <1>3, Zenon
         DEF Socket!EndSessions, Socket!SwitchAccount, Socket!ChangeMembership
    <2> QED
      BY <1>1, <1>3, <2>1, <2>2
         DEF Socket!EndSessions, Socket!SwitchAccount, Socket!ChangeMembership
  <1>4. ASSUME NEW t \in Tickets, Socket!Issue(t) PROVE Socket!TypeOK'
    <2>1. [version |-> version, key |-> TRUE, consumed |-> FALSE] \in Socket!Ticket
      BY <1>0 DEF Socket!Ticket
    <2> QED  BY <1>4, <2>1 DEF Socket!Issue, Socket!Rights
  <1>5. ASSUME NEW t \in Tickets, ticket[t] # NoTicket,
               \/ ticket' = [ticket EXCEPT ![t].key = FALSE]
               \/ ticket' = [ticket EXCEPT ![t].consumed = FALSE]
               \/ ticket' = [ticket EXCEPT ![t].consumed = TRUE]
        PROVE  ticket' \in [Tickets -> Socket!Ticket \cup {NoTicket}]
    <2>1. ticket[t] \in Socket!Ticket
      BY <1>5
    <2>2. /\ [ticket[t] EXCEPT !.key = FALSE] \in Socket!Ticket
          /\ [ticket[t] EXCEPT !.consumed = FALSE] \in Socket!Ticket
          /\ [ticket[t] EXCEPT !.consumed = TRUE] \in Socket!Ticket
      BY <2>1 DEF Socket!Ticket
    <2> QED  BY <1>5, <2>2
  <1>6. ASSUME NEW t \in Tickets, Socket!KeyExpires(t) PROVE Socket!TypeOK'
    BY <1>5, <1>6 DEF Socket!KeyExpires, Socket!Rights
  <1>7. ASSUME NEW s \in Sockets, NEW t \in Tickets, Socket!Present(s, t)
        PROVE  Socket!TypeOK'
    BY <1>0, <1>7, SocketPresents DEF Socket!Present, Socket!Rights, Others
  <1>8. ASSUME NEW s \in Sockets, NEW place \in Places, socket[s].at # "closed",
               Socket!Goes(s, place)
        PROVE  socket' \in [Sockets -> Socket!Socket \cup {Socket!NoSocket}]
    BY <1>8, SocketGoes DEF Others
  <1>9. ASSUME NEW s \in Sockets, Socket!Closes(s)
        PROVE  socket' \in [Sockets -> Socket!Socket \cup {Socket!NoSocket}]
    BY <1>9, SocketCloses DEF Others
  <1>10. ASSUME NEW s \in Sockets, Socket!Reserve(s) \/ Socket!DeleteKey(s)
         PROVE  Socket!TypeOK'
    <2>1. ticket' \in [Tickets -> Socket!Ticket \cup {NoTicket}]
      <3>1. socket[s] # Socket!NoSocket
        BY <1>10 DEF Socket!Reserve, Socket!DeleteKey, Socket!At, Socket!NoSocket
      <3>2. socket[s].ticket \in Tickets /\ ticket[socket[s].ticket] # NoTicket
        BY <3>1 DEF Socket!Socket, TicketsAreIssued
      <3> QED  BY <1>5, <1>10, <3>2 DEF Socket!Reserve, Socket!DeleteKey
    <2> QED
      BY <1>8, <1>9, <1>10, <2>1
         DEF Socket!Reserve, Socket!DeleteKey, Socket!At, Socket!Rights, Places
  <1>11. ASSUME NEW s \in Sockets,
                \/ Socket!CacheFails(s) \/ Socket!Authenticate(s) \/ Socket!Disconnect(s)
         PROVE  Socket!TypeOK'
    BY <1>8, <1>9, <1>11
       DEF Socket!CacheFails, Socket!Authenticate, Socket!Disconnect, Socket!At,
           Socket!Rights, Places
  <1>12. ASSUME NEW s \in Sockets, NEW why \in Socket!Grants, Socket!Ask(s, why)
         PROVE  Socket!TypeOK'
    BY <1>12, SocketAsks DEF Socket!Ask, Socket!Rights, Others
  <1>13. ASSUME NEW s \in Sockets, Socket!Answer(s) PROVE Socket!TypeOK'
    <2>1. ASSUME NEW place \in Places, Socket!Trusts(s, place)
          PROVE  socket' \in [Sockets -> Socket!Socket \cup {Socket!NoSocket}]
      BY <1>13, <2>1, SocketTrusts DEF Socket!Answer, Socket!At, Others
    <2>2. opened' \in [Tickets -> Nat]
      <3>1. CASE opened' = [opened EXCEPT ![socket[s].ticket] = @ + 1]
        <4>1. socket[s].ticket \in Tickets
          BY <1>13 DEF Socket!Answer, Socket!At, Socket!Socket, Socket!NoSocket
        <4> QED  BY <3>1, <4>1
      <3> QED  BY <1>13, <3>1 DEF Socket!Answer
    <2> QED
      BY <1>2, <1>9, <1>13, <2>1, <2>2
         DEF Socket!Answer, Socket!Rights, Places, Socket!Grants
  <1>14. ASSUME NEW s \in Sockets, Socket!StoreMessage(s) \/ Socket!Serve(s)
         PROVE  Socket!TypeOK'
    BY <1>2, <1>8, <1>14
       DEF Socket!StoreMessage, Socket!Serve, Socket!At, Socket!Rights, Places,
           Socket!Grants
  <1>15. CASE Socket!Tick
    <2>1. socket' \in [Sockets -> Socket!Socket \cup {Socket!NoSocket}]
      BY <1>15, SocketTicks DEF Socket!Tick
    <2>2. lapse' \in [Sockets -> Socket!Lapse]
      BY <1>0, <1>15 DEF Socket!Tick, Socket!Lapse
    <2> QED  BY <1>15, <2>1, <2>2 DEF Socket!Tick, Socket!Rights
  <1>16. CASE UNCHANGED Socket!vars
    BY <1>16 DEF Socket!vars
  <1> QED
    BY <1>3, <1>4, <1>6, <1>7, <1>10, <1>11, <1>12, <1>13, <1>14, <1>15, <1>16
       DEF Socket!Next

\* A socket goes on with its ticket, and gets none that it did not have.
GoesOn(x) ==
    /\ socket'[x] # Socket!NoSocket =>
           socket[x] # Socket!NoSocket /\ socket'[x].ticket = socket[x].ticket
    /\ socket'[x].at = "reserve" => socket[x].at = "reserve"
    /\ socket'[x].at \in {"delete", "claims", "connect"} => Won(x)
    /\ socket'[x].at = "checked" /\ socket'[x].why = "open" => Won(x)

LEMMA SocketGoesOn ==
    ASSUME Socket!TypeOK, [Socket!Next]_(Socket!vars), NEW x \in Sockets,
           \A t \in Tickets : ~Socket!Present(x, t), ~Socket!Reserve(x)
    PROVE  GoesOn(x)
  <1> USE DEF GoesOn, Won, Places, Socket!At
  <1>1. CASE UNCHANGED socket
    BY <1>1
  <1>2. CASE socket'[x] = Socket!NoSocket /\ socket'[x].at = "closed"
    BY <1>2
  <1>3. ASSUME NEW s \in Sockets, s # x,
               Others(s) \/ (\E t \in Tickets : Socket!Present(s, t)) \/ Socket!Reserve(s)
        PROVE  socket'[x] = socket[x]
    <2>1. CASE Others(s)
      BY <1>3, <2>1 DEF Others
    <2>2. ASSUME NEW t \in Tickets, Socket!Present(s, t) PROVE socket'[x] = socket[x]
      BY <1>3, <2>2, SocketPresents DEF Others
    <2>3. CASE Socket!Reserve(s)
      BY <1>3, <2>3, SocketCloses, SocketGoes DEF Others, Socket!Reserve
    <2> QED  BY <1>3, <2>1, <2>2, <2>3
  <1>4. ASSUME NEW s \in Sockets, Socket!DeleteKey(s) PROVE GoesOn(x)
    BY <1>3, <1>4, SocketGoes DEF Socket!DeleteKey
  <1>5. ASSUME NEW s \in Sockets, Socket!CacheFails(s) \/ Socket!Disconnect(s)
        PROVE  GoesOn(x)
    BY <1>3, <1>5, SocketCloses DEF Socket!CacheFails, Socket!Disconnect
  <1>6. ASSUME NEW s \in Sockets, Socket!Authenticate(s) PROVE GoesOn(x)
    BY <1>3, <1>6, SocketCloses, SocketGoes DEF Socket!Authenticate
  <1>7. ASSUME NEW s \in Sockets, NEW why \in Socket!Grants, Socket!Ask(s, why)
        PROVE  GoesOn(x)
    <2>1. /\ Others(s) /\ socket[s] # Socket!NoSocket
          /\ socket'[s].at = "checked" /\ socket'[s].ticket = socket[s].ticket
          /\ socket'[s].why = why
      BY <1>7, SocketAsks
    <2>2. why = "open" => socket[s].at = "connect"
      BY <1>7 DEF Socket!Ask
    <2>3. CASE s = x
      BY <2>1, <2>2, <2>3
    <2>4. CASE s # x
      <3>1. socket'[x] = socket[x]
        BY <1>3, <2>1, <2>4
      <3> QED  BY <3>1
    <2> QED  BY <2>3, <2>4
  <1>8. ASSUME NEW s \in Sockets, Socket!Answer(s) PROVE GoesOn(x)
    BY <1>3, <1>8, SocketCloses, SocketTrusts DEF Socket!Answer
  <1>9. ASSUME NEW s \in Sockets, Socket!StoreMessage(s) PROVE GoesOn(x)
    BY <1>3, <1>9, SocketGoes DEF Socket!StoreMessage
  <1>10. CASE Socket!Tick
    BY <1>10, SocketTicks
  <1>11. ASSUME NEW s \in Sockets, s # x,
                (\E t \in Tickets : Socket!Present(s, t)) \/ Socket!Reserve(s)
         PROVE  GoesOn(x)
    BY <1>3, <1>11
  <1> QED
    BY <1>1, <1>4, <1>5, <1>6, <1>7, <1>8, <1>9, <1>10, <1>11
       DEF Socket!Next, Socket!vars, Socket!EndSessions, Socket!SwitchAccount,
           Socket!ChangeMembership, Socket!Issue, Socket!KeyExpires, Socket!Serve

\* A ticket stays issued, and taken.
LEMMA TicketStaysTaken ==
    ASSUME Socket!TypeOK, TicketsAreIssued, [Socket!Next]_(Socket!vars),
           NEW t \in Tickets, ticket[t] # NoTicket
    PROVE  ticket'[t] # NoTicket /\ (Taken(t) => Taken(t)')
  <1>0. ticket[t] \in Socket!Ticket /\ NoTicket \notin Socket!Ticket
    BY SocketAssumption DEF Socket!TypeOK
  <1>1. \/ ticket'[t] = ticket[t]
        \/ ticket'[t] = [ticket[t] EXCEPT !.consumed = TRUE]
        \/ ticket'[t] = [ticket[t] EXCEPT !.key = FALSE]
        \/ /\ ticket'[t] = [ticket[t] EXCEPT !.consumed = FALSE]
           /\ ~ticket[t].key /\ UNCHANGED socket
           /\ \A s \in Sockets : socket[s].at = "reserve" => socket[s].ticket # t
    <2> USE DEF Socket!TypeOK
    <2>1. ASSUME NEW s \in Sockets, Socket!Reserve(s) \/ Socket!DeleteKey(s)
          PROVE  \/ ticket'[t] = ticket[t]
                 \/ ticket'[t] = [ticket[t] EXCEPT !.consumed = TRUE]
                 \/ ticket'[t] = [ticket[t] EXCEPT !.key = FALSE]
      BY <2>1 DEF Socket!Reserve, Socket!DeleteKey
    <2>2. ASSUME NEW u \in Tickets, Socket!Issue(u) PROVE ticket'[t] = ticket[t]
      BY <2>2 DEF Socket!Issue
    <2>3. ASSUME NEW u \in Tickets, Socket!KeyExpires(u)
          PROVE  \/ ticket'[t] = ticket[t]
                 \/ ticket'[t] = [ticket[t] EXCEPT !.key = FALSE]
                 \/ /\ ticket'[t] = [ticket[t] EXCEPT !.consumed = FALSE]
                    /\ ~ticket[t].key /\ UNCHANGED socket
                    /\ \A s \in Sockets : socket[s].at = "reserve" => socket[s].ticket # t
      BY <2>3 DEF Socket!KeyExpires, Socket!At
    <2> QED
      BY <2>1, <2>2, <2>3
         DEF Socket!Next, Socket!vars, Socket!EndSessions, Socket!SwitchAccount,
             Socket!ChangeMembership, Socket!Present, Socket!CacheFails,
             Socket!Authenticate, Socket!Ask, Socket!Answer, Socket!StoreMessage,
             Socket!Serve, Socket!Disconnect, Socket!Tick
  <1>2. ticket'[t] \in Socket!Ticket
    BY <1>0, <1>1 DEF Socket!Ticket
  <1>3. ASSUME Taken(t), ~ticket'[t].consumed PROVE Taken(t)'
    <2>1. CASE UNCHANGED socket
      BY <1>0, <1>1, <1>3, <2>1 DEF Taken, Socket!Ticket
    <2>2. CASE socket' # socket
      <3>1. ~ticket[t].consumed /\ ~ticket[t].key /\ ~ticket'[t].key
        BY <1>0, <1>1, <1>3, <2>2 DEF Taken, Socket!Ticket
      <3>2. \A s \in Sockets : socket[s].at = "reserve" => socket[s].ticket # t
        BY <1>3, <3>1 DEF Taken
      <3>3. ASSUME NEW s \in Sockets, socket'[s].at = "reserve", socket'[s].ticket = t
            PROVE  FALSE
        <4>1. ASSUME NEW u \in Tickets, Socket!Present(s, u) PROVE FALSE
          BY <3>1, <3>3, <4>1, SocketPresents DEF Socket!Present
        <4>2. CASE Socket!Reserve(s)
          BY <3>3, <4>2, SocketGoes, SocketCloses DEF Socket!Reserve, Socket!At, Places
        <4>3. CASE GoesOn(s)
          <5>1. socket'[s] # Socket!NoSocket
            BY <3>3 DEF Socket!NoSocket
          <5> QED  BY <3>2, <3>3, <4>3, <5>1 DEF GoesOn
        <4> QED  BY <4>1, <4>2, <4>3, SocketGoesOn
      <3> QED  BY <3>1, <3>3 DEF Taken
    <2> QED  BY <2>1, <2>2
  <1> QED  BY <1>0, <1>2, <1>3 DEF Taken

LEMMA SocketTicketsStep == TicketsInv /\ [Socket!Next]_(Socket!vars) => TicketsInv'
  <1> SUFFICES ASSUME TicketsInv, [Socket!Next]_(Socket!vars) PROVE TicketsInv'
    OBVIOUS
  <1>0. Socket!TypeOK /\ TicketsAreIssued /\ OneWins /\ OpenedIsTaken /\ Socket!TypeOK'
    BY SocketTypeStep DEF TicketsInv
  <1>1. ASSUME NEW s \in Sockets, socket'[s] # Socket!NoSocket
        PROVE  socket'[s].ticket \in Tickets /\ ticket'[socket'[s].ticket] # NoTicket
    <2>1. ASSUME NEW t \in Tickets, Socket!Present(s, t)
          PROVE  socket'[s].ticket = t /\ ticket'[t] # NoTicket
      BY <1>0, <2>1, SocketPresents DEF Socket!Present
    <2>2. ASSUME socket[s] # Socket!NoSocket, socket'[s].ticket = socket[s].ticket
          PROVE  socket'[s].ticket \in Tickets /\ ticket'[socket'[s].ticket] # NoTicket
      <3>1. PICK t \in Tickets : t = socket[s].ticket
        BY <1>0, <2>2 DEF Socket!TypeOK, Socket!Socket
      <3>2. ticket[t] # NoTicket
        BY <1>0, <2>2, <3>1 DEF TicketsAreIssued
      <3>3. ticket'[t] # NoTicket
        BY <1>0, <3>2, TicketStaysTaken
      <3> QED  BY <2>2, <3>1, <3>3
    <2>3. CASE Socket!Reserve(s)
      <3>1. socket[s].at # "closed" /\ "delete" \in Places
        BY <2>3 DEF Socket!Reserve, Socket!At, Places
      <3> QED
        BY <1>0, <1>1, <2>2, <2>3, <3>1, SocketGoes, SocketCloses DEF Socket!Reserve
    <2>4. CASE GoesOn(s)
      BY <1>1, <2>2, <2>4 DEF GoesOn
    <2> QED  BY <1>0, <2>1, <2>3, <2>4, SocketGoesOn
  <1>2. TicketsAreIssued'
    BY <1>1 DEF TicketsAreIssued
  \* Who gets a ticket is the first, and it is taken.
  <1>3. ASSUME NEW s \in Sockets, Socket!Reserve(s), Won(s)'
        PROVE  LET t == socket[s].ticket IN
               /\ t \in Tickets /\ socket'[s].ticket = t
               /\ opened[t] = 0 /\ opened' = opened /\ ticket'[t].consumed
               /\ \A r \in Sockets \ {s} :
                     socket'[r] = socket[r] /\ (Won(r) => socket[r].ticket # t)
    <2>1. /\ socket[s].at = "reserve" /\ socket[s] # Socket!NoSocket
          /\ "delete" \in Places
      BY <1>3 DEF Socket!Reserve, Socket!At, Socket!NoSocket, Places
    <2>2. PICK t \in Tickets : t = socket[s].ticket
      BY <1>0, <2>1 DEF Socket!TypeOK, Socket!Socket
    <2>3. /\ ~ticket[t].consumed
          /\ ticket' = [ticket EXCEPT ![t].consumed = TRUE]
          /\ Socket!Goes(s, "delete") /\ opened' = opened
      BY <1>0, <1>3, <2>2, SocketCloses DEF Socket!Reserve, Won
    <2>4. ticket[t] \in Socket!Ticket
      BY <1>0, <2>1, <2>2 DEF Socket!TypeOK, TicketsAreIssued
    <2>5. ticket'[t] = [ticket[t] EXCEPT !.consumed = TRUE]
      BY <1>0, <2>3 DEF Socket!TypeOK
    <2>6. ticket'[t].consumed
      BY <2>4, <2>5 DEF Socket!Ticket
    <2>7. ~Taken(t)
      BY <2>1, <2>2, <2>3 DEF Taken
    <2>8. opened[t] = 0 /\ \A r \in Sockets \ {s} : Won(r) => socket[r].ticket # t
      BY <1>0, <2>7 DEF OneWins, OpenedIsTaken
    <2>9. socket'[s].ticket = t /\ \A r \in Sockets \ {s} : socket'[r] = socket[r]
      BY <1>0, <2>1, <2>2, <2>3, SocketGoes DEF Others
    <2> QED  BY <2>2, <2>3, <2>6, <2>8, <2>9
  \* Otherwise who has won had won before.
  <1>4. ASSUME NEW s \in Sockets, Won(s)', ~Socket!Reserve(s)
        PROVE  Won(s) /\ socket[s] # Socket!NoSocket /\ socket'[s].ticket = socket[s].ticket
    <2>1. \A t \in Tickets : ~Socket!Present(s, t)
      BY <1>0, <1>4, SocketPresents DEF Won
    <2>2. socket'[s] # Socket!NoSocket
      BY <1>4 DEF Won, Socket!NoSocket
    <2> QED  BY <1>0, <1>4, <2>1, <2>2, SocketGoesOn DEF GoesOn, Won
  \* A ticket is opened by one that had won, and is done then.
  <1>5. ASSUME NEW t \in Tickets, opened'[t] # opened[t]
        PROVE  \E s \in Sockets : /\ Won(s) /\ socket[s].ticket = t /\ ~Won(s)'
                                  /\ socket[s] # Socket!NoSocket
                                  /\ opened'[t] = opened[t] + 1
                                  /\ \A r \in Sockets \ {s} : socket'[r] = socket[r]
    <2>1. PICK s \in Sockets : Socket!Answer(s)
      BY <1>5 DEF Socket!Next, Socket!vars, Socket!EndSessions, Socket!SwitchAccount,
             Socket!ChangeMembership, Socket!Issue, Socket!KeyExpires, Socket!Present,
             Socket!Reserve, Socket!DeleteKey, Socket!CacheFails, Socket!Authenticate,
             Socket!Ask, Socket!StoreMessage, Socket!Serve, Socket!Disconnect, Socket!Tick
    <2>2. /\ socket[s].at = "checked" /\ socket[s].why = "open"
          /\ Socket!Trusts(s, "wait") /\ "wait" \in Places
          /\ opened' = [opened EXCEPT ![socket[s].ticket] = @ + 1]
      BY <1>5, <2>1 DEF Socket!Answer, Socket!At, Places
    <2>3. socket[s].ticket = t /\ opened'[t] = opened[t] + 1
      BY <1>0, <1>5, <2>2 DEF Socket!TypeOK
    <2>4. /\ socket'[s].at = "wait" /\ socket[s] # Socket!NoSocket
          /\ \A r \in Sockets \ {s} : socket'[r] = socket[r]
      BY <1>0, <2>2, SocketTrusts DEF Others
    <2> QED  BY <2>2, <2>3, <2>4 DEF Won
  <1>6. ASSUME NEW s \in Sockets, Won(s)'
        PROVE  /\ Taken(socket[s].ticket)'
               /\ opened'[socket'[s].ticket] = 0
               /\ \A r \in Sockets \ {s} : Won(r)' => socket'[r].ticket # socket'[s].ticket
    <2>1. CASE Socket!Reserve(s)
      <3>1. PICK t \in Tickets : t = socket[s].ticket
        BY <1>3, <1>6, <2>1
      <3>2. /\ socket'[s].ticket = t
            /\ opened[t] = 0 /\ opened' = opened /\ ticket'[t].consumed
            /\ \A r \in Sockets \ {s} :
                  socket'[r] = socket[r] /\ (Won(r) => socket[r].ticket # t)
        BY <1>3, <1>6, <2>1, <3>1
      <3>3. Taken(t)'
        BY <3>2 DEF Taken
      <3> QED  BY <3>2, <3>3 DEF Won, Taken
    <2>2. CASE ~Socket!Reserve(s)
      <3>1. Won(s) /\ socket[s] # Socket!NoSocket /\ socket'[s].ticket = socket[s].ticket
        BY <1>4, <1>6, <2>2
      <3>2. PICK t \in Tickets : t = socket[s].ticket
        BY <1>0, <3>1 DEF Socket!TypeOK, Socket!Socket
      <3>3. /\ Taken(t) /\ opened[t] = 0 /\ ticket[t] # NoTicket
            /\ \A r \in Sockets \ {s} : Won(r) => socket[r].ticket # t
        BY <1>0, <3>1, <3>2 DEF OneWins, TicketsAreIssued
      <3>4. Taken(t)'
        BY <1>0, <3>3, TicketStaysTaken
      <3>5. opened'[t] = 0
        <4>1. ASSUME opened'[t] # opened[t] PROVE FALSE
          <5>1. PICK r \in Sockets : Won(r) /\ socket[r].ticket = t /\ ~Won(r)'
            BY <1>5, <4>1
          <5> QED  BY <1>6, <3>3, <5>1
        <4> QED  BY <3>3, <4>1
      <3>6. ASSUME NEW r \in Sockets \ {s}, Won(r)', socket'[r].ticket = t PROVE FALSE
        <4>1. CASE Socket!Reserve(r)
          BY <1>3, <3>1, <3>2, <3>6, <4>1
        <4>2. CASE ~Socket!Reserve(r)
          BY <1>4, <3>3, <3>6, <4>2
        <4> QED  BY <4>1, <4>2
      <3> QED  BY <3>1, <3>2, <3>4, <3>5, <3>6 DEF Taken
    <2> QED  BY <2>1, <2>2
  <1>7. OneWins'
    BY <1>6 DEF OneWins, Taken
  <1>8. ASSUME NEW t \in Tickets, opened'[t] # 0
        PROVE  opened'[t] = 1 /\ ticket'[t] # NoTicket /\ Taken(t)'
    <2>1. ticket[t] # NoTicket /\ Taken(t) /\ opened'[t] = 1
      <3>1. CASE opened'[t] = opened[t]
        BY <1>0, <1>8, <3>1 DEF OpenedIsTaken
      <3>2. CASE opened'[t] # opened[t]
        <4>1. PICK s \in Sockets : /\ Won(s) /\ socket[s].ticket = t
                                   /\ socket[s] # Socket!NoSocket
                                   /\ opened'[t] = opened[t] + 1
          BY <1>5, <3>2
        <4> QED  BY <1>0, <4>1 DEF OneWins, TicketsAreIssued
      <3> QED  BY <3>1, <3>2
    <2> QED  BY <1>0, <2>1, TicketStaysTaken
  <1>9. OpenedIsTaken'
    BY <1>8 DEF OpenedIsTaken
  <1> QED  BY <1>0, <1>2, <1>7, <1>9 DEF TicketsInv

LEMMA SocketInit == Socket!Init => TicketsInv /\ LapsesInv
  <1> SUFFICES ASSUME Socket!Init PROVE TicketsInv /\ LapsesInv
    OBVIOUS
  <1>1. /\ TTL \in Nat \ {0} /\ MaxVersion \in Nat
        /\ \A s \in Sockets : socket[s] = Socket!NoSocket /\ socket[s].at = "closed"
        /\ \A t \in Tickets : opened[t] = 0
    BY SocketAssumption DEF Socket!Init, Socket!NoSocket
  <1>2. Socket!TypeOK
    BY <1>1 DEF Socket!Init, Socket!TypeOK, Socket!Lapse
  <1>3. TicketsInv
    BY <1>1, <1>2 DEF TicketsInv, TicketsAreIssued, OneWins, OpenedIsTaken, Won
  <1>4. StaleBounded
    BY <1>1 DEF Socket!Init, StaleBounded, Socket!StaleBounded, Socket!Grants
  <1> QED
    BY <1>1, <1>2, <1>3, <1>4 DEF LapsesInv, RightHasNoLapse, AnswerIsFresh, TrustRunsOut

\* Handshakes race for a ticket, the cache fails, keys expire: a ticket opens one
\* socket.  The one that gets it has it for itself until it has opened its
\* socket, and then nobody can get it any more.
THEOREM TicketsCorrect == Socket!Spec => []TicketOpensOnce
  <1>1. TicketsInv => TicketOpensOnce
    BY DEF TicketsInv, OpenedIsTaken, TicketOpensOnce, Socket!TicketOpensOnce
  <1> QED  BY <1>1, SocketInit, SocketTicketsStep, PTL DEF Socket!Spec

\* A socket that grants something trusts a right that was there not long ago.
LEMMA GrantIsBounded ==
    ASSUME Socket!TypeOK, LapsesInv, NEW s \in Sockets, NEW what \in Socket!Grants,
           Socket!Grant(s, what), lapse[s] <= IF what = "frame" THEN TTL ELSE 1
    PROVE  StaleBounded'
  <1>1. /\ lapse[s] \in Nat
        /\ \A g \in Socket!Grants : worst[g] \in Nat
        /\ \A g \in Socket!Grants :
              worst'[g] = IF g = what /\ lapse[s] > worst[g] THEN lapse[s] ELSE worst[g]
    BY SocketAssumption DEF Socket!TypeOK, Socket!Lapse, Socket!Grant
  <1>2. {"open", "frame", "message"} = Socket!Grants
    BY DEF Socket!Grants
  <1> QED
    BY <1>1, <1>2, SocketAssumption
       DEF LapsesInv, StaleBounded, Socket!StaleBounded, Socket!Grants

\* What a socket keeps when its lapse does not change, or starts.
LEMMA LapseStarts ==
    ASSUME Socket!TypeOK, LapsesInv, NEW s \in Sockets,
           socket'[s] = socket[s],
           \/ lapse'[s] = 0
           \/ lapse'[s] = IF lapse[s] = 0 THEN 1 ELSE lapse[s]
    PROVE  /\ socket'[s].at = "store" \/ (socket'[s].at = "checked" /\ socket'[s].right)
                 => lapse'[s] <= 1
           /\ socket'[s].at = "wait" /\ socket'[s].left > 0
                 => lapse'[s] + socket'[s].left <= TTL + 1
  <1>1. lapse[s] \in Nat /\ lapse'[s] \in Nat
    BY SocketAssumption DEF Socket!TypeOK, Socket!Lapse
  <1>2. ASSUME socket[s].at = "wait", socket[s].left > 0
        PROVE  lapse[s] + socket[s].left <= TTL + 1 /\ socket[s].left \in 0..TTL
    <2>1. socket[s] \in Socket!Socket
      BY <1>2 DEF Socket!TypeOK, Socket!NoSocket
    <2> QED  BY <1>2, <2>1 DEF LapsesInv, TrustRunsOut, Socket!Socket
  <1> QED  BY <1>1, <1>2, SocketAssumption DEF LapsesInv, AnswerIsFresh

LEMMA SocketLapsesStep ==
    TicketsInv /\ LapsesInv /\ [Socket!Next]_(Socket!vars) => LapsesInv'
  <1> SUFFICES ASSUME TicketsInv, LapsesInv, [Socket!Next]_(Socket!vars) PROVE LapsesInv'
    OBVIOUS
  <1>0. /\ Socket!TypeOK /\ TTL \in Nat \ {0}
        /\ \A s \in Sockets : lapse[s] \in Nat
    BY SocketAssumption DEF TicketsInv, Socket!TypeOK, Socket!Lapse
  <1> DEFINE Holds(s) ==
        /\ socket'[s] # Socket!NoSocket /\ Socket!Right(s)' => lapse'[s] = 0
        /\ socket'[s].at = "store" \/ (socket'[s].at = "checked" /\ socket'[s].right)
              => lapse'[s] <= 1
        /\ socket'[s].at = "wait" /\ socket'[s].left > 0
              => lapse'[s] + socket'[s].left <= TTL + 1
  <1>1. ASSUME StaleBounded', \A s \in Sockets : Holds(s) PROVE LapsesInv'
    BY <1>1 DEF LapsesInv, RightHasNoLapse, AnswerIsFresh, TrustRunsOut
  <1>2. ASSUME UNCHANGED worst PROVE StaleBounded'
    BY <1>2 DEF LapsesInv, StaleBounded, Socket!StaleBounded
  \* What a socket holds depends on itself, its lapse and the rights.
  <1>3. ASSUME NEW s \in Sockets, socket'[s] = socket[s], lapse'[s] = lapse[s],
               UNCHANGED Socket!Rights
        PROVE  Holds(s)
    BY <1>0, <1>3
       DEF LapsesInv, RightHasNoLapse, AnswerIsFresh, TrustRunsOut, Socket!Right,
           Socket!Rights
  <1>4. ASSUME NEW s \in Sockets, Others(s), Holds(s), UNCHANGED <<Socket!Rights, lapse>>
        PROVE  \A r \in Sockets : Holds(r)
    <2>1. ASSUME NEW r \in Sockets \ {s} PROVE Holds(r)
      BY <1>3, <1>4, <2>1 DEF Others
    <2> QED  BY <1>4, <2>1
  \* A socket that has gone on.
  <1>5. ASSUME NEW s \in Sockets, UNCHANGED <<Socket!Rights, lapse>>,
               socket[s] # Socket!NoSocket, socket'[s].version = socket[s].version
        PROVE  Socket!Right(s)' => lapse'[s] = 0
    BY <1>5 DEF LapsesInv, RightHasNoLapse, Socket!Right, Socket!Rights
  <1>6. CASE Socket!EndSessions \/ Socket!SwitchAccount \/ Socket!ChangeMembership
    <2>1. UNCHANGED <<socket, worst>> /\ Socket!Lapses
      BY <1>6 DEF Socket!EndSessions, Socket!SwitchAccount, Socket!ChangeMembership
    <2>2. ASSUME NEW s \in Sockets PROVE Holds(s)
      <3>1. lapse'[s] = IF socket[s] = Socket!NoSocket
                           \/ (active' /\ member' /\ socket[s].version = version')
                        THEN 0 ELSE IF lapse[s] = 0 THEN 1 ELSE lapse[s]
        BY <2>1 DEF Socket!Lapses
      <3>2. socket'[s] = socket[s]
        BY <2>1
      <3>3. socket'[s] # Socket!NoSocket /\ Socket!Right(s)' => lapse'[s] = 0
        BY <3>1, <3>2 DEF Socket!Right
      <3> QED  BY <1>0, <3>1, <3>2, <3>3, LapseStarts
    <2> QED  BY <1>1, <1>2, <2>1, <2>2
  <1>7. ASSUME NEW t \in Tickets, Socket!Issue(t) \/ Socket!KeyExpires(t) PROVE LapsesInv'
    BY <1>1, <1>2, <1>3, <1>7 DEF Socket!Issue, Socket!KeyExpires
  <1>8. ASSUME NEW s \in Sockets, NEW t \in Tickets, Socket!Present(s, t) PROVE LapsesInv'
    <2>1. /\ Others(s) /\ UNCHANGED <<Socket!Rights, worst>>
          /\ socket'[s].at = "reserve" /\ socket'[s].version = ticket[t].version
          /\ lapse' = [lapse EXCEPT ![s] =
               IF active /\ member /\ ticket[t].version = version THEN 0 ELSE 1]
      BY <1>0, <1>8, SocketPresents DEF Socket!Present
    <2>2. Holds(s)
      BY <1>0, <2>1 DEF Socket!TypeOK, Socket!Right, Socket!Rights
    <2>3. ASSUME NEW r \in Sockets \ {s} PROVE Holds(r)
      BY <1>0, <1>3, <2>1 DEF Others, Socket!TypeOK
    <2> QED  BY <1>1, <1>2, <2>1, <2>2, <2>3
  <1>9. ASSUME NEW s \in Sockets, Socket!Closes(s), UNCHANGED <<Socket!Rights, lapse>>
        PROVE  \A r \in Sockets : Holds(r)
    <2>1. Others(s) /\ socket'[s] = Socket!NoSocket /\ socket'[s].at = "closed"
      BY <1>0, <1>9, SocketCloses
    <2>2. Holds(s)
      BY <2>1
    <2> QED  BY <1>4, <1>9, <2>1, <2>2
  <1>10. ASSUME NEW s \in Sockets, NEW place \in Places, Socket!Goes(s, place),
                socket[s].at # "closed", place # "store", place # "checked",
                place # "wait" \/ lapse[s] + socket[s].left <= TTL + 1 \/ socket[s].left = 0,
                UNCHANGED <<Socket!Rights, lapse>>
         PROVE  \A r \in Sockets : Holds(r)
    <2>1. /\ Others(s) /\ socket[s] # Socket!NoSocket
          /\ socket'[s].at = place /\ socket'[s].version = socket[s].version
          /\ socket'[s].left = socket[s].left
      BY <1>0, <1>10, SocketGoes
    <2>2. Socket!Right(s)' => lapse'[s] = 0
      BY <1>5, <1>10, <2>1
    <2>3. Holds(s)
      BY <1>10, <2>1, <2>2
    <2> QED  BY <1>4, <1>10, <2>1, <2>3
  <1>11. ASSUME NEW s \in Sockets, NEW place \in Places, Socket!Trusts(s, place),
                socket[s].at = "checked", socket[s].right, place # "checked",
                UNCHANGED <<Socket!Rights, lapse>>
         PROVE  (\A r \in Sockets : Holds(r)) /\ lapse[s] <= 1
    <2>1. /\ Others(s) /\ socket[s] # Socket!NoSocket
          /\ socket'[s].at = place /\ socket'[s].version = socket[s].version
          /\ socket'[s].left = TTL
      BY <1>0, <1>11, SocketTrusts
    <2>2. Socket!Right(s)' => lapse'[s] = 0
      BY <1>5, <1>11, <2>1
    <2>3. lapse[s] <= 1
      BY <1>11 DEF LapsesInv, AnswerIsFresh
    <2>4. Holds(s)
      BY <1>0, <1>11, <2>1, <2>2, <2>3
    <2> QED  BY <1>4, <1>11, <2>1, <2>3, <2>4
  <1>12. ASSUME NEW s \in Sockets,
                \/ Socket!Reserve(s) \/ Socket!DeleteKey(s) \/ Socket!CacheFails(s)
                \/ Socket!Authenticate(s) \/ Socket!Disconnect(s)
         PROVE  LapsesInv'
    <2>1. UNCHANGED <<Socket!Rights, lapse, worst>>
      BY <1>12 DEF Socket!Reserve, Socket!DeleteKey, Socket!CacheFails,
                   Socket!Authenticate, Socket!Disconnect
    <2>2. \/ Socket!Closes(s)
          \/ \E place \in Places : /\ Socket!Goes(s, place) /\ socket[s].at # "closed"
                                   /\ place \notin {"store", "checked", "wait"}
      BY <1>12 DEF Socket!Reserve, Socket!DeleteKey, Socket!CacheFails,
                   Socket!Authenticate, Socket!Disconnect, Socket!At, Places
    <2>3. \A r \in Sockets : Holds(r)
      BY <1>9, <1>10, <2>1, <2>2
    <2> QED  BY <1>1, <1>2, <2>1, <2>3
  <1>13. ASSUME NEW s \in Sockets, NEW why \in Socket!Grants, Socket!Ask(s, why)
         PROVE  LapsesInv'
    <2>1. /\ Others(s) /\ socket[s] # Socket!NoSocket
          /\ socket'[s].at = "checked" /\ socket'[s].version = socket[s].version
          /\ socket'[s].right = Socket!Right(s)
          /\ UNCHANGED <<Socket!Rights, lapse, worst>>
      BY <1>0, <1>13, SocketAsks DEF Socket!Ask
    <2>2. Socket!Right(s)' => lapse'[s] = 0
      BY <1>5, <2>1
    <2>3. Socket!Right(s) => lapse'[s] <= 1
      BY <1>0, <2>1 DEF LapsesInv, RightHasNoLapse
    <2>4. Holds(s)
      BY <2>1, <2>2, <2>3
    <2> QED  BY <1>1, <1>2, <1>4, <2>1, <2>4
  <1>14. ASSUME NEW s \in Sockets, Socket!Answer(s) PROVE LapsesInv'
    <2>0. /\ UNCHANGED <<Socket!Rights, lapse>> /\ socket[s].at = "checked"
          /\ "wait" \in Places /\ "store" \in Places
      BY <1>14 DEF Socket!Answer, Socket!At, Places
    <2>1. CASE Socket!Closes(s) /\ UNCHANGED worst
      BY <1>1, <1>2, <1>9, <2>0, <2>1
    <2>2. ASSUME socket[s].right, NEW what \in Socket!Grants, Socket!Grant(s, what),
                 Socket!Trusts(s, "wait")
          PROVE  LapsesInv'
      <3>1. (\A r \in Sockets : Holds(r)) /\ lapse[s] <= 1
        BY <1>11, <2>0, <2>2
      <3>2. lapse[s] <= IF what = "frame" THEN TTL ELSE 1
        BY <1>0, <3>1
      <3> QED  BY <1>0, <1>1, <2>2, <3>1, <3>2, GrantIsBounded
    <2>3. CASE socket[s].right /\ Socket!Trusts(s, "store") /\ UNCHANGED worst
      BY <1>1, <1>2, <1>11, <2>0, <2>3
    <2> QED  BY <1>14, <2>1, <2>2, <2>3 DEF Socket!Answer, Socket!Grants
  <1>15. ASSUME NEW s \in Sockets, Socket!StoreMessage(s) PROVE LapsesInv'
    <2>1. /\ UNCHANGED <<Socket!Rights, lapse>> /\ socket[s].at = "store"
          /\ Socket!Goes(s, "wait") /\ "wait" \in Places /\ "message" \in Socket!Grants
      BY <1>15 DEF Socket!StoreMessage, Socket!At, Places, Socket!Grants
    <2>2. lapse[s] <= 1
      BY <2>1 DEF LapsesInv, AnswerIsFresh
    <2>3. socket[s].left \in 0..TTL
      BY <1>0, <2>1 DEF Socket!TypeOK, Socket!Socket, Socket!NoSocket
    <2>4. \A r \in Sockets : Holds(r)
      BY <1>0, <1>10, <2>1, <2>2, <2>3
    <2>5. StaleBounded'
      BY <1>0, <1>2, <1>15, <2>1, <2>2, GrantIsBounded DEF Socket!StoreMessage
    <2> QED  BY <1>1, <2>4, <2>5
  <1>16. ASSUME NEW s \in Sockets, Socket!Serve(s) PROVE LapsesInv'
    <2>1. /\ UNCHANGED <<Socket!Rights, socket, lapse>>
          /\ socket[s].at = "wait" /\ socket[s].left > 0
          /\ Socket!Grant(s, "frame") /\ "frame" \in Socket!Grants
      BY <1>16 DEF Socket!Serve, Socket!At, Socket!Grants
    <2>2. socket[s].left \in 0..TTL
      BY <1>0, <2>1 DEF Socket!TypeOK, Socket!Socket, Socket!NoSocket
    <2>3. lapse[s] <= TTL
      BY <1>0, <2>1, <2>2 DEF LapsesInv, TrustRunsOut
    <2>4. StaleBounded'
      BY <1>0, <2>1, <2>3, GrantIsBounded
    <2> QED  BY <1>1, <1>3, <2>1, <2>4
  <1>17. CASE Socket!Tick
    <2>1. ASSUME NEW s \in Sockets PROVE Holds(s)
      <3>1. /\ lapse'[s] = IF lapse[s] \in 1..TTL THEN lapse[s] + 1 ELSE lapse[s]
            /\ UNCHANGED Socket!Rights
        BY <1>17 DEF Socket!Tick
      <3>2. CASE socket[s] = Socket!NoSocket
        <4>1. socket'[s] = Socket!NoSocket /\ socket'[s].at = "closed"
          BY <1>0, <1>17, <3>2, SocketTicks DEF Socket!NoSocket
        <4> QED  BY <4>1
      <3>3. CASE socket[s] # Socket!NoSocket
        <4>1. /\ socket'[s].at = "wait" /\ socket[s].at = "wait"
              /\ socket'[s].version = socket[s].version
              /\ socket'[s].left = IF socket[s].left > 0 THEN socket[s].left - 1
                                   ELSE socket[s].left
          BY <1>0, <1>17, <3>3, SocketTicks
        <4>2. socket[s].left \in 0..TTL
          BY <1>0, <3>3 DEF Socket!TypeOK, Socket!Socket
        <4>3. Socket!Right(s)' => lapse[s] = 0
          BY <3>1, <3>3, <4>1
             DEF LapsesInv, RightHasNoLapse, Socket!Right, Socket!Rights
        <4>4. socket[s].left > 0 => lapse[s] + socket[s].left <= TTL + 1
          BY <4>1 DEF LapsesInv, TrustRunsOut
        <4> QED  BY <1>0, <3>1, <4>1, <4>2, <4>3, <4>4
      <3> QED  BY <3>2, <3>3
    <2>2. UNCHANGED worst
      BY <1>17 DEF Socket!Tick
    <2> QED  BY <1>1, <1>2, <2>1, <2>2
  <1>18. CASE UNCHANGED Socket!vars
    BY <1>1, <1>2, <1>3, <1>18 DEF Socket!vars, Socket!Rights
  <1> QED
    BY <1>6, <1>7, <1>8, <1>12, <1>13, <1>14, <1>15, <1>16, <1>17, <1>18 DEF Socket!Next

\* Whoever loses the right to a chat while a socket is open is shut out of it
\* when what the socket trusts has grown old, and of messages and new sockets at
\* once: the longer the lapse, the less is left of the trust.
THEOREM LapsesCorrect == Socket!Spec => []StaleBounded
  <1>1. TicketsInv /\ LapsesInv /\ [Socket!Next]_(Socket!vars) => (TicketsInv /\ LapsesInv)'
    BY SocketTicketsStep, SocketLapsesStep
  <1>2. LapsesInv => StaleBounded
    BY DEF LapsesInv
  <1> QED  BY <1>1, <1>2, SocketInit, PTL DEF Socket!Spec

-----------------------------------------------------------------------------
(* Lockout: the inductive invariant *)

\* How many requests are at one of some places with an identifier.
Number(places, i) ==
    Cardinality({r \in Requests : request[r].at \in places /\ request[r].id = i})

Uncounted == {"add", "incr", "set"}   \* a wrong password that is not counted yet
Locking   == {"lock", "delete"}       \* the one that was counted leads to the lock

\* A counter beyond the threshold is that of requests that are going to lock.
OverMeansLocking ==
    \A i \in Identifiers : Lockout!Count(i) <= Threshold - 1 + Number(Locking, i)

\* While the account is open, a guess is counted, about to be, or erased.
OpenCounts ==
    \A i \in Identifiers \ lock :
        guesses[i] <= Lockout!Count(i) + erased[i] + Number(Uncounted, i)

\* Once it is locked, those who had asked before may still guess.
LockedLeaves ==
    \A i \in Identifiers \cap lock :
        guesses[i] + Number({"check"}, i)
            <= Threshold - 1 + Cardinality(Requests) + erased[i]

LockoutInv == Lockout!TypeOK /\ OverMeansLocking /\ OpenCounts /\ LockedLeaves

LEMMA LockoutAssumption ==
    /\ Threshold \in Nat \ {0} /\ MaxGuesses \in Nat
    /\ NoKey \notin Nat /\ IsFiniteSet(Requests)
  <1>1. Lockout!IsFiniteSet(Requests) <=> IsFiniteSet(Requests)
    BY DEF Lockout!IsFiniteSet, IsFiniteSet
  <1> QED  BY <1>1, ServicesAssumption DEF Lockout!Parameters

LEMMA LockoutCardinality == Lockout!Cardinality(Requests) = Cardinality(Requests)
  BY Zenon DEF Lockout!Cardinality, Cardinality

LEMMA NumberIsNat ==
    ASSUME NEW places, NEW i
    PROVE  /\ IsFiniteSet({r \in Requests : request[r].at \in places /\ request[r].id = i})
           /\ Number(places, i) \in Nat /\ Number(places, i)' \in Nat
  <1> DEFINE S == {r \in Requests : request[r].at \in places /\ request[r].id = i}
             T == {r \in Requests : request'[r].at \in places /\ request'[r].id = i}
  <1>1. S \subseteq Requests /\ T \subseteq Requests
    OBVIOUS
  <1>2. Number(places, i) = Cardinality(S) /\ Number(places, i)' = Cardinality(T)
    BY DEF Number
  <1> HIDE DEF S, T
  <1>3. IsFiniteSet(S) /\ IsFiniteSet(T)
    BY <1>1, LockoutAssumption, FS_Subset
  <1>4. Cardinality(S) \in Nat /\ Cardinality(T) \in Nat
    BY <1>3, FS_CardinalityType
  <1> QED  BY <1>2, <1>3, <1>4 DEF S

\* A request is at one place: those at different places are no more than all.
LEMMA NumbersAddUp ==
    ASSUME NEW i
    PROVE  Number({"check"}, i) + Number(Uncounted, i) + Number(Locking, i)
             <= Cardinality(Requests)
  <1> DEFINE A == {r \in Requests : request[r].at \in {"check"} /\ request[r].id = i}
             B == {r \in Requests : request[r].at \in Uncounted /\ request[r].id = i}
             C == {r \in Requests : request[r].at \in Locking /\ request[r].id = i}
  <1>1. IsFiniteSet(A) /\ IsFiniteSet(B) /\ IsFiniteSet(C)
    BY NumberIsNat
  <1>2. A \cap B = {} /\ (A \cup B) \cap C = {} /\ (A \cup B) \cup C \subseteq Requests
    BY DEF Uncounted, Locking
  <1>3. /\ Number({"check"}, i) = Cardinality(A) /\ Number(Uncounted, i) = Cardinality(B)
        /\ Number(Locking, i) = Cardinality(C)
    BY DEF Number
  <1> HIDE DEF A, B, C
  <1>4. /\ IsFiniteSet(A \cup B)
        /\ Cardinality(A \cup B) = Cardinality(A) + Cardinality(B) - Cardinality(A \cap B)
    BY <1>1, FS_Union
  <1>5. Cardinality((A \cup B) \cup C)
          = Cardinality(A \cup B) + Cardinality(C) - Cardinality((A \cup B) \cap C)
    BY <1>1, <1>4, FS_Union
  <1>6. Cardinality(A \cap B) = 0 /\ Cardinality((A \cup B) \cap C) = 0
    BY <1>2, FS_EmptySet
  <1>7. Cardinality((A \cup B) \cup C) <= Cardinality(Requests)
    BY <1>2, LockoutAssumption, FS_Subset
  <1>8. Cardinality(A) \in Nat /\ Cardinality(B) \in Nat /\ Cardinality(C) \in Nat
    BY <1>1, FS_CardinalityType
  <1> QED  BY <1>3, <1>4, <1>5, <1>6, <1>7, <1>8

\* When one request moves, it is counted where it goes and no more where it was.
LEMMA NumberMoves ==
    ASSUME NEW r \in Requests, \A x \in Requests \ {r} : request'[x] = request[x],
           NEW places, NEW i
    PROVE  Number(places, i)'
             = Number(places, i)
               + (IF request'[r].at \in places /\ request'[r].id = i THEN 1 ELSE 0)
               - (IF request[r].at \in places /\ request[r].id = i THEN 1 ELSE 0)
  <1> DEFINE S == {x \in Requests : request[x].at \in places /\ request[x].id = i}
             T == {x \in Requests : request'[x].at \in places /\ request'[x].id = i}
  <1>1. IsFiniteSet(S) /\ Number(places, i) = Cardinality(S) /\ Cardinality(S) \in Nat
    BY NumberIsNat DEF Number
  <1>2. Number(places, i)' = Cardinality(T)
    BY DEF Number
  <1>3. T = IF r \in T THEN S \cup {r} ELSE S \ {r}
    OBVIOUS
  <1>4. /\ r \in S <=> request[r].at \in places /\ request[r].id = i
        /\ r \in T <=> request'[r].at \in places /\ request'[r].id = i
    OBVIOUS
  <1> HIDE DEF S, T
  <1>5. Cardinality(S \cup {r}) = IF r \in S THEN Cardinality(S) ELSE Cardinality(S) + 1
    BY <1>1, FS_AddElement
  <1>6. Cardinality(S \ {r}) = IF r \in S THEN Cardinality(S) - 1 ELSE Cardinality(S)
    BY <1>1, FS_RemoveElement
  <1> QED  BY <1>1, <1>2, <1>3, <1>4, <1>5, <1>6

Stages == {"check", "add", "incr", "set", "lock", "delete", "clear"}

\* Only one request moves.
OneMoves(r) ==
    /\ request' \in [Requests -> Lockout!Request \cup {Lockout!NoRequest}]
    /\ \A x \in Requests \ {r} : request'[x] = request[x]

LEMMA LoginGoes ==
    ASSUME Lockout!TypeOK, NEW r \in Requests, NEW from \in Stages, Lockout!At(r, from),
           NEW place \in Stages, Lockout!Goes(r, place)
    PROVE  /\ OneMoves(r) /\ request[r].id \in Identifiers
           /\ request'[r].at = place /\ request'[r].id = request[r].id
  <1>1. request[r] \in Lockout!Request
    BY DEF Lockout!TypeOK, Lockout!At, Lockout!NoRequest, Stages
  <1> DEFINE new == [request[r] EXCEPT !.at = place]
  <1>2. new \in Lockout!Request /\ new.at = place /\ new.id = request[r].id
    BY <1>1 DEF Lockout!Request, Stages
  <1>3. request' = [request EXCEPT ![r] = new]
    BY DEF Lockout!Goes
  <1> HIDE DEF new
  <1> QED  BY <1>1, <1>2, <1>3 DEF OneMoves, Lockout!TypeOK, Lockout!Request

LEMMA LoginEnds ==
    ASSUME Lockout!TypeOK, NEW r \in Requests, NEW from \in Stages, Lockout!At(r, from),
           Lockout!Ends(r)
    PROVE  /\ OneMoves(r) /\ request[r].id \in Identifiers
           /\ request'[r] = Lockout!NoRequest /\ request'[r].at = "idle"
  <1>1. request[r] \in Lockout!Request
    BY DEF Lockout!TypeOK, Lockout!At, Lockout!NoRequest, Stages
  <1> QED
    BY <1>1 DEF OneMoves, Lockout!TypeOK, Lockout!Request, Lockout!Ends, Lockout!NoRequest

LEMMA LoginBegins ==
    ASSUME Lockout!TypeOK, NEW r \in Requests, NEW i \in Identifiers,
           NEW place \in Stages, request[r] = Lockout!NoRequest,
           request' = [request EXCEPT ![r] = [at |-> place, id |-> i, left |-> Identifiers]]
    PROVE  /\ OneMoves(r) /\ request[r].at = "idle"
           /\ request'[r].at = place /\ request'[r].id = i
  <1> DEFINE new == [at |-> place, id |-> i, left |-> Identifiers]
  <1>1. new \in Lockout!Request /\ new.at = place /\ new.id = i
    BY DEF Lockout!Request, Stages
  <1>2. request' = [request EXCEPT ![r] = new]
    OBVIOUS
  <1> HIDE DEF new
  <1> QED  BY <1>1, <1>2 DEF OneMoves, Lockout!TypeOK, Lockout!NoRequest

LEMMA LoginClears ==
    ASSUME Lockout!TypeOK, NEW r \in Requests, NEW i \in Identifiers,
           Lockout!At(r, "clear"),
           \/ Lockout!Ends(r)
           \/ request' = [request EXCEPT ![r].left = @ \ {i}]
    PROVE  OneMoves(r) /\ request'[r].at \in {"idle", "clear"}
  <1>1. request[r] \in Lockout!Request
    BY DEF Lockout!TypeOK, Lockout!At, Lockout!NoRequest
  <1> DEFINE new == [request[r] EXCEPT !.left = request[r].left \ {i}]
  <1>2. new \in Lockout!Request /\ new.at = "clear"
    BY <1>1 DEF Lockout!Request, Lockout!At
  <1>3. CASE request' = [request EXCEPT ![r].left = @ \ {i}]
    <2>1. request' = [request EXCEPT ![r] = new]
      BY <1>3
    <2> HIDE DEF new
    <2> QED  BY <1>2, <2>1 DEF OneMoves, Lockout!TypeOK
  <1>4. CASE Lockout!Ends(r)
    BY <1>4, LoginEnds DEF Stages
  <1> QED  BY <1>3, <1>4

\* A counter after a command on one of them.
LEMMA CountsAfter ==
    ASSUME Lockout!TypeOK, NEW i \in Identifiers, NEW n \in Nat \cup {NoKey},
           fails' = [fails EXCEPT ![i] = n]
    PROVE  /\ fails' \in [Identifiers -> Nat \cup {NoKey}]
           /\ \A j \in Identifiers : Lockout!Count(j) \in Nat
           /\ Lockout!Count(i)' = (IF n = NoKey THEN 0 ELSE n)
           /\ \A j \in Identifiers \ {i} : Lockout!Count(j)' = Lockout!Count(j)
  BY LockoutAssumption DEF Lockout!TypeOK, Lockout!Count

LEMMA ErasedAfter ==
    ASSUME Lockout!TypeOK, NEW i \in Identifiers, Lockout!Erases(i, 0)
    PROVE  /\ erased' \in [Identifiers -> Nat]
           /\ erased'[i] = erased[i] + Lockout!Count(i)
           /\ \A j \in Identifiers \ {i} : erased'[j] = erased[j]
  <1>1. Lockout!Count(i) \in Nat /\ erased[i] \in Nat
    BY LockoutAssumption DEF Lockout!TypeOK, Lockout!Count
  <1> HIDE DEF Lockout!Count
  <1>2. (IF Lockout!Count(i) > 0 THEN Lockout!Count(i) - 0 ELSE 0) = Lockout!Count(i)
    BY <1>1
  <1>3. erased' = [erased EXCEPT ![i] = erased[i] + Lockout!Count(i)]
    BY <1>1, <1>2 DEF Lockout!Erases
  <1> QED  BY <1>1, <1>3 DEF Lockout!TypeOK

\* What moving one request does to the numbers of its identifier, and of others.
LEMMA NumbersGo ==
    ASSUME NEW r \in Requests, OneMoves(r), NEW i, NEW from, NEW to,
           request[r].at = from, from = "idle" \/ request[r].id = i,
           request'[r].at = to, to = "idle" \/ request'[r].id = i
    PROVE  /\ Number({"check"}, i)' = Number({"check"}, i)
                + (IF to = "check" THEN 1 ELSE 0) - (IF from = "check" THEN 1 ELSE 0)
           /\ Number(Uncounted, i)' = Number(Uncounted, i)
                + (IF to \in Uncounted THEN 1 ELSE 0) - (IF from \in Uncounted THEN 1 ELSE 0)
           /\ Number(Locking, i)' = Number(Locking, i)
                + (IF to \in Locking THEN 1 ELSE 0) - (IF from \in Locking THEN 1 ELSE 0)
           /\ \A j : j # i => /\ Number({"check"}, j)' = Number({"check"}, j)
                              /\ Number(Uncounted, j)' = Number(Uncounted, j)
                              /\ Number(Locking, j)' = Number(Locking, j)
  <1>1. ASSUME NEW places, "idle" \notin places
        PROVE  /\ Number(places, i)' = Number(places, i)
                    + (IF to \in places THEN 1 ELSE 0) - (IF from \in places THEN 1 ELSE 0)
               /\ \A j : j # i => Number(places, j)' = Number(places, j)
    <2>1. ASSUME NEW j
          PROVE  Number(places, j)' = Number(places, j)
               + (IF request'[r].at \in places /\ request'[r].id = j THEN 1 ELSE 0)
               - (IF request[r].at \in places /\ request[r].id = j THEN 1 ELSE 0)
      BY NumberMoves DEF OneMoves
    <2>2. ASSUME NEW j, j # i PROVE Number(places, j)' = Number(places, j)
      <3>1. Number(places, j) \in Nat
        BY NumberIsNat
      <3> QED  BY <1>1, <2>1, <2>2, <3>1
    <2>3. Number(places, i)' = Number(places, i)
               + (IF request'[r].at \in places /\ request'[r].id = i THEN 1 ELSE 0)
               - (IF request[r].at \in places /\ request[r].id = i THEN 1 ELSE 0)
      BY <2>1
    <2>4. /\ (request'[r].at \in places /\ request'[r].id = i) <=> to \in places
          /\ (request[r].at \in places /\ request[r].id = i) <=> from \in places
      BY <1>1
    <2> QED  BY <2>2, <2>3, <2>4
  <1>2. "idle" \notin {"check"} /\ "idle" \notin Uncounted /\ "idle" \notin Locking
    BY DEF Uncounted, Locking
  <1> QED  BY <1>1, <1>2

\* The three counts of an identifier are right after a step.
StillRight(j) ==
    /\ Lockout!Count(j)' <= Threshold - 1 + Number(Locking, j)'
    /\ j \notin lock' => guesses'[j] <= Lockout!Count(j)' + erased'[j] + Number(Uncounted, j)'
    /\ j \in lock' => guesses'[j] + Number({"check"}, j)'
                        <= Threshold - 1 + Cardinality(Requests) + erased'[j]

\* The sum the counts make for an open identifier.
LEMMA OpenSum ==
    ASSUME LockoutInv, NEW i \in Identifiers \ lock
    PROVE  guesses[i] + Number({"check"}, i) <= Threshold - 1 + Cardinality(Requests) + erased[i]
  <1>1. /\ guesses[i] \in Nat /\ erased[i] \in Nat /\ Lockout!Count(i) \in Nat
        /\ Threshold \in Nat /\ Cardinality(Requests) \in Nat
    BY LockoutAssumption, FS_CardinalityType DEF LockoutInv, Lockout!TypeOK, Lockout!Count
  <1>2. /\ Number({"check"}, i) \in Nat /\ Number(Uncounted, i) \in Nat
        /\ Number(Locking, i) \in Nat
    BY NumberIsNat
  <1> QED
    BY <1>1, <1>2, NumbersAddUp DEF LockoutInv, OverMeansLocking, OpenCounts

LEMMA KeptRight ==
    ASSUME LockoutInv, NEW j \in Identifiers,
           guesses'[j] = guesses[j], erased'[j] = erased[j], j \in lock' <=> j \in lock,
           Lockout!Count(j)' = Lockout!Count(j),
           Number({"check"}, j)' \in Nat,
           Number({"check"}, j)' <= Number({"check"}, j),
           Number(Uncounted, j)' = Number(Uncounted, j),
           Number(Locking, j)' = Number(Locking, j)
    PROVE  StillRight(j)
  <1>1. /\ guesses[j] \in Nat /\ erased[j] \in Nat /\ Threshold \in Nat
        /\ Cardinality(Requests) \in Nat /\ Number({"check"}, j) \in Nat
    BY LockoutAssumption, FS_CardinalityType, NumberIsNat DEF LockoutInv, Lockout!TypeOK
  <1> QED
    BY <1>1 DEF StillRight, LockoutInv, OverMeansLocking, OpenCounts, LockedLeaves

\* Each command moves one request and touches one identifier: the others' counts
\* stay, and its own are worked out.
LEMMA LockoutStep == LockoutInv /\ [Lockout!Next]_(Lockout!vars) => LockoutInv'
  <1> SUFFICES ASSUME LockoutInv, [Lockout!Next]_(Lockout!vars) PROVE LockoutInv'
    OBVIOUS
  <1>0. /\ Lockout!TypeOK /\ Threshold \in Nat \ {0} /\ Cardinality(Requests) \in Nat
        /\ NoKey \notin Nat /\ IsFiniteSet(Requests)
    BY LockoutAssumption, FS_CardinalityType DEF LockoutInv
  <1>a. \A i \in Identifiers :
            /\ guesses[i] \in Nat /\ erased[i] \in Nat /\ Lockout!Count(i) \in Nat
            /\ Lockout!Count(i) <= Threshold - 1 + Number(Locking, i)
            /\ i \notin lock => guesses[i] <= Lockout!Count(i) + erased[i] + Number(Uncounted, i)
            /\ i \in lock => guesses[i] + Number({"check"}, i)
                               <= Threshold - 1 + Cardinality(Requests) + erased[i]
    BY <1>0 DEF LockoutInv, Lockout!TypeOK, Lockout!Count, OverMeansLocking, OpenCounts,
                LockedLeaves
  <1>b. \A places, i : Number(places, i) \in Nat
    BY NumberIsNat
  <1>1. ASSUME Lockout!TypeOK', \A i \in Identifiers : StillRight(i) PROVE LockoutInv'
    BY <1>1 DEF LockoutInv, OverMeansLocking, OpenCounts, LockedLeaves, StillRight
  \* An identifier that no command touches, and no request moves at.
  <1>2. ASSUME NEW j \in Identifiers,
               guesses'[j] = guesses[j], erased'[j] = erased[j], j \in lock' <=> j \in lock,
               Lockout!Count(j)' = Lockout!Count(j),
               Number({"check"}, j)' = Number({"check"}, j),
               Number(Uncounted, j)' = Number(Uncounted, j),
               Number(Locking, j)' = Number(Locking, j)
        PROVE  StillRight(j)
    <2>1. /\ Number({"check"}, j)' \in Nat
          /\ Number({"check"}, j)' <= Number({"check"}, j)
      BY <1>2, <1>b
    <2> QED  BY <1>2, <2>1, KeptRight
  <1>3. ASSUME UNCHANGED Lockout!vars PROVE LockoutInv'
    BY <1>3 DEF Lockout!vars, LockoutInv, Lockout!TypeOK, OverMeansLocking, OpenCounts,
                LockedLeaves, Lockout!Count, Number
  <1>4. ASSUME NEW r \in Requests, NEW i \in Identifiers, Lockout!Begin(r, i)
        PROVE  LockoutInv'
    <2>1. /\ i \notin lock /\ UNCHANGED <<fails, lock, guesses, erased>>
          /\ OneMoves(r) /\ request[r].at = "idle"
          /\ request'[r].at = "check" /\ request'[r].id = i
      BY <1>0, <1>4, LoginBegins DEF Lockout!Begin, Stages
    <2>2. /\ Number(Uncounted, i)' = Number(Uncounted, i)
          /\ Number(Locking, i)' = Number(Locking, i)
          /\ \A j : j # i => /\ Number({"check"}, j)' = Number({"check"}, j)
                             /\ Number(Uncounted, j)' = Number(Uncounted, j)
                             /\ Number(Locking, j)' = Number(Locking, j)
      BY <1>b, <2>1, NumbersGo DEF Uncounted, Locking
    <2>3. ASSUME NEW j \in Identifiers PROVE Lockout!Count(j)' = Lockout!Count(j)
      BY <2>1 DEF Lockout!Count
    <2>4. StillRight(i)
      BY <1>a, <2>1, <2>2, <2>3 DEF StillRight
    <2>5. ASSUME NEW j \in Identifiers, j # i PROVE StillRight(j)
      BY <1>2, <2>1, <2>2, <2>3, <2>5
    <2>6. Lockout!TypeOK'
      BY <1>0, <2>1 DEF Lockout!TypeOK, OneMoves
    <2> QED  BY <1>1, <2>4, <2>5, <2>6
  \* A request that goes from check to clear, or ends there.
  <1>5. ASSUME NEW r \in Requests,
               Lockout!Succeed(r) \/ Lockout!Refuse(r) \/ Lockout!Unlock(r)
        PROVE  LockoutInv'
    <2>1. PICK from \in {"idle", "check"}, to \in {"idle", "clear"}, i \in Identifiers :
              /\ UNCHANGED <<fails, lock, guesses, erased>> /\ OneMoves(r)
              /\ request[r].at = from /\ (from = "idle" \/ request[r].id = i)
              /\ request'[r].at = to /\ (to = "idle" \/ request'[r].id = i)
      <3>1. CASE Lockout!Succeed(r)
        BY <1>0, <3>1, LoginGoes DEF Lockout!Succeed, Lockout!At, Stages
      <3>2. CASE Lockout!Refuse(r)
        BY <1>0, <3>2, LoginEnds DEF Lockout!Refuse, Lockout!At, Stages
      <3>3. CASE Lockout!Unlock(r)
        BY <1>0, <3>3, LoginBegins DEF Lockout!Unlock, Stages
      <3> QED  BY <1>5, <3>1, <3>2, <3>3
    <2>2. /\ Number(Uncounted, i)' = Number(Uncounted, i)
          /\ Number(Locking, i)' = Number(Locking, i)
          /\ Number({"check"}, i)' = Number({"check"}, i) - (IF from = "check" THEN 1 ELSE 0)
          /\ \A j : j # i => /\ Number({"check"}, j)' = Number({"check"}, j)
                             /\ Number(Uncounted, j)' = Number(Uncounted, j)
                             /\ Number(Locking, j)' = Number(Locking, j)
      <3>1. /\ Number({"check"}, i) \in Nat /\ Number(Uncounted, i) \in Nat
            /\ Number(Locking, i) \in Nat
        BY <1>b
      <3>2. /\ to # "check" /\ to \notin Uncounted /\ to \notin Locking
            /\ from \notin Uncounted /\ from \notin Locking
        BY DEF Uncounted, Locking
      <3> QED  BY <2>1, <3>1, <3>2, NumbersGo
    <2>3. ASSUME NEW j \in Identifiers PROVE Lockout!Count(j)' = Lockout!Count(j)
      BY <2>1 DEF Lockout!Count
    <2>4. StillRight(i)
      <3>1. Number({"check"}, i) \in Nat /\ Number({"check"}, i)' <= Number({"check"}, i)
        BY <1>b, <2>2
      <3>2. Number({"check"}, i)' \in Nat
        BY NumberIsNat
      <3> QED  BY <2>1, <2>2, <2>3, <3>1, <3>2, KeptRight
    <2>5. ASSUME NEW j \in Identifiers, j # i PROVE StillRight(j)
      BY <1>2, <2>1, <2>2, <2>3, <2>5
    <2>6. Lockout!TypeOK'
      BY <1>0, <2>1 DEF Lockout!TypeOK, OneMoves
    <2> QED  BY <1>1, <2>4, <2>5, <2>6
  <1>6. ASSUME NEW r \in Requests, Lockout!Guess(r) PROVE LockoutInv'
    <2>1. PICK i \in Identifiers :
              /\ UNCHANGED <<fails, lock, erased>> /\ OneMoves(r)
              /\ guesses' = [guesses EXCEPT ![i] = @ + 1]
              /\ request[r].at = "check" /\ request[r].id = i
              /\ request'[r].at = "add" /\ request'[r].id = i
      BY <1>0, <1>6, LoginGoes DEF Lockout!Guess, Lockout!At, Stages
    <2>2. /\ Number(Uncounted, i)' = Number(Uncounted, i) + 1
          /\ Number(Locking, i)' = Number(Locking, i)
          /\ Number({"check"}, i)' = Number({"check"}, i) - 1
          /\ \A j : j # i => /\ Number({"check"}, j)' = Number({"check"}, j)
                             /\ Number(Uncounted, j)' = Number(Uncounted, j)
                             /\ Number(Locking, j)' = Number(Locking, j)
      BY <1>b, <2>1, NumbersGo DEF Uncounted, Locking
    <2>3. ASSUME NEW j \in Identifiers PROVE Lockout!Count(j)' = Lockout!Count(j)
      BY <2>1 DEF Lockout!Count
    <2>4. /\ guesses' \in [Identifiers -> Nat] /\ guesses'[i] = guesses[i] + 1
          /\ \A j \in Identifiers \ {i} : guesses'[j] = guesses[j]
      BY <1>0, <1>a, <2>1 DEF Lockout!TypeOK
    <2>5. StillRight(i)
      BY <1>0, <1>a, <1>b, <2>1, <2>2, <2>3, <2>4 DEF StillRight
    <2>6. ASSUME NEW j \in Identifiers, j # i PROVE StillRight(j)
      BY <1>2, <2>1, <2>2, <2>3, <2>4, <2>6
    <2>7. Lockout!TypeOK'
      BY <1>0, <2>1, <2>4 DEF Lockout!TypeOK, OneMoves
    <2> QED  BY <1>1, <2>5, <2>6, <2>7
  <1>7. ASSUME NEW r \in Requests, Lockout!AddCounter(r) PROVE LockoutInv'
    <2>1. PICK i \in Identifiers :
              /\ UNCHANGED <<guesses, lock, erased>> /\ OneMoves(r)
              /\ fails' = IF fails[i] = NoKey THEN [fails EXCEPT ![i] = 0] ELSE fails
              /\ request[r].at = "add" /\ request[r].id = i
              /\ request'[r].at = "incr" /\ request'[r].id = i
      BY <1>0, <1>7, LoginGoes DEF Lockout!AddCounter, Lockout!At, Stages
    <2>2. /\ Number(Uncounted, i)' = Number(Uncounted, i)
          /\ Number(Locking, i)' = Number(Locking, i)
          /\ Number({"check"}, i)' = Number({"check"}, i)
          /\ \A j : j # i => /\ Number({"check"}, j)' = Number({"check"}, j)
                             /\ Number(Uncounted, j)' = Number(Uncounted, j)
                             /\ Number(Locking, j)' = Number(Locking, j)
      BY <1>b, <2>1, NumbersGo DEF Uncounted, Locking
    <2>3. /\ fails' \in [Identifiers -> Nat \cup {NoKey}]
          /\ \A j \in Identifiers : Lockout!Count(j)' = Lockout!Count(j)
      BY <1>0, <2>1 DEF Lockout!TypeOK, Lockout!Count
    <2>4. ASSUME NEW j \in Identifiers PROVE StillRight(j)
      BY <1>2, <2>1, <2>2, <2>3
    <2>5. Lockout!TypeOK'
      BY <1>0, <2>1, <2>3 DEF Lockout!TypeOK, OneMoves
    <2> QED  BY <1>1, <2>4, <2>5
  \* The counter grows by the guess that is counted, or by one only.
  <1>8. ASSUME NEW r \in Requests, NEW i \in Identifiers, NEW n \in Nat,
               UNCHANGED <<guesses, lock>>, fails' = [fails EXCEPT ![i] = n],
               request[r].at \in Uncounted, request[r].id = i, Lockout!Counted(r, n),
               erased' \in [Identifiers -> Nat],
               erased'[i] + n = erased[i] + Lockout!Count(i) + 1,
               n <= Lockout!Count(i) + 1,
               \A j \in Identifiers \ {i} : erased'[j] = erased[j]
        PROVE  LockoutInv'
    <2>1. PICK from \in Stages : request[r].at = from /\ Lockout!At(r, from) /\ from \in Uncounted
      BY <1>8 DEF Uncounted, Stages, Lockout!At
    <2>2. PICK to \in {"idle", "lock"} :
              /\ OneMoves(r) /\ request'[r].at = to
              /\ to = "idle" \/ request'[r].id = i
              /\ to = (IF n < Threshold THEN "idle" ELSE "lock")
      <3>1. CASE n < Threshold
        <4>1. Lockout!Ends(r)
          BY <1>8, <3>1 DEF Lockout!Counted
        <4> QED  BY <1>0, <2>1, <3>1, <4>1, LoginEnds
      <3>2. CASE ~(n < Threshold)
        <4>1. Lockout!Goes(r, "lock") /\ "lock" \in Stages
          BY <1>8, <3>2 DEF Lockout!Counted, Stages
        <4> QED  BY <1>0, <1>8, <2>1, <3>2, <4>1, LoginGoes
      <3> QED  BY <3>1, <3>2
    <2>3. /\ Number(Uncounted, i)' = Number(Uncounted, i) - 1
          /\ Number(Locking, i)' = Number(Locking, i) + (IF to = "lock" THEN 1 ELSE 0)
          /\ Number({"check"}, i)' = Number({"check"}, i)
          /\ \A j : j # i => /\ Number({"check"}, j)' = Number({"check"}, j)
                             /\ Number(Uncounted, j)' = Number(Uncounted, j)
                             /\ Number(Locking, j)' = Number(Locking, j)
      <3>1. from # "check" /\ from \notin Locking /\ to \notin Uncounted /\ to # "check"
            /\ (to \in Locking <=> to = "lock")
        BY <2>1, <2>2 DEF Uncounted, Locking
      <3> QED  BY <1>b, <1>8, <2>1, <2>2, <3>1, NumbersGo
    <2>4. /\ fails' \in [Identifiers -> Nat \cup {NoKey}]
          /\ Lockout!Count(i)' = n
          /\ \A j \in Identifiers \ {i} : Lockout!Count(j)' = Lockout!Count(j)
      BY <1>0, <1>8, CountsAfter
    <2>5. erased'[i] \in Nat
      BY <1>8
    <2>6. StillRight(i)
      BY <1>0, <1>a, <1>b, <1>8, <2>2, <2>3, <2>4, <2>5 DEF StillRight
    <2>7. ASSUME NEW j \in Identifiers, j # i PROVE StillRight(j)
      BY <1>2, <1>8, <2>3, <2>4, <2>7
    <2>8. Lockout!TypeOK'
      BY <1>0, <1>8, <2>2, <2>4 DEF Lockout!TypeOK, OneMoves
    <2> QED  BY <1>1, <2>6, <2>7, <2>8

  <1>9. ASSUME NEW r \in Requests, Lockout!Increment(r) PROVE LockoutInv'
    <2>1. PICK i \in Identifiers : request[r].id = i
      BY <1>0, <1>9 DEF Lockout!Increment, Lockout!At, Lockout!TypeOK, Lockout!Request,
                        Lockout!NoRequest
    <2>2. /\ Lockout!At(r, "incr") /\ request[r].at = "incr" /\ "incr" \in Stages
          /\ UNCHANGED <<guesses, lock, erased>>
      BY <1>9 DEF Lockout!Increment, Lockout!At, Stages
    <2>3. CASE fails[i] # NoKey
      <3>1. PICK n \in Nat : n = fails[i] + 1 /\ n = Lockout!Count(i) + 1
        BY <1>0, <2>3 DEF Lockout!TypeOK, Lockout!Count
      <3>2. fails' = [fails EXCEPT ![i] = n] /\ Lockout!Counted(r, n)
        BY <1>9, <2>1, <2>3, <3>1 DEF Lockout!Increment
      <3>3. erased' \in [Identifiers -> Nat] /\ \A j \in Identifiers : erased'[j] = erased[j]
        BY <1>0, <2>2 DEF Lockout!TypeOK
      <3>4. erased'[i] + n = erased[i] + Lockout!Count(i) + 1 /\ n <= Lockout!Count(i) + 1
        BY <1>a, <3>1, <3>3
      <3> QED  BY <1>8, <2>1, <2>2, <3>2, <3>3, <3>4 DEF Uncounted
    <2>4. CASE fails[i] = NoKey
      <3>1. Lockout!Goes(r, "set") /\ UNCHANGED fails /\ "set" \in Stages
        BY <1>9, <2>1, <2>4 DEF Lockout!Increment, Stages
      <3>2. OneMoves(r) /\ request'[r].at = "set" /\ request'[r].id = i
        BY <1>0, <2>1, <2>2, <3>1, LoginGoes
      <3>3. \A j : /\ Number({"check"}, j)' = Number({"check"}, j)
                   /\ Number(Uncounted, j)' = Number(Uncounted, j)
                   /\ Number(Locking, j)' = Number(Locking, j)
        <4>1. /\ Number({"check"}, i)' = Number({"check"}, i)
              /\ Number(Uncounted, i)' = Number(Uncounted, i)
              /\ Number(Locking, i)' = Number(Locking, i)
              /\ \A j : j # i => /\ Number({"check"}, j)' = Number({"check"}, j)
                                 /\ Number(Uncounted, j)' = Number(Uncounted, j)
                                 /\ Number(Locking, j)' = Number(Locking, j)
          <5>1. /\ request[r].at = "incr" /\ request[r].id = i
                /\ request'[r].at = "set" /\ request'[r].id = i /\ OneMoves(r)
            BY <2>1, <2>2, <3>2
          <5> QED  BY <1>b, <5>1, NumbersGo DEF Uncounted, Locking
        <4> QED  BY <4>1
      <3>4. ASSUME NEW j \in Identifiers PROVE StillRight(j)
        <4>1. Lockout!Count(j)' = Lockout!Count(j)
          BY <3>1 DEF Lockout!Count
        <4> QED  BY <1>2, <2>2, <3>3, <4>1
      <3>5. Lockout!TypeOK'
        BY <1>0, <2>2, <3>1, <3>2 DEF Lockout!TypeOK, OneMoves
      <3> QED  BY <1>1, <3>4, <3>5
    <2> QED  BY <2>3, <2>4
  <1>10. ASSUME NEW r \in Requests, Lockout!SetCounter(r) PROVE LockoutInv'
    <2>1. PICK i \in Identifiers : request[r].id = i
      BY <1>0, <1>10 DEF Lockout!SetCounter, Lockout!At, Lockout!TypeOK, Lockout!Request,
                         Lockout!NoRequest
    <2>2. /\ request[r].at \in Uncounted
          /\ UNCHANGED <<guesses, lock>>
          /\ fails' = [fails EXCEPT ![i] = 1]
          /\ Lockout!Erases(i, 0) /\ Lockout!Counted(r, 1)
      BY <1>10, <2>1 DEF Lockout!SetCounter, Lockout!At, Uncounted
    <2>3. /\ erased' \in [Identifiers -> Nat]
          /\ erased'[i] = erased[i] + Lockout!Count(i)
          /\ \A j \in Identifiers \ {i} : erased'[j] = erased[j]
      BY <1>0, <2>2, ErasedAfter
    <2>4. erased'[i] + 1 = erased[i] + Lockout!Count(i) + 1 /\ 1 <= Lockout!Count(i) + 1
      BY <1>a, <2>3
    <2> QED  BY <1>8, <2>1, <2>2, <2>3, <2>4
  <1>11. ASSUME NEW r \in Requests, Lockout!AddLock(r) PROVE LockoutInv'
    <2>1. PICK i \in Identifiers :
              /\ UNCHANGED <<fails, guesses, erased>> /\ OneMoves(r)
              /\ lock' = lock \cup {i}
              /\ request[r].at = "lock" /\ request[r].id = i
              /\ request'[r].at = "delete" /\ request'[r].id = i
      BY <1>0, <1>11, LoginGoes DEF Lockout!AddLock, Lockout!At, Stages
    <2>2. \A j : /\ Number({"check"}, j)' = Number({"check"}, j)
                 /\ Number(Uncounted, j)' = Number(Uncounted, j)
                 /\ Number(Locking, j)' = Number(Locking, j)
      <3>1. /\ Number({"check"}, i)' = Number({"check"}, i)
            /\ Number(Uncounted, i)' = Number(Uncounted, i)
            /\ Number(Locking, i)' = Number(Locking, i)
            /\ \A j : j # i => /\ Number({"check"}, j)' = Number({"check"}, j)
                               /\ Number(Uncounted, j)' = Number(Uncounted, j)
                               /\ Number(Locking, j)' = Number(Locking, j)
        BY <1>b, <2>1, NumbersGo DEF Uncounted, Locking
      <3> QED  BY <3>1
    <2>3. ASSUME NEW j \in Identifiers PROVE Lockout!Count(j)' = Lockout!Count(j)
      BY <2>1 DEF Lockout!Count
    <2>4. StillRight(i)
      BY <1>a, <2>1, <2>2, <2>3, OpenSum DEF StillRight
    <2>5. ASSUME NEW j \in Identifiers, j # i PROVE StillRight(j)
      BY <1>2, <2>1, <2>2, <2>3, <2>5
    <2>6. Lockout!TypeOK'
      BY <1>0, <2>1 DEF Lockout!TypeOK, OneMoves
    <2> QED  BY <1>1, <2>4, <2>5, <2>6
  <1>12. ASSUME NEW r \in Requests, Lockout!DeleteCounter(r) PROVE LockoutInv'
    <2>1. PICK i \in Identifiers :
              /\ UNCHANGED <<lock, guesses>> /\ OneMoves(r)
              /\ fails' = [fails EXCEPT ![i] = NoKey]
              /\ IF i \in lock THEN UNCHANGED erased ELSE Lockout!Erases(i, 0)
              /\ request[r].at = "delete" /\ request[r].id = i
              /\ request'[r].at = "idle"
      BY <1>0, <1>12, LoginEnds DEF Lockout!DeleteCounter, Lockout!At, Stages
    <2>2. /\ Number(Uncounted, i)' = Number(Uncounted, i)
          /\ Number(Locking, i)' = Number(Locking, i) - 1
          /\ Number({"check"}, i)' = Number({"check"}, i)
          /\ \A j : j # i => /\ Number({"check"}, j)' = Number({"check"}, j)
                             /\ Number(Uncounted, j)' = Number(Uncounted, j)
                             /\ Number(Locking, j)' = Number(Locking, j)
      BY <1>b, <2>1, NumbersGo DEF Uncounted, Locking
    <2>3. Number(Locking, i)' \in Nat
      <3>1. \A x \in Requests \ {r} : request'[x] = request[x]
        BY <2>1 DEF OneMoves
      <3>2. r \in {x \in Requests : request[x].at \in Locking /\ request[x].id = i}
        BY <2>1 DEF Locking
      <3>3. Number(Locking, i) # 0
        <4> DEFINE S == {x \in Requests : request[x].at \in Locking /\ request[x].id = i}
        <4>1. IsFiniteSet(S) /\ r \in S
          BY <3>2, NumberIsNat
        <4> HIDE DEF S
        <4>2. Cardinality(S) # 0
          BY <4>1, FS_EmptySet
        <4> QED  BY <4>2 DEF S, Number
      <3> QED  BY <1>b, <2>2, <3>3
    <2>4. /\ fails' \in [Identifiers -> Nat \cup {NoKey}]
          /\ Lockout!Count(i)' = 0
          /\ \A j \in Identifiers \ {i} : Lockout!Count(j)' = Lockout!Count(j)
      BY <1>0, <2>1, CountsAfter
    <2>5. /\ erased' \in [Identifiers -> Nat]
          /\ erased'[i] = erased[i] + (IF i \in lock THEN 0 ELSE Lockout!Count(i))
          /\ \A j \in Identifiers \ {i} : erased'[j] = erased[j]
      <3>1. CASE i \in lock
        BY <1>0, <1>a, <2>1, <3>1 DEF Lockout!TypeOK
      <3>2. CASE i \notin lock
        BY <1>0, <2>1, <3>2, ErasedAfter
      <3> QED  BY <3>1, <3>2
    <2>6. StillRight(i)
      BY <1>0, <1>a, <1>b, <2>1, <2>2, <2>3, <2>4, <2>5 DEF StillRight
    <2>7. ASSUME NEW j \in Identifiers, j # i PROVE StillRight(j)
      BY <1>2, <2>1, <2>2, <2>4, <2>5, <2>7
    <2>8. Lockout!TypeOK'
      BY <1>0, <2>1, <2>4, <2>5 DEF Lockout!TypeOK, OneMoves
    <2> QED  BY <1>1, <2>6, <2>7, <2>8
  \* What is forgiven starts again from what is still to be counted.
  <1>13. ASSUME NEW i \in Identifiers, Lockout!Forgiven(i), i \notin lock',
                Lockout!Count(i)' \in Nat,
                Lockout!Count(i)' <= Threshold - 1 + Number(Locking, i)',
                Number(Uncounted, i)' = Number(Uncounted, i)
         PROVE  /\ StillRight(i)
                /\ guesses' \in [Identifiers -> Nat] /\ erased' \in [Identifiers -> Nat]
                /\ \A j \in Identifiers \ {i} :
                       guesses'[j] = guesses[j] /\ erased'[j] = erased[j]
    <2>0. Lockout!Cardinality(Lockout!ToCount(i)) = Number(Uncounted, i)
      BY Zenon DEF Lockout!Cardinality, Cardinality, Lockout!ToCount, Number, Uncounted
    <2>1. /\ guesses' \in [Identifiers -> Nat] /\ erased' \in [Identifiers -> Nat]
          /\ guesses'[i] = Number(Uncounted, i) /\ erased'[i] = 0
          /\ \A j \in Identifiers \ {i} : guesses'[j] = guesses[j] /\ erased'[j] = erased[j]
      BY <1>0, <1>b, <1>13, <2>0 DEF Lockout!Forgiven, Lockout!TypeOK
    <2>2. StillRight(i)
      BY <1>b, <1>13, <2>1 DEF StillRight
    <2> QED  BY <2>1, <2>2
  <1>14. ASSUME NEW r \in Requests, Lockout!ClearNext(r) PROVE LockoutInv'
    <2>0. PICK i \in request[r].left :
              /\ Lockout!Clear(i) /\ Lockout!At(r, "clear")
              /\ \/ Lockout!Ends(r)
                 \/ request' = [request EXCEPT ![r].left = @ \ {i}]
      BY <1>14 DEF Lockout!ClearNext
    <2>1. i \in Identifiers /\ request[r].at = "clear"
      BY <1>0, <2>0 DEF Lockout!At, Lockout!TypeOK, Lockout!Request, Lockout!NoRequest
    <2>2. OneMoves(r) /\ request'[r].at \in {"idle", "clear"}
      BY <1>0, <2>0, <2>1, LoginClears
    <2>3. ASSUME NEW j
          PROVE  /\ Number({"check"}, j)' = Number({"check"}, j)
                 /\ Number(Uncounted, j)' = Number(Uncounted, j)
                 /\ Number(Locking, j)' = Number(Locking, j)
      <3>1. ASSUME NEW places, "idle" \notin places, "clear" \notin places
            PROVE  Number(places, j)' = Number(places, j)
        <4>1. Number(places, j)' = Number(places, j)
               + (IF request'[r].at \in places /\ request'[r].id = j THEN 1 ELSE 0)
               - (IF request[r].at \in places /\ request[r].id = j THEN 1 ELSE 0)
          BY <2>2, NumberMoves DEF OneMoves
        <4>2. request'[r].at \notin places /\ request[r].at \notin places
          BY <2>1, <2>2, <3>1
        <4> QED  BY <1>b, <4>1, <4>2
      <3> QED  BY <3>1 DEF Uncounted, Locking
    <2>4. /\ fails' = [fails EXCEPT ![i] = NoKey] /\ lock' = lock \ {i}
          /\ Lockout!Forgiven(i)
      BY <2>0 DEF Lockout!Clear
    <2>5. /\ fails' \in [Identifiers -> Nat \cup {NoKey}]
          /\ Lockout!Count(i)' = 0
          /\ \A j \in Identifiers \ {i} : Lockout!Count(j)' = Lockout!Count(j)
      BY <1>0, <2>1, <2>4, CountsAfter
    <2>6. Lockout!Count(i)' <= Threshold - 1 + Number(Locking, i)'
      BY <1>0, <1>b, <2>3, <2>5
    <2>7. /\ StillRight(i)
          /\ guesses' \in [Identifiers -> Nat] /\ erased' \in [Identifiers -> Nat]
          /\ \A j \in Identifiers \ {i} : guesses'[j] = guesses[j] /\ erased'[j] = erased[j]
      BY <1>13, <2>1, <2>3, <2>4, <2>5, <2>6
    <2>8. ASSUME NEW j \in Identifiers, j # i PROVE StillRight(j)
      BY <1>2, <2>3, <2>4, <2>5, <2>7, <2>8
    <2>9. Lockout!TypeOK'
      BY <1>0, <2>2, <2>4, <2>5, <2>7 DEF Lockout!TypeOK, OneMoves
    <2> QED  BY <1>1, <2>7, <2>8, <2>9
  <1>15. ASSUME NEW i \in Identifiers, Lockout!WindowEnds(i) \/ Lockout!LockEnds(i)
         PROVE  LockoutInv'
    <2>1. \A places, j : Number(places, j)' = Number(places, j)
      BY <1>15 DEF Lockout!WindowEnds, Lockout!LockEnds, Number
    <2>2. CASE Lockout!WindowEnds(i)
      <3>1. /\ fails' \in [Identifiers -> Nat \cup {NoKey}]
            /\ Lockout!Count(i)' = 0
            /\ \A j \in Identifiers \ {i} : Lockout!Count(j)' = Lockout!Count(j)
        BY <1>0, <2>2, CountsAfter DEF Lockout!WindowEnds
      <3>2. UNCHANGED <<lock, request>>
        BY <2>2 DEF Lockout!WindowEnds
      <3>3. Lockout!Count(i)' <= Threshold - 1 + Number(Locking, i)'
        BY <1>0, <1>b, <2>1, <3>1
      <3>4. /\ StillRight(i)
            /\ guesses' \in [Identifiers -> Nat] /\ erased' \in [Identifiers -> Nat]
            /\ \A j \in Identifiers \ {i} :
                   guesses'[j] = guesses[j] /\ erased'[j] = erased[j]
        <4>1. CASE i \in lock
          <5>1. UNCHANGED <<guesses, erased>>
            BY <2>2, <4>1 DEF Lockout!WindowEnds
          <5>2. StillRight(i)
            BY <1>a, <2>1, <3>2, <3>3, <4>1, <5>1 DEF StillRight
          <5> QED  BY <1>0, <5>1, <5>2 DEF Lockout!TypeOK
        <4>2. CASE i \notin lock
          <5>1. Lockout!Forgiven(i)
            BY <2>2, <4>2 DEF Lockout!WindowEnds
          <5> QED  BY <1>13, <2>1, <3>1, <3>2, <3>3, <4>2, <5>1
        <4> QED  BY <4>1, <4>2
      <3>5. ASSUME NEW j \in Identifiers, j # i PROVE StillRight(j)
        BY <1>2, <2>1, <3>1, <3>2, <3>4, <3>5
      <3>6. Lockout!TypeOK'
        BY <1>0, <3>1, <3>2, <3>4 DEF Lockout!TypeOK
      <3> QED  BY <1>1, <3>4, <3>5, <3>6
    <2>3. CASE Lockout!LockEnds(i)
      <3>1. /\ UNCHANGED <<fails, request>> /\ lock' = lock \ {i} /\ Lockout!Forgiven(i)
        BY <2>3 DEF Lockout!LockEnds
      <3>2. \A j \in Identifiers : Lockout!Count(j)' = Lockout!Count(j)
        BY <3>1 DEF Lockout!Count
      <3>3. /\ StillRight(i)
            /\ guesses' \in [Identifiers -> Nat] /\ erased' \in [Identifiers -> Nat]
            /\ \A j \in Identifiers \ {i} :
                   guesses'[j] = guesses[j] /\ erased'[j] = erased[j]
        <4>1. /\ Lockout!Count(i)' \in Nat
              /\ Lockout!Count(i)' <= Threshold - 1 + Number(Locking, i)'
          BY <1>a, <2>1, <3>2
        <4> QED  BY <1>13, <2>1, <3>1, <4>1
      <3>4. ASSUME NEW j \in Identifiers, j # i PROVE StillRight(j)
        BY <1>2, <2>1, <3>1, <3>2, <3>3, <3>4
      <3>5. Lockout!TypeOK'
        BY <1>0, <3>1, <3>3 DEF Lockout!TypeOK
      <3> QED  BY <1>1, <3>3, <3>4, <3>5
    <2> QED  BY <1>15, <2>2, <2>3
  <1> QED
    BY <1>3, <1>4, <1>5, <1>6, <1>7, <1>9, <1>10, <1>11, <1>12, <1>14, <1>15 DEF Lockout!Next

LEMMA LockoutInit == Lockout!Init => LockoutInv
  <1> SUFFICES ASSUME Lockout!Init PROVE LockoutInv
    OBVIOUS
  <1>0. Threshold \in Nat \ {0} /\ NoKey \notin Nat
    BY LockoutAssumption
  <1>1. \A r \in Requests : request[r].at = "idle"
    BY DEF Lockout!Init, Lockout!NoRequest
  <1>2. Lockout!TypeOK
    BY <1>0 DEF Lockout!Init, Lockout!TypeOK
  <1>3. \A i \in Identifiers : Lockout!Count(i) = 0 /\ guesses[i] = 0 /\ erased[i] = 0
    BY DEF Lockout!Init, Lockout!Count
  <1>4. \A places, i : Number(places, i) \in Nat
    BY NumberIsNat
  <1> QED
    BY <1>0, <1>2, <1>3, <1>4
       DEF Lockout!Init, LockoutInv, OverMeansLocking, OpenCounts, LockedLeaves

\* The types of the lock's keys, and where every wrong password is: in the
\* counter, on its way there, or taken off by a late command.
THEOREM LockoutInvariance == Lockout!Spec => []LockoutInv
  BY LockoutInit, LockoutStep, PTL DEF Lockout!Spec

\* However many requests there are at a time, an identifier that is not cleared
\* takes the wrong passwords that lead to the lock, one for each request that was
\* under way then, and those that a late command has erased.
THEOREM GuessesCorrect == Lockout!Spec => []GuessesBounded
  <1>1. LockoutInv => GuessesBounded
    <2> SUFFICES ASSUME LockoutInv, NEW i \in Identifiers
                 PROVE  guesses[i] <= Threshold - 1 + Cardinality(Requests) + erased[i]
      BY LockoutCardinality DEF GuessesBounded, Lockout!GuessesBounded
    <2>1. guesses[i] + Number({"check"}, i) <= Threshold - 1 + Cardinality(Requests) + erased[i]
      BY OpenSum DEF LockoutInv, LockedLeaves
    <2>2. /\ Number({"check"}, i) \in Nat /\ Threshold \in Nat
          /\ Cardinality(Requests) \in Nat /\ guesses[i] \in Nat /\ erased[i] \in Nat
      BY NumberIsNat, LockoutAssumption, FS_CardinalityType DEF LockoutInv, Lockout!TypeOK
    <2> QED  BY <2>1, <2>2
  <1> QED  BY <1>1, LockoutInvariance, PTL

-----------------------------------------------------------------------------
(* Notice: the inductive invariant *)

\* Runs that meet spoil each other's messages.
MeetingSpoils ==
    \A v, w \in Workers :
        v # w /\ notifying[v] # Notice!NoRun /\ notifying[w] # Notice!NoRun
            => notifying[v].msg \in spoilt

\* A run whose message is not spoilt has met no other.
Alone(w) == notifying[w] # Notice!NoRun /\ notifying[w].msg \notin spoilt

\* One notification holds the key of the chat.
OneKey == \A i, j \in DOMAIN notices : notices[i].keyed /\ notices[j].keyed => i = j

\* The notification a run has found.
Found(w) == notices[notifying[w].row]

\* What a run has found is there, and was read if the key is to be released.
FoundIsThere ==
    \A w \in Workers :
        /\ notifying[w].at \in {"write", "ring", "release"} => notifying[w].row \in DOMAIN notices
        /\ notifying[w].at = "release" => Found(w).read

\* What a run goes by is still so when it is alone.
Sees(w) ==
    /\ notifying[w].at = "create" => \A i \in DOMAIN notices : ~notices[i].keyed
    /\ notifying[w].at \in {"write", "ring", "release"} => Found(w).keyed
    /\ notifying[w].at \in {"write", "ring"} => (Found(w).read => excused)
    /\ notifying[w].at = "write" =>
           notifying[w].told = Found(w).told /\ notifying[w].count = Found(w).count
    /\ notifying[w].at = "ring" => notifying[w].msg \in Found(w).told
    /\ notifying[w].at = "set" =>
           \E i \in DOMAIN notices : notifying[w].msg \in notices[i].told
    /\ notifying[w].msg \notin handled

AloneSees == \A w \in Workers : Alone(w) => Sees(w)

\* After the one push of a burst the notification can be found, and the key of
\* the push is in the cache, or about to be.
RungOnce ==
    rung > 0 /\ ~excused =>
        /\ rung = 1
        /\ \E i \in DOMAIN notices : notices[i].keyed /\ ~notices[i].read
        /\ recent \/ \E w \in Workers : notifying[w].at = "set"

\* A run that is going to write remembers what is not spoilt.
WritersRemember ==
    \A w \in Workers : notifying[w].at = "write" =>
        /\ notifying[w].told \ spoilt = Found(w).told \ spoilt
        /\ IsFiniteSet(notifying[w].told)

\* What a notification counts has been handled, or is about to be.
CountedIsKnown ==
    \A i \in DOMAIN notices :
        /\ IsFiniteSet(notices[i].told)
        /\ \A m \in notices[i].told :
              \/ m \in handled \cup spoilt
              \/ \E w \in Workers : notifying[w].at \in {"ring", "set"} /\ notifying[w].msg = m

\* What is queued is new, or spoilt.
QueuedIsNew ==
    \A m \in news :
        m \in handled \/ (\E w \in Workers : notifying[w] # Notice!NoRun /\ notifying[w].msg = m)
            => m \in spoilt

NoticeInv ==
    /\ Notice!TypeOK /\ MeetingSpoils /\ OneKey /\ FoundIsThere /\ AloneSees
    /\ RungOnce /\ WritersRemember /\ CountedIsKnown /\ QueuedIsNew
    /\ NewsIsKept

LEMMA NoticeAssumption == MaxDeliveries \in Nat
  BY ServicesAssumption DEF Notice!Parameters

LEMMA NoticeCardinality == ASSUME NEW S PROVE Notice!Cardinality(S) = Cardinality(S)
  BY Zenon DEF Notice!Cardinality, Cardinality

LEMMA NoticeRows ==
    ASSUME Notice!TypeOK, NEW i \in DOMAIN notices
    PROVE  notices[i] \in Notice!Notice
  BY ElementOfSeq, LenProperties DEF Notice!TypeOK

\* A notification is written.
LEMMA NoticeWritten ==
    ASSUME Notice!TypeOK, NEW i \in DOMAIN notices, NEW new \in Notice!Notice,
           notices' = [notices EXCEPT ![i] = new]
    PROVE  /\ notices' \in Seq(Notice!Notice) /\ DOMAIN notices' = DOMAIN notices
           /\ notices'[i] = new
           /\ \A j \in DOMAIN notices \ {i} : notices'[j] = notices[j]
  BY ExceptSeq, LenProperties DEF Notice!TypeOK

\* A notification is added.
LEMMA NoticeAdded ==
    ASSUME Notice!TypeOK, NEW new \in Notice!Notice, notices' = Append(notices, new)
    PROVE  \E n : /\ notices' \in Seq(Notice!Notice) /\ n \notin DOMAIN notices
                  /\ DOMAIN notices' = DOMAIN notices \cup {n}
                  /\ notices'[n] = new
                  /\ \A j \in DOMAIN notices : notices'[j] = notices[j]
  <1> DEFINE n == Len(notices) + 1
  <1>1. notices \in Seq(Notice!Notice)
    BY DEF Notice!TypeOK
  <1>2. Len(notices) \in Nat /\ DOMAIN notices = 1..Len(notices)
    BY <1>1, LenProperties
  <1>3. /\ notices' \in Seq(Notice!Notice) /\ Len(notices') = n
        /\ \A j \in DOMAIN notices : notices'[j] = notices[j]
        /\ notices'[n] = new
    BY <1>1, <1>2, AppendProperties
  <1>4. DOMAIN notices' = 1..n
    BY <1>3, LenProperties
  <1>5. n \notin DOMAIN notices /\ DOMAIN notices' = DOMAIN notices \cup {n}
    BY <1>2, <1>4
  <1> QED  BY <1>3, <1>5

\* One run goes on with its message, or ends.
OneRuns(w) ==
    /\ notifying[w] \in Notice!Run
    /\ notifying' \in [Workers -> Notice!Run \cup {Notice!NoRun}]
    /\ \A v \in Workers \ {w} : notifying'[v] = notifying[v]

LEMMA RunIsOn == ASSUME NEW r \in Notice!Run PROVE r # Notice!NoRun /\ r.at # "idle"
  <1>1. r.at \in {"look", "write", "ring", "release", "create", "set"}
    BY DEF Notice!Run
  <1> QED  BY <1>1 DEF Notice!NoRun

Steps == {"look", "write", "ring", "release", "create", "set"}

LEMMA RunGoes ==
    ASSUME Notice!TypeOK, NEW w \in Workers, NEW from \in Steps, notifying[w].at = from,
           NEW place \in Steps, Notice!Goes(w, place)
    PROVE  /\ OneRuns(w) /\ notifying'[w] # Notice!NoRun
           /\ notifying'[w].at = place /\ notifying'[w].msg = notifying[w].msg
           /\ notifying'[w].row = notifying[w].row /\ notifying'[w].told = notifying[w].told
           /\ notifying'[w].count = notifying[w].count
  <1>1. notifying[w] \in Notice!Run
    BY DEF Notice!TypeOK, Notice!NoRun, Steps
  <1> DEFINE new == [notifying[w] EXCEPT !.at = place]
  <1>2. /\ new \in Notice!Run /\ new.at = place /\ new.msg = notifying[w].msg
        /\ new.row = notifying[w].row /\ new.told = notifying[w].told
        /\ new.count = notifying[w].count
    BY <1>1 DEF Notice!Run, Steps
  <1>3. notifying' = [notifying EXCEPT ![w] = new]
    BY DEF Notice!Goes
  <1> HIDE DEF new
  <1>4. new # Notice!NoRun
    BY <1>2, RunIsOn
  <1> QED  BY <1>1, <1>2, <1>3, <1>4 DEF OneRuns, Notice!TypeOK

LEMMA RunEnds ==
    ASSUME Notice!TypeOK, NEW w \in Workers, NEW from \in Steps, notifying[w].at = from,
           notifying' = [notifying EXCEPT ![w] = Notice!NoRun]
    PROVE  /\ OneRuns(w) /\ notifying'[w] = Notice!NoRun /\ notifying'[w].at = "idle"
  <1>1. notifying[w] \in Notice!Run
    BY DEF Notice!TypeOK, Notice!NoRun, Steps
  <1> QED  BY <1>1 DEF OneRuns, Notice!TypeOK, Notice!NoRun

\* Whoever meets a run is not alone: what the step has to show is about the run
\* that makes it.
LEMMA OnlyOneIsAlone ==
    ASSUME NoticeInv, NEW w \in Workers, OneRuns(w),
           notifying'[w] # Notice!NoRun => notifying'[w].msg = notifying[w].msg,
           spoilt \subseteq spoilt',
           \A i \in DOMAIN notices :
               i \in DOMAIN notices' /\ (notices[i].read => notices'[i].read),
           notifying'[w].at \in {"write", "ring", "release"} =>
               notifying'[w].row \in DOMAIN notices',
           notifying'[w].at = "release" => Found(w)'.read,
           Alone(w)' => Sees(w)'
    PROVE  MeetingSpoils' /\ FoundIsThere' /\ AloneSees'
  <1>0. notifying[w] # Notice!NoRun
    BY RunIsOn DEF OneRuns
  <1>1. MeetingSpoils'
    BY <1>0 DEF NoticeInv, MeetingSpoils, OneRuns
  <1>2. ASSUME NEW v \in Workers
        PROVE  /\ notifying'[v].at \in {"write", "ring", "release"}
                    => notifying'[v].row \in DOMAIN notices'
               /\ notifying'[v].at = "release" => Found(v)'.read
    BY DEF NoticeInv, FoundIsThere, OneRuns, Found
  <1>3. ASSUME NEW v \in Workers, Alone(v)' PROVE v = w
    BY <1>0, <1>3 DEF NoticeInv, MeetingSpoils, OneRuns, Alone
  <1> QED  BY <1>1, <1>2, <1>3 DEF FoundIsThere, AloneSees

LEMMA NoticeLook ==
    ASSUME NoticeInv, NEW w \in Workers, Notice!Look(w) PROVE NoticeInv'
  <1>0. /\ Notice!TypeOK /\ notifying[w].at = "look" /\ "look" \in Steps
        /\ UNCHANGED <<notices, news, recent, rung, excused, handled, spoilt, told>>
    BY DEF NoticeInv, Notice!Look, Notice!At, Steps
  <1>1. notifying[w] \in Notice!Run
    BY <1>0 DEF Notice!TypeOK, Notice!NoRun
  \* The run goes on, and what it remembers is what it has found.
  <1>2. /\ OneRuns(w) /\ notifying'[w] # Notice!NoRun
        /\ notifying'[w].msg = notifying[w].msg
        /\ \/ /\ notifying'[w].at = "create"
              /\ \A i \in DOMAIN notices : ~notices[i].keyed
           \/ \E i \in DOMAIN notices :
                /\ notices[i].keyed
                /\ notifying'[w].at = IF notices[i].read THEN "release" ELSE "write"
                /\ notifying'[w].row = i /\ notifying'[w].told = notices[i].told
                /\ notifying'[w].count = notices[i].count
    <2>1. CASE Notice!Keyed = {} /\ Notice!Goes(w, "create")
      BY <1>0, <2>1, RunGoes DEF Notice!Keyed, Steps
    <2>2. ASSUME NEW i \in Notice!Keyed,
                 notifying' = [notifying EXCEPT ![w] = [@ EXCEPT
                      !.at = IF notices[i].read THEN "release" ELSE "write",
                      !.row = i, !.told = notices[i].told, !.count = notices[i].count]]
          PROVE  /\ OneRuns(w) /\ notifying'[w] # Notice!NoRun
                 /\ notifying'[w].msg = notifying[w].msg
                 /\ notices[i].keyed
                 /\ notifying'[w].at = IF notices[i].read THEN "release" ELSE "write"
                 /\ notifying'[w].row = i /\ notifying'[w].told = notices[i].told
                 /\ notifying'[w].count = notices[i].count
      <3>1. i \in DOMAIN notices /\ notices[i].keyed /\ notices[i] \in Notice!Notice
        BY <1>0, NoticeRows DEF Notice!Keyed
      <3>2. i \in Nat
        BY <1>0, <3>1, LenProperties DEF Notice!TypeOK
      <3> DEFINE at    == IF notices[i].read THEN "release" ELSE "write"
                 those == notices[i].told
                 n     == notices[i].count
                 new   == [notifying[w] EXCEPT !.at = at, !.row = i, !.told = those,
                                               !.count = n]
      <3>3. /\ at \in {"release", "write"} /\ those \in SUBSET Messages /\ n \in Nat
        BY <3>1 DEF Notice!Notice
      <3>4. notifying' = [notifying EXCEPT ![w] = new]
        BY <2>2
      <3> HIDE DEF at, those, n
      <3>5. /\ new \in Notice!Run /\ new.at = at /\ new.msg = notifying[w].msg
            /\ new.row = i /\ new.told = those /\ new.count = n
        BY <1>1, <3>2, <3>3 DEF Notice!Run
      <3> HIDE DEF new
      <3>6. new # Notice!NoRun
        BY <3>5, RunIsOn
      <3> QED  BY <1>0, <1>1, <3>1, <3>4, <3>5, <3>6 DEF OneRuns, Notice!TypeOK, at, those, n
    <2>3. \/ Notice!Keyed = {} /\ Notice!Goes(w, "create")
          \/ \E i \in Notice!Keyed :
                notifying' = [notifying EXCEPT ![w] = [@ EXCEPT
                      !.at = IF notices[i].read THEN "release" ELSE "write",
                      !.row = i, !.told = notices[i].told, !.count = notices[i].count]]
      BY DEF Notice!Look
    <2> QED  BY <2>1, <2>2, <2>3 DEF Notice!Keyed
  <1>3. Alone(w)' => notifying[w].msg \notin handled
    BY <1>0, <1>1, <1>2, RunIsOn DEF Alone, NoticeInv, AloneSees, Sees
  <1>4. Alone(w)' => Sees(w)'
    BY <1>0, <1>2, <1>3 DEF Sees, Found
  <1>5. MeetingSpoils' /\ FoundIsThere' /\ AloneSees'
    BY <1>0, <1>2, <1>4, OnlyOneIsAlone DEF Found
  <1>6. Notice!TypeOK' /\ OneKey' /\ NewsIsKept'
    BY <1>0, <1>2 DEF NoticeInv, Notice!TypeOK, OneRuns, OneKey, NewsIsKept, Notice!NewsIsKept
  <1>7. RungOnce' /\ QueuedIsNew'
    BY <1>0, <1>1, <1>2, RunIsOn DEF NoticeInv, RungOnce, QueuedIsNew, OneRuns
  <1>8. CountedIsKnown'
    BY <1>0, <1>2 DEF NoticeInv, CountedIsKnown, OneRuns
  <1>9. WritersRemember'
    BY <1>0, <1>2 DEF NoticeInv, WritersRemember, CountedIsKnown, OneRuns, Found
  <1> QED  BY <1>5, <1>6, <1>7, <1>8, <1>9 DEF NoticeInv

LEMMA NoticeWrite ==
    ASSUME NoticeInv, NEW w \in Workers, Notice!Write(w) PROVE NoticeInv'
  <1>0. /\ Notice!TypeOK /\ notifying[w].at = "write" /\ "write" \in Steps
        /\ "ring" \in Steps /\ Notice!Goes(w, "ring")
        /\ UNCHANGED <<news, recent, rung, excused, handled, spoilt, told>>
    BY DEF NoticeInv, Notice!Write, Notice!At, Steps
  <1>1. /\ OneRuns(w) /\ notifying[w] # Notice!NoRun /\ notifying'[w] # Notice!NoRun
        /\ notifying'[w].at = "ring" /\ notifying'[w].msg = notifying[w].msg
        /\ notifying'[w].row = notifying[w].row
    BY <1>0, RunGoes, RunIsOn DEF OneRuns
  <1> DEFINE i     == notifying[w].row
             m     == notifying[w].msg
             those == notifying[w].told \cup {m}
             n     == notifying[w].count + 1
             new   == [notices[i] EXCEPT !.told = those, !.count = n]
  <1>2. i \in DOMAIN notices
    BY <1>0 DEF NoticeInv, FoundIsThere
  <1>3. notices[i] \in Notice!Notice
    BY <1>0, <1>2, NoticeRows
  <1>4. those \in SUBSET Messages /\ n \in Nat /\ m \in Messages
    BY <1>1 DEF OneRuns, Notice!Run
  <1>5. notices' = [notices EXCEPT ![i] = new]
    BY DEF Notice!Write
  <1> HIDE DEF those, n
  <1>6. /\ new \in Notice!Notice /\ new.told = those /\ new.count = n
        /\ new.read = notices[i].read /\ new.keyed = notices[i].keyed
    BY <1>3, <1>4 DEF Notice!Notice
  <1> HIDE DEF new, i
  <1>7. /\ notices' \in Seq(Notice!Notice) /\ DOMAIN notices' = DOMAIN notices
        /\ notices'[i] = new
        /\ \A j \in DOMAIN notices \ {i} : notices'[j] = notices[j]
    BY <1>0, <1>2, <1>5, <1>6, NoticeWritten
  <1>8. \A j \in DOMAIN notices : /\ notices'[j].read = notices[j].read
                                  /\ notices'[j].keyed = notices[j].keyed
    BY <1>6, <1>7
  <1>9. Found(w) = notices[i] /\ Found(w)' = notices'[i]
    BY <1>1 DEF Found, i
  \* A message that is not spoilt is in the notification before and after.
  <1>10. those \ spoilt = (notices[i].told \cup {m}) \ spoilt /\ IsFiniteSet(those)
    BY <1>0, <1>9, FS_AddElement DEF NoticeInv, WritersRemember, those
  <1>11. m \notin spoilt =>
           /\ those = notices[i].told \cup {m} /\ n = notices[i].count + 1
           /\ m \notin handled /\ m \notin notices[i].told
           /\ notices[i].keyed /\ (notices[i].read => excused)
    <2> SUFFICES ASSUME m \notin spoilt
                 PROVE  /\ those = notices[i].told \cup {m} /\ n = notices[i].count + 1
                        /\ m \notin handled /\ m \notin notices[i].told
                        /\ notices[i].keyed /\ (notices[i].read => excused)
      OBVIOUS
    <2>1. Sees(w)
      BY <1>1 DEF NoticeInv, AloneSees, Alone
    <2>2. \A v \in Workers : notifying[v].at \in {"ring", "set"} => notifying[v].msg # m
      BY <1>0, <1>1 DEF NoticeInv, MeetingSpoils, Notice!NoRun
    <2>3. m \notin notices[i].told
      BY <1>0, <1>2, <2>1, <2>2 DEF NoticeInv, CountedIsKnown, Sees
    <2> QED  BY <1>0, <1>9, <2>1, <2>3 DEF Sees, those, n
  <1>12. Alone(w)' => Sees(w)'
    BY <1>0, <1>1, <1>6, <1>7, <1>9, <1>11 DEF Alone, Sees, those
  <1>13. MeetingSpoils' /\ FoundIsThere' /\ AloneSees'
    BY <1>0, <1>1, <1>2, <1>7, <1>8, <1>12, OnlyOneIsAlone DEF i
  <1>14. Notice!TypeOK'
    BY <1>0, <1>1, <1>7 DEF Notice!TypeOK, OneRuns
  <1>15. OneKey'
    BY <1>7, <1>8 DEF NoticeInv, OneKey
  <1>16. RungOnce'
    <2>1. \A v \in Workers : notifying[v].at = "set" => notifying'[v].at = "set"
      BY <1>0, <1>1 DEF OneRuns
    <2> QED  BY <1>0, <1>7, <1>8, <2>1 DEF NoticeInv, RungOnce
  <1>17. QueuedIsNew'
    BY <1>0, <1>1 DEF NoticeInv, QueuedIsNew, OneRuns
  <1>18. WritersRemember'
    <2> SUFFICES ASSUME NEW v \in Workers, notifying'[v].at = "write"
                 PROVE  /\ notifying'[v].told \ spoilt = Found(v)'.told \ spoilt
                        /\ IsFiniteSet(notifying'[v].told)
      BY <1>0 DEF WritersRemember
    <2>1. v # w /\ notifying'[v] = notifying[v] /\ notifying[v].row \in DOMAIN notices
      BY <1>1 DEF OneRuns, NoticeInv, FoundIsThere
    <2>2. /\ notifying[v].told \ spoilt = notices[notifying[v].row].told \ spoilt
          /\ IsFiniteSet(notifying[v].told)
      BY <2>1 DEF NoticeInv, WritersRemember, Found
    <2>3. m \in spoilt
      BY <1>1, <2>1 DEF NoticeInv, MeetingSpoils, Notice!NoRun
    <2>4. notices'[notifying[v].row].told \ spoilt = notices[notifying[v].row].told \ spoilt
      BY <1>6, <1>7, <1>10, <2>1, <2>3
    <2> QED  BY <2>1, <2>2, <2>4 DEF Found
  <1>19. CountedIsKnown'
    <2> SUFFICES ASSUME NEW j \in DOMAIN notices
                 PROVE  /\ IsFiniteSet(notices'[j].told)
                        /\ \A x \in notices'[j].told :
                              \/ x \in handled \cup spoilt
                              \/ \E v \in Workers : notifying'[v].at \in {"ring", "set"}
                                                    /\ notifying'[v].msg = x
      BY <1>0, <1>7 DEF CountedIsKnown
    <2>1. \A x \in notices[j].told :
              \/ x \in handled \cup spoilt
              \/ \E v \in Workers : notifying'[v].at \in {"ring", "set"}
                                    /\ notifying'[v].msg = x
      BY <1>0, <1>1 DEF NoticeInv, CountedIsKnown, OneRuns
    <2>2. CASE j # i
      BY <1>7, <2>1, <2>2 DEF NoticeInv, CountedIsKnown
    <2>3. CASE j = i
      BY <1>1, <1>6, <1>7, <1>10, <2>1, <2>3
    <2> QED  BY <2>2, <2>3
  <1>20. NewsIsKept'
    <2>1. ASSUME NEW x \in handled \ spoilt PROVE \E j \in DOMAIN notices : x \in notices'[j].told
      <3>1. PICK j \in DOMAIN notices : x \in notices[j].told
        BY DEF NoticeInv, NewsIsKept, Notice!NewsIsKept
      <3>2. x \in notices'[j].told
        BY <1>6, <1>7, <1>10, <3>1
      <3> QED  BY <3>2
    <2>2. ASSUME NEW j \in DOMAIN notices, notices'[j].told \cap spoilt = {}
          PROVE  notices'[j].count = Cardinality(notices'[j].told)
      <3>1. CASE j # i
        BY <1>7, <2>2, <3>1, NoticeCardinality DEF NoticeInv, NewsIsKept, Notice!NewsIsKept
      <3>2. CASE j = i
        <4>1. those \cap spoilt = {} /\ m \notin spoilt
          BY <1>6, <1>7, <2>2, <3>2 DEF those
        <4>2. notices[i].told \cap spoilt = {}
          BY <1>11, <4>1
        <4>3. notices[i].count = Cardinality(notices[i].told) /\ IsFiniteSet(notices[i].told)
          BY <1>2, <4>2, NoticeCardinality
             DEF NoticeInv, NewsIsKept, Notice!NewsIsKept, CountedIsKnown
        <4>4. Cardinality(notices[i].told \cup {m}) = Cardinality(notices[i].told) + 1
          BY <1>11, <4>1, <4>3, FS_AddElement
        <4> QED  BY <1>6, <1>7, <1>11, <3>2, <4>1, <4>3, <4>4
      <3> QED  BY <3>1, <3>2
    <2> QED
      BY <1>0, <1>7, <2>1, <2>2, NoticeCardinality DEF NewsIsKept, Notice!NewsIsKept
  <1> QED
    BY <1>13, <1>14, <1>15, <1>16, <1>17, <1>18, <1>19, <1>20 DEF NoticeInv

\* A run ends: it has been alone, and its message is in a notification, or the
\* message is spoilt.
LEMMA NoticeEnds ==
    ASSUME NoticeInv, NEW w \in Workers, NEW from \in Steps, notifying[w].at = from,
           Notice!Ends(w), UNCHANGED <<notices, news, spoilt, told>>,
           Notice!TypeOK', RungOnce',
           \/ notifying[w].msg \in spoilt
           \/ \E i \in DOMAIN notices : notifying[w].msg \in notices[i].told
    PROVE  NoticeInv'
  <1>1. /\ OneRuns(w) /\ notifying'[w] = Notice!NoRun /\ notifying'[w].at = "idle"
        /\ handled' = handled \cup {notifying[w].msg} /\ Notice!TypeOK
        /\ notifying[w] # Notice!NoRun
    BY RunEnds, RunIsOn DEF NoticeInv, Notice!Ends, OneRuns
  <1>2. ~Alone(w)'
    BY <1>1 DEF Alone
  <1>3. MeetingSpoils' /\ FoundIsThere' /\ AloneSees'
    BY <1>1, <1>2, OnlyOneIsAlone
  <1>4. OneKey' /\ WritersRemember'
    BY <1>1 DEF NoticeInv, OneKey, WritersRemember, OneRuns, Found
  <1>5. CountedIsKnown' /\ QueuedIsNew'
    BY <1>1 DEF NoticeInv, CountedIsKnown, QueuedIsNew, OneRuns
  <1>6. NewsIsKept'
    BY <1>1 DEF NoticeInv, NewsIsKept, Notice!NewsIsKept
  <1> QED  BY <1>3, <1>4, <1>5, <1>6 DEF NoticeInv

\* After a push that nothing excuses there is none from a run that is alone, nor
\* from one that meets another.
LEMMA NoticeRing ==
    ASSUME NoticeInv, NEW w \in Workers, Notice!Ring(w) PROVE NoticeInv'
  <1>0. /\ Notice!TypeOK /\ notifying[w].at = "ring" /\ "ring" \in Steps
        /\ UNCHANGED <<notices, news, spoilt, told>> /\ Notice!Ends(w)
    BY DEF NoticeInv, Notice!Ring, Notice!At, Steps
  <1>1. /\ OneRuns(w) /\ notifying'[w] = Notice!NoRun /\ notifying[w] # Notice!NoRun
        /\ handled' = handled \cup {notifying[w].msg}
    BY <1>0, RunEnds, RunIsOn DEF Notice!Ends, OneRuns
  <1>2. /\ notifying[w].row \in DOMAIN notices
        /\ notifying[w].msg \notin spoilt => Sees(w)
    BY <1>0, <1>1 DEF NoticeInv, FoundIsThere, AloneSees, Alone
  <1>3. Notice!TypeOK'
    <2>1. excused' \in BOOLEAN /\ recent' \in BOOLEAN
      BY <1>0, Zenon DEF Notice!TypeOK, Notice!Ring, Notice!Rings
    <2>2. rung' \in Nat /\ handled' \subseteq Messages
      BY <1>0, <1>1 DEF Notice!TypeOK, OneRuns, Notice!Run, Notice!Ring, Notice!Rings
    <2> QED  BY <1>0, <1>1, <2>1, <2>2 DEF Notice!TypeOK, OneRuns
  <1>4. RungOnce'
    <2> SUFFICES ASSUME rung' > 0, ~excused'
                 PROVE  /\ rung' = 1
                        /\ \E i \in DOMAIN notices : notices[i].keyed /\ ~notices[i].read
                        /\ recent' \/ \E v \in Workers : notifying'[v].at = "set"
      BY <1>0 DEF RungOnce
    <2>1. CASE recent
      BY <2>1 DEF NoticeInv, RungOnce, Notice!Ring
    <2>2. CASE ~recent
      <3>1. /\ recent' /\ rung' = rung + 1 /\ ~excused /\ notifying[w].msg \notin spoilt
        BY <2>2 DEF Notice!Ring, Notice!Rings
      <3>2. Found(w).keyed /\ ~Found(w).read
        BY <1>0, <1>2, <3>1 DEF Sees
      <3>3. \A v \in Workers : notifying[v].at # "set"
        BY <1>0, <1>1, <3>1 DEF NoticeInv, MeetingSpoils, Notice!NoRun
      <3>4. rung \in Nat /\ ~(rung > 0)
        BY <1>0, <2>2, <3>1, <3>3 DEF NoticeInv, RungOnce, Notice!TypeOK
      <3> QED  BY <1>2, <3>1, <3>2, <3>4 DEF Found
    <2> QED  BY <2>1, <2>2
  <1>5. \/ notifying[w].msg \in spoilt
        \/ \E i \in DOMAIN notices : notifying[w].msg \in notices[i].told
    BY <1>0, <1>2 DEF Sees, Found
  <1> QED  BY <1>0, <1>3, <1>4, <1>5, NoticeEnds

LEMMA NoticeSetRecent ==
    ASSUME NoticeInv, NEW w \in Workers, Notice!SetRecent(w) PROVE NoticeInv'
  <1>0. /\ Notice!TypeOK /\ notifying[w].at = "set" /\ "set" \in Steps /\ recent' = TRUE
        /\ UNCHANGED <<notices, news, rung, excused, spoilt, told>> /\ Notice!Ends(w)
    BY DEF NoticeInv, Notice!SetRecent, Notice!At, Steps
  <1>1. /\ OneRuns(w) /\ notifying'[w] = Notice!NoRun /\ notifying[w] # Notice!NoRun
        /\ handled' = handled \cup {notifying[w].msg}
    BY <1>0, RunEnds, RunIsOn DEF Notice!Ends, OneRuns
  <1>2. Notice!TypeOK' /\ RungOnce'
    BY <1>0, <1>1 DEF NoticeInv, Notice!TypeOK, OneRuns, Notice!Run, RungOnce
  <1>3. \/ notifying[w].msg \in spoilt
        \/ \E i \in DOMAIN notices : notifying[w].msg \in notices[i].told
    BY <1>0, <1>1 DEF NoticeInv, AloneSees, Alone, Sees
  <1> QED  BY <1>0, <1>2, <1>3, NoticeEnds

LEMMA NoticeRelease ==
    ASSUME NoticeInv, NEW w \in Workers, Notice!Release(w) PROVE NoticeInv'
  <1>0. /\ Notice!TypeOK /\ notifying[w].at = "release" /\ "release" \in Steps
        /\ "create" \in Steps /\ Notice!Goes(w, "create")
        /\ UNCHANGED <<news, recent, rung, excused, handled, spoilt, told>>
    BY DEF NoticeInv, Notice!Release, Notice!At, Steps
  <1>1. /\ OneRuns(w) /\ notifying[w] # Notice!NoRun /\ notifying'[w] # Notice!NoRun
        /\ notifying'[w].at = "create" /\ notifying'[w].msg = notifying[w].msg
        /\ notifying'[w].row = notifying[w].row
    BY <1>0, RunGoes, RunIsOn DEF OneRuns
  <1> DEFINE i   == notifying[w].row
             new == [notices[i] EXCEPT !.keyed = FALSE]
  <1>2. i \in DOMAIN notices /\ notices[i].read
    BY <1>0 DEF NoticeInv, FoundIsThere, Found
  <1>3. notices[i] \in Notice!Notice
    BY <1>0, <1>2, NoticeRows
  <1>4. notices' = [notices EXCEPT ![i] = new]
    BY DEF Notice!Release
  <1>5. /\ new \in Notice!Notice /\ new.told = notices[i].told
        /\ new.count = notices[i].count /\ new.read = notices[i].read /\ ~new.keyed
    BY <1>3 DEF Notice!Notice
  <1> HIDE DEF new, i
  <1>6. /\ notices' \in Seq(Notice!Notice) /\ DOMAIN notices' = DOMAIN notices
        /\ notices'[i] = new
        /\ \A j \in DOMAIN notices \ {i} : notices'[j] = notices[j]
    BY <1>0, <1>2, <1>4, <1>5, NoticeWritten
  <1>7. \A j \in DOMAIN notices :
            /\ notices'[j].told = notices[j].told /\ notices'[j].count = notices[j].count
            /\ notices'[j].read = notices[j].read
            /\ notices'[j].keyed => notices[j].keyed /\ j # i
    BY <1>5, <1>6
  <1>8. Alone(w)' => Sees(w)'
    <2> SUFFICES ASSUME Alone(w)' PROVE Sees(w)'
      OBVIOUS
    <2>1. Sees(w)
      BY <1>0, <1>1 DEF NoticeInv, AloneSees, Alone
    <2>2. notices[i].keyed
      BY <1>0, <2>1 DEF Sees, Found, i
    <2>3. \A j \in DOMAIN notices : ~notices'[j].keyed
      BY <1>2, <1>7, <2>2 DEF NoticeInv, OneKey
    <2> QED  BY <1>0, <1>1, <1>6, <2>1, <2>3 DEF Sees
  <1>9. MeetingSpoils' /\ FoundIsThere' /\ AloneSees'
    BY <1>0, <1>1, <1>6, <1>7, <1>8, OnlyOneIsAlone
  <1>10. Notice!TypeOK' /\ OneKey'
    BY <1>0, <1>1, <1>6, <1>7 DEF NoticeInv, Notice!TypeOK, OneRuns, OneKey
  <1>11. RungOnce'
    <2>1. \A v \in Workers : notifying[v].at = "set" => notifying'[v].at = "set"
      BY <1>0, <1>1 DEF OneRuns
    <2>2. ASSUME NEW j \in DOMAIN notices, notices[j].keyed, ~notices[j].read
          PROVE  notices'[j].keyed /\ ~notices'[j].read
      BY <1>2, <1>6, <2>2
    <2> QED  BY <1>0, <1>6, <2>1, <2>2 DEF NoticeInv, RungOnce
  <1>12. QueuedIsNew'
    BY <1>0, <1>1 DEF NoticeInv, QueuedIsNew, OneRuns
  <1>13. WritersRemember'
    <2> SUFFICES ASSUME NEW v \in Workers, notifying'[v].at = "write"
                 PROVE  /\ notifying'[v].told \ spoilt = Found(v)'.told \ spoilt
                        /\ IsFiniteSet(notifying'[v].told)
      BY <1>0 DEF WritersRemember
    <2>1. notifying'[v] = notifying[v] /\ notifying[v].row \in DOMAIN notices
      BY <1>1 DEF OneRuns, NoticeInv, FoundIsThere
    <2> QED  BY <1>7, <2>1 DEF NoticeInv, WritersRemember, Found
  <1>14. CountedIsKnown'
    BY <1>0, <1>1, <1>6, <1>7 DEF NoticeInv, CountedIsKnown, OneRuns
  <1>15. NewsIsKept'
    BY <1>0, <1>6, <1>7 DEF NoticeInv, NewsIsKept, Notice!NewsIsKept
  <1> QED
    BY <1>9, <1>10, <1>11, <1>12, <1>13, <1>14, <1>15 DEF NoticeInv

LEMMA NoticeCreate ==
    ASSUME NoticeInv, NEW w \in Workers, Notice!Create(w) PROVE NoticeInv'
  <1>0. /\ Notice!TypeOK /\ notifying[w].at = "create" /\ "create" \in Steps
        /\ "set" \in Steps /\ UNCHANGED <<news, recent, spoilt, told>>
    BY DEF NoticeInv, Notice!Create, Notice!At, Steps
  <1>1. notifying[w] \in Notice!Run /\ notifying[w] # Notice!NoRun
    BY <1>0, RunIsOn DEF Notice!TypeOK, Notice!NoRun
  <1>2. notifying[w].msg \notin spoilt => Sees(w)
    BY <1>1 DEF NoticeInv, AloneSees, Alone
  <1>3. CASE Notice!Keyed # {}
    <2>1. Notice!Ends(w) /\ UNCHANGED <<notices, rung, excused>>
      BY <1>3 DEF Notice!Create
    <2>2. notifying[w].msg \in spoilt
      BY <1>0, <1>2, <1>3 DEF Sees, Notice!Keyed
    <2>3. OneRuns(w) /\ handled' = handled \cup {notifying[w].msg}
      BY <1>0, <2>1, RunEnds DEF Notice!Ends
    <2>4. Notice!TypeOK' /\ RungOnce'
      BY <1>0, <1>1, <2>1, <2>3
         DEF NoticeInv, Notice!TypeOK, OneRuns, Notice!Run, RungOnce
    <2> QED  BY <1>0, <2>1, <2>2, <2>4, NoticeEnds
  <1>4. CASE Notice!Keyed = {}
    <2> DEFINE m   == notifying[w].msg
               new == [told |-> {m}, count |-> 1, read |-> FALSE, keyed |-> TRUE]
    <2>1. /\ notices' = Append(notices, new) /\ Notice!Goes(w, "set")
          /\ rung' = rung + 1 /\ excused' = (excused \/ m \in spoilt)
          /\ UNCHANGED handled
      BY <1>4 DEF Notice!Create, Notice!Rings
    <2>2. m \in Messages
      BY <1>1 DEF Notice!Run
    <2> HIDE DEF m
    <2>3. /\ new \in Notice!Notice /\ new.told = {m} /\ new.count = 1 /\ ~new.read /\ new.keyed
      BY <2>2 DEF Notice!Notice
    <2> HIDE DEF new
    <2>4. PICK n : /\ notices' \in Seq(Notice!Notice) /\ n \notin DOMAIN notices
                   /\ DOMAIN notices' = DOMAIN notices \cup {n}
                   /\ notices'[n] = new
                   /\ \A j \in DOMAIN notices : notices'[j] = notices[j]
      BY <1>0, <2>1, <2>3, NoticeAdded
    <2>5. /\ OneRuns(w) /\ notifying'[w] # Notice!NoRun
          /\ notifying'[w].at = "set" /\ notifying'[w].msg = m
      BY <1>0, <2>1, RunGoes DEF m
    <2>6. \A j \in DOMAIN notices : ~notices[j].keyed
      BY <1>4 DEF Notice!Keyed
    <2>7. Alone(w)' => Sees(w)'
      BY <1>0, <1>2, <2>1, <2>3, <2>4, <2>5 DEF Alone, Sees, m
    <2>8. MeetingSpoils' /\ FoundIsThere' /\ AloneSees'
      BY <1>0, <2>4, <2>5, <2>7, OnlyOneIsAlone DEF m
    <2>9. excused' \in BOOLEAN
      BY <1>0, <2>1 DEF Notice!TypeOK
    <2>10. Notice!TypeOK' /\ OneKey'
      BY <1>0, <2>1, <2>4, <2>5, <2>6, <2>9 DEF Notice!TypeOK, OneRuns, OneKey
    <2>11. RungOnce'
      <3>1. rung \in Nat
        BY <1>0 DEF Notice!TypeOK
      <3>2. rung > 0 => excused
        BY <2>6 DEF NoticeInv, RungOnce
      <3>3. rung' > 0 /\ ~excused' => rung' = 1
        <4>1. ~excused' => ~excused
          BY Zenon, <2>1
        <4>2. ~(rung > 0) => rung' = 1
          BY <2>1, <3>1
        <4> QED  BY Zenon, <3>2, <4>1, <4>2
      <3>4. \E j \in DOMAIN notices' : notices'[j].keyed /\ ~notices'[j].read
        BY <2>3, <2>4
      <3>5. \E v \in Workers : notifying'[v].at = "set"
        BY <2>5
      <3> QED  BY <3>3, <3>4, <3>5 DEF RungOnce
    <2>12. QueuedIsNew'
      BY <1>0, <1>1, <2>1, <2>5 DEF NoticeInv, QueuedIsNew, OneRuns, m
    <2>13. WritersRemember'
      <3> SUFFICES ASSUME NEW v \in Workers, notifying'[v].at = "write"
                   PROVE  /\ notifying'[v].told \ spoilt = Found(v)'.told \ spoilt
                          /\ IsFiniteSet(notifying'[v].told)
        BY <1>0 DEF WritersRemember
      <3>1. notifying'[v] = notifying[v] /\ notifying[v].row \in DOMAIN notices
        BY <2>5 DEF OneRuns, NoticeInv, FoundIsThere
      <3> QED  BY <2>4, <3>1 DEF NoticeInv, WritersRemember, Found
    <2>14. CountedIsKnown'
      <3>1. ASSUME NEW j \in DOMAIN notices
            PROVE  /\ IsFiniteSet(notices'[j].told)
                   /\ \A x \in notices'[j].told :
                        \/ x \in handled' \cup spoilt'
                        \/ \E v \in Workers : notifying'[v].at \in {"ring", "set"}
                                              /\ notifying'[v].msg = x
        BY <1>0, <2>1, <2>4, <2>5 DEF NoticeInv, CountedIsKnown, OneRuns
      <3>2. IsFiniteSet(notices'[n].told)
        BY <2>3, <2>4, FS_Singleton
      <3> QED  BY <2>3, <2>4, <2>5, <3>1, <3>2 DEF CountedIsKnown
    <2>15. NewsIsKept'
      <3>1. Cardinality(notices'[n].told) = 1
        BY <2>3, <2>4, FS_Singleton
      <3> QED
        BY <1>0, <2>1, <2>3, <2>4, <3>1, NoticeCardinality
           DEF NoticeInv, NewsIsKept, Notice!NewsIsKept
    <2> QED
      BY <2>8, <2>10, <2>11, <2>12, <2>13, <2>14, <2>15 DEF NoticeInv
  <1> QED  BY <1>3, <1>4

LEMMA NoticePost ==
    ASSUME NoticeInv, NEW m \in Messages, Notice!Post(m) PROVE NoticeInv'
  <1>0. /\ Notice!TypeOK /\ m \notin handled /\ news' = news \cup {m}
        /\ told < MaxDeliveries /\ told' = told + 1
        /\ \A w \in Workers : notifying[w] # Notice!NoRun => notifying[w].msg # m
        /\ UNCHANGED <<notices, notifying, recent, rung, excused, handled, spoilt>>
    BY DEF NoticeInv, Notice!Post, Notice!Deliver, Notice!Running
  <1>1. Notice!TypeOK'
    BY <1>0, NoticeAssumption DEF Notice!TypeOK
  <1>2. QueuedIsNew'
    BY <1>0 DEF NoticeInv, QueuedIsNew
  <1>3. MeetingSpoils' /\ OneKey' /\ FoundIsThere' /\ AloneSees' /\ RungOnce'
    BY <1>0 DEF NoticeInv, MeetingSpoils, OneKey, FoundIsThere, AloneSees, Alone, Sees,
                Found, RungOnce
  <1>4. WritersRemember' /\ CountedIsKnown' /\ NewsIsKept'
    BY <1>0 DEF NoticeInv, WritersRemember, CountedIsKnown, NewsIsKept, Notice!NewsIsKept,
                Found
  <1> QED  BY <1>1, <1>2, <1>3, <1>4 DEF NoticeInv

LEMMA NoticeTake ==
    ASSUME NoticeInv, NEW w \in Workers, NEW m \in Messages, Notice!Take(w, m)
    PROVE  NoticeInv'
  <1>0. /\ Notice!TypeOK /\ notifying[w] = Notice!NoRun /\ m \in news /\ news' = news \ {m}
        /\ UNCHANGED <<notices, recent, rung, excused, handled, told>>
    BY DEF NoticeInv, Notice!Take
  <1> DEFINE new == [at |-> "look", msg |-> m, row |-> 0, told |-> {}, count |-> 0]
  <1>1. new \in Notice!Run /\ new.at = "look" /\ new.msg = m
    BY DEF Notice!Run
  <1>2. notifying' = [notifying EXCEPT ![w] = new]
    BY DEF Notice!Take
  <1> HIDE DEF new
  <1>3. /\ notifying' \in [Workers -> Notice!Run \cup {Notice!NoRun}]
        /\ notifying'[w] = new /\ new # Notice!NoRun
        /\ \A v \in Workers \ {w} : notifying'[v] = notifying[v]
        /\ notifying[w].at = "idle"
    BY <1>0, <1>1, <1>2, RunIsOn DEF Notice!TypeOK, Notice!NoRun
  <1>4. /\ spoilt' \subseteq Messages /\ spoilt \subseteq spoilt'
        /\ \A v \in Workers \ {w} : notifying[v] # Notice!NoRun =>
               m \in spoilt' /\ notifying[v].msg \in spoilt'
    <2>1. \A v \in Workers : notifying[v] # Notice!NoRun => notifying[v].msg \in Messages
      BY <1>0 DEF Notice!TypeOK, Notice!Run
    <2>2. spoilt' = IF Notice!Running = {} THEN spoilt
                    ELSE spoilt \cup {m} \cup {notifying[v].msg : v \in Notice!Running}
      BY DEF Notice!Take
    <2> QED  BY <1>0, <2>1, <2>2 DEF Notice!Running, Notice!TypeOK
  <1>5. MeetingSpoils'
    BY <1>1, <1>3, <1>4 DEF NoticeInv, MeetingSpoils
  <1>6. FoundIsThere'
    BY <1>0, <1>1, <1>3 DEF NoticeInv, FoundIsThere, Found
  <1>7. AloneSees'
    <2> SUFFICES ASSUME NEW v \in Workers, Alone(v)' PROVE Sees(v)'
      BY DEF AloneSees
    <2>1. v = w
      BY <1>3, <1>4 DEF Alone
    <2>2. m \notin handled
      BY <1>0, <1>1, <1>3, <1>4, <2>1 DEF NoticeInv, QueuedIsNew, Alone
    <2> QED  BY <1>0, <1>1, <1>3, <2>1, <2>2 DEF Sees
  <1>8. Notice!TypeOK' /\ OneKey'
    BY <1>0, <1>3, <1>4 DEF NoticeInv, Notice!TypeOK, OneKey
  <1>9. RungOnce'
    BY <1>0, <1>3 DEF NoticeInv, RungOnce
  <1>10. QueuedIsNew'
    BY <1>0, <1>1, <1>3, <1>4 DEF NoticeInv, QueuedIsNew
  <1>11. WritersRemember'
    <2> SUFFICES ASSUME NEW v \in Workers, notifying'[v].at = "write"
                 PROVE  /\ notifying'[v].told \ spoilt' = Found(v)'.told \ spoilt'
                        /\ IsFiniteSet(notifying'[v].told)
      BY DEF WritersRemember
    <2>1. notifying'[v] = notifying[v] /\ notices' = notices
      BY <1>0, <1>1, <1>3
    <2>2. /\ notifying[v].told \ spoilt = Found(v).told \ spoilt
          /\ IsFiniteSet(notifying[v].told)
      BY <2>1 DEF NoticeInv, WritersRemember
    <2> QED  BY <1>4, <2>1, <2>2 DEF Found
  <1>12. CountedIsKnown'
    BY <1>0, <1>3, <1>4 DEF NoticeInv, CountedIsKnown
  <1>13. NewsIsKept'
    BY <1>0, <1>4 DEF NoticeInv, NewsIsKept, Notice!NewsIsKept
  <1> QED
    BY <1>5, <1>6, <1>7, <1>8, <1>9, <1>10, <1>11, <1>12, <1>13 DEF NoticeInv

LEMMA NoticeDie ==
    ASSUME NoticeInv, NEW w \in Workers, Notice!Die(w) PROVE NoticeInv'
  <1> DEFINE m == notifying[w].msg
  <1>0. /\ Notice!TypeOK /\ notifying[w] # Notice!NoRun
        /\ notifying' = [notifying EXCEPT ![w] = Notice!NoRun]
        /\ told < MaxDeliveries /\ told' = told + 1
        /\ news' = news \cup {m} /\ spoilt' = spoilt \cup {m} /\ excused' = TRUE
        /\ UNCHANGED <<notices, recent, rung, handled>>
    BY DEF NoticeInv, Notice!Die, Notice!Deliver
  <1>1. notifying[w] \in Notice!Run /\ m \in Messages
    BY <1>0 DEF Notice!TypeOK, Notice!Run
  <1>2. /\ OneRuns(w) /\ notifying'[w] = Notice!NoRun /\ notifying'[w].at = "idle"
    BY <1>0, <1>1 DEF OneRuns, Notice!TypeOK, Notice!NoRun
  <1>3. ~Alone(w)'
    BY <1>2 DEF Alone
  <1>4. MeetingSpoils' /\ FoundIsThere' /\ AloneSees'
    BY <1>0, <1>2, <1>3, OnlyOneIsAlone
  <1>5. Notice!TypeOK' /\ OneKey' /\ RungOnce'
    BY <1>0, <1>1, <1>2, NoticeAssumption
       DEF NoticeInv, Notice!TypeOK, OneRuns, OneKey, RungOnce
  <1>6. QueuedIsNew'
    BY <1>0, <1>2 DEF NoticeInv, QueuedIsNew, OneRuns
  <1>7. WritersRemember'
    <2> SUFFICES ASSUME NEW v \in Workers, notifying'[v].at = "write"
                 PROVE  /\ notifying'[v].told \ spoilt' = Found(v)'.told \ spoilt'
                        /\ IsFiniteSet(notifying'[v].told)
      BY DEF WritersRemember
    <2>1. notifying'[v] = notifying[v] /\ notices' = notices
      BY <1>0, <1>2 DEF OneRuns
    <2>2. /\ notifying[v].told \ spoilt = Found(v).told \ spoilt
          /\ IsFiniteSet(notifying[v].told)
      BY <2>1 DEF NoticeInv, WritersRemember
    <2> QED  BY <1>0, <2>1, <2>2 DEF Found
  <1>8. CountedIsKnown'
    BY <1>0, <1>2 DEF NoticeInv, CountedIsKnown, OneRuns
  <1>9. NewsIsKept'
    BY <1>0 DEF NoticeInv, NewsIsKept, Notice!NewsIsKept
  <1> QED  BY <1>4, <1>5, <1>6, <1>7, <1>8, <1>9 DEF NoticeInv

LEMMA NoticeRead ==
    ASSUME NoticeInv, NEW i \in DOMAIN notices, Notice!Read(i) PROVE NoticeInv'
  <1>0. /\ Notice!TypeOK
        /\ excused' = (excused \/ rung > 0 \/ Notice!Running # {})
        /\ UNCHANGED <<news, notifying, recent, rung, handled, spoilt, told>>
    BY DEF NoticeInv, Notice!Read
  <1>1. notices[i] \in Notice!Notice
    BY <1>0, NoticeRows
  <1> DEFINE new == [notices[i] EXCEPT !.read = TRUE]
  <1>2. notices' = [notices EXCEPT ![i] = new]
    BY DEF Notice!Read
  <1>3. /\ new \in Notice!Notice /\ new.told = notices[i].told
        /\ new.count = notices[i].count /\ new.read /\ new.keyed = notices[i].keyed
    BY <1>1 DEF Notice!Notice
  <1> HIDE DEF new
  <1>4. /\ notices' \in Seq(Notice!Notice) /\ DOMAIN notices' = DOMAIN notices
        /\ notices'[i] = new
        /\ \A j \in DOMAIN notices \ {i} : notices'[j] = notices[j]
    BY <1>0, <1>2, <1>3, NoticeWritten
  <1>5. \A j \in DOMAIN notices :
            /\ notices'[j].told = notices[j].told /\ notices'[j].count = notices[j].count
            /\ notices'[j].keyed = notices[j].keyed
            /\ notices[j].read => notices'[j].read
    BY <1>3, <1>4
  <1>6. excused' \in BOOLEAN
    BY <1>0 DEF Notice!TypeOK
  <1>7. Notice!TypeOK' /\ OneKey' /\ MeetingSpoils' /\ QueuedIsNew'
    BY <1>0, <1>4, <1>5, <1>6
       DEF NoticeInv, Notice!TypeOK, OneKey, MeetingSpoils, QueuedIsNew
  <1>8. FoundIsThere'
    BY <1>0, <1>4, <1>5 DEF NoticeInv, FoundIsThere, Found
  <1>9. ASSUME NEW v \in Workers, notifying[v].at \in {"write", "ring", "release"}
        PROVE  /\ Found(v)'.keyed = Found(v).keyed /\ Found(v)'.told = Found(v).told
               /\ Found(v)'.count = Found(v).count
    BY <1>0, <1>5, <1>9 DEF NoticeInv, FoundIsThere, Found
  <1>10. AloneSees'
    <2> SUFFICES ASSUME NEW v \in Workers, Alone(v)' PROVE Sees(v)'
      BY DEF AloneSees
    <2>1. Sees(v) /\ notifying[v] # Notice!NoRun
      BY <1>0 DEF NoticeInv, AloneSees, Alone
    <2>2. excused'
      BY <1>0, <2>1 DEF Notice!Running
    <2> QED  BY <1>0, <1>4, <1>5, <1>9, <2>1, <2>2 DEF Sees
  <1>11. RungOnce'
    BY <1>0 DEF RungOnce
  <1>12. WritersRemember'
    BY <1>0, <1>9 DEF NoticeInv, WritersRemember
  <1>13. CountedIsKnown' /\ NewsIsKept'
    BY <1>0, <1>4, <1>5
       DEF NoticeInv, CountedIsKnown, NewsIsKept, Notice!NewsIsKept
  <1> QED
    BY <1>7, <1>8, <1>10, <1>11, <1>12, <1>13 DEF NoticeInv

LEMMA NoticeWindowEnds ==
    ASSUME NoticeInv, Notice!WindowEnds PROVE NoticeInv'
  <1>0. /\ Notice!TypeOK /\ rung' = 0 /\ recent' = FALSE /\ excused' = FALSE
        /\ \A w \in Workers : notifying[w] = Notice!NoRun
        /\ UNCHANGED <<notices, news, notifying, handled, spoilt, told>>
    BY DEF NoticeInv, Notice!WindowEnds, Notice!Running
  <1>1. Notice!TypeOK' /\ RungOnce' /\ OneKey' /\ MeetingSpoils' /\ QueuedIsNew'
    <2>1. 0 \in 0..MaxDeliveries /\ ~(0 > 0) /\ FALSE \in BOOLEAN
      BY NoticeAssumption
    <2>2. Notice!TypeOK'
      BY <1>0, <2>1 DEF Notice!TypeOK
    <2>3. RungOnce'
      BY <1>0, <2>1 DEF RungOnce
    <2>4. OneKey'
      BY <1>0 DEF NoticeInv, OneKey
    <2>5. MeetingSpoils'
      BY <1>0 DEF NoticeInv, MeetingSpoils
    <2>6. QueuedIsNew'
      BY <1>0 DEF NoticeInv, QueuedIsNew
    <2> QED  BY <2>2, <2>3, <2>4, <2>5, <2>6
  <1>2. FoundIsThere' /\ AloneSees'
    BY <1>0 DEF NoticeInv, FoundIsThere, AloneSees, Alone, Found
  <1>3. WritersRemember' /\ CountedIsKnown' /\ NewsIsKept'
    BY <1>0 DEF NoticeInv, WritersRemember, CountedIsKnown, NewsIsKept, Notice!NewsIsKept,
                Found
  <1> QED  BY <1>1, <1>2, <1>3 DEF NoticeInv

LEMMA NoticeInit == Notice!Init => NoticeInv
  <1> SUFFICES ASSUME Notice!Init PROVE NoticeInv
    OBVIOUS
  <1>1. DOMAIN notices = {} /\ notices \in Seq(Notice!Notice)
    <2>1. Len(<<>>) = 0 /\ <<>> \in Seq(Notice!Notice)
      BY EmptySeq
    <2> QED  BY <2>1, LenProperties DEF Notice!Init
  <1>2. \A w \in Workers : notifying[w] = Notice!NoRun /\ notifying[w].at = "idle"
    BY DEF Notice!Init, Notice!NoRun
  <1>3. Notice!TypeOK
    <2>1. rung \in Nat /\ told \in 0..MaxDeliveries
      BY NoticeAssumption DEF Notice!Init
    <2>2. notifying \in [Workers -> Notice!Run \cup {Notice!NoRun}]
      BY DEF Notice!Init
    <2>3. /\ news \subseteq Messages /\ handled \subseteq Messages /\ spoilt \subseteq Messages
          /\ recent \in BOOLEAN /\ excused \in BOOLEAN
      BY Zenon DEF Notice!Init
    <2> QED  BY <1>1, <2>1, <2>2, <2>3 DEF Notice!TypeOK
  <1>4. MeetingSpoils /\ OneKey /\ FoundIsThere /\ AloneSees /\ RungOnce
    BY <1>1, <1>2 DEF Notice!Init, MeetingSpoils, OneKey, FoundIsThere, AloneSees, Alone,
                      RungOnce
  <1>5. WritersRemember /\ CountedIsKnown /\ QueuedIsNew /\ NewsIsKept
    BY <1>1, <1>2 DEF Notice!Init, WritersRemember, CountedIsKnown, QueuedIsNew,
                      NewsIsKept, Notice!NewsIsKept
  <1> QED  BY <1>3, <1>4, <1>5 DEF NoticeInv

LEMMA NoticeStep == NoticeInv /\ [Notice!Next]_(Notice!vars) => NoticeInv'
  <1> SUFFICES ASSUME NoticeInv, [Notice!Next]_(Notice!vars) PROVE NoticeInv'
    OBVIOUS
  <1>1. CASE UNCHANGED Notice!vars
    <2>1. UNCHANGED <<notices, news, notifying, recent, rung, excused, handled, spoilt, told>>
      BY <1>1 DEF Notice!vars
    <2> QED
      BY <2>1 DEF NoticeInv, Notice!TypeOK, MeetingSpoils, OneKey, FoundIsThere, AloneSees,
                  Alone, Sees, Found, RungOnce, WritersRemember, CountedIsKnown, QueuedIsNew,
                  NewsIsKept, Notice!NewsIsKept
  <1>2. CASE Notice!Next
    BY <1>2, NoticePost, NoticeTake, NoticeLook, NoticeWrite, NoticeRing, NoticeRelease,
       NoticeCreate, NoticeSetRecent, NoticeDie, NoticeRead, NoticeWindowEnds
       DEF Notice!Next
  <1> QED  BY <1>1, <1>2

LEMMA NoticeAlways == Notice!Spec => []NoticeInv
  BY NoticeInit, NoticeStep, PTL DEF Notice!Spec

\* Tasks meet, the member reads in between, workers are lost: a message whose task
\* met no other is in a notification and stays there, and a notification of such
\* messages counts each of them once.
THEOREM NewsCorrect == Notice!Spec => []NewsIsKept
  BY NoticeAlways, PTL DEF NoticeInv

\* A burst of messages rings once, unless the member has read in between or tasks
\* have met.
THEOREM BurstsCorrect == Notice!Spec => []BurstIsFolded
  <1>1. NoticeInv => BurstIsFolded
    BY DEF NoticeInv, Notice!TypeOK, RungOnce, BurstIsFolded, Notice!BurstIsFolded
  <1> QED  BY <1>1, NoticeAlways, PTL

-----------------------------------------------------------------------------
(* Lecture: the inductive invariant *)

\* A run has no page drawn before it has deleted those that were there.
FirstPage ==
    \A w \in Workers :
        run[w] # Lecture!NoRun /\ run[w].at \notin {"drawing", "stored"} => run[w].next = 1

\* A run that is drawing comes to page p before it meets one that is taken.
WillDraw(w, p) ==
    /\ run[w].at \in {"deleted", "drawing"}
    /\ run[w].next <= p
    /\ \A k \in run[w].next..p : k \notin pages

\* The pages have been deleted by one of the latest runs.
Redrawn ==
    \/ lecture.status = "ready" /\ "form" \notin mixed
    \/ \E w \in Workers : run[w].at \in {"deleted", "drawing", "stored"}

\* A page that is missing then is still to come.
MissingPagesCome ==
    "broken" \notin mixed /\ Redrawn =>
        \A p \in 1..Length \ pages : \E w \in Workers : WillDraw(w, p)

ReadyHasViewer == lecture.status = "ready" /\ "form" \notin mixed => lecture.viewer

Unmixed == "form" \notin mixed /\ "published" \notin mixed

\* A run knows that the lecture is published, or when it was.
RunsKnow ==
    Unmixed /\ lecture.published =>
        \A w \in Workers :
            run[w] # Lecture!NoRun => run[w].published \/ run[w].stamped

ReadyIsStamped ==
    Unmixed /\ lecture.status = "ready" /\ lecture.published => lecture.stamped

LectureInv ==
    /\ Lecture!TypeOK /\ FirstPage /\ MissingPagesCome
    /\ ReadyHasViewer /\ RunsKnow /\ ReadyIsStamped

LEMMA LectureAssumption ==
    Length \in Nat /\ Length > 0 /\ MaxSent \in Nat /\ MaxForms \in Nat
  BY ServicesAssumption DEF Lecture!Parameters

LectureStages ==
    {"started", "scanning", "converting", "extracting", "deleted", "drawing", "stored"}

\* One run goes on, or ends.
RunMoves(w) ==
    /\ run[w] \in Lecture!Run
    /\ run' \in [Workers -> Lecture!Run \cup {Lecture!NoRun}]
    /\ \A v \in Workers \ {w} : run'[v] = run[v]

LEMMA LectureRuns ==
    ASSUME NEW r \in Lecture!Run
    PROVE  /\ r # Lecture!NoRun /\ r.at \in LectureStages /\ r.next \in 1..(Length + 1)
           /\ r.published \in BOOLEAN /\ r.stamped \in BOOLEAN
  BY DEF Lecture!Run, Lecture!NoRun, LectureStages

LEMMA LectureRunIsOn ==
    ASSUME Lecture!TypeOK, NEW w \in Workers,
           run[w] # Lecture!NoRun \/ run[w].at \in LectureStages
    PROVE  run[w] \in Lecture!Run /\ run[w] # Lecture!NoRun
  BY LectureRuns DEF Lecture!TypeOK, Lecture!NoRun, LectureStages

\* A run comes to another stage.
LEMMA LectureRunGoes ==
    ASSUME Lecture!TypeOK, NEW w \in Workers, run[w].at \in LectureStages,
           NEW place \in LectureStages, run' = [run EXCEPT ![w].at = place]
    PROVE  /\ RunMoves(w) /\ run'[w] # Lecture!NoRun /\ run'[w].at = place
           /\ run'[w].next = run[w].next /\ run'[w].published = run[w].published
           /\ run'[w].stamped = run[w].stamped
  <1>1. run[w] \in Lecture!Run
    BY LectureRunIsOn
  <1> DEFINE new == [run[w] EXCEPT !.at = place]
  <1>2. /\ new \in Lecture!Run /\ new.at = place /\ new.next = run[w].next
        /\ new.published = run[w].published /\ new.stamped = run[w].stamped
    BY <1>1 DEF Lecture!Run, LectureStages
  <1>3. run' = [run EXCEPT ![w] = new]
    OBVIOUS
  <1> HIDE DEF new
  <1>4. new # Lecture!NoRun
    BY <1>2, LectureRuns
  <1> QED  BY <1>1, <1>2, <1>3, <1>4 DEF RunMoves, Lecture!TypeOK

LEMMA LectureRunEnds ==
    ASSUME Lecture!TypeOK, NEW w \in Workers, run[w] # Lecture!NoRun,
           run' = [run EXCEPT ![w] = Lecture!NoRun]
    PROVE  RunMoves(w) /\ run'[w] = Lecture!NoRun
  BY LectureRunIsOn DEF RunMoves, Lecture!TypeOK

\* The status of the lecture is written.
LEMMA StatusIsWritten ==
    ASSUME lecture \in Lecture!Lecture, NEW status \in Lecture!Status,
           Lecture!WriteStatus(status)
    PROVE  /\ lecture' \in Lecture!Lecture /\ lecture'.status = status
           /\ lecture'.viewer = lecture.viewer /\ lecture'.published = lecture.published
           /\ lecture'.stamped = lecture.stamped /\ old' = FALSE
  BY DEF Lecture!WriteStatus, Lecture!Write, Lecture!Lecture

\* What no longer runs, or has not deleted the pages, draws none.
LEMMA IdleDoesNotDraw ==
    ASSUME NEW w \in Workers, run[w] = Lecture!NoRun
    PROVE  run[w].at = "idle" /\ \A p \in 1..Length : ~WillDraw(w, p)
  BY DEF Lecture!NoRun, WillDraw

\* A step that leaves the runs and the pages alone, and does not make the
\* lecture ready.
LEMMA LectureRests ==
    ASSUME LectureInv, Lecture!TypeOK', run' = run, pages' = pages, mixed' = mixed,
           \/ lecture' = lecture
           \/ lecture'.status # "ready" /\ lecture'.published = lecture.published
    PROVE  LectureInv'
  <1>1. FirstPage'
    BY DEF LectureInv, FirstPage
  <1>2. Redrawn' => Redrawn
    BY DEF Redrawn
  <1>3. \A w \in Workers, p \in 1..Length : WillDraw(w, p) => WillDraw(w, p)'
    BY DEF WillDraw
  <1>4. MissingPagesCome'
    BY <1>2, <1>3 DEF LectureInv, MissingPagesCome
  <1>5. ReadyHasViewer' /\ RunsKnow' /\ ReadyIsStamped'
    BY DEF LectureInv, ReadyHasViewer, RunsKnow, ReadyIsStamped, Unmixed
  <1> QED  BY <1>1, <1>4, <1>5 DEF LectureInv

LEMMA LectureRestSteps ==
    ASSUME LectureInv,
           \/ Lecture!GrowOld \/ Lecture!Sweep
           \/ Lecture!Send \/ Lecture!BrokerDown \/ Lecture!LoseDispatch
           \/ Lecture!Retry \/ \E e \in Editors : Lecture!OpenForm(e)
    PROVE  LectureInv'
  <1>0. /\ Lecture!TypeOK /\ lecture \in Lecture!Lecture /\ dispatches \in Nat /\ queue \in Nat
        /\ sent \in 0..MaxSent /\ forms \in 0..MaxForms
    BY DEF LectureInv, Lecture!TypeOK
  <1>s. {"failed", "queued"} \subseteq Lecture!Status
    BY DEF Lecture!Status
  <1>1. CASE Lecture!GrowOld
    <2>1. Lecture!TypeOK' /\ lecture' = lecture
      BY <1>0, <1>1 DEF Lecture!GrowOld, Lecture!TypeOK
    <2> QED  BY <1>1, <2>1, LectureRests DEF Lecture!GrowOld
  <1>2. CASE Lecture!Sweep
    <2>1. lecture' \in Lecture!Lecture /\ lecture'.status = "failed"
          /\ lecture'.published = lecture.published /\ old' = FALSE
      BY <1>0, <1>2, <1>s, StatusIsWritten DEF Lecture!Sweep
    <2>2. Lecture!TypeOK'
      BY <1>0, <1>2, <2>1 DEF Lecture!Sweep, Lecture!TypeOK
    <2> QED  BY <1>2, <2>1, <2>2, LectureRests DEF Lecture!Sweep
  <1>3. CASE Lecture!Send
    <2>1. lecture' = lecture /\ dispatches' \in Nat /\ queue' \in Nat /\ sent' \in 0..MaxSent
      BY <1>0, <1>3, LectureAssumption DEF Lecture!Send, Lecture!Enqueue
    <2>2. Lecture!TypeOK'
      BY <1>0, <1>3, <2>1 DEF Lecture!Send, Lecture!TypeOK
    <2> QED  BY <1>3, <2>1, <2>2, LectureRests DEF Lecture!Send
  <1>4. CASE Lecture!BrokerDown
    <2>1. /\ lecture' \in Lecture!Lecture /\ old' \in BOOLEAN
          /\ \/ lecture' = lecture
             \/ lecture'.status = "failed" /\ lecture'.published = lecture.published
      BY <1>0, <1>4, <1>s, StatusIsWritten DEF Lecture!BrokerDown, Lecture!TypeOK
    <2>2. dispatches' \in Nat
      BY <1>0, <1>4 DEF Lecture!BrokerDown
    <2>3. Lecture!TypeOK'
      BY <1>0, <1>4, <2>1, <2>2 DEF Lecture!BrokerDown, Lecture!TypeOK
    <2> QED  BY <1>4, <2>1, <2>3, LectureRests DEF Lecture!BrokerDown
  <1>5. CASE Lecture!LoseDispatch
    <2>1. lecture' = lecture /\ dispatches' \in Nat
      BY <1>0, <1>5 DEF Lecture!LoseDispatch
    <2>2. Lecture!TypeOK'
      BY <1>0, <1>5, <2>1 DEF Lecture!LoseDispatch, Lecture!TypeOK
    <2> QED  BY <1>5, <2>1, <2>2, LectureRests DEF Lecture!LoseDispatch
  <1>6. CASE Lecture!Retry
    <2>1. /\ lecture' \in Lecture!Lecture /\ lecture'.status = "queued"
          /\ lecture'.published = lecture.published /\ old' = FALSE
      BY <1>0, <1>6, <1>s, StatusIsWritten DEF Lecture!Retry
    <2>2. dispatches' \in Nat /\ forms' \in 0..MaxForms
      BY <1>0, <1>6, LectureAssumption DEF Lecture!Retry, Lecture!Edit
    <2>3. Lecture!TypeOK'
      BY <1>0, <1>6, <2>1, <2>2 DEF Lecture!Retry, Lecture!TypeOK
    <2> QED  BY <1>6, <2>1, <2>3, LectureRests DEF Lecture!Retry
  <1>7. ASSUME NEW e \in Editors, Lecture!OpenForm(e) PROVE LectureInv'
    <2>1. lecture' = lecture /\ forms' \in 0..MaxForms
      BY <1>0, <1>7, LectureAssumption DEF Lecture!OpenForm, Lecture!Edit
    <2>2. form' \in [Editors -> Lecture!Lecture \cup {Lecture!NoForm}]
      BY <1>0, <1>7 DEF Lecture!OpenForm, Lecture!TypeOK
    <2>3. Lecture!TypeOK'
      BY <1>0, <1>7, <2>1, <2>2 DEF Lecture!OpenForm, Lecture!TypeOK
    <2> QED  BY <1>7, <2>1, <2>3, LectureRests DEF Lecture!OpenForm
  <1> QED  BY <1>1, <1>2, <1>3, <1>4, <1>5, <1>6, <1>7

LEMMA LectureSaveRow ==
    ASSUME LectureInv, NEW e \in Editors, NEW row2 \in Lecture!Lecture,
           form[e] \in Lecture!Lecture, row2.status = form[e].status,
           row2.viewer = form[e].viewer,
           row2.published /\ ~form[e].published => row2.stamped,
           form[e].stamped => row2.stamped,
           Lecture!SaveRow(e, row2)
    PROVE  LectureInv'
  <1>0. /\ Lecture!TypeOK /\ lecture' = row2 /\ old' = FALSE
        /\ form' = [form EXCEPT ![e] = Lecture!NoForm]
        /\ UNCHANGED <<pages, dispatches, queue, run, sent, forms>>
        /\ mixed' = mixed \cup (IF form[e] = lecture THEN {} ELSE {"form"})
                      \cup (IF Lecture!Running # {} /\ row2.published /\ ~lecture.published
                            THEN {"published"} ELSE {})
    BY DEF LectureInv, Lecture!SaveRow, Lecture!Write
  <1>1. /\ mixed \subseteq mixed' /\ mixed' \subseteq {"form", "broken", "published"}
        /\ "form" \notin mixed' => form[e] = lecture
        /\ "published" \notin mixed' /\ row2.published /\ ~lecture.published
              => \A w \in Workers : run[w] = Lecture!NoRun
    BY <1>0 DEF Lecture!TypeOK, Lecture!Running
  <1>2. Lecture!TypeOK'
    BY <1>0, <1>1 DEF Lecture!TypeOK
  <1>3. FirstPage'
    BY <1>0 DEF LectureInv, FirstPage
  <1>4. Redrawn' => Redrawn
    BY <1>0, <1>1 DEF Redrawn
  <1>5. \A w \in Workers, p \in 1..Length : WillDraw(w, p) => WillDraw(w, p)'
    BY <1>0 DEF WillDraw
  <1>6. MissingPagesCome'
    BY <1>0, <1>1, <1>4, <1>5 DEF LectureInv, MissingPagesCome
  <1>7. ReadyHasViewer'
    BY <1>0, <1>1 DEF LectureInv, ReadyHasViewer
  <1>8. RunsKnow' /\ ReadyIsStamped'
    BY <1>0, <1>1 DEF LectureInv, RunsKnow, ReadyIsStamped, Unmixed
  <1> QED  BY <1>2, <1>3, <1>6, <1>7, <1>8 DEF LectureInv

LEMMA LectureSave ==
    ASSUME LectureInv, NEW e \in Editors, Lecture!Save(e) \/ Lecture!Remove(e)
    PROVE  LectureInv'
  <1>1. form[e] \in Lecture!Lecture
    BY DEF LectureInv, Lecture!TypeOK, Lecture!Save, Lecture!Remove
  <1>2. CASE Lecture!Save(e)
    <2>1. PICK published \in BOOLEAN :
             Lecture!SaveRow(e, [form[e] EXCEPT
              !.published = published,
              !.stamped = @ \/ (published /\ ~form[e].published)])
      BY <1>2 DEF Lecture!Save
    <2> DEFINE new == [form[e] EXCEPT
              !.published = published,
              !.stamped = form[e].stamped \/ (published /\ ~form[e].published)]
    <2>2. /\ new \in Lecture!Lecture /\ new.status = form[e].status
          /\ new.viewer = form[e].viewer
          /\ new.published = published
          /\ new.stamped = (form[e].stamped \/ (published /\ ~form[e].published))
      BY <1>1 DEF Lecture!Lecture
    <2>3. Lecture!SaveRow(e, new)
      BY <2>1
    <2> HIDE DEF new
    <2>4. new.published /\ ~form[e].published => new.stamped
      BY Zenon, <2>2
    <2>5. form[e].stamped => new.stamped
      BY Zenon, <2>2
    <2> QED  BY <1>1, <2>2, <2>3, <2>4, <2>5, LectureSaveRow
  <1>3. CASE Lecture!Remove(e)
    <2> DEFINE new == [form[e] EXCEPT !.deleted = TRUE]
    <2>1. Lecture!SaveRow(e, new)
      BY <1>3 DEF Lecture!Remove
    <2>2. /\ new \in Lecture!Lecture /\ new.status = form[e].status
          /\ new.viewer = form[e].viewer /\ new.published = form[e].published
          /\ new.stamped = form[e].stamped
      BY <1>1 DEF Lecture!Lecture
    <2> HIDE DEF new
    <2> QED  BY <1>1, <2>1, <2>2, LectureSaveRow
  <1> QED  BY <1>2, <1>3

LEMMA LectureStart ==
    ASSUME LectureInv, NEW w \in Workers, Lecture!Start(w) PROVE LectureInv'
  <1>0. /\ Lecture!TypeOK /\ lecture \in Lecture!Lecture /\ queue' \in Nat
        /\ UNCHANGED <<pages, dispatches, form, sent, forms>>
    BY DEF LectureInv, Lecture!TypeOK, Lecture!Start
  <1>1. CASE Lecture!Settled /\ UNCHANGED <<lecture, old, run, mixed>>
    <2>1. Lecture!TypeOK'
      BY <1>0, <1>1 DEF Lecture!TypeOK
    <2> QED  BY <1>0, <1>1, <2>1, LectureRests
  <1>2. CASE /\ Lecture!WriteStatus("scanning")
             /\ run' = [run EXCEPT ![w] =
                   [at |-> "started", published |-> lecture.published,
                    stamped |-> lecture.stamped, next |-> 1]]
             /\ mixed' = IF Lecture!Running = {} THEN {} ELSE mixed
    <2> DEFINE new == [at |-> "started", published |-> lecture.published,
                       stamped |-> lecture.stamped, next |-> 1]
    <2>1. /\ lecture' \in Lecture!Lecture /\ lecture'.status = "scanning"
          /\ lecture'.published = lecture.published /\ old' = FALSE
      BY <1>0, <1>2, StatusIsWritten DEF Lecture!Status
    <2>2. /\ new \in Lecture!Run /\ new.at = "started" /\ new.next = 1
          /\ new.published = lecture.published
      BY <1>0, LectureAssumption DEF Lecture!Run, Lecture!Lecture
    <2>3. run' = [run EXCEPT ![w] = new]
      BY <1>2
    <2> HIDE DEF new
    <2>4. run[w] = Lecture!NoRun
      BY DEF Lecture!Start
    <2>5. /\ run' \in [Workers -> Lecture!Run \cup {Lecture!NoRun}] /\ run'[w] = new
          /\ \A v \in Workers \ {w} : run'[v] = run[v]
      BY <1>0, <2>2, <2>3 DEF Lecture!TypeOK
    <2>6. /\ mixed' \subseteq mixed
          /\ mixed' # mixed => \A v \in Workers : run[v] = Lecture!NoRun
      BY <1>2 DEF Lecture!Running
    <2>7. Lecture!TypeOK'
      BY <1>0, <2>1, <2>5, <2>6 DEF Lecture!TypeOK
    <2>8. FirstPage'
      BY <2>2, <2>5 DEF LectureInv, FirstPage
    <2>9. ASSUME Redrawn' PROVE Redrawn /\ mixed' = mixed
      <3>1. PICK v \in Workers : run'[v].at \in {"deleted", "drawing", "stored"}
        BY <2>1, <2>9 DEF Redrawn
      <3>2. v # w /\ run'[v] = run[v]
        BY <2>2, <2>5, <3>1
      <3>3. run[v] # Lecture!NoRun
        BY <3>1, <3>2 DEF Lecture!NoRun
      <3> QED  BY <2>6, <3>1, <3>2, <3>3 DEF Redrawn
    <2>10. MissingPagesCome'
      <3> SUFFICES ASSUME "broken" \notin mixed', Redrawn', NEW p \in 1..Length \ pages
                   PROVE  \E v \in Workers : WillDraw(v, p)'
        BY <1>0 DEF MissingPagesCome
      <3>1. PICK v \in Workers : WillDraw(v, p)
        BY <2>9 DEF LectureInv, MissingPagesCome
      <3>2. v # w
        BY <2>4, <3>1 DEF WillDraw, Lecture!NoRun
      <3> QED  BY <1>0, <2>5, <3>1, <3>2 DEF WillDraw
    <2>11. ReadyHasViewer' /\ ReadyIsStamped'
      BY <2>1 DEF ReadyHasViewer, ReadyIsStamped
    <2>12. RunsKnow'
      <3> SUFFICES ASSUME Unmixed', lecture'.published, NEW v \in Workers,
                          run'[v] # Lecture!NoRun
                   PROVE  run'[v].published \/ run'[v].stamped
        BY DEF RunsKnow
      <3>1. CASE v = w
        BY <2>1, <2>2, <2>5, <3>1
      <3>2. CASE v # w
        <4>1. run'[v] = run[v] /\ mixed' = mixed
          BY <2>5, <2>6, <3>2
        <4> QED  BY <2>1, <4>1 DEF LectureInv, RunsKnow, Unmixed
      <3> QED  BY <3>1, <3>2
    <2> QED
      BY <2>7, <2>8, <2>10, <2>11, <2>12 DEF LectureInv
  <1> QED  BY <1>1, <1>2 DEF Lecture!Start

\* What every step of a run keeps, when it does not change what the lecture is
\* published as.
LEMMA LectureRunKeeps ==
    ASSUME LectureInv, NEW w \in Workers, RunMoves(w), mixed \subseteq mixed',
           lecture'.published = lecture.published,
           run'[w] # Lecture!NoRun =>
               /\ run'[w].published = run[w].published /\ run'[w].stamped = run[w].stamped
               /\ run'[w].at \notin {"drawing", "stored"} => run'[w].next = 1
    PROVE  FirstPage' /\ RunsKnow'
  <1>1. run[w] # Lecture!NoRun
    BY LectureRuns DEF RunMoves
  <1>2. FirstPage'
    BY DEF LectureInv, FirstPage, RunMoves
  <1>3. RunsKnow'
    BY <1>1 DEF LectureInv, RunsKnow, Unmixed, RunMoves
  <1> QED  BY <1>2, <1>3

\* A step of a run that touches no page, after which the run draws what it drew.
LEMMA LectureRunDraws ==
    ASSUME LectureInv, NEW w \in Workers, RunMoves(w), mixed \subseteq mixed',
           pages' = pages, Redrawn' => Redrawn,
           \A p \in 1..Length \ pages :
               "broken" \notin mixed' /\ WillDraw(w, p) => WillDraw(w, p)'
    PROVE  MissingPagesCome'
  <1> SUFFICES ASSUME "broken" \notin mixed', Redrawn', NEW p \in 1..Length \ pages
               PROVE  \E v \in Workers : WillDraw(v, p)'
    BY DEF MissingPagesCome
  <1>1. PICK v \in Workers : WillDraw(v, p)
    BY DEF LectureInv, MissingPagesCome
  <1>2. CASE v = w
    BY <1>1, <1>2
  <1>3. CASE v # w
    BY <1>1, <1>3 DEF WillDraw, RunMoves
  <1> QED  BY <1>2, <1>3

\* A run is somewhere after the deletion already.
LEMMA StillRedrawn ==
    ASSUME NEW w \in Workers, RunMoves(w), lecture'.status # "ready",
           run'[w].at \in {"deleted", "drawing", "stored"}
               => run[w].at \in {"deleted", "drawing", "stored"}
    PROVE  Redrawn' => Redrawn
  BY DEF Redrawn, RunMoves

\* The status is another one than ready.
LEMMA LectureNotReady ==
    ASSUME lecture'.status # "ready" PROVE ReadyHasViewer' /\ ReadyIsStamped'
  BY DEF ReadyHasViewer, ReadyIsStamped

LEMMA LectureReport ==
    ASSUME LectureInv, NEW w \in Workers, Lecture!Report(w),
           UNCHANGED <<dispatches, queue, form, mixed, sent, forms>>
    PROVE  LectureInv'
  <1>0. Lecture!TypeOK /\ lecture \in Lecture!Lecture /\ pages' = pages
    BY DEF LectureInv, Lecture!TypeOK, Lecture!Report
  <1>1. PICK report \in Lecture!Reports :
           /\ run[w].at = report.from /\ Lecture!WriteStatus(report.status)
           /\ run' = [run EXCEPT ![w].at = report.to]
    BY DEF Lecture!Report
  <1>2. /\ report.from \in LectureStages /\ report.to \in LectureStages
        /\ report.status \in Lecture!Status /\ report.status # "ready"
        /\ report.from \notin {"drawing", "stored"}
        /\ report.to \notin {"deleted", "stored"}
        /\ report.to = "drawing" <=> report.from = "deleted"
    BY DEF Lecture!Reports, LectureStages, Lecture!Status
  <1>3. /\ RunMoves(w) /\ run'[w] # Lecture!NoRun /\ run'[w].at = report.to
        /\ run'[w].next = run[w].next /\ run'[w].published = run[w].published
        /\ run'[w].stamped = run[w].stamped
    BY <1>0, <1>1, <1>2, LectureRunGoes
  <1>4. /\ lecture' \in Lecture!Lecture /\ lecture'.status = report.status
        /\ lecture'.published = lecture.published /\ old' = FALSE
    BY <1>0, <1>1, <1>2, StatusIsWritten
  <1>5. Lecture!TypeOK'
    BY <1>0, <1>3, <1>4 DEF Lecture!TypeOK, RunMoves
  <1>6. run[w].next = 1
    <2>1. run[w] # Lecture!NoRun
      BY <1>0, <1>1, <1>2, LectureRunIsOn
    <2> QED  BY <1>1, <1>2, <2>1 DEF LectureInv, FirstPage
  <1>7. FirstPage' /\ RunsKnow'
    BY <1>3, <1>4, <1>6, LectureRunKeeps
  <1>8. Redrawn' => Redrawn
    BY <1>1, <1>2, <1>3, <1>4, StillRedrawn
  <1>9. \A p \in 1..Length \ pages : WillDraw(w, p) => WillDraw(w, p)'
    BY <1>0, <1>1, <1>2, <1>3 DEF WillDraw
  <1>10. MissingPagesCome'
    BY <1>0, <1>3, <1>8, <1>9, LectureRunDraws
  <1> QED  BY <1>2, <1>4, <1>5, <1>7, <1>10, LectureNotReady DEF LectureInv

LEMMA LectureDeletePages ==
    ASSUME LectureInv, NEW w \in Workers, Lecture!DeletePages(w),
           UNCHANGED <<dispatches, queue, form, mixed, sent, forms>>
    PROVE  LectureInv'
  <1>0. /\ Lecture!TypeOK /\ run[w].at = "extracting" /\ pages' = {}
        /\ run' = [run EXCEPT ![w].at = "deleted"] /\ UNCHANGED <<lecture, old>>
    BY DEF LectureInv, Lecture!DeletePages
  <1>1. {"extracting", "deleted"} \subseteq LectureStages
    BY DEF LectureStages
  <1>2. /\ RunMoves(w) /\ run'[w] # Lecture!NoRun /\ run'[w].at = "deleted"
        /\ run'[w].next = run[w].next /\ run'[w].published = run[w].published
        /\ run'[w].stamped = run[w].stamped
    BY <1>0, <1>1, LectureRunGoes
  <1>3. Lecture!TypeOK'
    BY <1>0, <1>2 DEF Lecture!TypeOK, RunMoves
  <1>4. run[w].next = 1
    <2>1. run[w] # Lecture!NoRun
      BY <1>0, <1>1, LectureRunIsOn
    <2> QED  BY <1>0, <2>1 DEF LectureInv, FirstPage
  <1>5. FirstPage' /\ RunsKnow'
    BY <1>0, <1>2, <1>4, LectureRunKeeps
  <1>6. \A p \in 1..Length : WillDraw(w, p)'
    BY <1>0, <1>2, <1>4, LectureAssumption DEF WillDraw
  <1>7. MissingPagesCome'
    BY <1>0, <1>6 DEF MissingPagesCome
  <1>8. ReadyHasViewer' /\ ReadyIsStamped'
    BY <1>0 DEF LectureInv, ReadyHasViewer, ReadyIsStamped, Unmixed
  <1> QED  BY <1>3, <1>5, <1>7, <1>8 DEF LectureInv

LEMMA LectureDraw ==
    ASSUME LectureInv, NEW w \in Workers, Lecture!Draw(w),
           UNCHANGED <<dispatches, queue, form, mixed, sent, forms>>
    PROVE  LectureInv'
  <1> DEFINE n == run[w].next
  <1>0. /\ Lecture!TypeOK /\ run[w].at = "drawing" /\ n \in 1..Length \ pages
        /\ pages' = pages \cup {n} /\ UNCHANGED <<lecture, old>>
    BY DEF LectureInv, Lecture!Draw
  <1>1. run[w] \in Lecture!Run
    BY <1>0, LectureRunIsOn DEF LectureStages
  <1> DEFINE new == [run[w] EXCEPT !.next = n + 1]
  <1>2. /\ new \in Lecture!Run /\ new.at = "drawing" /\ new.next = n + 1
        /\ new.published = run[w].published /\ new.stamped = run[w].stamped
    BY <1>0, <1>1, LectureAssumption DEF Lecture!Run
  <1>3. run' = [run EXCEPT ![w] = new]
    BY DEF Lecture!Draw
  <1> HIDE DEF new
  <1>4. new # Lecture!NoRun
    BY <1>2, LectureRuns
  <1>5. RunMoves(w) /\ run'[w] = new
    BY <1>0, <1>1, <1>2, <1>3 DEF RunMoves, Lecture!TypeOK
  <1>6. Lecture!TypeOK'
    BY <1>0, <1>5 DEF Lecture!TypeOK, RunMoves
  <1>7. FirstPage' /\ RunsKnow'
    BY <1>0, <1>2, <1>5, LectureRunKeeps
  <1>8. MissingPagesCome'
    <2> SUFFICES ASSUME "broken" \notin mixed, NEW p \in 1..Length \ pages'
                 PROVE  \E v \in Workers : WillDraw(v, p)'
      BY DEF MissingPagesCome
    <2>1. Redrawn
      BY <1>0 DEF Redrawn
    <2>2. p \in 1..Length \ pages /\ p # n
      BY <1>0
    <2>3. PICK v \in Workers : WillDraw(v, p)
      BY <2>1, <2>2 DEF LectureInv, MissingPagesCome
    <2> DEFINE from == run[v].next
    <2>4. from \in Nat /\ from <= p /\ \A k \in from..p : k \notin pages
      <3>1. run[v] \in Lecture!Run
        BY <1>0, <2>3, LectureRunIsOn DEF WillDraw, LectureStages
      <3> QED  BY <2>3, <3>1, LectureAssumption DEF WillDraw, Lecture!Run
    <2>5. CASE n \in from..p
      <3>1. /\ run'[w].at = "drawing" /\ run'[w].next = n + 1
            /\ n + 1 <= p /\ \A k \in n + 1..p : k \notin pages'
        BY <1>0, <1>2, <1>5, <2>2, <2>4, <2>5
      <3> QED  BY <3>1 DEF WillDraw
    <2>6. CASE n \notin from..p
      <3>1. v # w
        <4>1. CASE v = w
          BY <1>0, <2>4, <2>6, <4>1
        <4> QED  BY <4>1
      <3>2. run'[v] = run[v] /\ \A k \in from..p : k \notin pages'
        BY <1>0, <1>5, <2>4, <2>6, <3>1 DEF RunMoves
      <3> QED  BY <2>3, <3>2 DEF WillDraw
    <2> QED  BY <2>5, <2>6
  <1>9. ReadyHasViewer' /\ ReadyIsStamped'
    BY <1>0 DEF LectureInv, ReadyHasViewer, ReadyIsStamped, Unmixed
  <1> QED  BY <1>6, <1>7, <1>8, <1>9 DEF LectureInv

LEMMA LectureStoreViewer ==
    ASSUME LectureInv, NEW w \in Workers, Lecture!StoreViewer(w),
           UNCHANGED <<dispatches, queue, form, mixed, sent, forms>>
    PROVE  LectureInv'
  <1>0. /\ Lecture!TypeOK /\ lecture \in Lecture!Lecture /\ run[w].at = "drawing"
        /\ run[w].next > Length /\ pages' = pages
        /\ lecture' = [lecture EXCEPT !.viewer = TRUE] /\ old' = FALSE
        /\ run' = [run EXCEPT ![w].at = "stored"]
    BY DEF LectureInv, Lecture!TypeOK, Lecture!StoreViewer, Lecture!Write
  <1>1. /\ lecture' \in Lecture!Lecture /\ lecture'.status = lecture.status /\ lecture'.viewer
        /\ lecture'.published = lecture.published /\ lecture'.stamped = lecture.stamped
    BY <1>0 DEF Lecture!Lecture
  <1>s. {"drawing", "stored"} \subseteq LectureStages
    BY DEF LectureStages
  <1>2. /\ RunMoves(w) /\ run'[w] # Lecture!NoRun /\ run'[w].at = "stored"
        /\ run'[w].next = run[w].next /\ run'[w].published = run[w].published
        /\ run'[w].stamped = run[w].stamped
    BY <1>0, <1>s, LectureRunGoes
  <1>3. Lecture!TypeOK'
    BY <1>0, <1>1, <1>2 DEF Lecture!TypeOK, RunMoves
  <1>4. FirstPage' /\ RunsKnow'
    BY <1>1, <1>2, LectureRunKeeps
  <1>5. Redrawn
    BY <1>0 DEF Redrawn
  <1>6. \A p \in 1..Length : ~WillDraw(w, p)
    <2>1. run[w].next \in Nat
      BY <1>0, <1>s, LectureRunIsOn, LectureRuns, LectureAssumption
    <2> QED  BY <1>0, <2>1, LectureAssumption DEF WillDraw
  <1>7. MissingPagesCome'
    BY <1>0, <1>2, <1>5, <1>6, LectureRunDraws
  <1>8. ReadyHasViewer' /\ ReadyIsStamped'
    BY <1>0, <1>1 DEF LectureInv, ReadyHasViewer, ReadyIsStamped, Unmixed
  <1> QED  BY <1>3, <1>4, <1>7, <1>8 DEF LectureInv

LEMMA LectureFinish ==
    ASSUME LectureInv, NEW w \in Workers, Lecture!Finish(w),
           UNCHANGED <<dispatches, queue, form, mixed, sent, forms>>
    PROVE  LectureInv'
  <1> DEFINE stamp == run[w].stamped \/ run[w].published
  <1>0. /\ Lecture!TypeOK /\ lecture \in Lecture!Lecture /\ run[w].at = "stored"
        /\ pages' = pages /\ old' = FALSE
        /\ lecture' = [lecture EXCEPT !.status = "ready", !.viewer = TRUE, !.stamped = stamp]
        /\ run' = [run EXCEPT ![w] = Lecture!NoRun]
    BY DEF LectureInv, Lecture!TypeOK, Lecture!Finish, Lecture!Write
  <1>s. run[w] \in Lecture!Run /\ run[w] # Lecture!NoRun
    BY <1>0, LectureRunIsOn DEF LectureStages
  <1>b. stamp \in BOOLEAN
    BY Zenon
  <1> HIDE DEF stamp
  <1>1. /\ lecture' \in Lecture!Lecture /\ lecture'.status = "ready" /\ lecture'.viewer
        /\ lecture'.published = lecture.published /\ lecture'.stamped = stamp
    BY <1>0, <1>b DEF Lecture!Lecture, Lecture!Status
  <1>2. RunMoves(w) /\ run'[w] = Lecture!NoRun
    BY <1>0, <1>s, LectureRunEnds
  <1>3. Lecture!TypeOK'
    BY <1>0, <1>1, <1>2 DEF Lecture!TypeOK, RunMoves
  <1>4. FirstPage' /\ RunsKnow'
    BY <1>1, <1>2, LectureRunKeeps
  <1>5. Redrawn
    BY <1>0 DEF Redrawn
  <1>6. \A p \in 1..Length : ~WillDraw(w, p)
    BY <1>0 DEF WillDraw
  <1>7. MissingPagesCome'
    BY <1>0, <1>2, <1>5, <1>6, LectureRunDraws
  <1>8. ReadyHasViewer'
    BY <1>1 DEF ReadyHasViewer
  <1>9. ReadyIsStamped'
    <2>1. Unmixed' /\ lecture.published => run[w].published \/ run[w].stamped
      BY <1>s DEF LectureInv, RunsKnow, Unmixed
    <2>2. Unmixed' /\ lecture.published => stamp
      BY Zenon, <2>1 DEF stamp
    <2> QED  BY Zenon, <1>1, <2>2 DEF ReadyIsStamped
  <1> QED  BY <1>3, <1>4, <1>7, <1>8, <1>9 DEF LectureInv

LEMMA LectureQuarantine ==
    ASSUME LectureInv, NEW w \in Workers, Lecture!Quarantine(w),
           UNCHANGED <<dispatches, queue, form, mixed, sent, forms>>
    PROVE  LectureInv'
  <1>0. /\ Lecture!TypeOK /\ lecture \in Lecture!Lecture /\ run[w].at = "scanning"
        /\ pages' = pages /\ Lecture!WriteStatus("quarantined")
        /\ run' = [run EXCEPT ![w] = Lecture!NoRun]
    BY DEF LectureInv, Lecture!TypeOK, Lecture!Quarantine
  <1>s. run[w] \in Lecture!Run /\ run[w] # Lecture!NoRun
    BY <1>0, LectureRunIsOn DEF LectureStages
  <1>1. /\ lecture' \in Lecture!Lecture /\ lecture'.status = "quarantined"
        /\ lecture'.published = lecture.published /\ old' = FALSE
    BY <1>0, StatusIsWritten DEF Lecture!Status
  <1>2. RunMoves(w) /\ run'[w] = Lecture!NoRun
    BY <1>0, <1>s, LectureRunEnds
  <1>3. Lecture!TypeOK'
    BY <1>0, <1>1, <1>2 DEF Lecture!TypeOK, RunMoves
  <1>4. FirstPage' /\ RunsKnow'
    BY <1>0, <1>1, <1>2, LectureRunKeeps
  <1>5. Redrawn' => Redrawn
    BY <1>1, <1>2, StillRedrawn DEF Lecture!NoRun
  <1>6. \A p \in 1..Length : ~WillDraw(w, p)
    BY <1>0 DEF WillDraw
  <1>7. MissingPagesCome'
    BY <1>0, <1>2, <1>5, <1>6, LectureRunDraws
  <1> QED  BY <1>1, <1>3, <1>4, <1>7, LectureNotReady DEF LectureInv

\* A run breaks off, by an exception or with its worker.
LEMMA LectureBreaksOff ==
    ASSUME LectureInv, NEW w \in Workers, Lecture!Fail(w) \/ Lecture!Die(w)
    PROVE  LectureInv'
  <1>0. /\ Lecture!TypeOK /\ lecture \in Lecture!Lecture /\ run[w] # Lecture!NoRun
        /\ run' = [run EXCEPT ![w] = Lecture!NoRun] /\ Lecture!Breaks(w)
        /\ UNCHANGED <<pages, dispatches, form, forms>>
    BY DEF LectureInv, Lecture!TypeOK, Lecture!Fail, Lecture!Die
  <1>1. /\ lecture' \in Lecture!Lecture /\ old' \in BOOLEAN
        /\ \/ lecture' = lecture
           \/ lecture'.status = "failed" /\ lecture'.published = lecture.published
    BY <1>0, StatusIsWritten DEF Lecture!Fail, Lecture!Die, Lecture!Status, Lecture!TypeOK
  <1>2. queue' \in Nat /\ sent' \in 0..MaxSent
    BY <1>0, LectureAssumption DEF Lecture!Fail, Lecture!Die, Lecture!Enqueue, Lecture!TypeOK
  <1>3. /\ mixed \subseteq mixed' /\ mixed' \subseteq mixed \cup {"broken"}
        /\ "broken" \notin mixed' =>
              run[w].at \notin {"deleted", "drawing"} \/ Lecture!Taken(w)
    BY <1>0 DEF Lecture!Breaks
  <1>4. RunMoves(w) /\ run'[w] = Lecture!NoRun /\ run'[w].at = "idle"
    <2>1. RunMoves(w) /\ run'[w] = Lecture!NoRun
      BY <1>0, LectureRunEnds
    <2> QED  BY <2>1 DEF Lecture!NoRun
  <1>5. Lecture!TypeOK'
    BY <1>0, <1>1, <1>2, <1>3, <1>4 DEF Lecture!TypeOK, RunMoves
  <1>6. FirstPage' /\ RunsKnow'
    BY <1>1, <1>3, <1>4, LectureRunKeeps
  <1>7. Redrawn' => Redrawn
    BY <1>1, <1>3, <1>4 DEF Redrawn, RunMoves
  <1>8. ASSUME NEW p \in 1..Length \ pages, "broken" \notin mixed', WillDraw(w, p)
        PROVE  FALSE
    <2>1. run[w].next \in 1..(Length + 1)
      BY <1>0, LectureRunIsOn, LectureRuns
    <2>2. run[w].next \in run[w].next..p
      BY <1>8, <2>1, LectureAssumption DEF WillDraw
    <2> QED  BY <1>3, <1>8, <2>2 DEF WillDraw, Lecture!Taken
  <1>9. MissingPagesCome'
    BY <1>0, <1>3, <1>4, <1>7, <1>8, LectureRunDraws
  <1>10. ReadyHasViewer' /\ ReadyIsStamped'
    BY <1>1, <1>3 DEF LectureInv, ReadyHasViewer, ReadyIsStamped, Unmixed
  <1> QED  BY <1>5, <1>6, <1>9, <1>10 DEF LectureInv

LEMMA LectureInit == Lecture!Init => LectureInv
  <1> SUFFICES ASSUME Lecture!Init PROVE LectureInv
    OBVIOUS
  <1>1. /\ lecture \in Lecture!Lecture /\ lecture.status = "queued"
    BY DEF Lecture!Init, Lecture!Lecture, Lecture!Status
  <1>2. \A w \in Workers : run[w] = Lecture!NoRun /\ run[w].at = "idle"
    BY DEF Lecture!Init, Lecture!NoRun
  <1>3. /\ run \in [Workers -> Lecture!Run \cup {Lecture!NoRun}]
        /\ form \in [Editors -> Lecture!Lecture \cup {Lecture!NoForm}]
    BY DEF Lecture!Init
  <1>4. sent \in 0..MaxSent /\ forms \in 0..MaxForms /\ dispatches \in Nat /\ queue \in Nat
    BY LectureAssumption DEF Lecture!Init
  <1>5. Lecture!TypeOK
    BY <1>1, <1>3, <1>4 DEF Lecture!Init, Lecture!TypeOK
  <1>6. ~Redrawn
    BY <1>1, <1>2 DEF Redrawn
  <1>7. MissingPagesCome
    BY <1>6 DEF MissingPagesCome
  <1>8. FirstPage /\ ReadyHasViewer /\ RunsKnow /\ ReadyIsStamped
    BY <1>1, <1>2 DEF FirstPage, ReadyHasViewer, RunsKnow, ReadyIsStamped
  <1> QED  BY <1>5, <1>7, <1>8 DEF LectureInv

LEMMA LectureStep == LectureInv /\ [Lecture!Next]_(Lecture!vars) => LectureInv'
  <1> SUFFICES ASSUME LectureInv, [Lecture!Next]_(Lecture!vars) PROVE LectureInv'
    OBVIOUS
  <1>1. CASE UNCHANGED Lecture!vars
    <2>1. UNCHANGED <<lecture, old, pages, dispatches, queue, run, form, mixed, sent, forms>>
      BY <1>1 DEF Lecture!vars
    <2> QED
      BY <2>1 DEF LectureInv, Lecture!TypeOK, FirstPage, MissingPagesCome, Redrawn, WillDraw,
                  ReadyHasViewer, RunsKnow, ReadyIsStamped, Unmixed
  <1>2. ASSUME NEW w \in Workers, Lecture!Work(w) PROVE LectureInv'
    BY <1>2, LectureReport, LectureDeletePages, LectureDraw, LectureStoreViewer,
       LectureFinish, LectureQuarantine DEF Lecture!Work
  <1>3. CASE Lecture!Next
    BY <1>2, <1>3, LectureStart, LectureBreaksOff, LectureRestSteps, LectureSave
       DEF Lecture!Next
  <1> QED  BY <1>1, <1>3

LEMMA LectureAlways == Lecture!Spec => []LectureInv
  BY LectureInit, LectureStep, PTL DEF Lecture!Spec

\* Runs of the conversion may meet, delete each other's pages and take each
\* other's numbers; still, when all is quiet, a lecture that is ready has its
\* document and all its pages, and is stamped if it is published.
THEOREM LecturesCorrect == Lecture!Spec => []ReadyIsComplete
  <1>1. LectureInv => ReadyIsComplete
    <2> SUFFICES ASSUME LectureInv, lecture.status = "ready", Lecture!Running = {}, mixed = {}
                 PROVE  /\ lecture.viewer /\ pages = 1..Length
                        /\ lecture.published => lecture.stamped
      BY DEF ReadyIsComplete, Lecture!ReadyIsComplete
    <2>1. \A w \in Workers, p \in 1..Length : ~WillDraw(w, p)
      BY IdleDoesNotDraw DEF Lecture!Running
    <2>2. \A p \in 1..Length : p \in pages
      BY <2>1 DEF LectureInv, MissingPagesCome, Redrawn
    <2>3. pages = 1..Length
      BY <2>2 DEF LectureInv, Lecture!TypeOK
    <2>4. lecture.viewer /\ (lecture.published => lecture.stamped)
      BY DEF LectureInv, ReadyHasViewer, ReadyIsStamped, Unmixed
    <2> QED  BY <2>3, <2>4
  <1> QED  BY <1>1, LectureAlways, PTL

-----------------------------------------------------------------------------
(* Printed: the inductive invariant *)

\* Until the request is over nothing else has begun.
UploadIsFirst ==
    upload # "done" =>
        /\ printing = 0 /\ purge = Printed!Free /\ ~expired
        /\ \A w \in Workers : tasks[w] = Printed!Free
        /\ upload = "create" => conversion = Printed!NoRow
        /\ upload # "create" => conversion # Printed!NoRow
        /\ upload \in {"create", "file"} => stored = {}
        /\ upload \in {"row", "send"} => stored = {Input}
        /\ upload = "send" => conversion.input = Input

PurgeIsLate == purge # Printed!Free => expired

\* Only what waits has no PDF yet, and what is ready has one before it expires.
RowIsHonest ==
    /\ conversion.status = "pending" => conversion.pdf = None
    /\ conversion.status = "ready" => expired \/ conversion.pdf \in stored

\* So does what a run has in memory.
TaskIsHonest(w) ==
    /\ tasks[w].at \in {"save", "tidy"} \/ tasks[w].mem.status = "ready"
           => tasks[w].mem.pdf \in Pdfs /\ (expired \/ tasks[w].mem.pdf \in stored)
    /\ tasks[w].at \in {"convert", "store", "save"} => tasks[w].mem.status = "pending"
    /\ tasks[w].at = "tidy" => tasks[w].mem.status = "ready"
    /\ tasks[w].at = "tidyFailed" => tasks[w].mem.status = "failed"
    /\ tasks[w].at = "saveAll" =>
           tasks[w].mem.status # "pending" /\ tasks[w].mem.input = None
    /\ tasks[w].mem.status = "pending" => tasks[w].mem.input = Input

TasksAreHonest == \A w \in Workers : tasks[w] # Printed!Free => TaskIsHonest(w)

\* The files are those of the row and of the memory of a run that is alone.
Accounts(w) ==
    /\ purge = Printed!Free
    /\ \A v \in Workers \ {w} : tasks[v] = Printed!Free
    /\ conversion # Printed!NoRow
    /\ stored \subseteq {conversion.input, conversion.pdf, tasks[w].mem.pdf}
    /\ conversion.pdf \in {None, tasks[w].mem.pdf}
    /\ tasks[w].at \in {"convert", "store"} => tasks[w].mem.pdf = None
    /\ tasks[w].mem.status = "ready" => conversion.pdf = tasks[w].mem.pdf
    /\ tasks[w].mem.input = None =>
           Input \notin stored /\ (tasks[w].at = "fail" => tasks[w].mem.status = "ready")

RunAccounts == met = {} => \A w \in Workers : tasks[w] # Printed!Free => Accounts(w)

\* The same for the purge ...
PurgeAccounts ==
    met = {} /\ purge # Printed!Free =>
        /\ conversion = purge.mem /\ conversion # Printed!NoRow
        /\ stored \subseteq {conversion.input, conversion.pdf}
        /\ purge.at \in {"pdf", "row"} => conversion.input \notin stored
        /\ purge.at = "row" => conversion.pdf \notin stored

\* ... and for what rests.
RestAccounts ==
    /\ met = {} /\ upload = "done" /\ purge = Printed!Free
    /\ \A w \in Workers : tasks[w] = Printed!Free
    => IF conversion = Printed!NoRow THEN stored = {}
       ELSE stored \subseteq {conversion.input, conversion.pdf}

PrintedInv ==
    /\ Printed!TypeOK /\ UploadIsFirst /\ PurgeIsLate /\ RowIsHonest /\ TasksAreHonest
    /\ RunAccounts /\ PurgeAccounts /\ RestAccounts

LEMMA PrintedAssumption ==
    MaxSent \in Nat /\ Input # None /\ None \notin Pdfs /\ Input \notin Pdfs
  BY ServicesAssumption DEF Printed!Parameters

TaskStages == {"convert", "store", "save", "tidy", "saveAll", "fail", "tidyFailed"}

LEMMA RowTypes ==
    ASSUME NEW r \in Printed!Row
    PROVE  /\ r # Printed!NoRow /\ r.status \in {"pending", "ready", "failed"}
           /\ r.input \in {Input, None} /\ r.pdf \in Pdfs \cup {None}
  BY DEF Printed!Row, Printed!NoRow

LEMMA TaskTypes ==
    ASSUME NEW t \in Printed!Run
    PROVE  t # Printed!Free /\ t.at \in TaskStages /\ t.mem \in Printed!Row
  BY DEF Printed!Run, Printed!Free, TaskStages

LEMMA TaskIsOn ==
    ASSUME Printed!TypeOK, NEW w \in Workers,
           tasks[w] # Printed!Free \/ tasks[w].at \in TaskStages
    PROVE  tasks[w] \in Printed!Run /\ tasks[w] # Printed!Free
  BY TaskTypes DEF Printed!TypeOK, Printed!Free, TaskStages

\* One run goes on, or ends.
TaskMoves(w) ==
    /\ tasks[w] \in Printed!Run
    /\ tasks' \in [Workers -> Printed!Run \cup {Printed!Free}]
    /\ \A v \in Workers \ {w} : tasks'[v] = tasks[v]

LEMMA TaskIsWritten ==
    ASSUME Printed!TypeOK, NEW w \in Workers, tasks[w] \in Printed!Run,
           NEW new \in Printed!Run \cup {Printed!Free}, tasks' = [tasks EXCEPT ![w] = new]
    PROVE  TaskMoves(w) /\ tasks'[w] = new
  BY DEF TaskMoves, Printed!TypeOK

\* A run comes to another stage.
LEMMA TaskGoes ==
    ASSUME Printed!TypeOK, NEW w \in Workers, tasks[w].at \in TaskStages,
           NEW place \in TaskStages, Printed!Goes(w, place)
    PROVE  /\ TaskMoves(w) /\ tasks'[w] # Printed!Free
           /\ tasks'[w].at = place /\ tasks'[w].mem = tasks[w].mem
  <1>1. tasks[w] \in Printed!Run
    BY TaskIsOn
  <1> DEFINE new == [tasks[w] EXCEPT !.at = place]
  <1>2. new \in Printed!Run /\ new.at = place /\ new.mem = tasks[w].mem
    BY <1>1 DEF Printed!Run, TaskStages
  <1>3. tasks' = [tasks EXCEPT ![w] = new]
    BY DEF Printed!Goes
  <1> HIDE DEF new
  <1> QED  BY <1>1, <1>2, <1>3, TaskIsWritten, TaskTypes

\* What a step of a run has to show.
LEMMA TaskStep ==
    ASSUME PrintedInv, NEW w \in Workers, TaskMoves(w),
           UNCHANGED <<expired, upload, printing, purge, met, delivered>>,
           conversion' \in Printed!Row \cup {Printed!NoRow},
           stored' \subseteq Pdfs \cup {Input},
           \A f \in Pdfs : f \in stored => f \in stored',
           RowIsHonest', tasks'[w] # Printed!Free => TaskIsHonest(w)',
           met = {} /\ Accounts(w) =>
               /\ conversion' # Printed!NoRow
               /\ IF tasks'[w] = Printed!Free
                  THEN stored' \subseteq {conversion'.input, conversion'.pdf}
                  ELSE Accounts(w)'
    PROVE  PrintedInv'
  <1>0. Printed!TypeOK /\ tasks[w] # Printed!Free
    BY TaskTypes DEF PrintedInv, TaskMoves
  <1>1. Printed!TypeOK'
    BY <1>0 DEF Printed!TypeOK, TaskMoves
  <1>2. upload = "done"
    BY <1>0 DEF PrintedInv, UploadIsFirst
  <1>3. UploadIsFirst' /\ PurgeIsLate'
    BY <1>2 DEF PrintedInv, UploadIsFirst, PurgeIsLate
  <1>4. TasksAreHonest'
    <2> SUFFICES ASSUME NEW v \in Workers, tasks'[v] # Printed!Free PROVE TaskIsHonest(v)'
      BY DEF TasksAreHonest
    <2>1. CASE v = w
      BY <2>1
    <2>2. CASE v # w
      <3>1. tasks'[v] = tasks[v] /\ TaskIsHonest(v)
        BY <2>2 DEF TaskMoves, PrintedInv, TasksAreHonest
      <3> QED  BY <3>1 DEF TaskIsHonest
    <2> QED  BY <2>1, <2>2
  <1>5. met = {} => Accounts(w)
    BY <1>0 DEF PrintedInv, RunAccounts
  <1>6. RunAccounts'
    <2> SUFFICES ASSUME met = {}, NEW v \in Workers, tasks'[v] # Printed!Free
                 PROVE  Accounts(v)'
      BY DEF RunAccounts
    <2>1. v = w
      BY <1>5 DEF Accounts, TaskMoves
    <2> QED  BY <1>5, <2>1
  <1>7. PurgeAccounts'
    BY <1>5 DEF PurgeAccounts, Accounts
  <1>8. RestAccounts'
    BY <1>5 DEF RestAccounts
  <1> QED  BY <1>1, <1>3, <1>4, <1>6, <1>7, <1>8 DEF PrintedInv

LEMMA TaskConvert ==
    ASSUME PrintedInv, NEW w \in Workers, Printed!Convert(w),
           UNCHANGED <<expired, upload, printing, purge, met, delivered>>
    PROVE  PrintedInv'
  <1>0. /\ Printed!TypeOK /\ tasks[w].at = "convert" /\ UNCHANGED <<conversion, stored>>
        /\ Printed!Goes(w, "store")
    BY DEF PrintedInv, Printed!Convert
  <1>s. {"convert", "store"} \subseteq TaskStages
    BY DEF TaskStages
  <1>1. /\ TaskMoves(w) /\ tasks'[w].at = "store" /\ tasks'[w].mem = tasks[w].mem
        /\ tasks[w] # Printed!Free /\ tasks'[w] # Printed!Free
    BY <1>0, <1>s, TaskGoes, TaskIsOn
  <1>2. TaskIsHonest(w)
    BY <1>1 DEF PrintedInv, TasksAreHonest
  <1>3. TaskIsHonest(w)' /\ RowIsHonest'
    BY <1>0, <1>1, <1>2 DEF PrintedInv, RowIsHonest, TaskIsHonest
  <1>4. Accounts(w) => Accounts(w)' /\ conversion' # Printed!NoRow
    BY <1>0, <1>1 DEF Accounts, TaskMoves
  <1> QED  BY <1>0, <1>1, <1>3, <1>4, TaskStep DEF Printed!TypeOK

LEMMA TaskStorePdf ==
    ASSUME PrintedInv, NEW w \in Workers, Printed!StorePdf(w),
           UNCHANGED <<expired, upload, printing, purge, met, delivered>>
    PROVE  PrintedInv'
  <1>0. Printed!TypeOK /\ tasks[w].at = "store" /\ conversion' = conversion
    BY DEF PrintedInv, Printed!StorePdf
  <1>1. PICK f \in Pdfs : /\ f \notin stored /\ stored' = stored \cup {f}
                          /\ tasks' = [tasks EXCEPT ![w].at = "save", ![w].mem.pdf = f]
    BY DEF Printed!StorePdf
  <1>2. tasks[w] \in Printed!Run /\ tasks[w] # Printed!Free /\ tasks[w].mem \in Printed!Row
    BY <1>0, TaskIsOn, TaskTypes DEF TaskStages
  <1>3. TaskIsHonest(w)
    BY <1>2 DEF PrintedInv, TasksAreHonest
  <1> DEFINE m   == [tasks[w].mem EXCEPT !.pdf = f]
             new == [at |-> "save", mem |-> m]
  <1>4. /\ m \in Printed!Row /\ m.pdf = f /\ m.status = tasks[w].mem.status
        /\ m.input = tasks[w].mem.input
    BY <1>2 DEF Printed!Row
  <1> HIDE DEF m
  <1>5. new \in Printed!Run /\ new.at = "save" /\ new.mem = m
    BY <1>4 DEF Printed!Run
  <1>6. tasks' = [tasks EXCEPT ![w] = new]
    <2> DEFINE half == [at |-> "save", mem |-> tasks[w].mem]
    <2>1. [tasks[w] EXCEPT !.at = "save"] = half
      BY <1>1, <1>2 DEF Printed!Run
    <2>2. [half EXCEPT !.mem.pdf = f] = new
      BY DEF m
    <2>3. w \in DOMAIN tasks
      BY <1>0 DEF Printed!TypeOK
    <2> HIDE DEF half, new
    <2>4. [tasks EXCEPT ![w].at = "save"] = [tasks EXCEPT ![w] = half]
      BY <2>1
    <2>5. tasks' = [[tasks EXCEPT ![w] = half] EXCEPT ![w].mem.pdf = f]
      BY <1>0, <1>1, <2>4
    <2> QED  BY <2>2, <2>3, <2>5
  <1> HIDE DEF new
  <1>7. TaskMoves(w) /\ tasks'[w] = new /\ new # Printed!Free
    BY <1>0, <1>2, <1>5, <1>6, TaskIsWritten, TaskTypes
  <1>8. TaskIsHonest(w)' /\ RowIsHonest'
    BY <1>0, <1>1, <1>3, <1>4, <1>5, <1>7 DEF PrintedInv, RowIsHonest, TaskIsHonest
  <1>9. Accounts(w) => Accounts(w)' /\ conversion' # Printed!NoRow
    <2> SUFFICES ASSUME Accounts(w) PROVE Accounts(w)' /\ conversion' # Printed!NoRow
      OBVIOUS
    <2>1. tasks[w].mem.pdf = None /\ conversion.pdf = None /\ conversion # Printed!NoRow
      BY <1>0 DEF Accounts
    <2>2. stored' \subseteq {conversion.input, conversion.pdf, f}
      BY <1>0, <1>1, <2>1, PrintedAssumption DEF Accounts, Printed!TypeOK
    <2>3. tasks[w].mem.status = "pending"
      BY <1>0, <1>3 DEF TaskIsHonest
    <2>4. tasks[w].mem.input = None => Input \notin stored'
      BY <1>1, PrintedAssumption DEF Accounts
    <2> QED
      BY <1>0, <1>1, <1>4, <1>5, <1>7, <2>1, <2>2, <2>3, <2>4 DEF Accounts, TaskMoves
  <1> QED  BY <1>0, <1>1, <1>7, <1>8, <1>9, TaskStep DEF Printed!TypeOK

LEMMA TaskSaveReady ==
    ASSUME PrintedInv, NEW w \in Workers, Printed!SaveReady(w),
           UNCHANGED <<expired, upload, printing, purge, met, delivered>>
    PROVE  PrintedInv'
  <1>0. /\ Printed!TypeOK /\ tasks[w].at = "save" /\ stored' = stored
        /\ conversion \in Printed!Row
        /\ conversion' = [conversion EXCEPT !.status = "ready", !.pdf = tasks[w].mem.pdf]
        /\ tasks' = [tasks EXCEPT ![w].at = "tidy", ![w].mem.status = "ready"]
    BY DEF PrintedInv, Printed!SaveReady, Printed!TypeOK
  <1>1. tasks[w] \in Printed!Run /\ tasks[w] # Printed!Free /\ tasks[w].mem \in Printed!Row
    BY <1>0, TaskIsOn, TaskTypes DEF TaskStages
  <1>2. TaskIsHonest(w)
    BY <1>1 DEF PrintedInv, TasksAreHonest
  <1>3. /\ conversion' \in Printed!Row /\ conversion'.status = "ready"
        /\ conversion'.pdf = tasks[w].mem.pdf /\ conversion'.input = conversion.input
    BY <1>0, <1>1 DEF Printed!Row
  <1> DEFINE m   == [tasks[w].mem EXCEPT !.status = "ready"]
             new == [at |-> "tidy", mem |-> m]
  <1>4. /\ m \in Printed!Row /\ m.status = "ready" /\ m.pdf = tasks[w].mem.pdf
        /\ m.input = tasks[w].mem.input
    BY <1>1 DEF Printed!Row
  <1> HIDE DEF m
  <1>5. new \in Printed!Run /\ new.at = "tidy" /\ new.mem = m
    BY <1>4 DEF Printed!Run
  <1>6. tasks' = [tasks EXCEPT ![w] = new]
    <2> DEFINE half == [at |-> "tidy", mem |-> tasks[w].mem]
    <2>1. [tasks[w] EXCEPT !.at = "tidy"] = half
      BY <1>1, <1>2 DEF Printed!Run
    <2>2. [half EXCEPT !.mem.status = "ready"] = new
      BY DEF m
    <2>3. w \in DOMAIN tasks
      BY <1>0 DEF Printed!TypeOK
    <2> HIDE DEF half, new
    <2>4. [tasks EXCEPT ![w].at = "tidy"] = [tasks EXCEPT ![w] = half]
      BY <2>1
    <2>5. tasks' = [[tasks EXCEPT ![w] = half] EXCEPT ![w].mem.status = "ready"]
      BY <1>0, <1>1, <2>4
    <2> QED  BY <2>2, <2>3, <2>5
  <1> HIDE DEF new
  <1>7. TaskMoves(w) /\ tasks'[w] = new /\ new # Printed!Free
    BY <1>0, <1>1, <1>5, <1>6, TaskIsWritten, TaskTypes
  <1>8. TaskIsHonest(w)' /\ RowIsHonest'
    BY <1>0, <1>2, <1>3, <1>4, <1>5, <1>7 DEF RowIsHonest, TaskIsHonest
  <1>9. conversion' # Printed!NoRow
    BY <1>3, RowTypes
  <1>10. Accounts(w) => Accounts(w)'
    <2>1. tasks[w].mem.input = Input
      BY <1>0, <1>2 DEF TaskIsHonest
    <2> QED
      BY <1>0, <1>3, <1>4, <1>5, <1>7, <1>9, <2>1, PrintedAssumption
         DEF Accounts, TaskMoves, Printed!TypeOK
  <1> QED  BY <1>0, <1>3, <1>7, <1>8, <1>9, <1>10, TaskStep DEF Printed!TypeOK

LEMMA TaskDeleteInput ==
    ASSUME PrintedInv, NEW w \in Workers, Printed!DeleteInput(w),
           UNCHANGED <<expired, upload, printing, purge, met, delivered>>
    PROVE  PrintedInv'
  <1>0. /\ Printed!TypeOK /\ tasks[w].at \in {"tidy", "tidyFailed"}
        /\ stored' = stored \ {Input} /\ conversion' = conversion
        /\ tasks' = [tasks EXCEPT ![w].at = "saveAll", ![w].mem.input = None]
    BY DEF PrintedInv, Printed!DeleteInput
  <1>1. tasks[w] \in Printed!Run /\ tasks[w] # Printed!Free /\ tasks[w].mem \in Printed!Row
    BY <1>0, TaskIsOn, TaskTypes DEF TaskStages
  <1>2. TaskIsHonest(w)
    BY <1>1 DEF PrintedInv, TasksAreHonest
  <1> DEFINE m   == [tasks[w].mem EXCEPT !.input = None]
             new == [at |-> "saveAll", mem |-> m]
  <1>3. /\ m \in Printed!Row /\ m.status = tasks[w].mem.status /\ m.pdf = tasks[w].mem.pdf
        /\ m.input = None
    BY <1>1 DEF Printed!Row
  <1> HIDE DEF m
  <1>4. new \in Printed!Run /\ new.at = "saveAll" /\ new.mem = m
    BY <1>3 DEF Printed!Run
  <1>5. tasks' = [tasks EXCEPT ![w] = new]
    <2> DEFINE half == [at |-> "saveAll", mem |-> tasks[w].mem]
    <2>1. [tasks[w] EXCEPT !.at = "saveAll"] = half
      BY <1>1 DEF Printed!Run
    <2>2. [half EXCEPT !.mem.input = None] = new
      BY DEF m
    <2>3. w \in DOMAIN tasks
      BY <1>0 DEF Printed!TypeOK
    <2> HIDE DEF half, new
    <2>4. [tasks EXCEPT ![w].at = "saveAll"] = [tasks EXCEPT ![w] = half]
      BY <2>1
    <2>5. tasks' = [[tasks EXCEPT ![w] = half] EXCEPT ![w].mem.input = None]
      BY <1>0, <2>4
    <2> QED  BY <2>2, <2>3, <2>5
  <1> HIDE DEF new
  <1>6. TaskMoves(w) /\ tasks'[w] = new /\ new # Printed!Free
    BY <1>0, <1>1, <1>4, <1>5, TaskIsWritten, TaskTypes
  <1>7. stored' \subseteq Pdfs \cup {Input} /\ \A f \in Pdfs : f \in stored => f \in stored'
    BY <1>0, PrintedAssumption DEF Printed!TypeOK
  <1>8. TaskIsHonest(w)'
    BY <1>0, <1>2, <1>3, <1>4, <1>6, <1>7, PrintedAssumption DEF TaskIsHonest
  <1>9. RowIsHonest'
    <2>1. conversion.status = "ready" => expired \/ conversion.pdf \in Pdfs
      BY PrintedAssumption DEF PrintedInv, RowIsHonest, Printed!TypeOK, Printed!Row, Printed!NoRow
    <2> QED  BY <1>0, <1>7, <2>1 DEF PrintedInv, RowIsHonest
  <1>10. Accounts(w) => Accounts(w)' /\ conversion' # Printed!NoRow
    BY <1>0, <1>3, <1>4, <1>6 DEF Accounts, TaskMoves
  <1> QED  BY <1>0, <1>6, <1>7, <1>8, <1>9, <1>10, TaskStep DEF Printed!TypeOK

LEMMA TaskSaveAll ==
    ASSUME PrintedInv, NEW w \in Workers, Printed!SaveAll(w),
           UNCHANGED <<expired, upload, printing, purge, met, delivered>>
    PROVE  PrintedInv'
  <1>0. /\ Printed!TypeOK /\ tasks[w].at = "saveAll" /\ stored' = stored
        /\ conversion' = tasks[w].mem /\ tasks' = [tasks EXCEPT ![w] = Printed!Free]
    BY DEF PrintedInv, Printed!SaveAll, Printed!Ends
  <1>1. tasks[w] \in Printed!Run /\ tasks[w] # Printed!Free /\ tasks[w].mem \in Printed!Row
    BY <1>0, TaskIsOn, TaskTypes DEF TaskStages
  <1>2. TaskIsHonest(w)
    BY <1>1 DEF PrintedInv, TasksAreHonest
  <1>3. TaskMoves(w) /\ tasks'[w] = Printed!Free
    BY <1>0, <1>1, TaskIsWritten
  <1>4. RowIsHonest'
    BY <1>0, <1>2 DEF RowIsHonest, TaskIsHonest
  <1>5. conversion' # Printed!NoRow
    BY <1>0, <1>1, RowTypes
  <1>6. ASSUME Accounts(w) PROVE stored' \subseteq {conversion'.input, conversion'.pdf}
    <2>1. tasks[w].mem.input = None /\ Input \notin stored /\ None \notin stored
      BY <1>0, <1>2, <1>6, PrintedAssumption DEF TaskIsHonest, Accounts, Printed!TypeOK
    <2>2. conversion.input \in {Input, None}
      BY <1>0, <1>6, RowTypes DEF Accounts, Printed!TypeOK
    <2> QED  BY <1>0, <1>6, <2>1, <2>2 DEF Accounts
  <1> QED  BY <1>0, <1>1, <1>3, <1>4, <1>5, <1>6, TaskStep DEF Printed!TypeOK

LEMMA TaskSaveFailed ==
    ASSUME PrintedInv, NEW w \in Workers, Printed!SaveFailed(w),
           UNCHANGED <<expired, upload, printing, purge, met, delivered>>
    PROVE  PrintedInv'
  <1>0. Printed!TypeOK /\ tasks[w].at = "fail" /\ stored' = stored
    BY DEF PrintedInv, Printed!SaveFailed
  <1>1. tasks[w] \in Printed!Run /\ tasks[w] # Printed!Free /\ tasks[w].mem \in Printed!Row
    BY <1>0, TaskIsOn, TaskTypes DEF TaskStages
  <1>2. TaskIsHonest(w)
    BY <1>1 DEF PrintedInv, TasksAreHonest
  <1>3. CASE conversion = Printed!NoRow
    <2>1. conversion' = conversion /\ tasks' = [tasks EXCEPT ![w] = Printed!Free]
      BY <1>3 DEF Printed!SaveFailed, Printed!Ends
    <2>2. TaskMoves(w) /\ tasks'[w] = Printed!Free
      BY <1>0, <1>1, <2>1, TaskIsWritten
    <2>3. RowIsHonest' /\ ~Accounts(w)
      BY <1>0, <1>3, <2>1 DEF PrintedInv, RowIsHonest, Accounts
    <2> QED  BY <1>0, <2>1, <2>2, <2>3, TaskStep DEF Printed!TypeOK
  <1>4. CASE conversion # Printed!NoRow
    <2>1. /\ conversion \in Printed!Row
          /\ conversion' = [conversion EXCEPT !.status = "failed"]
      BY <1>0, <1>4 DEF Printed!SaveFailed, Printed!TypeOK
    <2>2. /\ conversion' \in Printed!Row /\ conversion'.status = "failed"
          /\ conversion'.pdf = conversion.pdf /\ conversion'.input = conversion.input
      BY <2>1 DEF Printed!Row
    <2>3. conversion' # Printed!NoRow /\ RowIsHonest'
      BY <2>2, RowTypes DEF RowIsHonest
    <2>4. CASE tasks[w].mem.input = None
      <3>1. tasks' = [tasks EXCEPT ![w] = Printed!Free]
        BY <1>4, <2>4 DEF Printed!SaveFailed, Printed!Ends
      <3>2. TaskMoves(w) /\ tasks'[w] = Printed!Free
        BY <1>0, <1>1, <3>1, TaskIsWritten
      <3>3. Accounts(w) => stored' \subseteq {conversion'.input, conversion'.pdf}
        BY <1>0, <2>2, <2>4 DEF Accounts
      <3> QED  BY <1>0, <2>2, <2>3, <3>2, <3>3, TaskStep DEF Printed!TypeOK
    <2>5. CASE tasks[w].mem.input # None
      <3> DEFINE m   == [tasks[w].mem EXCEPT !.status = "failed"]
                 new == [at |-> "tidyFailed", mem |-> m]
      <3>1. /\ m \in Printed!Row /\ m.status = "failed" /\ m.pdf = tasks[w].mem.pdf
            /\ m.input = tasks[w].mem.input
        BY <1>1 DEF Printed!Row
      <3> HIDE DEF m
      <3>2. new \in Printed!Run /\ new.at = "tidyFailed" /\ new.mem = m
        BY <3>1 DEF Printed!Run
      <3>3. tasks' = [tasks EXCEPT ![w] = new]
        <4> DEFINE half == [at |-> "tidyFailed", mem |-> tasks[w].mem]
        <4>1. [tasks[w] EXCEPT !.at = "tidyFailed"] = half
          BY <1>1 DEF Printed!Run
        <4>2. [half EXCEPT !.mem.status = "failed"] = new
          BY DEF m
        <4>3. w \in DOMAIN tasks
          BY <1>0 DEF Printed!TypeOK
        <4> HIDE DEF half, new
        <4>4. [tasks EXCEPT ![w].at = "tidyFailed"] = [tasks EXCEPT ![w] = half]
          BY <4>1
        <4>5. tasks' = [[tasks EXCEPT ![w] = half] EXCEPT ![w].mem.status = "failed"]
          BY <1>4, <2>5, <4>4 DEF Printed!SaveFailed
        <4> QED  BY <4>2, <4>3, <4>5
      <3> HIDE DEF new
      <3>4. TaskMoves(w) /\ tasks'[w] = new /\ new # Printed!Free
        BY <1>0, <1>1, <3>2, <3>3, TaskIsWritten, TaskTypes
      <3>5. TaskIsHonest(w)'
        BY <3>1, <3>2, <3>4 DEF TaskIsHonest
      <3>6. Accounts(w) => Accounts(w)'
        BY <1>0, <2>2, <2>3, <2>5, <3>1, <3>2, <3>4 DEF Accounts, TaskMoves
      <3> QED  BY <1>0, <2>2, <2>3, <3>4, <3>5, <3>6, TaskStep DEF Printed!TypeOK
    <2> QED  BY <2>4, <2>5
  <1> QED  BY <1>3, <1>4

LEMMA TaskRaise ==
    ASSUME PrintedInv, NEW w \in Workers, Printed!Raise(w) PROVE PrintedInv'
  <1>0. /\ Printed!TypeOK /\ tasks[w].at \in {"convert", "store", "save", "tidy", "saveAll"}
        /\ tasks[w].mem.status # "failed" /\ Printed!Goes(w, "fail")
        /\ UNCHANGED <<conversion, stored, expired, upload, printing, purge, met, delivered>>
    BY DEF PrintedInv, Printed!Raise
  <1>1. /\ TaskMoves(w) /\ tasks'[w].at = "fail" /\ tasks'[w].mem = tasks[w].mem
        /\ tasks[w] # Printed!Free /\ tasks'[w] # Printed!Free
    BY <1>0, TaskGoes, TaskIsOn DEF TaskStages
  <1>2. TaskIsHonest(w)
    BY <1>1 DEF PrintedInv, TasksAreHonest
  <1>3. TaskIsHonest(w)' /\ RowIsHonest'
    BY <1>0, <1>1, <1>2 DEF PrintedInv, RowIsHonest, TaskIsHonest
  <1>4. tasks[w].mem.input = None => tasks[w].mem.status = "ready"
    <2>1. tasks[w].mem.status \in {"pending", "ready", "failed"}
      BY <1>1, TaskTypes, RowTypes DEF TaskMoves
    <2> QED  BY <1>0, <1>2, <2>1, PrintedAssumption DEF TaskIsHonest
  <1>5. Accounts(w) => Accounts(w)' /\ conversion' # Printed!NoRow
    BY <1>0, <1>1, <1>4 DEF Accounts, TaskMoves
  <1> QED  BY <1>0, <1>1, <1>3, <1>5, TaskStep DEF Printed!TypeOK

\* A worker takes a message: what it remembers is the row that waits.
LEMMA TaskTake ==
    ASSUME PrintedInv, NEW w \in Workers, Printed!Take(w) PROVE PrintedInv'
  <1>0. /\ Printed!TypeOK /\ printing > 0 /\ tasks[w] = Printed!Free
        /\ printing' \in Nat
        /\ UNCHANGED <<conversion, stored, expired, upload, purge, delivered>>
    BY DEF PrintedInv, Printed!Take, Printed!TypeOK
  <1>1. upload = "done"
    BY <1>0 DEF PrintedInv, UploadIsFirst
  <1>2. UploadIsFirst' /\ PurgeIsLate' /\ RowIsHonest'
    BY <1>0, <1>1 DEF PrintedInv, UploadIsFirst, PurgeIsLate, RowIsHonest
  <1>3. CASE UNCHANGED <<tasks, met>>
    <2>1. Printed!TypeOK'
      BY <1>0, <1>3 DEF Printed!TypeOK
    <2>2. TasksAreHonest' /\ RunAccounts' /\ PurgeAccounts' /\ RestAccounts'
      BY <1>0, <1>3 DEF PrintedInv, TasksAreHonest, TaskIsHonest, RunAccounts, Accounts,
                        PurgeAccounts, RestAccounts
    <2> QED  BY <1>2, <2>1, <2>2 DEF PrintedInv
  <1>4. CASE conversion.status = "pending" /\ conversion.input = Input /\ ~UNCHANGED <<tasks, met>>
    <2> DEFINE new == [at |-> "convert", mem |-> conversion]
    <2>1. /\ tasks' = [tasks EXCEPT ![w] = new]
          /\ met' = met \cup (IF Printed!Running = {} THEN {} ELSE {"twice"})
                        \cup (IF purge = Printed!Free THEN {} ELSE {"purged"})
      BY <1>4 DEF Printed!Take
    <2>2. conversion \in Printed!Row /\ conversion # Printed!NoRow
      BY <1>0, <1>4 DEF Printed!TypeOK, Printed!NoRow
    <2>3. /\ new \in Printed!Run /\ new # Printed!Free /\ new.at = "convert"
          /\ new.mem = conversion
      BY <2>2 DEF Printed!Run, Printed!Free
    <2> HIDE DEF new
    <2>4. /\ tasks' \in [Workers -> Printed!Run \cup {Printed!Free}] /\ tasks'[w] = new
          /\ \A v \in Workers \ {w} : tasks'[v] = tasks[v]
      BY <1>0, <2>1, <2>3 DEF Printed!TypeOK
    <2>5. /\ met' \subseteq {"cut", "twice", "purged"}
          /\ met' = {} => /\ met = {} /\ purge = Printed!Free
                          /\ \A v \in Workers : tasks[v] = Printed!Free
      BY <1>0, <2>1 DEF Printed!TypeOK, Printed!Running
    <2>6. Printed!TypeOK'
      BY <1>0, <2>4, <2>5 DEF Printed!TypeOK
    <2>7. TaskIsHonest(w)'
      BY <1>4, <2>3, <2>4 DEF TaskIsHonest
    <2>8. TasksAreHonest'
      <3> SUFFICES ASSUME NEW v \in Workers, tasks'[v] # Printed!Free PROVE TaskIsHonest(v)'
        BY DEF TasksAreHonest
      <3>1. CASE v = w
        BY <2>7, <3>1
      <3>2. CASE v # w
        <4>1. tasks'[v] = tasks[v] /\ TaskIsHonest(v)
          BY <2>4, <3>2 DEF PrintedInv, TasksAreHonest
        <4> QED  BY <1>0, <4>1 DEF TaskIsHonest
      <3> QED  BY <3>1, <3>2
    <2>9. RunAccounts'
      <3> SUFFICES ASSUME met' = {}, NEW v \in Workers, tasks'[v] # Printed!Free
                   PROVE  Accounts(v)'
        BY DEF RunAccounts
      <3>1. v = w
        BY <2>4, <2>5
      <3>2. stored \subseteq {conversion.input, conversion.pdf}
        BY <1>1, <2>2, <2>5 DEF PrintedInv, RestAccounts
      <3>3. conversion.pdf = None
        BY <1>4 DEF PrintedInv, RowIsHonest
      <3> QED
        BY <1>0, <1>4, <2>2, <2>3, <2>4, <2>5, <3>1, <3>2, <3>3, PrintedAssumption DEF Accounts
    <2>10. PurgeAccounts'
      BY <1>0, <2>5 DEF PurgeAccounts
    <2>11. RestAccounts'
      BY <2>3, <2>4 DEF RestAccounts
    <2> QED
      BY <1>2, <2>6, <2>8, <2>9, <2>10, <2>11 DEF PrintedInv
  <1> QED  BY <1>3, <1>4 DEF Printed!Take

\* Steps that change neither the row, nor the files, nor what the processes
\* remember.
LEMMA PrintedRests ==
    ASSUME PrintedInv, Printed!TypeOK', UNCHANGED <<conversion, stored>>,
           upload = "done", upload' = "done",
           expired => expired', met \subseteq met',
           \/ UNCHANGED <<tasks, purge>>
           \/ "cut" \in met' /\ UNCHANGED purge
              /\ \A w \in Workers : tasks'[w] \in {tasks[w], Printed!Free}
    PROVE  PrintedInv'
  <1>1. UploadIsFirst' /\ PurgeIsLate' /\ RowIsHonest'
    BY DEF PrintedInv, UploadIsFirst, PurgeIsLate, RowIsHonest
  <1>2. TasksAreHonest'
    <2> SUFFICES ASSUME NEW v \in Workers, tasks'[v] # Printed!Free PROVE TaskIsHonest(v)'
      BY DEF TasksAreHonest
    <2>1. tasks'[v] = tasks[v] /\ TaskIsHonest(v)
      BY DEF PrintedInv, TasksAreHonest
    <2> QED  BY <2>1 DEF TaskIsHonest
  <1>3. CASE "cut" \in met'
    BY <1>1, <1>2, <1>3 DEF PrintedInv, RunAccounts, PurgeAccounts, RestAccounts
  <1>4. CASE UNCHANGED <<tasks, purge>>
    <2>1. RunAccounts'
      BY <1>4 DEF PrintedInv, RunAccounts, Accounts
    <2>2. PurgeAccounts' /\ RestAccounts'
      BY <1>4 DEF PrintedInv, PurgeAccounts, RestAccounts
    <2> QED  BY <1>1, <1>2, <2>1, <2>2 DEF PrintedInv
  <1> QED  BY <1>3, <1>4

LEMMA PrintedEnqueues ==
    ASSUME Printed!TypeOK, Printed!Enqueue \/ UNCHANGED <<printing, delivered>>
    PROVE  printing' \in Nat /\ delivered' \in 0..MaxSent
  BY PrintedAssumption DEF Printed!TypeOK, Printed!Enqueue

LEMMA TaskDie ==
    ASSUME PrintedInv, NEW w \in Workers, Printed!Die(w) PROVE PrintedInv'
  <1>0. /\ Printed!TypeOK /\ tasks[w] # Printed!Free /\ met' = met \cup {"cut"}
        /\ tasks' = [tasks EXCEPT ![w] = Printed!Free]
        /\ UNCHANGED <<conversion, stored, expired, upload, purge>>
    BY DEF PrintedInv, Printed!Die, Printed!Ends
  <1>1. upload = "done"
    BY <1>0 DEF PrintedInv, UploadIsFirst
  <1>2. printing' \in Nat /\ delivered' \in 0..MaxSent
    BY <1>0, PrintedEnqueues DEF Printed!Die
  <1>3. /\ tasks' \in [Workers -> Printed!Run \cup {Printed!Free}]
        /\ \A v \in Workers : tasks'[v] \in {tasks[v], Printed!Free}
    BY <1>0 DEF Printed!TypeOK
  <1>4. Printed!TypeOK'
    BY <1>0, <1>2, <1>3 DEF Printed!TypeOK
  <1> QED  BY <1>0, <1>1, <1>3, <1>4, PrintedRests

LEMMA PrintedRedeliver ==
    ASSUME PrintedInv, Printed!Redeliver PROVE PrintedInv'
  <1>1. upload = "done"
    BY DEF PrintedInv, UploadIsFirst, Printed!Redeliver, Printed!Running
  <1>2. printing' \in Nat /\ delivered' \in 0..MaxSent
    BY PrintedEnqueues DEF PrintedInv, Printed!Redeliver
  <1>3. Printed!TypeOK'
    BY <1>2 DEF PrintedInv, Printed!TypeOK, Printed!Redeliver
  <1> QED  BY <1>1, <1>3, PrintedRests DEF Printed!Redeliver

LEMMA PrintedExpire ==
    ASSUME PrintedInv, Printed!Expire PROVE PrintedInv'
  <1>1. Printed!TypeOK'
    BY DEF PrintedInv, Printed!TypeOK, Printed!Expire
  <1> QED  BY <1>1, PrintedRests DEF Printed!Expire

\* The steps of the request.
LEMMA PrintedRequest ==
    ASSUME PrintedInv,
           \/ Printed!CreateRow \/ Printed!StoreInput \/ Printed!SaveInput
           \/ Printed!Send \/ Printed!CutUpload
    PROVE  PrintedInv'
  <1>0. Printed!TypeOK /\ upload # "done" /\ UNCHANGED <<expired, tasks, purge>>
    BY DEF PrintedInv, Printed!CreateRow, Printed!StoreInput, Printed!SaveInput,
           Printed!Send, Printed!CutUpload, Printed!Uploads
  <1>1. /\ printing = 0 /\ purge = Printed!Free /\ ~expired
        /\ \A w \in Workers : tasks[w] = Printed!Free
        /\ upload = "create" => conversion = Printed!NoRow
        /\ upload # "create" => conversion # Printed!NoRow
        /\ upload \in {"create", "file"} => stored = {}
        /\ upload \in {"row", "send"} => stored = {Input}
        /\ upload = "send" => conversion.input = Input
    BY <1>0 DEF PrintedInv, UploadIsFirst
  <1>2. PurgeIsLate' /\ TasksAreHonest' /\ RunAccounts' /\ PurgeAccounts'
    BY <1>0, <1>1 DEF PurgeIsLate, TasksAreHonest, RunAccounts, PurgeAccounts
  <1>3. /\ conversion \in Printed!Row \cup {Printed!NoRow}
        /\ conversion.status = "pending" => conversion.pdf = None
        /\ conversion.status = "ready" => conversion.pdf \in stored
    BY <1>0, <1>1 DEF PrintedInv, RowIsHonest, Printed!TypeOK
  <1>4. CASE Printed!CreateRow
    <2>1. /\ upload = "create" /\ upload' = "file" /\ stored' = {} /\ printing' = 0
          /\ UNCHANGED <<met, delivered>>
          /\ conversion' = [status |-> "pending", input |-> None, pdf |-> None]
      BY <1>1, <1>4 DEF Printed!CreateRow, Printed!Uploads
    <2>2. conversion' \in Printed!Row
      BY <2>1 DEF Printed!Row
    <2>3. Printed!TypeOK'
      BY <1>0, <2>1, <2>2 DEF Printed!TypeOK
    <2>4. UploadIsFirst' /\ RowIsHonest' /\ RestAccounts'
      BY <1>0, <1>1, <2>1, <2>2, RowTypes DEF UploadIsFirst, RowIsHonest, RestAccounts
    <2> QED  BY <1>2, <2>3, <2>4 DEF PrintedInv
  <1>5. CASE Printed!StoreInput
    <2>1. /\ upload = "file" /\ upload' = "row" /\ stored' = {Input} /\ printing' = 0
          /\ UNCHANGED <<met, delivered, conversion>>
      BY <1>1, <1>5 DEF Printed!StoreInput, Printed!Uploads
    <2>2. Printed!TypeOK'
      BY <1>0, <2>1 DEF Printed!TypeOK
    <2>3. RowIsHonest'
      BY <1>0, <1>1, <1>3, <2>1 DEF RowIsHonest
    <2>4. UploadIsFirst' /\ RestAccounts'
      BY <1>0, <1>1, <2>1 DEF UploadIsFirst, RestAccounts
    <2> QED  BY <1>2, <2>2, <2>3, <2>4 DEF PrintedInv
  <1>6. CASE Printed!SaveInput
    <2>1. /\ upload = "row" /\ upload' = "send" /\ stored' = {Input} /\ stored = {Input}
          /\ printing' = 0 /\ UNCHANGED <<met, delivered>>
          /\ conversion' = [conversion EXCEPT !.input = Input]
          /\ conversion \in Printed!Row
      BY <1>1, <1>3, <1>6 DEF Printed!SaveInput, Printed!Uploads
    <2>2. /\ conversion' \in Printed!Row /\ conversion'.input = Input
          /\ conversion'.status = conversion.status /\ conversion'.pdf = conversion.pdf
      BY <2>1 DEF Printed!Row
    <2>3. Printed!TypeOK'
      BY <1>0, <2>1, <2>2 DEF Printed!TypeOK
    <2>4. UploadIsFirst' /\ RowIsHonest' /\ RestAccounts'
      BY <1>0, <1>1, <1>3, <2>1, <2>2, RowTypes DEF UploadIsFirst, RowIsHonest, RestAccounts
    <2> QED  BY <1>2, <2>3, <2>4 DEF PrintedInv
  <1>7. CASE Printed!Send
    <2>1. /\ upload = "send" /\ upload' = "done" /\ UNCHANGED <<met, conversion, stored>>
      BY <1>7 DEF Printed!Send, Printed!Uploads
    <2>2. printing' \in Nat /\ delivered' \in 0..MaxSent
      BY <1>0, <1>7, PrintedEnqueues DEF Printed!Send
    <2>3. Printed!TypeOK'
      BY <1>0, <2>1, <2>2 DEF Printed!TypeOK
    <2>4. UploadIsFirst' /\ RowIsHonest' /\ RestAccounts'
      BY <1>0, <1>1, <1>3, <2>1 DEF UploadIsFirst, RowIsHonest, RestAccounts
    <2> QED  BY <1>2, <2>3, <2>4 DEF PrintedInv
  <1>8. CASE Printed!CutUpload
    <2>1. /\ upload' = "done" /\ met' = met \cup {"cut"}
          /\ UNCHANGED <<conversion, stored, printing, delivered>>
      BY <1>8 DEF Printed!CutUpload
    <2>2. Printed!TypeOK'
      BY <1>0, <2>1 DEF Printed!TypeOK
    <2>3. UploadIsFirst' /\ RowIsHonest' /\ RestAccounts'
      BY <1>0, <1>1, <1>3, <2>1 DEF UploadIsFirst, RowIsHonest, RestAccounts
    <2> QED  BY <1>2, <2>2, <2>3 DEF PrintedInv
  <1> QED  BY <1>4, <1>5, <1>6, <1>7, <1>8

\* What a step of the purge, or its loss, has to show.
LEMMA PurgeStep ==
    ASSUME PrintedInv, Printed!TypeOK', expired,
           UNCHANGED <<expired, upload, printing, tasks, met, delivered>>,
           conversion' \in {conversion, Printed!NoRow},
           \A w \in Workers : met = {} => tasks[w] = Printed!Free,
           PurgeAccounts', RestAccounts'
    PROVE  PrintedInv'
  <1>1. upload = "done"
    BY DEF PrintedInv, UploadIsFirst
  <1>2. UploadIsFirst' /\ PurgeIsLate'
    BY <1>1 DEF UploadIsFirst, PurgeIsLate
  <1>3. RowIsHonest'
    BY DEF PrintedInv, RowIsHonest, Printed!NoRow
  <1>4. TasksAreHonest'
    <2> SUFFICES ASSUME NEW v \in Workers, tasks[v] # Printed!Free PROVE TaskIsHonest(v)'
      BY DEF TasksAreHonest
    <2>1. TaskIsHonest(v)
      BY DEF PrintedInv, TasksAreHonest
    <2> QED  BY <2>1 DEF TaskIsHonest
  <1>5. RunAccounts'
    BY DEF RunAccounts
  <1> QED  BY <1>2, <1>3, <1>4, <1>5 DEF PrintedInv

LEMMA PurgeTypes ==
    ASSUME Printed!TypeOK, purge # Printed!Free \/ purge.at \in {"input", "pdf", "row"}
    PROVE  /\ purge \in Printed!Purge /\ purge # Printed!Free
           /\ purge.at \in {"input", "pdf", "row"} /\ purge.mem \in Printed!Row
  BY DEF Printed!TypeOK, Printed!Purge, Printed!Free

\* While the purge is on its way no run is, unless they have met.
LEMMA PurgeIsAlone ==
    ASSUME PrintedInv, purge # Printed!Free, met = {}
    PROVE  \A w \in Workers : tasks[w] = Printed!Free
  BY DEF PrintedInv, RunAccounts, Accounts

LEMMA PurgeGoes ==
    ASSUME Printed!TypeOK, purge.at \in {"input", "pdf", "row"},
           NEW place \in {"input", "pdf", "row"}, Printed!Purges(place)
    PROVE  /\ purge' \in Printed!Purge /\ purge' # Printed!Free
           /\ purge'.at = place /\ purge'.mem = purge.mem
  <1>1. purge \in Printed!Purge
    BY PurgeTypes
  <1> DEFINE new == [purge EXCEPT !.at = place]
  <1>2. new \in Printed!Purge /\ new.at = place /\ new.mem = purge.mem
    BY <1>1 DEF Printed!Purge
  <1>3. purge' = new
    BY DEF Printed!Purges
  <1> HIDE DEF new
  <1> QED  BY <1>2, <1>3 DEF Printed!Free

LEMMA PurgeReads ==
    ASSUME PrintedInv, Printed!ReadExpired PROVE PrintedInv'
  <1>0. /\ Printed!TypeOK /\ expired /\ conversion \in Printed!Row
        /\ conversion # Printed!NoRow /\ purge = Printed!Free
        /\ purge' = [at |-> "input", mem |-> conversion]
        /\ met' = met \cup (IF Printed!Running = {} THEN {} ELSE {"purged"})
        /\ UNCHANGED <<conversion, stored, expired, upload, printing, tasks, delivered>>
    BY DEF PrintedInv, Printed!TypeOK, Printed!ReadExpired
  <1>1. /\ met' \subseteq {"cut", "twice", "purged"}
        /\ met' = {} => met = {} /\ \A w \in Workers : tasks[w] = Printed!Free
    BY <1>0 DEF Printed!TypeOK, Printed!Running
  <1>2. /\ purge' \in Printed!Purge /\ purge'.at = "input" /\ purge'.mem = conversion
        /\ purge' # Printed!Free
    BY <1>0 DEF Printed!Purge, Printed!Free
  <1>3. Printed!TypeOK'
    BY <1>0, <1>1, <1>2 DEF Printed!TypeOK
  <1>4. upload = "done"
    BY <1>0 DEF PrintedInv, UploadIsFirst
  <1>5. UploadIsFirst' /\ PurgeIsLate' /\ RowIsHonest'
    BY <1>0, <1>4 DEF PrintedInv, UploadIsFirst, PurgeIsLate, RowIsHonest
  <1>6. TasksAreHonest'
    <2> SUFFICES ASSUME NEW v \in Workers, tasks[v] # Printed!Free PROVE TaskIsHonest(v)'
      BY <1>0 DEF TasksAreHonest
    <2>1. TaskIsHonest(v)
      BY DEF PrintedInv, TasksAreHonest
    <2> QED  BY <1>0, <2>1 DEF TaskIsHonest
  <1>7. RunAccounts' /\ RestAccounts'
    BY <1>0, <1>1, <1>2 DEF RunAccounts, RestAccounts
  <1>8. PurgeAccounts'
    <2>1. met' = {} => stored \subseteq {conversion.input, conversion.pdf}
      BY <1>0, <1>1, <1>4 DEF PrintedInv, RestAccounts
    <2> QED  BY <1>0, <1>2, <2>1 DEF PurgeAccounts
  <1> QED  BY <1>3, <1>5, <1>6, <1>7, <1>8 DEF PrintedInv

LEMMA PurgeDeletesInput ==
    ASSUME PrintedInv, Printed!PurgeInput PROVE PrintedInv'
  <1>0. /\ Printed!TypeOK /\ purge.at = "input" /\ stored' = stored \ {purge.mem.input}
        /\ Printed!Purges("pdf")
        /\ UNCHANGED <<conversion, expired, upload, printing, tasks, met, delivered>>
    BY DEF PrintedInv, Printed!PurgeInput
  <1>1. purge # Printed!Free /\ expired
    BY <1>0, PurgeTypes DEF PrintedInv, PurgeIsLate
  <1>2. /\ purge' \in Printed!Purge /\ purge'.at = "pdf" /\ purge'.mem = purge.mem
        /\ purge' # Printed!Free
    BY <1>0, PurgeGoes
  <1>3. Printed!TypeOK'
    BY <1>0, <1>2 DEF Printed!TypeOK
  <1>4. PurgeAccounts' /\ RestAccounts'
    BY <1>0, <1>1, <1>2 DEF PrintedInv, PurgeAccounts, RestAccounts
  <1> QED  BY <1>0, <1>1, <1>3, <1>4, PurgeStep, PurgeIsAlone

LEMMA PurgeDeletesPdf ==
    ASSUME PrintedInv, Printed!PurgePdf PROVE PrintedInv'
  <1>0. /\ Printed!TypeOK /\ purge.at = "pdf" /\ stored' = stored \ {purge.mem.pdf}
        /\ Printed!Purges("row")
        /\ UNCHANGED <<conversion, expired, upload, printing, tasks, met, delivered>>
    BY DEF PrintedInv, Printed!PurgePdf
  <1>1. purge # Printed!Free /\ expired
    BY <1>0, PurgeTypes DEF PrintedInv, PurgeIsLate
  <1>2. /\ purge' \in Printed!Purge /\ purge'.at = "row" /\ purge'.mem = purge.mem
        /\ purge' # Printed!Free
    BY <1>0, PurgeGoes
  <1>3. Printed!TypeOK'
    BY <1>0, <1>2 DEF Printed!TypeOK
  <1>4. PurgeAccounts' /\ RestAccounts'
    BY <1>0, <1>1, <1>2 DEF PrintedInv, PurgeAccounts, RestAccounts
  <1> QED  BY <1>0, <1>1, <1>3, <1>4, PurgeStep, PurgeIsAlone

LEMMA PurgeDeletesRow ==
    ASSUME PrintedInv, Printed!PurgeRow PROVE PrintedInv'
  <1>0. /\ Printed!TypeOK /\ purge.at = "row" /\ conversion' = Printed!NoRow
        /\ purge' = Printed!Free
        /\ UNCHANGED <<stored, expired, upload, printing, tasks, met, delivered>>
    BY DEF PrintedInv, Printed!PurgeRow
  <1>1. purge # Printed!Free /\ expired
    BY <1>0, PurgeTypes DEF PrintedInv, PurgeIsLate
  <1>2. Printed!TypeOK'
    BY <1>0 DEF Printed!TypeOK
  <1>3. PurgeAccounts'
    BY <1>0 DEF PurgeAccounts
  <1>4. RestAccounts'
    BY <1>0, <1>1 DEF PrintedInv, PurgeAccounts, RestAccounts
  <1> QED  BY <1>0, <1>1, <1>2, <1>3, <1>4, PurgeStep, PurgeIsAlone

LEMMA PurgeIsCut ==
    ASSUME PrintedInv, Printed!CutPurge PROVE PrintedInv'
  <1>0. /\ Printed!TypeOK /\ purge # Printed!Free /\ purge' = Printed!Free
        /\ UNCHANGED <<conversion, stored, expired, upload, printing, tasks, met, delivered>>
    BY DEF PrintedInv, Printed!CutPurge
  <1>1. expired
    BY <1>0 DEF PrintedInv, PurgeIsLate
  <1>2. Printed!TypeOK'
    BY <1>0 DEF Printed!TypeOK
  <1>3. PurgeAccounts' /\ RestAccounts'
    BY <1>0 DEF PrintedInv, PurgeAccounts, RestAccounts
  <1> QED  BY <1>0, <1>1, <1>2, <1>3, PurgeStep, PurgeIsAlone

LEMMA PrintedInit == Printed!Init => PrintedInv
  <1> SUFFICES ASSUME Printed!Init PROVE PrintedInv
    OBVIOUS
  <1>1. \A w \in Workers : tasks[w] = Printed!Free
    BY DEF Printed!Init
  <1>2. tasks \in [Workers -> Printed!Run \cup {Printed!Free}] /\ delivered \in 0..MaxSent
    BY PrintedAssumption DEF Printed!Init
  <1>3. Printed!TypeOK
    BY <1>2 DEF Printed!Init, Printed!TypeOK
  <1>4. conversion.status = "none"
    BY DEF Printed!Init, Printed!NoRow
  <1> QED
    BY <1>1, <1>3, <1>4
       DEF Printed!Init, PrintedInv, UploadIsFirst, PurgeIsLate, RowIsHonest, TasksAreHonest,
           RunAccounts, PurgeAccounts, RestAccounts

LEMMA PrintedStep == PrintedInv /\ [Printed!Next]_(Printed!vars) => PrintedInv'
  <1> SUFFICES ASSUME PrintedInv, [Printed!Next]_(Printed!vars) PROVE PrintedInv'
    OBVIOUS
  <1>1. CASE UNCHANGED Printed!vars
    <2>1. UNCHANGED <<conversion, stored, expired, upload, printing, tasks, purge, met, delivered>>
      BY <1>1 DEF Printed!vars
    <2> QED
      BY <2>1 DEF PrintedInv, Printed!TypeOK, UploadIsFirst, PurgeIsLate, RowIsHonest,
                  TasksAreHonest, TaskIsHonest, RunAccounts, Accounts, PurgeAccounts,
                  RestAccounts
  <1>2. ASSUME NEW w \in Workers, Printed!Work(w) PROVE PrintedInv'
    BY <1>2, TaskConvert, TaskStorePdf, TaskSaveReady, TaskDeleteInput, TaskSaveAll,
       TaskSaveFailed DEF Printed!Work
  <1>3. CASE Printed!Next
    BY <1>2, <1>3, TaskTake, TaskRaise, TaskDie, PrintedRedeliver, PrintedExpire,
       PrintedRequest, PurgeReads, PurgeDeletesInput, PurgeDeletesPdf, PurgeDeletesRow,
       PurgeIsCut DEF Printed!Next
  <1> QED  BY <1>1, <1>3

LEMMA PrintedAlways == Printed!Spec => []PrintedInv
  BY PrintedInit, PrintedStep, PTL DEF Printed!Spec

\* A file that is ready to be printed and has not expired has its PDF, whatever
\* requests, runs and purges overlap; and no file is left of a row that is gone
\* when no process was cut off and none met another.
THEOREM ConversionsCorrect == Printed!Spec => []FilesMatchRow
  <1>1. PrintedInv => FilesMatchRow
    <2> SUFFICES ASSUME PrintedInv PROVE Printed!ReadyHasPdf /\ Printed!FilesGoWithRow
      BY DEF FilesMatchRow, Printed!FilesMatchRow
    <2>1. Printed!ReadyHasPdf
      BY DEF PrintedInv, RowIsHonest, Printed!ReadyHasPdf
    <2>2. Printed!FilesGoWithRow
      BY DEF PrintedInv, RestAccounts, Printed!FilesGoWithRow, Printed!Running
    <2> QED  BY <2>1, <2>2
  <1> QED  BY <1>1, PrintedAlways, PTL
=============================================================================
