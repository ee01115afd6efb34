--------------------------- MODULE AnnotationSync ---------------------------
(***************************************************************************)
(* The marks a student draws on one document with several devices, and how *)
(* the devices and the server keep each other up to date                   *)
(* (apps/annotations/services.py, apps/annotations/views.py).              *)
(*                                                                         *)
(* The server counts the revisions of a document; a mark carries the       *)
(* revision it last changed at, deleted marks included, and a version of   *)
(* its own.  A device sends the changes it made off line and gets what has *)
(* changed since the revision it knows, or only asks for that.  A sync     *)
(* holds the row of the document from its first statement to its commit; a *)
(* mere question holds nothing, and reads the document and then the marks. *)
(*                                                                         *)
(* Devices are outside the repository: they are modelled by what the API   *)
(* asks of them.  A device names the version of every mark it has heard of *)
(* and none for a mark of its own it has not, works on one request at a    *)
(* time and sends it again when no answer comes.                           *)
(***************************************************************************)
EXTENDS Integers, FiniteSets

CONSTANTS
    Devices,    \* telephones and tablets of the student
    Marks,      \* marks (client_id), each drawn by one device
    Author,     \* that device
    NoMark,     \* not there
    Idle,       \* no request, answer or question
    MaxItems,   \* MAX_ITEMS_PER_DOCUMENT
    MaxEdits,   \* bound on requests with changes
    MaxSyncs    \* bound on how often one of them reaches the server

\* A PageAnnotation row.
Item == [edit : Nat, deleted : BOOLEAN, version : Nat \ {0}, revision : Nat]

ASSUME SyncAssumption ==
    /\ IsFiniteSet(Marks)
    /\ NoMark \notin Item
    /\ Author \in [Marks -> Devices]
    /\ MaxItems \in Nat /\ MaxEdits \in Nat /\ MaxSyncs \in Nat

VARIABLES
    revision,   \* of the document
    item,       \* the PageAnnotation rows
    base,       \* the revision each device has caught up with
    copy,       \* what each device was last told of each mark
    out,        \* the request each device is waiting for
    reply,      \* its answer, on its way
    poll,       \* a question of each device, half answered
    edits,      \* counter of MaxEdits; names the content of a change
    syncs,      \* counter of MaxSyncs
    unseen      \* how content was replaced that the device had not seen

vars == <<revision, item, base, copy, out, reply, poll, edits, syncs, unseen>>

\* A change of a mark: the version it names (0 for none), and what its device
\* had seen of the mark.
Op == [delete : BOOLEAN, version : Nat, seen : Item \cup {NoMark}]

\* A device waits for the answer to a request with changes of some marks.
IsRequest(q) ==
    \E D \in SUBSET Marks : q \in [ops : [D -> Op], edit : Nat, base : Nat]

\* It is told of some marks.
IsAnswer(a) == \E D \in SUBSET Marks : a \in [revision : Nat, news : [D -> Item]]

TypeOK ==
    /\ revision \in Nat
    /\ item \in [Marks -> Item \cup {NoMark}]
    /\ base \in [Devices -> Nat]
    /\ copy \in [Devices -> [Marks -> Item \cup {NoMark}]]
    /\ out = [d \in Devices |-> out[d]]
    /\ \A d \in Devices : out[d] = Idle \/ IsRequest(out[d])
    /\ reply = [d \in Devices |-> reply[d]]
    /\ \A d \in Devices : reply[d] = Idle \/ IsAnswer(reply[d])
    /\ poll \in [Devices -> Nat \cup {Idle}]
    /\ edits \in 0..MaxEdits
    /\ syncs \in 0..MaxSyncs
    /\ unseen \subseteq {"versioned", "unversioned", "delete"}

Init ==
    /\ revision = 0
    /\ item = [m \in Marks |-> NoMark]
    /\ base = [d \in Devices |-> 0]
    /\ copy = [d \in Devices |-> [m \in Marks |-> NoMark]]
    /\ out = [d \in Devices |-> Idle]
    /\ reply = [d \in Devices |-> Idle]
    /\ poll = [d \in Devices |-> Idle]
    /\ edits = 0
    /\ syncs = 0
    /\ unseen = {}

-----------------------------------------------------------------------------
(* A sync *)

\* The marks a device may change: its own, and those it has heard of.
Known(d) == {m \in Marks : Author[m] = d \/ copy[d][m] # NoMark}

\* A change of a mark by a device that goes by what it was last told.
Change(d, m, delete) ==
    [delete  |-> delete,
     version |-> IF copy[d][m] = NoMark THEN 0 ELSE copy[d][m].version,
     seen    |-> copy[d][m]]

\* The device sends what was drawn, changed and deleted on it.
Send(d) ==
    /\ out[d] = Idle /\ poll[d] = Idle
    /\ edits < MaxEdits
    /\ edits' = edits + 1
    /\ \E D \in SUBSET Known(d) \ {{}} : \E deleted \in SUBSET D :
          out' = [out EXCEPT ![d] =
                    [ops  |-> [m \in D |-> Change(d, m, m \in deleted)],
                     edit |-> edits', base |-> base[d]]]
    /\ UNCHANGED <<revision, item, base, copy, reply, poll, syncs, unseen>>

Live == {m \in Marks : item[m] # NoMark /\ ~item[m].deleted}

Created(q) == {m \in DOMAIN q.ops : item[m] = NoMark /\ ~q.ops[m].delete}

\* The version named is not the current one: the server copy is returned.
Conflicts(q) ==
    {m \in DOMAIN q.ops : /\ item[m] # NoMark
                          /\ ~q.ops[m].delete
                          /\ q.ops[m].version \notin {0, item[m].version}}

Updated(q) ==
    {m \in DOMAIN q.ops \ Conflicts(q) : item[m] # NoMark /\ ~q.ops[m].delete}

Deleted(q) ==
    {m \in DOMAIN q.ops : /\ item[m] # NoMark
                          /\ q.ops[m].delete
                          /\ ~item[m].deleted}

\* Too many annotations: new marks are counted on top of those that are live
\* by then, those the request has brought back before among them.
TooMany(q) ==
    /\ Created(q) # {}
    /\ \E back \in SUBSET (Updated(q) \ Live) :
          Cardinality(Live \cup back) + Cardinality(Created(q)) > MaxItems

Fits(q) ==
    \/ Created(q) = {}
    \/ Cardinality(Live) + Cardinality(Created(q)) <= MaxItems

\* Every change takes the next revision; requests list them in any order.
Numbering(n, S) ==
    {f \in [S -> (n + 1)..(n + Cardinality(S))] :
        \A m, o \in S : f[m] = f[o] => m = o}

\* MUTANT: the deletion of a mark leaves the revision of the mark as it was.
MutantStored(q, m, r) ==
    [edit     |-> IF m \in Deleted(q) THEN item[m].edit ELSE q.edit,
     deleted  |-> m \in Deleted(q),
     version  |-> IF item[m] = NoMark THEN 1 ELSE item[m].version + 1,
     revision |-> IF m \in Deleted(q) THEN item[m].revision ELSE r]

\* MUTANT: the deletion of a mark leaves its version as it was.
MutantVersion(q, m, r) ==
    [edit     |-> IF m \in Deleted(q) THEN item[m].edit ELSE q.edit,
     deleted  |-> m \in Deleted(q),
     version  |-> IF item[m] = NoMark THEN 1
                  ELSE item[m].version + (IF m \in Deleted(q) THEN 0 ELSE 1),
     revision |-> r]

\* The row of a mark after a change.
Stored(q, m, r) ==
    [edit     |-> IF m \in Deleted(q) THEN item[m].edit ELSE q.edit,
     deleted  |-> m \in Deleted(q),
     version  |-> IF item[m] = NoMark THEN 1 ELSE item[m].version + 1,
     revision |-> r]

\* What is replaced without having been seen: the content or the deletion.
Content(i) == IF i = NoMark THEN NoMark ELSE <<i.edit, i.deleted>>

Replaces(q, m) ==
    /\ item[m] # NoMark
    /\ Content(item[m]) # Content(q.ops[m].seen)
    /\ item[m].edit # q.edit

How(op) == IF op.delete THEN "delete"
           ELSE IF op.version = 0 THEN "unversioned" ELSE "versioned"

\* The marks of a table that changed after a revision.
Since(table, n) ==
    [m \in {x \in Marks : table[x] # NoMark /\ table[x].revision > n} |-> table[m]]

\* AnnotationService.sync.
Apply(d, q) ==
    LET changed == Created(q) \cup Updated(q) \cup Deleted(q) IN
    \E number \in Numbering(revision, changed) :
        /\ revision' = revision + Cardinality(changed)
        /\ item' = [m \in Marks |->
              IF m \in changed THEN Stored(q, m, number[m]) ELSE item[m]]
        /\ unseen' = unseen \cup
              {How(q.ops[m]) : m \in {x \in changed : Replaces(q, x)}}
        /\ reply' = [reply EXCEPT ![d] =
              [revision |-> revision', news |-> Since(item', q.base)]]

\* The request of a device reaches the server, for the first time or again;
\* the answer to an earlier try, if it is still on its way, is lost.
Sync(d) ==
    /\ out[d] # Idle
    /\ syncs < MaxSyncs
    /\ syncs' = syncs + 1
    /\ \/ /\ Fits(out[d])
          /\ Apply(d, out[d])
          /\ UNCHANGED out
       \/ /\ TooMany(out[d])
          /\ out' = [out EXCEPT ![d] = Idle]
          /\ reply' = [reply EXCEPT ![d] = Idle]
          /\ UNCHANGED <<revision, item, unseen>>
    /\ UNCHANGED <<base, copy, poll, edits>>

\* What a device knows after it was told news.
Told(d, news) ==
    copy' = [copy EXCEPT ![d] =
               [m \in Marks |-> IF m \in DOMAIN news THEN news[m] ELSE @[m]]]

Receive(d) ==
    /\ reply[d] # Idle
    /\ Told(d, reply[d].news)
    /\ base' = [base EXCEPT ![d] = reply[d].revision]
    /\ out' = [out EXCEPT ![d] = Idle]
    /\ reply' = [reply EXCEPT ![d] = Idle]
    /\ UNCHANGED <<revision, item, poll, edits, syncs, unseen>>

-----------------------------------------------------------------------------
(* A question *)

\* changes_since reads the revision of the document ...
ReadRevision(d) ==
    /\ out[d] = Idle /\ poll[d] = Idle
    /\ poll' = [poll EXCEPT ![d] = revision]
    /\ UNCHANGED <<revision, item, base, copy, out, reply, edits, syncs, unseen>>

\* ... and then the marks; the answer arrives, or is lost.
ReadItems(d) ==
    /\ poll[d] # Idle
    /\ \/ /\ Told(d, Since(item, base[d]))
          /\ base' = [base EXCEPT ![d] = poll[d]]
       \/ UNCHANGED <<copy, base>>
    /\ poll' = [poll EXCEPT ![d] = Idle]
    /\ UNCHANGED <<revision, item, out, reply, edits, syncs, unseen>>

-----------------------------------------------------------------------------

Next ==
    \E d \in Devices :
        Send(d) \/ Sync(d) \/ Receive(d) \/ ReadRevision(d) \/ ReadItems(d)

Spec == Init /\ [][Next]_vars

-----------------------------------------------------------------------------
(* Properties *)

\* A device that has caught up with a revision has every change up to it as
\* the server has it, deletions included: what it will not be told again it
\* has been told.
NothingMissed ==
    \A d \in Devices, m \in Marks :
        item[m] # NoMark /\ item[m].revision <= base[d] => copy[d][m] = item[m]

\* A change that names a version replaces only what its device has seen: no
\* edit and no deletion of another device is lost to it.
VersionProtects == "versioned" \notin unseen
=============================================================================
