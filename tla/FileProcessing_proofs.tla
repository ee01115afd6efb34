----------------------- MODULE FileProcessing_proofs -----------------------
(***************************************************************************)
(* Proofs about FileProcessing, for any documents, any number of workers   *)
(* and of requests, and any bounds.                                        *)
(***************************************************************************)
EXTENDS FileProcessing, TLAPS

-----------------------------------------------------------------------------
(* The inductive invariant *)

\* What a run knows of itself: it draws the pages one after the other, and a
\* document that has left the antivirus was not rejected.
InOrder(r) ==
    /\ r.at \notin {"drawing", "counted"} => r.next = 1
    /\ r.next <= Length[r.doc] + 1
    /\ r.at = "counted" => r.next = Length[r.doc] + 1
    /\ r.at \notin {"started", "scanning"} => r.doc \notin Infected

RunsInOrder == \A w \in Running : InOrder(run[w])

\* The pages before the next are drawn, and no other.
DrawnSoFar(r) ==
    [n \in PageNumbers |-> IF n < r.next THEN r.doc ELSE NoDoc]

\* The row and the pages are as the run left them.
Undisturbed(r, row, pages) ==
    /\ r.doc = row.doc
    /\ row.status \notin {"ready", "quarantined"}
    /\ r.at = "deleted" => pages = NoPages
    /\ r.at \in {"drawing", "counted"} => pages = DrawnSoFar(r)
    /\ r.at = "counted" => row.count = Length[row.doc]

\* A run that nothing has interfered with is the only one.
RunIsAlone ==
    mixed = {} =>
        \A w \in Running :
            /\ \A v \in Running : v = w
            /\ Undisturbed(run[w], file, page)

Truth == RunsInOrder /\ RunIsAlone /\ StatusMatchesDocument

FileInv == TypeOK /\ QueuedHasMessage /\ Truth

-----------------------------------------------------------------------------
(* Types *)

\* A worker is running exactly if it holds a run.
LEMMA RunningType ==
    ASSUME TypeOK, NEW w \in Workers
    PROVE  /\ w \in Running <=> run[w] # NoRun
           /\ run[w] # NoRun => run[w] \in Run
  BY DEF TypeOK, Running

\* Statuses and counts written by the task and the staff are of their types.
LEMMA FileType ==
    ASSUME TypeOK, NEW s \in Status
    PROVE  [file EXCEPT !.status = s] \in File
  BY DEF TypeOK, File

\* A number of pages is a bounded number, told or not.
LEMMA LengthType ==
    ASSUME NEW d \in Docs
    PROVE  /\ Length[d] \in 1..MaxPages
           /\ MaxPages \in Nat \ {0}
           /\ Detected(d) \in 0..MaxPages
  BY FileAssumption DEF Detected

\* A message is counted.
LEMMA EnqueueType ==
    ASSUME TypeOK, Enqueue \/ UNCHANGED <<queue, sent>>
    PROVE  queue' \in Nat /\ sent' \in 0..MaxSent
  BY FileAssumption DEF TypeOK, Enqueue

\* A worker that begins.
LEMMA StartType ==
    ASSUME TypeOK, NEW w \in Workers, Start(w)
    PROVE  TypeOK'
  <1>1. queue' \in Nat
    BY DEF Start, TypeOK
  <1>2. CASE Settled /\ UNCHANGED <<file, old, run, mixed>>
    BY <1>1, <1>2 DEF Start, TypeOK
  <1>3. CASE ~Settled /\ Write("scanning")
             /\ run' = [run EXCEPT ![w] =
                            [at |-> "started", doc |-> file.doc, next |-> 1]]
             /\ mixed' = IF Running = {} THEN {} ELSE mixed \cup {"overlap"}
    <2>1. [at |-> "started", doc |-> file.doc, next |-> 1] \in Run
      BY FileAssumption DEF TypeOK, File, Run, Stages
    <2>2. run' \in [Workers -> Run \cup {NoRun}]
      BY <1>3, <2>1 DEF TypeOK
    <2>3. file' \in File /\ old' \in BOOLEAN
      BY <1>3, FileType DEF Write, Status
    <2>4. mixed' \in SUBSET Causes
      BY <1>3 DEF TypeOK, Causes
    <2> QED BY <1>1, <2>2, <2>3, <2>4 DEF Start, TypeOK
  <1> QED BY <1>2, <1>3 DEF Start

\* A worker at work.
LEMMA WorkType ==
    ASSUME TypeOK, NEW w \in Workers, Work(w)
    PROVE  TypeOK'
  <1>1. run[w] \in Run
    BY RunningType DEF Work
  <1>2. /\ run[w].doc \in Docs
        /\ run[w].next \in 1..(MaxPages + 1)
        /\ run[w].at \in Stages
    BY <1>1 DEF Run
  <1> DEFINE RowType == file' \in File /\ old' \in BOOLEAN
             PageType == page' \in [PageNumbers -> Docs \cup {NoDoc}]
             RunType == run' \in [Workers -> Run \cup {NoRun}]
  <1>3. ASSUME NEW at \in Stages, NEW next \in 1..(MaxPages + 1),
               run' = [run EXCEPT ![w] = [@ EXCEPT !.at = at, !.next = next]]
        PROVE  RunType
    <2>1. [run[w] EXCEPT !.at = at, !.next = next] \in Run
      BY <1>1 DEF Run
    <2> QED BY <1>3, <2>1 DEF TypeOK
  <1>4. ASSUME NEW at \in Stages, run' = [run EXCEPT ![w].at = at]
        PROVE  RunType
    <2>1. [run[w] EXCEPT !.at = at] \in Run
      BY <1>1 DEF Run
    <2> QED BY <1>4, <2>1 DEF TypeOK
  <1>5. ASSUME run' = [run EXCEPT ![w] = NoRun]
        PROVE  RunType
    BY <1>5 DEF TypeOK
  <1>6. CASE Report(w)
    <2>1. PICK report \in Reports(run[w].doc) :
              /\ Write(report[2])
              /\ run' = [run EXCEPT ![w].at = report[3]]
      BY <1>6 DEF Report
    <2>2. report[2] \in Status /\ report[3] \in Stages
      BY <2>1 DEF Reports, Status, Stages
    <2>3. RowType
      BY <2>1, <2>2, FileType DEF Write
    <2>4. RunType
      BY <2>1, <2>2, <1>4
    <2> QED BY <1>6, <2>3, <2>4 DEF Work, Report, TypeOK
  <1>7. CASE DeletePages(w)
    <2>1. RunType
      BY <1>7, <1>4 DEF DeletePages, Stages
    <2>2. PageType
      BY <1>7 DEF DeletePages, NoPages
    <2> QED BY <1>7, <2>1, <2>2 DEF Work, DeletePages, TypeOK
  <1>8. CASE Draw(w)
    <2>1. run[w].next + 1 \in 1..(MaxPages + 1)
      BY <1>8, <1>2, LengthType DEF Draw
    <2>2. [run[w] EXCEPT !.next = @ + 1] \in Run
      BY <1>1, <2>1 DEF Run
    <2>3. RunType
      BY <1>8, <2>2 DEF Draw, TypeOK
    <2>4. PageType
      BY <1>8, <1>2 DEF Draw, TypeOK
    <2> QED BY <1>8, <2>3, <2>4 DEF Work, Draw, TypeOK
  <1>9. CASE SaveCount(w)
    <2>1. RunType
      BY <1>9, <1>4 DEF SaveCount, Stages
    <2>2. Length[run[w].doc] \in 0..MaxPages
      BY <1>2, LengthType
    <2>3. RowType
      BY <1>9, <2>2 DEF SaveCount, TypeOK, File
    <2> QED BY <1>9, <2>1, <2>3 DEF Work, SaveCount, TypeOK
  <1>10. CASE Finish(w)
    <2>1. RowType
      BY <1>10, FileType DEF Finish, Write, Status
    <2> QED BY <1>10, <1>5, <2>1 DEF Work, Finish, TypeOK
  <1>11. CASE Quarantine(w)
    <2>1. RowType
      BY <1>11, FileType DEF Quarantine, Write, Status
    <2> QED BY <1>11, <1>5, <2>1 DEF Work, Quarantine, TypeOK
  <1> QED BY <1>6, <1>7, <1>8, <1>9, <1>10, <1>11 DEF Work

\* A run that fails or is lost.
LEMMA EndType ==
    ASSUME TypeOK, NEW w \in Workers, Fail(w) \/ Die(w)
    PROVE  TypeOK'
  <1>1. queue' \in Nat /\ sent' \in 0..MaxSent
    BY EnqueueType DEF Fail, Die
  <1>2. run' \in [Workers -> Run \cup {NoRun}]
    BY DEF Fail, Die, TypeOK
  <1>3. CASE Fail(w)
    <2>1. file' \in File /\ old' \in BOOLEAN
      BY <1>3, FileType DEF Fail, Write, Status
    <2> QED BY <1>1, <1>2, <1>3, <2>1 DEF Fail, TypeOK
  <1>4. CASE Die(w)
    BY <1>1, <1>2, <1>4 DEF Die, TypeOK
  <1> QED BY <1>3, <1>4

\* Time, the sweep and the messages.
LEMMA ServiceType ==
    ASSUME TypeOK, GrowOld \/ Sweep \/ Send \/ BrokerDown \/ LoseDispatch
    PROVE  TypeOK'
  <1>1. CASE GrowOld
    BY <1>1 DEF GrowOld, TypeOK
  <1>2. CASE Sweep
    BY <1>2, FileType DEF Sweep, Write, Status, TypeOK
  <1>3. CASE Send
    BY <1>3, EnqueueType DEF Send, TypeOK
  <1>4. CASE BrokerDown
    <2>1. file' \in File
      BY <1>4, FileType DEF BrokerDown, Status, TypeOK
    <2> QED BY <1>4, <2>1 DEF BrokerDown, TypeOK
  <1>5. CASE LoseDispatch
    BY <1>5 DEF LoseDispatch, TypeOK
  <1> QED BY <1>1, <1>2, <1>3, <1>4, <1>5

\* Requests and the command.
LEMMA StaffType ==
    ASSUME TypeOK,
           (\E e \in Editors : OpenForm(e) \/ CloseForm(e))
               \/ Reprocess \/ ListFile \/ QueueListed
    PROVE  TypeOK'
  <1>1. ASSUME NEW e \in Editors, OpenForm(e)
        PROVE  TypeOK'
    BY <1>1, FileAssumption DEF OpenForm, TypeOK
  <1>2. ASSUME NEW e \in Editors, CloseForm(e)
        PROVE  TypeOK'
    <2>1. form[e] \in File
      BY <1>2 DEF CloseForm, TypeOK
    <2>2. ASSUME NEW row \in File, NEW causes \in SUBSET Causes,
                 SaveRow(e, row, causes), dispatches' \in Nat
          PROVE  TypeOK'
      BY <2>2 DEF SaveRow, TypeOK
    <2>3. Stale(e) \in SUBSET Causes
      BY DEF Stale, Causes
    <2>4. CASE SaveForm(e)
      <3>1. dispatches' \in Nat
        BY <2>4 DEF SaveForm, TypeOK
      <3> QED BY <2>1, <2>2, <2>3, <2>4, <3>1 DEF SaveForm
    <2>5. CASE Upload(e)
      <3>1. PICK d \in Docs :
                SaveRow(e, [form[e] EXCEPT !.doc = d, !.count = Detected(d),
                                           !.status = "queued"],
                        (IF Running = {} THEN {} ELSE {"upload"})
                        \cup (IF file.deleted THEN {"form"} ELSE {}))
                /\ dispatches' = dispatches + 1
        BY <2>5 DEF Upload
      <3>2. [form[e] EXCEPT !.doc = d, !.count = Detected(d),
                            !.status = "queued"] \in File
        BY <2>1, LengthType DEF File, Status
      <3>3. (IF Running = {} THEN {} ELSE {"upload"})
                \cup (IF file.deleted THEN {"form"} ELSE {}) \in SUBSET Causes
        BY DEF Causes
      <3>4. dispatches' \in Nat
        BY <3>1 DEF TypeOK
      <3> QED BY <2>2, <3>1, <3>2, <3>3, <3>4
    <2>6. CASE Remove(e)
      <3>1. [form[e] EXCEPT !.deleted = TRUE] \in File
        BY <2>1 DEF File
      <3>2. dispatches' \in Nat
        BY <2>6 DEF Remove, TypeOK
      <3> QED BY <2>2, <2>3, <2>6, <3>1, <3>2 DEF Remove
    <2> QED BY <1>2, <2>4, <2>5, <2>6 DEF CloseForm
  <1>3. CASE Reprocess
    <2>1. file' \in File /\ old' \in BOOLEAN
      BY <1>3, FileType DEF Reprocess, Write, Status
    <2>2. edits' \in 0..MaxEdits
      BY <1>3, FileAssumption DEF Reprocess, TypeOK
    <2>3. dispatches' \in Nat
      BY <1>3 DEF Reprocess, TypeOK
    <2> QED BY <1>3, <2>1, <2>2, <2>3 DEF Reprocess, TypeOK
  <1>4. CASE ListFile
    BY <1>4, FileAssumption DEF ListFile, TypeOK
  <1>5. CASE QueueListed
    <2>1. file' \in File
      BY <1>5, FileType DEF QueueListed, Status
    <2>2. mixed' \in SUBSET Causes
      BY <1>5 DEF QueueListed, TypeOK, Causes
    <2>3. queue' \in Nat /\ sent' \in 0..MaxSent
      BY <1>5, EnqueueType DEF QueueListed
    <2>4. lost' \in BOOLEAN
      BY <1>5 DEF QueueListed, TypeOK
    <2> QED BY <1>5, <2>1, <2>2, <2>3, <2>4 DEF QueueListed, TypeOK
  <1> QED BY <1>1, <1>2, <1>3, <1>4, <1>5

\* Every step keeps the types.
LEMMA NextType == TypeOK /\ [Next]_vars => TypeOK'
  <1> SUFFICES ASSUME TypeOK, [Next]_vars PROVE TypeOK'
    OBVIOUS
  <1>1. CASE UNCHANGED vars
    BY <1>1 DEF vars, TypeOK
  <1>2. CASE Next
    BY <1>2, StartType, WorkType, EndType, ServiceType, StaffType DEF Next
  <1> QED BY <1>1, <1>2

-----------------------------------------------------------------------------
(* A file that waits has a message *)

\* One message is enough.
LEMMA SomeMessage ==
    ASSUME NEW a \in Nat, NEW b \in Nat, a > 0 \/ b > 0
    PROVE  a + b > 0
  OBVIOUS

\* No step takes the message of a file that waits, unless its process dies.
LEMMA NextQueued == TypeOK /\ QueuedHasMessage /\ [Next]_vars => QueuedHasMessage'
  <1> SUFFICES ASSUME TypeOK, QueuedHasMessage, [Next]_vars,
                      file'.status = "queued", ~file'.deleted, ~lost'
               PROVE  dispatches' + queue' > 0
    BY DEF QueuedHasMessage
  <1>1. file \in File /\ dispatches \in Nat /\ queue \in Nat
    BY DEF TypeOK
  <1>2. dispatches' \in Nat /\ queue' \in Nat
    BY NextType DEF TypeOK
  <1>3. ASSUME UNCHANGED <<file, lost>>, dispatches' = dispatches,
               queue' = queue
        PROVE  dispatches' + queue' > 0
    <2>1. dispatches + queue > 0
      BY <1>3 DEF QueuedHasMessage
    <2> QED BY <1>3, <2>1
  <1>4. ASSUME NEW s \in Status \ {"queued"},
               file' = [file EXCEPT !.status = s]
        PROVE  FALSE
    BY <1>1, <1>4 DEF File
  <1>5. ASSUME dispatches' = dispatches + 1
        PROVE  dispatches' + queue' > 0
    <2>1. dispatches' > 0
      BY <1>1, <1>5
    <2> QED BY <1>2, <2>1, SomeMessage
  <1>6. ASSUME Enqueue
        PROVE  dispatches' + queue' > 0
    <2>1. queue' > 0
      BY <1>1, <1>6 DEF Enqueue
    <2> QED BY <1>2, <2>1, SomeMessage
  <1>7. CASE UNCHANGED vars
    BY <1>1, <1>3, <1>7 DEF vars
  <1>8. ASSUME NEW w \in Workers, Start(w)
        PROVE  dispatches' + queue' > 0
    <2>1. CASE Settled /\ UNCHANGED <<file, old, run, mixed>>
      BY <2>1 DEF Settled
    <2>2. CASE Write("scanning")
      BY <1>4, <2>2 DEF Write, Status
    <2> QED BY <1>8, <2>1, <2>2 DEF Start
  <1>9. ASSUME NEW w \in Workers, Work(w)
        PROVE  dispatches' + queue' > 0
    <2>1. UNCHANGED <<dispatches, queue, lost>>
      BY <1>9 DEF Work
    <2>2. CASE Report(w)
      <3>1. PICK report \in Reports(run[w].doc) : Write(report[2])
        BY <2>2 DEF Report
      <3>2. report[2] \in Status \ {"queued"}
        BY DEF Reports, Status
      <3> QED BY <1>4, <3>1, <3>2 DEF Write
    <2>3. CASE SaveCount(w)
      <3>1. file' = [file EXCEPT !.count = Length[run[w].doc]]
        BY <2>3 DEF SaveCount
      <3>2. file.status = "queued" /\ ~file.deleted
        BY <1>1, <3>1 DEF File
      <3> QED BY <1>1, <2>1, <3>2 DEF QueuedHasMessage
    <2>4. CASE DeletePages(w) \/ Draw(w)
      BY <1>1, <1>3, <2>1, <2>4 DEF DeletePages, Draw
    <2>5. CASE Finish(w) \/ Quarantine(w)
      BY <1>4, <2>5 DEF Finish, Quarantine, Write, Status
    <2> QED BY <1>9, <2>2, <2>3, <2>4, <2>5 DEF Work
  <1>10. ASSUME NEW w \in Workers, Fail(w)
         PROVE  FALSE
    BY <1>4, <1>10 DEF Fail, Write, Status
  <1>11. ASSUME NEW w \in Workers, Die(w)
         PROVE  dispatches' + queue' > 0
    <2>1. CASE Enqueue
      BY <1>6, <2>1
    <2>2. CASE UNCHANGED <<queue, sent>>
      BY <1>1, <1>3, <1>11, <2>2 DEF Die
    <2> QED BY <1>11, <2>1, <2>2 DEF Die
  <1>12. CASE GrowOld \/ ListFile \/ \E e \in Editors : OpenForm(e)
    BY <1>1, <1>3, <1>12 DEF GrowOld, ListFile, OpenForm
  <1>13. CASE Sweep
    BY <1>4, <1>13 DEF Sweep, Write, Status
  <1>14. CASE Send
    BY <1>6, <1>14 DEF Send
  <1>15. CASE BrokerDown
    <2>1. CASE file.status = "queued"
      BY <1>4, <1>15, <2>1 DEF BrokerDown, Status
    <2>2. CASE file.status # "queued"
      BY <1>15, <2>2 DEF BrokerDown
    <2> QED BY <2>1, <2>2
  <1>16. CASE LoseDispatch
    BY <1>16 DEF LoseDispatch
  <1>17. ASSUME NEW e \in Editors, CloseForm(e)
         PROVE  dispatches' + queue' > 0
    <2>1. CASE SaveForm(e)
      BY <1>5, <2>1 DEF SaveForm, SaveRow
    <2>2. CASE Upload(e)
      BY <1>5, <2>2 DEF Upload
    <2>3. CASE Remove(e)
      <3>1. form[e] \in File /\ file' = [form[e] EXCEPT !.deleted = TRUE]
        BY <2>3, <1>17 DEF Remove, SaveRow, TypeOK
      <3> QED BY <3>1 DEF File
    <2> QED BY <1>17, <2>1, <2>2, <2>3 DEF CloseForm
  <1>18. CASE Reprocess
    BY <1>5, <1>18 DEF Reprocess
  <1>19. CASE QueueListed
    BY <1>6, <1>19 DEF QueueListed
  <1> QED BY <1>7, <1>8, <1>9, <1>10, <1>11, <1>12, <1>13, <1>14, <1>15, <1>16,
             <1>17, <1>18, <1>19 DEF Next

-----------------------------------------------------------------------------
(* A file that is ready shows its document *)

\* A step of another actor that either is noted as an interference or leaves the
\* document and its pages, and makes nothing ready.
LEMMA QuietStep ==
    ASSUME Truth, UNCHANGED <<run, page>>,
           mixed' = {} =>
               /\ mixed = {}
               /\ \/ file'.doc = file.doc /\ file'.count = file.count
                  \/ Running = {} /\ file'.status \notin {"ready", "quarantined"}
               /\ \/ file'.status = file.status
                  \/ file'.status \notin {"ready", "quarantined"}
    PROVE  Truth'
  <1>1. Running' = Running
    BY DEF Running
  <1>2. RunsInOrder'
    BY <1>1 DEF Truth, RunsInOrder, InOrder
  <1>3. RunIsAlone'
    <2> SUFFICES ASSUME mixed' = {}, NEW w \in Running
                 PROVE  /\ \A v \in Running : v = w
                        /\ Undisturbed(run[w], file', page)
      BY <1>1 DEF RunIsAlone, Undisturbed, DrawnSoFar, NoPages, PageNumbers
    <2>1. /\ \A v \in Running : v = w
          /\ Undisturbed(run[w], file, page)
      BY DEF Truth, RunIsAlone
    <2>2. /\ file'.doc = file.doc
          /\ file'.count = file.count
          /\ file'.status \notin {"ready", "quarantined"}
      BY <2>1 DEF Undisturbed
    <2> QED BY <2>1, <2>2 DEF Undisturbed
  <1>4. StatusMatchesDocument'
    BY DEF Truth, StatusMatchesDocument, PagesOf, PageNumbers
  <1> QED BY <1>2, <1>3, <1>4 DEF Truth

\* A run goes on.
LEMMA RunStep ==
    ASSUME TypeOK, Truth, NEW w \in Workers, run[w] # NoRun,
           NEW r, r \in Run, run' = [run EXCEPT ![w] = r], mixed' = mixed,
           InOrder(r),
           mixed = {} => Undisturbed(r, file', page')
    PROVE  Truth'
  <1>1. ASSUME NEW v \in Running'
        PROVE  v \in Running /\ run'[v] = IF v = w THEN r ELSE run[v]
    BY <1>1 DEF Running, TypeOK
  <1>2. w \in Running
    BY DEF Running
  <1>3. RunsInOrder'
    BY <1>1 DEF Truth, RunsInOrder, InOrder
  <1>4. ASSUME mixed = {}, NEW v \in Running'
        PROVE  v = w
    BY <1>1, <1>2, <1>4 DEF Truth, RunIsAlone
  <1>5. RunIsAlone'
    BY <1>1, <1>4 DEF RunIsAlone, Undisturbed, DrawnSoFar, NoPages, PageNumbers
  <1>6. StatusMatchesDocument'
    BY DEF StatusMatchesDocument, Undisturbed
  <1> QED BY <1>3, <1>5, <1>6 DEF Truth

\* A run ends.
LEMMA EndStep ==
    ASSUME TypeOK, Truth, NEW w \in Workers, run[w] # NoRun,
           run' = [run EXCEPT ![w] = NoRun], mixed' = mixed,
           StatusMatchesDocument'
    PROVE  Truth'
  <1>1. ASSUME NEW v \in Running'
        PROVE  v \in Running /\ run'[v] = run[v] /\ v # w
    BY <1>1 DEF Running, TypeOK
  <1>2. w \in Running
    BY DEF Running
  <1>3. RunsInOrder'
    BY <1>1 DEF Truth, RunsInOrder, InOrder
  <1>4. RunIsAlone'
    BY <1>1, <1>2 DEF Truth, RunIsAlone
  <1> QED BY <1>3, <1>4 DEF Truth

\* A worker that begins: alone, or noted as an overlap.
LEMMA StartTruth ==
    ASSUME TypeOK, Truth, NEW w \in Workers, Start(w)
    PROVE  Truth'
  <1>1. CASE UNCHANGED <<file, old, run, mixed>>
    BY <1>1, QuietStep DEF Start
  <1>2. CASE /\ Write("scanning")
             /\ run' = [run EXCEPT ![w] =
                            [at |-> "started", doc |-> file.doc, next |-> 1]]
             /\ mixed' = IF Running = {} THEN {} ELSE mixed \cup {"overlap"}
    <2> DEFINE r == [at |-> "started", doc |-> file.doc, next |-> 1]
    <2>1. file.doc \in Docs /\ file'.doc = file.doc /\ file'.status = "scanning"
      BY <1>2 DEF Write, TypeOK, File
    <2>2. InOrder(r) /\ Undisturbed(r, file', page')
      BY <2>1, LengthType DEF InOrder, Undisturbed
    <2>3. ASSUME NEW v \in Running'
          PROVE  \/ v = w /\ run'[v] = r
                 \/ v # w /\ v \in Running /\ run'[v] = run[v]
      BY <1>2, <2>3 DEF Running, TypeOK
    <2>4. RunsInOrder'
      BY <2>2, <2>3 DEF Truth, RunsInOrder, InOrder
    <2>5. RunIsAlone'
      <3>1. mixed' = {} => Running = {}
        BY <1>2
      <3> QED BY <2>2, <2>3, <3>1
                 DEF RunIsAlone, Undisturbed, DrawnSoFar, NoPages, PageNumbers
    <2>6. StatusMatchesDocument'
      BY <2>1 DEF StatusMatchesDocument
    <2> QED BY <2>4, <2>5, <2>6 DEF Truth
  <1> QED BY <1>1, <1>2 DEF Start

\* A worker at work.
LEMMA WorkTruth ==
    ASSUME TypeOK, Truth, NEW w \in Workers, Work(w)
    PROVE  Truth'
  <1>1. run[w] # NoRun /\ run[w] \in Run /\ w \in Running /\ mixed' = mixed
    BY RunningType DEF Work
  <1>2. /\ run[w].doc \in Docs
        /\ run[w].next \in 1..(MaxPages + 1)
        /\ run[w].at \in Stages
        /\ run[w] = [at |-> run[w].at, doc |-> run[w].doc, next |-> run[w].next]
    BY <1>1 DEF Run
  <1>3. InOrder(run[w])
    BY <1>1 DEF Truth, RunsInOrder
  <1>4. mixed = {} => Undisturbed(run[w], file, page)
    BY <1>1 DEF Truth, RunIsAlone
  <1>5. Length[run[w].doc] \in 1..MaxPages /\ MaxPages \in Nat
    BY <1>2, LengthType
  <1>6. file \in File /\ page \in [PageNumbers -> Docs \cup {NoDoc}]
    BY DEF TypeOK
  <1>7. CASE Report(w)
    <2>1. PICK report \in Reports(run[w].doc) :
              /\ run[w].at = report[1]
              /\ run[w].at = "scanning" => run[w].doc \notin Infected
              /\ Write(report[2])
              /\ run' = [run EXCEPT ![w].at = report[3]]
              /\ page' = page
      BY <1>7 DEF Report
    <2> DEFINE r == [run[w] EXCEPT !.at = report[3]]
    <2>2. report[3] \in Stages \ {"counted"}
      BY DEF Reports, Stages
    <2>3. r \in Run /\ r.at = report[3] /\ r.doc = run[w].doc /\ r.next = run[w].next
      BY <1>1, <2>2 DEF Run
    <2>4. run' = [run EXCEPT ![w] = r]
      BY <2>1
    <2>5. run[w].at \in {"started", "scanning", "converting", "deleted"}
          /\ (report[3] = "deleted" => FALSE)
          /\ (report[3] = "drawing" => run[w].at = "deleted")
          /\ (report[3] \notin {"started", "scanning"} => run[w].at # "started")
      BY <2>1 DEF Reports
    <2>6. InOrder(r)
      BY <1>3, <2>1, <2>2, <2>3, <2>5 DEF InOrder
    <2>7. file'.doc = file.doc /\ file'.status \notin {"ready", "quarantined"}
      BY <1>6, <2>1 DEF Write, File, Reports
    <2>8. ASSUME mixed = {}
          PROVE  Undisturbed(r, file', page')
      <3>1. CASE report[3] = "drawing"
        <4>1. run[w].next = 1 /\ page = NoPages
          BY <1>3, <1>4, <2>5, <2>8, <3>1 DEF InOrder, Undisturbed
        <4>2. DrawnSoFar(r) = NoPages
          BY <1>5, <2>3, <4>1 DEF DrawnSoFar, NoPages, PageNumbers
        <4> QED BY <1>4, <2>1, <2>3, <2>7, <2>8, <3>1, <4>1, <4>2 DEF Undisturbed
      <3>2. CASE report[3] # "drawing"
        BY <1>4, <2>2, <2>3, <2>5, <2>7, <2>8, <3>2 DEF Undisturbed
      <3> QED BY <3>1, <3>2
    <2> HIDE DEF r
    <2> QED BY <1>1, <2>3, <2>4, <2>6, <2>8, RunStep
  <1>8. CASE DeletePages(w)
    <2> DEFINE at == IF run[w].doc \in Images THEN "drawing" ELSE "deleted"
               r == [run[w] EXCEPT !.at = at]
    <2>1. run' = [run EXCEPT ![w] = r] /\ page' = NoPages /\ file' = file
      BY <1>8 DEF DeletePages
    <2>2. r \in Run /\ r.at = at /\ r.doc = run[w].doc /\ r.next = run[w].next
      BY <1>1 DEF Run, Stages
    <2>3. run[w].at \in {"rendering", "extracting"}
      BY <1>8 DEF DeletePages
    <2>4. InOrder(r) /\ r.next = 1
      BY <1>3, <2>2, <2>3 DEF InOrder
    <2>5. DrawnSoFar(r) = NoPages
      BY <1>5, <2>4 DEF DrawnSoFar, NoPages, PageNumbers
    <2>6. mixed = {} => Undisturbed(r, file', page')
      BY <1>4, <2>1, <2>2, <2>5 DEF Undisturbed
    <2> HIDE DEF r
    <2> QED BY <1>1, <2>1, <2>2, <2>4, <2>6, RunStep
  <1>9. CASE Draw(w)
    <2> DEFINE r == [run[w] EXCEPT !.next = run[w].next + 1]
    <2>1. /\ run[w].at = "drawing"
          /\ run[w].next <= Length[run[w].doc]
          /\ page' = [page EXCEPT ![run[w].next] = run[w].doc]
          /\ run' = [run EXCEPT ![w] = r]
          /\ file' = file
      BY <1>9 DEF Draw
    <2>2. run[w].next + 1 \in 1..(MaxPages + 1)
      BY <1>2, <1>5, <2>1
    <2>3. r \in Run /\ r.at = "drawing" /\ r.doc = run[w].doc
          /\ r.next = run[w].next + 1
      BY <1>1, <2>1, <2>2 DEF Run
    <2>4. InOrder(r)
      BY <1>2, <1>3, <1>5, <2>1, <2>3 DEF InOrder
    <2>5. ASSUME mixed = {}
          PROVE  Undisturbed(r, file', page')
      <3>1. page = DrawnSoFar(run[w])
        BY <1>4, <2>1, <2>5 DEF Undisturbed
      <3>2. page' = DrawnSoFar(r)
        <4> HIDE DEF r
        <4>1. ASSUME NEW n \in PageNumbers
              PROVE  page'[n] = IF n < r.next THEN r.doc ELSE NoDoc
          BY <1>2, <2>1, <2>3, <3>1, <4>1 DEF DrawnSoFar, PageNumbers
        <4>2. page' = [n \in PageNumbers |-> page'[n]]
          BY <1>6, <2>1
        <4> QED BY <4>1, <4>2 DEF DrawnSoFar
      <3> QED BY <1>4, <2>1, <2>3, <2>5, <3>2 DEF Undisturbed
    <2> HIDE DEF r
    <2> QED BY <1>1, <2>1, <2>3, <2>4, <2>5, RunStep
  <1>10. CASE SaveCount(w)
    <2> DEFINE r == [run[w] EXCEPT !.at = "counted"]
    <2>1. /\ run[w].at = "drawing"
          /\ run[w].next > Length[run[w].doc]
          /\ file' = [file EXCEPT !.count = Length[run[w].doc]]
          /\ run' = [run EXCEPT ![w] = r]
          /\ page' = page
      BY <1>10 DEF SaveCount
    <2>2. r \in Run /\ r.at = "counted" /\ r.doc = run[w].doc /\ r.next = run[w].next
      BY <1>1 DEF Run, Stages
    <2>3. InOrder(r)
      BY <1>2, <1>3, <1>5, <2>1, <2>2 DEF InOrder
    <2>4. /\ file'.doc = file.doc /\ file'.status = file.status
          /\ file'.count = Length[run[w].doc]
      BY <1>6, <2>1 DEF File
    <2>5. DrawnSoFar(r) = DrawnSoFar(run[w])
      BY <2>2 DEF DrawnSoFar
    <2>6. mixed = {} => Undisturbed(r, file', page')
      BY <1>4, <2>1, <2>2, <2>4, <2>5 DEF Undisturbed
    <2> HIDE DEF r
    <2> QED BY <1>1, <2>1, <2>2, <2>3, <2>6, RunStep
  <1>11. CASE Finish(w)
    <2>1. /\ run[w].at = "counted" /\ page' = page
          /\ run' = [run EXCEPT ![w] = NoRun]
          /\ file' = [file EXCEPT !.status = "ready"]
      BY <1>11 DEF Finish, Write
    <2>2. /\ file'.doc = file.doc /\ file'.count = file.count
          /\ file'.status = "ready"
      BY <1>6, <2>1 DEF File
    <2>3. ASSUME mixed = {}
          PROVE  /\ page = PagesOf(file.doc)
                 /\ file.count = Length[file.doc]
                 /\ file.doc \notin Infected
      <3>1. /\ page = DrawnSoFar(run[w])
            /\ run[w].doc = file.doc
            /\ file.count = Length[file.doc]
        BY <1>4, <2>1, <2>3 DEF Undisturbed
      <3>2. run[w].next = Length[run[w].doc] + 1 /\ run[w].doc \notin Infected
        BY <1>3, <2>1 DEF InOrder
      <3>3. DrawnSoFar(run[w]) = PagesOf(run[w].doc)
        BY <1>5, <3>2 DEF DrawnSoFar, PagesOf, PageNumbers
      <3> QED BY <3>1, <3>2, <3>3
    <2>4. StatusMatchesDocument'
      BY <1>1, <2>1, <2>2, <2>3 DEF StatusMatchesDocument, PagesOf, PageNumbers
    <2> QED BY <1>1, <2>1, <2>4, EndStep
  <1>12. CASE Quarantine(w)
    <2>1. /\ run[w].doc \in Infected
          /\ run' = [run EXCEPT ![w] = NoRun]
          /\ file' = [file EXCEPT !.status = "quarantined"]
      BY <1>12 DEF Quarantine, Write
    <2>2. file'.doc = file.doc /\ file'.status = "quarantined"
      BY <1>6, <2>1 DEF File
    <2>3. StatusMatchesDocument'
      BY <1>1, <1>4, <2>1, <2>2 DEF StatusMatchesDocument, Undisturbed
    <2> QED BY <1>1, <2>1, <2>3, EndStep
  <1> QED BY <1>7, <1>8, <1>9, <1>10, <1>11, <1>12 DEF Work

\* A run that fails or is lost.
LEMMA LostTruth ==
    ASSUME TypeOK, Truth, NEW w \in Workers, Fail(w) \/ Die(w)
    PROVE  Truth'
  <1>1. run[w] # NoRun /\ run' = [run EXCEPT ![w] = NoRun] /\ mixed' = mixed
    BY DEF Fail, Die
  <1>2. CASE Fail(w)
    <2>1. file'.status = "failed"
      BY <1>2 DEF Fail, Write, TypeOK, File
    <2>2. StatusMatchesDocument'
      BY <2>1 DEF StatusMatchesDocument
    <2> QED BY <1>1, <2>2, EndStep
  <1>3. CASE Die(w)
    <2>1. StatusMatchesDocument'
      BY <1>3 DEF Die, Truth, StatusMatchesDocument, PagesOf, PageNumbers
    <2> QED BY <1>1, <2>1, EndStep
  <1> QED BY <1>2, <1>3

\* Everyone else.
LEMMA OthersTruth ==
    ASSUME TypeOK, Truth,
           \/ GrowOld \/ Sweep \/ Send \/ BrokerDown \/ LoseDispatch
           \/ \E e \in Editors : OpenForm(e) \/ CloseForm(e)
           \/ Reprocess \/ ListFile \/ QueueListed
    PROVE  Truth'
  <1>1. file \in File
    BY DEF TypeOK
  <1>2. ASSUME NEW s \in Status \ {"ready", "quarantined"},
               file' = [file EXCEPT !.status = s],
               UNCHANGED <<run, page>>, mixed' = {} => mixed = {}
        PROVE  Truth'
    <2>1. /\ file'.doc = file.doc /\ file'.count = file.count
          /\ file'.status \notin {"ready", "quarantined"}
      BY <1>1, <1>2 DEF File
    <2> QED BY <1>2, <2>1, QuietStep
  <1>3. CASE \/ GrowOld \/ Send \/ LoseDispatch \/ ListFile
             \/ \E e \in Editors : OpenForm(e)
    BY <1>3, QuietStep DEF GrowOld, Send, LoseDispatch, ListFile, OpenForm
  <1>4. CASE Sweep \/ Reprocess
    BY <1>2, <1>4 DEF Sweep, Reprocess, Write, Status
  <1>5. CASE QueueListed
    <2>1. mixed' = {} => mixed = {}
      BY <1>5 DEF QueueListed
    <2> QED BY <1>2, <1>5, <2>1 DEF QueueListed, Status
  <1>6. CASE BrokerDown
    <2>1. CASE file.status = "queued"
      BY <1>2, <1>6, <2>1 DEF BrokerDown, Status
    <2>2. CASE file.status # "queued"
      BY <1>6, <2>2, QuietStep DEF BrokerDown
    <2> QED BY <2>1, <2>2
  <1>7. ASSUME NEW e \in Editors, CloseForm(e)
        PROVE  Truth'
    <2>1. form[e] \in File
      BY <1>7 DEF CloseForm, TypeOK
    <2>2. CASE SaveForm(e)
      <3>1. /\ file' = form[e] /\ UNCHANGED <<run, page>>
            /\ mixed' = {} => mixed = {} /\ form[e] = file
        BY <2>2 DEF SaveForm, SaveRow, Stale
      <3> QED BY <3>1, QuietStep
    <2>3. CASE Upload(e)
      <3>1. PICK d \in Docs :
                /\ file' = [form[e] EXCEPT !.doc = d, !.count = Detected(d),
                                           !.status = "queued"]
                /\ mixed' = mixed \cup
                       ((IF Running = {} THEN {} ELSE {"upload"})
                        \cup (IF file.deleted THEN {"form"} ELSE {}))
                /\ UNCHANGED <<run, page>>
        BY <2>3 DEF Upload, SaveRow
      <3>2. file'.status = "queued"
        BY <2>1, <3>1 DEF File
      <3>3. mixed' = {} => mixed = {} /\ Running = {}
        BY <3>1
      <3> QED BY <3>1, <3>2, <3>3, QuietStep
    <2>4. CASE Remove(e)
      <3>1. /\ file' = [form[e] EXCEPT !.deleted = TRUE]
            /\ UNCHANGED <<run, page>>
            /\ mixed' = {} => mixed = {} /\ form[e] = file
        BY <2>4 DEF Remove, SaveRow, Stale
      <3>2. /\ file'.doc = form[e].doc /\ file'.count = form[e].count
            /\ file'.status = form[e].status
        BY <2>1, <3>1 DEF File
      <3> QED BY <3>1, <3>2, QuietStep
    <2> QED BY <1>7, <2>2, <2>3, <2>4 DEF CloseForm
  <1> QED BY <1>3, <1>4, <1>5, <1>6, <1>7

\* Every step keeps the truth.
LEMMA NextTruth == TypeOK /\ Truth /\ [Next]_vars => Truth'
  <1> SUFFICES ASSUME TypeOK, Truth, [Next]_vars PROVE Truth'
    OBVIOUS
  <1>1. CASE UNCHANGED vars
    BY <1>1, QuietStep DEF vars
  <1>2. CASE Next
    BY <1>2, StartTruth, WorkTruth, LostTruth, OthersTruth DEF Next
  <1> QED BY <1>1, <1>2

-----------------------------------------------------------------------------
(* The theorems *)

\* A file that was just uploaded, or is older than the viewer.
LEMMA InitInv == Init => FileInv
  <1> SUFFICES ASSUME Init PROVE FileInv
    OBVIOUS
  <1>1. PICK d \in Docs, status \in {"queued", "pending"} :
            file = [doc |-> d, count |-> Detected(d), status |-> status,
                    deleted |-> FALSE]
    BY DEF Init
  <1>2. file \in File
    BY <1>1, LengthType DEF File, Status
  <1>3. dispatches \in Nat /\ queue \in Nat /\ sent \in 0..MaxSent
        /\ edits \in 0..MaxEdits
    BY FileAssumption DEF Init
  <1>4. page \in [PageNumbers -> Docs \cup {NoDoc}]
    BY DEF Init, NoPages
  <1>5. /\ run \in [Workers -> Run \cup {NoRun}]
        /\ form \in [Editors -> File \cup {NoForm}]
    BY DEF Init
  <1>6. TypeOK
    BY <1>2, <1>3, <1>4, <1>5 DEF Init, TypeOK
  <1>7. QueuedHasMessage
    BY DEF Init, QueuedHasMessage
  <1>8. Truth
    BY <1>1 DEF Init, Truth, Running, RunsInOrder, RunIsAlone, StatusMatchesDocument
  <1> QED BY <1>6, <1>7, <1>8 DEF FileInv

\* The inductive invariant of library files.
THEOREM FilesInvariance == Spec => []FileInv
  <1>1. FileInv /\ [Next]_vars => FileInv'
    BY NextType, NextQueued, NextTruth DEF FileInv
  <1> QED BY InitInv, <1>1, PTL DEF Spec

\* Every variable has its type.
THEOREM FilesTypeCorrect == Spec => []TypeOK
  <1>1. FileInv => TypeOK
    BY DEF FileInv
  <1> QED BY FilesInvariance, <1>1, PTL

\* A run that nothing has interfered with leaves the truth.
THEOREM FilesTruth == Spec => []StatusMatchesDocument
  <1>1. FileInv => StatusMatchesDocument
    BY DEF FileInv, Truth
  <1> QED BY FilesInvariance, <1>1, PTL

\* A file that waits has a message, unless a process died before it sent it.
THEOREM FilesQueued == Spec => []QueuedHasMessage
  <1>1. FileInv => QueuedHasMessage
    BY DEF FileInv
  <1> QED BY FilesInvariance, <1>1, PTL

\* Only a new document, or an interference, leads out of quarantine.
LEMMA NextQuarantine ==
    ASSUME TypeOK, Truth, Next, file.status = "quarantined",
           file'.status # "quarantined"
    PROVE  (\E e \in Editors : Upload(e)) \/ mixed' # {}
  <1>1. file \in File
    BY DEF TypeOK
  <1>2. ASSUME NEW w \in Workers, Start(w)
        PROVE  FALSE
    BY <1>2 DEF Start, Settled
  <1>3. ASSUME NEW w \in Workers, Work(w) \/ Fail(w) \/ Die(w)
        PROVE  mixed' # {}
    <2>1. w \in Running /\ mixed' = mixed
      BY <1>3, RunningType DEF Work, Fail, Die
    <2> QED BY <2>1 DEF Truth, RunIsAlone, Undisturbed
  <1>4. ASSUME \/ GrowOld \/ Sweep \/ Send \/ BrokerDown \/ LoseDispatch
               \/ Reprocess \/ ListFile \/ \E e \in Editors : OpenForm(e)
        PROVE  FALSE
    BY <1>4 DEF GrowOld, Sweep, Send, BrokerDown, LoseDispatch, Reprocess,
                ListFile, OpenForm, InFlight
  <1>5. ASSUME NEW e \in Editors, SaveForm(e) \/ Remove(e)
        PROVE  mixed' # {}
    <2> SUFFICES ASSUME form[e] = file PROVE FALSE
      BY <1>5 DEF SaveForm, Remove, SaveRow, Stale
    <2>1. file'.status = file.status
      BY <1>1, <1>5 DEF SaveForm, Remove, SaveRow, File
    <2> QED BY <2>1
  <1>6. CASE QueueListed
    BY <1>6 DEF QueueListed
  <1> QED BY <1>2, <1>3, <1>4, <1>5, <1>6 DEF Next, CloseForm

\* Whatever runs, sweeps, messages and reprocesses do, a document that was
\* rejected stays in quarantine.
THEOREM FilesQuarantine == Spec => QuarantineStands
  <1>1. FileInv /\ [Next]_vars =>
            [(file.status = "quarantined" /\ file'.status # "quarantined") =>
                 (\E e \in Editors : Upload(e)) \/ mixed' # {}]_vars
    BY NextQuarantine DEF FileInv
  <1> QED BY FilesInvariance, <1>1, PTL DEF Spec, QuarantineStands

=============================================================================
