-------------------------- MODULE LectureConversion --------------------------
(***************************************************************************)
(* A lecture from its upload to the pages that students read: the task of  *)
(* the conversion workers and the sweep of stuck lectures                  *)
(* (apps/lectures/tasks.py, apps/lectures/document_pipeline.py), the forms *)
(* and the retry of the dashboard (apps/lectures/views.py).                *)
(*                                                                         *)
(* A document never changes, unlike that of a library file; what changes   *)
(* while it is converted is whether the lecture is published.  The task    *)
(* keeps the row in memory from its first transaction to its last          *)
(* statement.  Two runs of it meet when a manager retries what Celery      *)
(* retries as well, or what has only waited for long.                      *)
(***************************************************************************)
EXTENDS Integers

CONSTANTS
    Length,    \* the number of pages of the document
    Workers,   \* processes that run the task
    Editors,   \* requests of the dashboard
    MaxSent,   \* bound on messages, redeliveries included
    MaxEdits   \* bound on requests of the dashboard

Parameters ==
    /\ Length \in Nat \ {0}
    /\ MaxSent \in Nat /\ MaxEdits \in Nat

VARIABLES
    lecture,    \* the Lecture row
    old,        \* its updated_at is more than half an hour ago
    pages,      \* the numbers of its LecturePage rows
    dispatches, \* commits whose message has not been sent yet
    queue,      \* messages of the conversion queue
    run,        \* what each worker is doing
    form,       \* the row each dashboard request was filled from
    mixed,      \* what has spoilt the pages of the latest runs
    sent, edits \* counters of MaxSent and MaxEdits

vars == <<lecture, old, pages, dispatches, queue, run, form, mixed, sent, edits>>

\* LectureProcessingStatus; nothing stores "uploaded".
Status == {"queued", "scanning", "converting", "extracting", "rendering",
           "ready", "failed", "quarantined"}

\* _IN_FLIGHT_STATUSES.
InFlight == {"scanning", "converting", "extracting", "rendering"}

\* viewer: viewer_pdf and page_count; stamped: published_at.
Lecture == [status : Status, viewer : BOOLEAN, published : BOOLEAN,
            stamped : BOOLEAN, deleted : BOOLEAN]

\* The stages of a run, and what it remembers of the row.
Run == [at : {"started", "scanning", "converting", "extracting", "deleted",
              "drawing", "stored"},
        published : BOOLEAN, stamped : BOOLEAN, next : 1..(Length + 1)]

NoRun  == [at |-> "idle"]
NoForm == [open |-> FALSE]

TypeOK ==
    /\ lecture \in Lecture
    /\ old \in BOOLEAN
    /\ pages \subseteq 1..Length
    /\ dispatches \in Nat
    /\ queue \in Nat
    /\ run \in [Workers -> Run \cup {NoRun}]
    /\ form \in [Editors -> Lecture \cup {NoForm}]
    /\ mixed \subseteq {"form", "broken", "published"}
    /\ sent \in 0..MaxSent
    /\ edits \in 0..MaxEdits

\* A document was uploaded, to be published at once or later.
Init ==
    /\ lecture \in [status : {"queued"}, viewer : {FALSE}, published : BOOLEAN,
                    stamped : {FALSE}, deleted : {FALSE}]
    /\ old = FALSE
    /\ pages = {}
    /\ dispatches = 1
    /\ queue = 0
    /\ run = [w \in Workers |-> NoRun]
    /\ form = [e \in Editors |-> NoForm]
    /\ mixed = {}
    /\ sent = 0
    /\ edits = 0

Running == {w \in Workers : run[w] # NoRun}

\* A statement that updates the row, updated_at among its columns.
Write(row) == lecture' = row /\ old' = FALSE

\* _set_status.
WriteStatus(status) == Write([lecture EXCEPT !.status = status])

\* A message is put on the queue, for the first time or again.
Enqueue ==
    /\ sent < MaxSent
    /\ sent' = sent + 1
    /\ queue' = queue + 1

-----------------------------------------------------------------------------
(* The task *)

Settled ==
    \/ lecture.deleted
    \/ lecture.status = "ready" /\ lecture.viewer
    \/ lecture.status = "quarantined"

\* The transaction that begins process_lecture_document.
Start(w) ==
    /\ queue > 0
    /\ run[w] = NoRun
    /\ queue' = queue - 1
    /\ \/ /\ Settled
          /\ UNCHANGED <<lecture, old, run, mixed>>
       \/ /\ ~Settled
          /\ WriteStatus("scanning")
          /\ run' = [run EXCEPT ![w] =
                [at |-> "started", published |-> lecture.published,
                 stamped |-> lecture.stamped, next |-> 1]]
          /\ mixed' = IF Running = {} THEN {} ELSE mixed
    /\ UNCHANGED <<pages, dispatches, form, sent, edits>>

\* The statuses create_viewer_assets reports, and where it is before and after.
Reports ==
    {[from |-> "started",    status |-> "scanning",   to |-> "scanning"],
     [from |-> "scanning",   status |-> "converting", to |-> "converting"],
     [from |-> "converting", status |-> "extracting", to |-> "extracting"],
     [from |-> "deleted",    status |-> "rendering",  to |-> "drawing"]}

Report(w) ==
    /\ \E report \in Reports :
        /\ run[w].at = report.from
        /\ WriteStatus(report.status)
        /\ run' = [run EXCEPT ![w].at = report.to]
    /\ UNCHANGED pages

\* _delete_existing_page_files.
DeletePages(w) ==
    /\ run[w].at = "extracting"
    /\ pages' = {}
    /\ run' = [run EXCEPT ![w].at = "deleted"]
    /\ UNCHANGED <<lecture, old>>

\* LecturePage.objects.create; a number that is taken ends the run.
Draw(w) ==
    /\ run[w].at = "drawing"
    /\ run[w].next \in 1..Length \ pages
    /\ pages' = pages \cup {run[w].next}
    /\ run' = [run EXCEPT ![w].next = @ + 1]
    /\ UNCHANGED <<lecture, old>>

\* MUTANT: the last page is not waited for.
MutantStoreViewer(w) ==
    /\ run[w].at = "drawing"
    /\ run[w].next >= Length
    /\ Write([lecture EXCEPT !.viewer = TRUE])
    /\ run' = [run EXCEPT ![w].at = "stored"]
    /\ UNCHANGED pages

\* The last statement of create_viewer_assets.
StoreViewer(w) ==
    /\ run[w].at = "drawing"
    /\ run[w].next > Length
    /\ Write([lecture EXCEPT !.viewer = TRUE])
    /\ run' = [run EXCEPT ![w].at = "stored"]
    /\ UNCHANGED pages

\* The last statement of the task writes what it remembers.
Finish(w) ==
    /\ run[w].at = "stored"
    /\ Write([lecture EXCEPT !.status = "ready", !.viewer = TRUE,
                             !.stamped = run[w].stamped \/ run[w].published])
    /\ run' = [run EXCEPT ![w] = NoRun]
    /\ UNCHANGED pages

\* QuarantinedDocumentError: the antivirus, which learns, rejects the document.
Quarantine(w) ==
    /\ run[w].at = "scanning"
    /\ WriteStatus("quarantined")
    /\ run' = [run EXCEPT ![w] = NoRun]
    /\ UNCHANGED pages

Work(w) ==
    /\ run[w] # NoRun
    /\ \/ Report(w) \/ DeletePages(w) \/ Draw(w) \/ StoreViewer(w)
       \/ Finish(w) \/ Quarantine(w)
    /\ UNCHANGED <<dispatches, queue, form, mixed, sent, edits>>

\* Another run of the task has drawn the page first.
Taken(w) == run[w].at = "drawing" /\ run[w].next \in pages

\* A run breaks off that has deleted the pages, maybe of another run.
Breaks(w) ==
    mixed' = IF run[w].at \in {"deleted", "drawing"} /\ ~Taken(w)
             THEN mixed \cup {"broken"} ELSE mixed

\* Any other exception, the soft time limit included.  autoretry_for sends the
\* task again after an OSError or a TimeoutError.
Fail(w) ==
    /\ run[w] # NoRun
    /\ run[w].at # "stored"
    /\ WriteStatus("failed")
    /\ run' = [run EXCEPT ![w] = NoRun]
    /\ Breaks(w)
    /\ Enqueue \/ UNCHANGED <<queue, sent>>
    /\ UNCHANGED <<pages, dispatches, form, edits>>

\* The worker is lost, and its message delivered again (acks_late), or killed
\* at the hard time limit.
Die(w) ==
    /\ run[w] # NoRun
    /\ run' = [run EXCEPT ![w] = NoRun]
    /\ Breaks(w)
    /\ Enqueue \/ UNCHANGED <<queue, sent>>
    /\ UNCHANGED <<lecture, old, pages, dispatches, form, edits>>

-----------------------------------------------------------------------------
(* Time *)

\* Half an hour without a write to the row.  A run writes when it starts and
\* lasts sixteen minutes at most (time_limit), a request seconds; a message may
\* wait longer.
GrowOld ==
    /\ ~old
    /\ lecture.status \in InFlight \cup {"queued"}
    /\ Running = {}
    /\ \A e \in Editors : form[e] = NoForm
    /\ dispatches = 0
    /\ old' = TRUE
    /\ UNCHANGED <<lecture, pages, dispatches, queue, run, form, mixed, sent, edits>>

\* fail_stuck_lectures.
Sweep ==
    /\ lecture.status \in InFlight
    /\ old
    /\ ~lecture.deleted
    /\ WriteStatus("failed")
    /\ UNCHANGED <<pages, dispatches, queue, run, form, mixed, sent, edits>>

-----------------------------------------------------------------------------
(* _dispatch_lecture_processing, after the commit *)

Send ==
    /\ dispatches > 0
    /\ dispatches' = dispatches - 1
    /\ Enqueue
    /\ UNCHANGED <<lecture, old, pages, run, form, mixed, edits>>

\* The broker refuses the message: a lecture that still waits has failed.
BrokerDown ==
    /\ dispatches > 0
    /\ dispatches' = dispatches - 1
    /\ IF lecture.status = "queued" /\ ~lecture.deleted THEN WriteStatus("failed")
       ELSE UNCHANGED <<lecture, old>>
    /\ UNCHANGED <<pages, queue, run, form, mixed, sent, edits>>

\* The process dies first.
LoseDispatch ==
    /\ dispatches > 0
    /\ dispatches' = dispatches - 1
    /\ UNCHANGED <<lecture, old, pages, queue, run, form, mixed, sent, edits>>

-----------------------------------------------------------------------------
(* The dashboard *)

Edit == edits < MaxEdits /\ edits' = edits + 1

\* lecture_is_retryable: failed, or without progress for half an hour.
Retryable ==
    \/ lecture.status = "failed"
    \/ lecture.status \in InFlight \cup {"queued"} /\ old

\* DashboardLectureViewSet.retry, which locks the row.
Retry ==
    /\ Edit
    /\ ~lecture.deleted
    /\ Retryable
    /\ WriteStatus("queued")
    /\ dispatches' = dispatches + 1
    /\ UNCHANGED <<pages, queue, run, form, mixed, sent>>

\* A request reads the row (get_object).
OpenForm(e) ==
    /\ Edit
    /\ form[e] = NoForm
    /\ ~lecture.deleted
    /\ form' = [form EXCEPT ![e] = lecture]
    /\ UNCHANGED <<lecture, old, pages, dispatches, queue, run, mixed, sent>>

\* It saves every column of what it read, with its change.
SaveRow(e, row) ==
    /\ Write(row)
    /\ form' = [form EXCEPT ![e] = NoForm]
    /\ mixed' = mixed \cup (IF form[e] = lecture THEN {} ELSE {"form"})
                      \cup (IF Running # {} /\ row.published /\ ~lecture.published
                            THEN {"published"} ELSE {})
    /\ UNCHANGED <<pages, dispatches, queue, run, sent, edits>>

\* perform_update, DashboardLectureSerializer.update: publish, withdraw, or
\* change what is not modelled.
Save(e) ==
    /\ form[e] # NoForm
    /\ \E published \in BOOLEAN :
          SaveRow(e, [form[e] EXCEPT
              !.published = published,
              !.stamped = @ \/ (published /\ ~form[e].published)])

\* destroy.
Remove(e) ==
    /\ form[e] # NoForm
    /\ SaveRow(e, [form[e] EXCEPT !.deleted = TRUE])

-----------------------------------------------------------------------------

Next ==
    \/ \E w \in Workers : Start(w) \/ Work(w) \/ Fail(w) \/ Die(w)
    \/ GrowOld \/ Sweep
    \/ Send \/ BrokerDown \/ LoseDispatch
    \/ Retry
    \/ \E e \in Editors : OpenForm(e) \/ Save(e) \/ Remove(e)

Spec == Init /\ [][Next]_vars

-----------------------------------------------------------------------------
(* Properties *)

\* Runs of the task may meet, delete each other's pages and take each other's
\* numbers: when all is quiet, a lecture that is ready has its document and all
\* its pages, and the time of its publication if it is published.  The
\* exceptions: a run broke off after it had deleted pages of another, a form
\* has put an old row back, or the lecture was published during a run, which
\* then writes over the time it had not seen.
ReadyIsComplete ==
    (lecture.status = "ready" /\ Running = {} /\ mixed = {}) =>
        /\ lecture.viewer /\ pages = 1..Length
        /\ lecture.published => lecture.stamped
=============================================================================
