--------------------------- MODULE FileProcessing ---------------------------
(***************************************************************************)
(* A library file on its way to protected page images: the task of the     *)
(* conversion workers and the sweep of stuck files (apps/files/tasks.py,   *)
(* apps/files/viewer_pipeline.py), and what the staff does to the file     *)
(* meanwhile (apps/files/views.py, the process_library_files command).     *)
(*                                                                         *)
(* The task locks the row only to begin.  From then on it writes, one      *)
(* statement after the other, what it holds in memory, and every other     *)
(* actor may write in between: another run of the task, a form of the      *)
(* dashboard that saves the whole row it was filled from, a reprocess.     *)
(* Messages may be delivered again when a worker is lost, and the process  *)
(* that committed a row may die before it has sent the message.            *)
(***************************************************************************)
EXTENDS Integers

CONSTANTS
    Docs,       \* documents that may be uploaded
    Length,     \* their numbers of pages
    Images,     \* those that are pictures
    Office,     \* those whose pages are counted only once they are converted
    Infected,   \* those the antivirus rejects
    NoDoc,      \* no page
    MaxPages,   \* bound on the length of a document
    Workers,    \* processes that run the task
    Editors,    \* requests of the dashboard
    MaxSent,    \* bound on messages, redeliveries included
    MaxEdits    \* bound on requests of the dashboard

ASSUME FileAssumption ==
    /\ MaxPages \in Nat \ {0}
    /\ Length \in [Docs -> 1..MaxPages]
    /\ Images \cap Office = {}
    /\ \A d \in Images : Length[d] = 1
    /\ NoDoc \notin Docs
    /\ MaxSent \in Nat
    /\ MaxEdits \in Nat

VARIABLES
    file,       \* the FileResource row
    old,        \* its updated_at is more than half an hour ago
    page,       \* the document each FilePage row is an image of
    dispatches, \* commits whose message has not been sent yet
    queue,      \* messages of the conversion queue
    run,        \* what each worker is doing, and with which document
    form,       \* the row each dashboard request was filled from
    listed,     \* the command has selected the file
    mixed,      \* what has interfered with the latest run
    lost,       \* a process died between its commit and its message
    sent, edits \* counters of MaxSent and MaxEdits

vars == <<file, old, page, dispatches, queue, run, form, listed, mixed, lost,
          sent, edits>>

Status == {"pending", "queued", "scanning", "converting", "extracting",
           "rendering", "ready", "failed", "quarantined"}

\* IN_FLIGHT_FILE_STATUSES.
InFlight == {"scanning", "converting", "extracting", "rendering"}

PageNumbers == 1..MaxPages

File == [doc : Docs, count : 0..MaxPages, status : Status, deleted : BOOLEAN]

Stages == {"started", "scanning", "converting", "extracting", "rendering",
           "deleted", "drawing", "counted"}

Run == [at : Stages, doc : Docs, next : 1..(MaxPages + 1)]

NoRun  == [at |-> "idle"]
NoForm == [open |-> FALSE]

Causes == {"overlap", "upload", "form", "command"}

TypeOK ==
    /\ file \in File
    /\ old \in BOOLEAN
    /\ page \in [PageNumbers -> Docs \cup {NoDoc}]
    /\ dispatches \in Nat
    /\ queue \in Nat
    /\ run \in [Workers -> Run \cup {NoRun}]
    /\ form \in [Editors -> File \cup {NoForm}]
    /\ listed \in BOOLEAN
    /\ mixed \in SUBSET Causes
    /\ lost \in BOOLEAN
    /\ sent \in 0..MaxSent
    /\ edits \in 0..MaxEdits

\* detect_pages_count: what an upload tells of its length.
Detected(d) == IF d \in Office THEN 0 ELSE Length[d]

NoPages == [n \in PageNumbers |-> NoDoc]

\* All pages of a document and no other.
PagesOf(d) == [n \in PageNumbers |-> IF n <= Length[d] THEN d ELSE NoDoc]

\* The file was just uploaded, or is older than the viewer.
Init ==
    /\ file \in {[doc |-> d, count |-> Detected(d), status |-> status,
                  deleted |-> FALSE] : d \in Docs, status \in {"queued", "pending"}}
    /\ dispatches = IF file.status = "queued" THEN 1 ELSE 0
    /\ old = FALSE
    /\ page = NoPages
    /\ queue = 0
    /\ run = [w \in Workers |-> NoRun]
    /\ form = [e \in Editors |-> NoForm]
    /\ listed = FALSE
    /\ mixed = {}
    /\ lost = FALSE
    /\ sent = 0
    /\ edits = 0

Running == {w \in Workers : run[w] # NoRun}

\* resource.save(update_fields=[..., "updated_at"]) with a status.
Write(status) ==
    /\ file' = [file EXCEPT !.status = status]
    /\ old' = FALSE

\* A message is put on the queue, for the first time or again.
Enqueue ==
    /\ sent < MaxSent
    /\ sent' = sent + 1
    /\ queue' = queue + 1

-----------------------------------------------------------------------------
(* The task *)

\* What the task finds done, or not to be done.
Settled ==
    \/ file.deleted
    \/ file.status = "ready" /\ page # NoPages
    \/ file.status = "quarantined"

\* The transaction that begins process_file_resource.
Start(w) ==
    /\ queue > 0
    /\ run[w] = NoRun
    /\ queue' = queue - 1
    /\ \/ /\ Settled
          /\ UNCHANGED <<file, old, run, mixed>>
       \/ /\ ~Settled
          /\ Write("scanning")
          /\ run' = [run EXCEPT ![w] =
                        [at |-> "started", doc |-> file.doc, next |-> 1]]
          /\ mixed' = IF Running = {} THEN {} ELSE mixed \cup {"overlap"}
    /\ UNCHANGED <<page, dispatches, form, listed, lost, sent, edits>>

\* What build_file_pages reports on its way: where it is, the status it writes
\* and where it is then.  The antivirus comes between the first and the second.
Reports(d) ==
    IF d \in Images
    THEN {<<"started", "scanning", "scanning">>,
          <<"scanning", "rendering", "rendering">>}
    ELSE {<<"started", "scanning", "scanning">>,
          <<"scanning", "converting", "converting">>,
          <<"converting", "extracting", "extracting">>,
          <<"deleted", "rendering", "drawing">>}

Report(w) ==
    /\ \E report \in Reports(run[w].doc) :
        /\ run[w].at = report[1]
        /\ run[w].at = "scanning" => run[w].doc \notin Infected
        /\ Write(report[2])
        /\ run' = [run EXCEPT ![w].at = report[3]]
    /\ UNCHANGED page

\* _delete_existing_pages: pictures are decoded first, documents announce the
\* rendering afterwards.
MutantDeletePages(w) ==
    LET d == run[w].doc IN
    /\ run[w].at = IF d \in Images THEN "rendering" ELSE "extracting"
    /\ run' = [run EXCEPT ![w].at = IF d \in Images THEN "drawing" ELSE "deleted"]
    /\ page' = [n \in PageNumbers |-> IF n <= Length[d] THEN NoDoc ELSE page[n]]
    /\ UNCHANGED <<file, old>>

DeletePages(w) ==
    LET d == run[w].doc IN
    /\ run[w].at = IF d \in Images THEN "rendering" ELSE "extracting"
    /\ run' = [run EXCEPT ![w].at = IF d \in Images THEN "drawing" ELSE "deleted"]
    /\ page' = NoPages
    /\ UNCHANGED <<file, old>>

\* FilePage.objects.create, one page after the other.  A number that is taken
\* (files_page_unique) leaves the run nothing but to fail.
Draw(w) ==
    /\ run[w].at = "drawing"
    /\ run[w].next <= Length[run[w].doc]
    /\ page[run[w].next] = NoDoc
    /\ page' = [page EXCEPT ![run[w].next] = run[w].doc]
    /\ run' = [run EXCEPT ![w].next = @ + 1]
    /\ UNCHANGED <<file, old>>

\* The last statement of build_file_pages.
SaveCount(w) ==
    /\ run[w].at = "drawing"
    /\ run[w].next > Length[run[w].doc]
    /\ file' = [file EXCEPT !.count = Length[run[w].doc]]
    /\ old' = FALSE
    /\ run' = [run EXCEPT ![w].at = "counted"]
    /\ UNCHANGED page

\* The end of the task: ready, whatever has become of the row.
Finish(w) ==
    /\ run[w].at = "counted"
    /\ Write("ready")
    /\ run' = [run EXCEPT ![w] = NoRun]
    /\ UNCHANGED page

\* QuarantinedDocumentError.
Quarantine(w) ==
    /\ run[w].at = "scanning"
    /\ run[w].doc \in Infected
    /\ Write("quarantined")
    /\ run' = [run EXCEPT ![w] = NoRun]
    /\ UNCHANGED page

\* A step of a run that ends with itself.
Work(w) ==
    /\ run[w] # NoRun
    /\ \/ Report(w)
       \/ DeletePages(w)
       \/ Draw(w)
       \/ SaveCount(w)
       \/ Finish(w)
       \/ Quarantine(w)
    /\ UNCHANGED <<dispatches, queue, form, listed, mixed, lost, sent, edits>>

\* Any other exception, the soft time limit included.  autoretry_for sends the
\* task again after an OSError or a TimeoutError.
Fail(w) ==
    /\ run[w] # NoRun
    /\ run[w].at # "counted"
    /\ Write("failed")
    /\ run' = [run EXCEPT ![w] = NoRun]
    /\ Enqueue \/ UNCHANGED <<queue, sent>>
    /\ UNCHANGED <<page, dispatches, form, listed, mixed, lost, edits>>

\* The worker is lost, and its message delivered again (acks_late), or killed
\* at the hard time limit.
Die(w) ==
    /\ run[w] # NoRun
    /\ run' = [run EXCEPT ![w] = NoRun]
    /\ Enqueue \/ UNCHANGED <<queue, sent>>
    /\ UNCHANGED <<file, old, page, dispatches, form, listed, mixed, lost, edits>>

-----------------------------------------------------------------------------
(* The sweep *)

\* Half an hour without a write to the row.  A run writes when it starts and
\* lasts sixteen minutes at most (time_limit), a request seconds.
GrowOld ==
    /\ ~old
    /\ file.status \in InFlight
    /\ Running = {}
    /\ \A e \in Editors : form[e] = NoForm
    /\ dispatches = 0
    /\ old' = TRUE
    /\ UNCHANGED <<file, page, dispatches, queue, run, form, listed, mixed, lost,
                   sent, edits>>

\* fail_stuck_files.
MutantSweep ==
    /\ file.status \in InFlight \ {"rendering"}
    /\ old
    /\ ~file.deleted
    /\ Write("failed")
    /\ UNCHANGED <<page, dispatches, queue, run, form, listed, mixed, lost, sent,
                   edits>>

Sweep ==
    /\ file.status \in InFlight
    /\ old
    /\ ~file.deleted
    /\ Write("failed")
    /\ UNCHANGED <<page, dispatches, queue, run, form, listed, mixed, lost, sent,
                   edits>>

-----------------------------------------------------------------------------
(* dispatch_file_processing, after the commit *)

Send ==
    /\ dispatches > 0
    /\ dispatches' = dispatches - 1
    /\ Enqueue
    /\ UNCHANGED <<file, old, page, run, form, listed, mixed, lost, edits>>

\* The broker refuses the message: a file that still waits has failed.
MutantBrokerDown ==
    /\ dispatches > 0
    /\ dispatches' = dispatches - 1
    /\ UNCHANGED <<file, old, page, queue, run, form, listed, mixed, lost, sent,
                   edits>>

BrokerDown ==
    /\ dispatches > 0
    /\ dispatches' = dispatches - 1
    /\ file' = IF file.status = "queued" THEN [file EXCEPT !.status = "failed"]
               ELSE file
    /\ UNCHANGED <<old, page, queue, run, form, listed, mixed, lost, sent, edits>>

\* The process dies first.
LoseDispatch ==
    /\ dispatches > 0
    /\ dispatches' = dispatches - 1
    /\ lost' = TRUE
    /\ UNCHANGED <<file, old, page, queue, run, form, listed, mixed, sent, edits>>

-----------------------------------------------------------------------------
(* The staff *)

\* A request of the dashboard reads the row (get_object).
OpenForm(e) ==
    /\ form[e] = NoForm
    /\ ~file.deleted
    /\ edits < MaxEdits
    /\ edits' = edits + 1
    /\ form' = [form EXCEPT ![e] = file]
    /\ UNCHANGED <<file, old, page, dispatches, queue, run, listed, mixed, lost,
                   sent>>

\* The request saves every column of what it read, with its change.
SaveRow(e, row, causes) ==
    /\ form[e] # NoForm
    /\ form' = [form EXCEPT ![e] = NoForm]
    /\ file' = row
    /\ old' = FALSE
    /\ mixed' = mixed \cup causes
    /\ UNCHANGED <<page, queue, run, listed, lost, sent, edits>>

Stale(e) == IF form[e] = file THEN {} ELSE {"form"}

\* perform_update without a document.  A file that is still queued is taken for
\* one with a new document.
SaveForm(e) ==
    /\ SaveRow(e, form[e], Stale(e))
    /\ dispatches' = IF form[e].status = "queued" THEN dispatches + 1
                     ELSE dispatches

\* perform_update with a new document (_prepare_upload).
Upload(e) ==
    \E d \in Docs :
        /\ SaveRow(e, [form[e] EXCEPT !.doc = d, !.count = Detected(d),
                                      !.status = "queued"],
                   (IF Running = {} THEN {} ELSE {"upload"})
                   \cup (IF file.deleted THEN {"form"} ELSE {}))
        /\ dispatches' = dispatches + 1

\* destroy.
Remove(e) ==
    /\ SaveRow(e, [form[e] EXCEPT !.deleted = TRUE], Stale(e))
    /\ UNCHANGED dispatches

CloseForm(e) == form[e] # NoForm /\ (SaveForm(e) \/ Upload(e) \/ Remove(e))

\* _queue_reprocess, which locks the row: for one file or many.  (A file that is
\* deleted between the look-up and the lock stays deleted.)
MutantReprocess ==
    /\ edits < MaxEdits
    /\ edits' = edits + 1
    /\ ~(file.status \in InFlight /\ ~old)
    /\ ~file.deleted
    /\ Write("queued")
    /\ dispatches' = dispatches + 1
    /\ UNCHANGED <<page, queue, run, form, listed, mixed, lost, sent>>

Reprocess ==
    /\ edits < MaxEdits
    /\ edits' = edits + 1
    /\ ~(file.status \in InFlight /\ ~old)
    /\ file.status # "quarantined"
    /\ ~file.deleted
    /\ Write("queued")
    /\ dispatches' = dispatches + 1
    /\ UNCHANGED <<page, queue, run, form, listed, mixed, lost, sent>>

\* process_library_files selects its files.
ListFile ==
    /\ ~listed
    /\ ~file.deleted
    /\ file.status \in {"pending", "failed"}
    /\ edits < MaxEdits
    /\ edits' = edits + 1
    /\ listed' = TRUE
    /\ UNCHANGED <<file, old, page, dispatches, queue, run, form, mixed, lost, sent>>

\* ... and comes to this one, whatever it has become.  A broker that refuses
\* the message ends the command; --inline is a message taken at once.
QueueListed ==
    /\ listed
    /\ listed' = FALSE
    /\ file' = [file EXCEPT !.status = "queued"]
    /\ mixed' = IF file.status = "quarantined" THEN mixed \cup {"command"}
                ELSE mixed
    /\ \/ Enqueue /\ UNCHANGED lost
       \/ lost' = TRUE /\ UNCHANGED <<queue, sent>>
    /\ UNCHANGED <<old, page, dispatches, run, form, edits>>

-----------------------------------------------------------------------------
Next ==
    \/ \E w \in Workers : Start(w) \/ Work(w) \/ Fail(w) \/ Die(w)
    \/ GrowOld
    \/ Sweep
    \/ Send
    \/ BrokerDown
    \/ LoseDispatch
    \/ \E e \in Editors : OpenForm(e) \/ CloseForm(e)
    \/ Reprocess
    \/ ListFile
    \/ QueueListed

Spec == Init /\ [][Next]_vars

\* A run ends, by itself or at its time limit; a request ends; time passes; the
\* scheduler starts the sweep every ten minutes.
FairSpec ==
    /\ Spec
    /\ \A w \in Workers : WF_vars(Work(w) \/ Fail(w) \/ Die(w))
    /\ \A e \in Editors : WF_vars(CloseForm(e))
    /\ WF_vars(Send \/ BrokerDown \/ LoseDispatch)
    /\ WF_vars(GrowOld)
    /\ WF_vars(Sweep)

-----------------------------------------------------------------------------
(* Properties *)

\* A run that nothing has interfered with leaves the truth: a file that is
\* ready shows all pages of the document it holds, and no other; one that is
\* in quarantine was rejected.
StatusMatchesDocument ==
    mixed = {} =>
        /\ file.status = "ready" =>
            /\ page = PagesOf(file.doc)
            /\ file.count = Length[file.doc]
            /\ file.doc \notin Infected
        /\ file.status = "quarantined" => file.doc \in Infected

\* The same for a document that is uploaded while another is being processed:
\* "One protected page image (...) of a library file."
ReplacedDocumentShown ==
    (mixed \subseteq {"upload"} /\ file.status = "ready") =>
        page = PagesOf(file.doc)

\* A file waits only while a message for it is on its way, unless the process
\* that was to send it died: nobody sweeps files that wait.
QueuedHasMessage ==
    (file.status = "queued" /\ ~file.deleted /\ ~lost) => dispatches + queue > 0

\* Only a new document leads out of quarantine.
QuarantineStands ==
    [][(file.status = "quarantined" /\ file'.status # "quarantined") =>
            (\E e \in Editors : Upload(e)) \/ mixed' # {}]_vars

\* No file is processed for ever.
ProcessingEnds ==
    (file.status \in InFlight /\ ~file.deleted)
        ~> (file.status \notin InFlight \/ file.deleted)
=============================================================================
