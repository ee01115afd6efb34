--------------------------- MODULE PrintConversion ---------------------------
(***************************************************************************)
(* One Word or PowerPoint file on its way to a PDF that can be printed:    *)
(* the request that stores it, the task of the conversion workers and the  *)
(* purge of what has expired (apps/printing/views.py,                      *)
(* apps/printing/tasks.py).                                                *)
(*                                                                         *)
(* A file and the row that names it are written and deleted one after the  *)
(* other, without a transaction or a lock, by three kinds of processes.    *)
(* What a process saves is what it has in memory; saving the whole row     *)
(* inserts it again when it was deleted, saving some columns is then an    *)
(* error.  The storage gives every file a new name.                        *)
(***************************************************************************)
EXTENDS Integers

CONSTANTS
    Pdfs,     \* names of converted files
    Input,    \* name of the upload
    None,     \* no file
    Workers,  \* processes that run the task
    MaxSent   \* bound on messages, redeliveries included

Parameters ==
    /\ MaxSent \in Nat
    /\ Input # None
    /\ {Input, None} \cap Pdfs = {}

VARIABLES
    row,      \* the PrintConversion row
    stored,   \* files in the storage
    expired,  \* expires_at has passed
    upload,   \* how far the request has come
    queue,    \* messages of the task
    run,      \* what each worker is doing, and its copy of the row
    purge,    \* the same for the purge
    mixed,    \* what has come between two steps of a process
    sent      \* counter of MaxSent

vars == <<row, stored, expired, upload, queue, run, purge, mixed, sent>>

\* PrintConversionStatus, and no row.
Row == [status : {"pending", "ready", "failed"}, input : {Input, None},
        pdf : Pdfs \cup {None}]

NoRow == [status |-> "none", input |-> None, pdf |-> None]

Run == [at : {"convert", "store", "save", "tidy", "saveAll", "fail", "tidyFailed"},
        mem : Row]

Purge == [at : {"input", "pdf", "row"}, mem : Row]

Free == [at |-> "idle", mem |-> NoRow]

TypeOK ==
    /\ row \in Row \cup {NoRow}
    /\ stored \subseteq Pdfs \cup {Input}
    /\ expired \in BOOLEAN
    /\ upload \in {"create", "file", "row", "send", "done"}
    /\ queue \in Nat
    /\ run \in [Workers -> Run \cup {Free}]
    /\ purge \in Purge \cup {Free}
    /\ mixed \subseteq {"cut", "twice", "purged"}
    /\ sent \in 0..MaxSent

Init ==
    /\ row = NoRow
    /\ stored = {}
    /\ expired = FALSE
    /\ upload = "create"
    /\ queue = 0
    /\ run = [w \in Workers |-> Free]
    /\ purge = Free
    /\ mixed = {}
    /\ sent = 0

Running == {w \in Workers : run[w] # Free}

Enqueue ==
    /\ sent < MaxSent
    /\ sent' = sent + 1
    /\ queue' = queue + 1

-----------------------------------------------------------------------------
(* The request *)

Uploads(from, to) == upload = from /\ upload' = to

CreateRow ==
    /\ Uploads("create", "file")
    /\ row' = [status |-> "pending", input |-> None, pdf |-> None]
    /\ UNCHANGED <<stored, expired, queue, run, purge, mixed, sent>>

\* input_file.save(..., save=True): the file, then the row.
StoreInput ==
    /\ Uploads("file", "row")
    /\ stored' = stored \cup {Input}
    /\ UNCHANGED <<row, expired, queue, run, purge, mixed, sent>>

SaveInput ==
    /\ Uploads("row", "send")
    /\ row' = [row EXCEPT !.input = Input]
    /\ UNCHANGED <<stored, expired, queue, run, purge, mixed, sent>>

\* convert_print_document.delay, or the broker refuses; the request then only
\* reads the row again and again.
Send ==
    /\ Uploads("send", "done")
    /\ Enqueue \/ UNCHANGED <<queue, sent>>
    /\ UNCHANGED <<row, stored, expired, run, purge, mixed>>

\* The process is lost.
CutUpload ==
    /\ upload \in {"file", "row", "send"}
    /\ upload' = "done"
    /\ mixed' = mixed \cup {"cut"}
    /\ UNCHANGED <<row, stored, expired, queue, run, purge, sent>>

\* expires_at passes, hours after the request.
Expire ==
    /\ upload = "done"
    /\ ~expired
    /\ expired' = TRUE
    /\ UNCHANGED <<row, stored, upload, queue, run, purge, mixed, sent>>

-----------------------------------------------------------------------------
(* The task *)

Goes(w, place) == run' = [run EXCEPT ![w].at = place]
Ends(w) == run' = [run EXCEPT ![w] = Free]

\* convert_print_document reads the row.
Take(w) ==
    /\ queue > 0
    /\ run[w] = Free
    /\ queue' = queue - 1
    /\ IF row.status = "pending" /\ row.input = Input
       THEN /\ run' = [run EXCEPT ![w] = [at |-> "convert", mem |-> row]]
            /\ mixed' = mixed \cup (IF Running = {} THEN {} ELSE {"twice"})
                              \cup (IF purge = Free THEN {} ELSE {"purged"})
       ELSE UNCHANGED <<run, mixed>>
    /\ UNCHANGED <<row, stored, expired, upload, purge, sent>>

\* It copies the upload and converts it.
Convert(w) ==
    /\ run[w].at = "convert"
    /\ Input \in stored
    /\ Goes(w, "store")
    /\ UNCHANGED <<row, stored>>

\* pdf_file.save(..., save=False).
StorePdf(w) ==
    /\ run[w].at = "store"
    /\ \E f \in Pdfs \ (stored \cup {row.pdf}) :
          /\ stored' = stored \cup {f}
          /\ run' = [run EXCEPT ![w].at = "save", ![w].mem.pdf = f]
    /\ UNCHANGED row

\* The update of pdf_file, pages_count and status.
SaveReady(w) ==
    /\ run[w].at = "save"
    /\ row # NoRow
    /\ row' = [row EXCEPT !.status = "ready", !.pdf = run[w].mem.pdf]
    /\ run' = [run EXCEPT ![w].at = "tidy", ![w].mem.status = "ready"]
    /\ UNCHANGED stored

\* input_file.delete(save=True): the file ...
DeleteInput(w) ==
    /\ run[w].at \in {"tidy", "tidyFailed"}
    /\ stored' = stored \ {Input}
    /\ run' = [run EXCEPT ![w].at = "saveAll", ![w].mem.input = None]
    /\ UNCHANGED row

\* ... and then the row, all of it.
SaveAll(w) ==
    /\ run[w].at = "saveAll"
    /\ row' = run[w].mem
    /\ Ends(w)
    /\ UNCHANGED stored

\* _fail: the update of the status, an error when there is no row, and the
\* deletion of the input unless it has been deleted.
SaveFailed(w) ==
    /\ run[w].at = "fail"
    /\ IF row = NoRow THEN Ends(w) /\ UNCHANGED row
       ELSE /\ row' = [row EXCEPT !.status = "failed"]
            /\ IF run[w].mem.input = None THEN Ends(w)
               ELSE run' = [run EXCEPT ![w].at = "tidyFailed",
                                       ![w].mem.status = "failed"]
    /\ UNCHANGED stored

Work(w) ==
    /\ run[w] # Free
    /\ \/ Convert(w) \/ StorePdf(w) \/ SaveReady(w) \/ DeleteInput(w)
       \/ SaveAll(w) \/ SaveFailed(w)
    /\ UNCHANGED <<expired, upload, queue, purge, mixed, sent>>

\* The converter, the storage or the database raises an exception, or the soft
\* time limit has come.
Raise(w) ==
    /\ run[w].at \in {"convert", "store", "save", "tidy", "saveAll"}
    /\ run[w].mem.status # "failed"
    /\ Goes(w, "fail")
    /\ UNCHANGED <<row, stored, expired, upload, queue, purge, mixed, sent>>

\* An exception in _fail, or the worker is lost: its message comes back, or not.
Die(w) ==
    /\ run[w] # Free
    /\ Ends(w)
    /\ mixed' = mixed \cup {"cut"}
    /\ Enqueue \/ UNCHANGED <<queue, sent>>
    /\ UNCHANGED <<row, stored, expired, upload, purge>>

\* The broker delivers a message again whose run it takes for lost.
Redeliver ==
    /\ Running # {}
    /\ Enqueue
    /\ UNCHANGED <<row, stored, expired, upload, run, purge, mixed>>

-----------------------------------------------------------------------------
(* purge_expired_print_conversions *)

Purges(place) == purge' = [purge EXCEPT !.at = place]

\* The purge finds the row after its time.
ReadExpired ==
    /\ purge = Free
    /\ expired
    /\ row # NoRow
    /\ purge' = [at |-> "input", mem |-> row]
    /\ mixed' = mixed \cup (IF Running = {} THEN {} ELSE {"purged"})
    /\ UNCHANGED <<row, stored, expired, upload, queue, run, sent>>

PurgeInput ==
    /\ purge.at = "input"
    /\ stored' = stored \ {purge.mem.input}
    /\ Purges("pdf")
    /\ UNCHANGED <<row, expired, upload, queue, run, mixed, sent>>

\* MUTANT: only the upload is deleted.
MutantPurgePdf ==
    /\ purge.at = "pdf"
    /\ Purges("row")
    /\ UNCHANGED <<row, stored, expired, upload, queue, run, mixed, sent>>

PurgePdf ==
    /\ purge.at = "pdf"
    /\ stored' = stored \ {purge.mem.pdf}
    /\ Purges("row")
    /\ UNCHANGED <<row, expired, upload, queue, run, mixed, sent>>

PurgeRow ==
    /\ purge.at = "row"
    /\ row' = NoRow
    /\ purge' = Free
    /\ UNCHANGED <<stored, expired, upload, queue, run, mixed, sent>>

\* The purge is lost; the next one finds the row again.
CutPurge ==
    /\ purge # Free
    /\ purge' = Free
    /\ UNCHANGED <<row, stored, expired, upload, queue, run, mixed, sent>>

-----------------------------------------------------------------------------

Next ==
    \/ CreateRow \/ StoreInput \/ SaveInput \/ Send \/ CutUpload \/ Expire
    \/ \E w \in Workers : Take(w) \/ Work(w) \/ Raise(w) \/ Die(w)
    \/ Redeliver
    \/ ReadExpired \/ PurgeInput \/ PurgePdf \/ PurgeRow \/ CutPurge

Spec == Init /\ [][Next]_vars

-----------------------------------------------------------------------------
(* Properties *)

\* What is offered for printing is there: whatever runs and requests overlap,
\* a conversion that is ready and not expired has its PDF.
ReadyHasPdf ==
    row.status = "ready" /\ ~expired => row.pdf \in stored

\* The files go with the row, "short-lived by design": at rest, once the row is
\* deleted, no file is left of a conversion whose processes were not cut off
\* and did not meet.
FilesGoWithRow ==
    (/\ row = NoRow /\ upload = "done" /\ mixed = {}
     /\ Running = {} /\ purge = Free) => stored = {}

\* Files and row match.
FilesMatchRow == ReadyHasPdf /\ FilesGoWithRow
=============================================================================
