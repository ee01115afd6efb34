----------------------------- MODULE MCServices -----------------------------
(***************************************************************************)
(* Services of the server that share no state, each on a small instance:   *)
(* the synchronisation of annotations, the codes and the lock of the       *)
(* sign-in, the sockets and the notification of a chat, the conversion of  *)
(* a lecture and that of a file to be printed.  A behaviour is one of one  *)
(* of them, while the others rest in their initial state.                  *)
(***************************************************************************)
EXTENDS AnnotationSync, TLC

CONSTANTS
    tablet, telephone, first, second,   \* devices and marks
    \* OneTimeCodes
    Senders, Checks, MaxAttempts, NoCode, MaxCodes,
    \* LoginLockout
    Identifiers, Requests, Threshold, NoKey, MaxGuesses,
    \* ChatSocket and ChatNotice
    Tickets, Sockets, TTL, NoTicket, MaxVersion, Messages, MaxDeliveries,
    \* LectureConversion and PrintConversion
    Length, Editors, MaxForms, Pdfs, Input, None, Workers, MaxSent

MCAuthor == (first :> tablet) @@ (second :> telephone)

VARIABLES
    service,  \* the one that works
    row, sender, check, mail, mailed, wrong, consumed,
    fails, lock, request, guesses, erased,
    version, active, member, ticket, socket, lapse, worst, opened,
    notices, news, notifying, recent, rung, excused, handled, spoilt, told,
    lecture, old, pages, dispatches, queue, run, form, mixed, sent, forms,
    upload, purge, conversion, stored, expired, printing, tasks, met, delivered

codes    == <<row, sender, check, mail, mailed, wrong, consumed>>
lockout  == <<fails, lock, request, guesses, erased>>
sockets  == <<version, active, member, ticket, socket, lapse, worst, opened>>
chat     == <<notices, news, notifying, recent, rung, excused, handled, spoilt, told>>
lectures == <<lecture, old, pages, dispatches, queue, run, form, mixed, sent, forms>>
prints   == <<upload, purge, conversion, stored, expired, printing, tasks, met,
              delivered>>

allVars == <<service, vars, codes, lockout, sockets, chat, lectures, prints>>

Codes   == INSTANCE OneTimeCodes
Lockout == INSTANCE LoginLockout
Socket  == INSTANCE ChatSocket
Notice  == INSTANCE ChatNotice
             WITH rows <- notices, queue <- news, run <- notifying, sent <- told
Lecture == INSTANCE LectureConversion
             WITH edits <- forms, MaxEdits <- MaxForms
Printed == INSTANCE PrintConversion
             WITH row <- conversion, queue <- printing, run <- tasks, mixed <- met,
                  sent <- delivered

ASSUME ServicesAssumption ==
    /\ Codes!Parameters /\ Lockout!Parameters
    /\ Socket!Parameters /\ Notice!Parameters
    /\ Lecture!Parameters /\ Printed!Parameters

ServicesInit ==
    /\ service \in {"annotations", "codes", "lockout", "sockets", "chat",
                    "lectures", "prints"}
    /\ Init /\ Codes!Init /\ Lockout!Init /\ Socket!Init /\ Notice!Init
    /\ Lecture!Init /\ Printed!Init
    /\ lecture.published => service = "lectures"

ServicesNext ==
    /\ UNCHANGED service
    /\ \/ /\ service = "annotations" /\ Next
          /\ UNCHANGED <<codes, lockout, sockets, chat, lectures, prints>>
       \/ /\ service = "codes" /\ Codes!Next
          /\ UNCHANGED <<vars, lockout, sockets, chat, lectures, prints>>
       \/ /\ service = "lockout" /\ Lockout!Next
          /\ UNCHANGED <<vars, codes, sockets, chat, lectures, prints>>
       \/ /\ service = "sockets" /\ Socket!Next
          /\ UNCHANGED <<vars, codes, lockout, chat, lectures, prints>>
       \/ /\ service = "chat" /\ Notice!Next
          /\ UNCHANGED <<vars, codes, lockout, sockets, lectures, prints>>
       \/ /\ service = "lectures" /\ Lecture!Next
          /\ UNCHANGED <<vars, codes, lockout, sockets, chat, prints>>
       \/ /\ service = "prints" /\ Printed!Next
          /\ UNCHANGED <<vars, codes, lockout, sockets, chat, lectures>>

ServicesSpec == ServicesInit /\ [][ServicesNext]_allVars

Symmetry == Permutations(Senders) \cup Permutations(Checks)

-----------------------------------------------------------------------------

\* A one-time code answers a few wrong guesses and is accepted once.
CodeIsSpent == Codes!CodeIsSpent

\* An account that is not cleared takes a few wrong passwords.
GuessesBounded == Lockout!GuessesBounded

\* A ticket opens one socket.
TicketOpensOnce == Socket!TicketOpensOnce

\* Who has lost the right to a chat is shut out of it in time.
StaleBounded == Socket!StaleBounded

\* A message is in the notification of its chat, and counted.
NewsIsKept == Notice!NewsIsKept

\* A burst of messages rings once.
BurstIsFolded == Notice!BurstIsFolded

\* A lecture that is ready has what students are to read.
ReadyIsComplete == Lecture!ReadyIsComplete

\* A file that is ready to be printed is there, and goes with its row.
FilesMatchRow == Printed!FilesMatchRow
=============================================================================
