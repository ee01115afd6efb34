------------------------- MODULE StudentVerification -------------------------
(***************************************************************************)
(* The identity verification of a student: the requests the student sends  *)
(* from several devices, the decisions of the staff, the academic form of  *)
(* the app and the question of the end of a term, which all write the one  *)
(* row of the student's profile.                                           *)
(*                                                                         *)
(* A submission reads the profile, checks it, locks the row, checks it     *)
(* again and saves the copy it read first.  The academic form saves the    *)
(* copy it read, too, without a lock.  Both copies are whole rows: what    *)
(* was written to the row in between is undone.                            *)
(***************************************************************************)
EXTENDS Integers, Sequences, FiniteSets

CONSTANTS
    Details,      \* university, faculty, major, year, semester and number
    Submitters,   \* requests to verifications/ that are served at a time
    Forms,        \* requests to students/me/ that are served at a time
    NotServed,    \* no such request
    MaxRequests,  \* bound: verification requests of the student
    MaxForms      \* bound: changes of the academic form

Parameters ==
    /\ MaxRequests \in Nat /\ MaxForms \in Nat
    /\ NotServed \notin [read : [status : STRING, details : Details, asked : BOOLEAN],
                         details : Details]

VARIABLES
    profile,        \* StudentProfile
    verifications,  \* VerificationRequest, in the order they were created
    submission,     \* Submitters -> the profile it read and the details it sends
    form,           \* Forms -> the same of the academic form
    forms,          \* forms begun
    reverted,       \* a stale copy has overwritten something
    moved,          \* the student has moved on since the approval
    due             \* a term has ended and the student has not answered

vars == <<profile, verifications, submission, form, forms, reverted, moved, due>>

Submittable == {"incomplete", "rejected", "needs_update"}

Decisions == {"approved", "rejected", "needs_update"}

Profile ==
    [status : Submittable \cup {"pending", "approved"}, details : Details,
     asked : BOOLEAN]

Request == [status : Decisions \cup {"pending"}, details : Details]

Served == [read : Profile, details : Details]

Open == {v \in DOMAIN verifications :
            verifications[v].status \in {"pending", "approved"}}

Pending == {v \in Open : verifications[v].status = "pending"}

TypeOK ==
    /\ profile \in Profile
    /\ verifications \in Seq(Request)
    /\ Len(verifications) <= MaxRequests
    /\ submission \in [Submitters -> Served \cup {NotServed}]
    /\ form \in [Forms -> Served \cup {NotServed}]
    /\ forms \in 0..MaxForms
    /\ reverted \in BOOLEAN /\ moved \in BOOLEAN /\ due \in BOOLEAN

\* A student who has just registered.
Init ==
    /\ profile \in [status : {"incomplete"}, details : Details, asked : {FALSE}]
    /\ verifications = <<>>
    /\ submission = [s \in Submitters |-> NotServed]
    /\ form = [f \in Forms |-> NotServed]
    /\ forms = 0
    /\ reverted = FALSE /\ moved = FALSE /\ due = FALSE

-----------------------------------------------------------------------------
(* The submission of a request *)

\* The serializer checks the profile it has read and that no request waits.
Submit(s) ==
    /\ submission[s] = NotServed
    /\ profile.status \in Submittable
    /\ Pending = {}
    /\ \E d \in Details :
          submission' = [submission EXCEPT ![s] = [read |-> profile, details |-> d]]
    /\ UNCHANGED <<profile, verifications, form, forms, reverted, moved, due>>

\* MUTANT: the status is checked before the lock only.
MutantMayCreate == Pending = {}

\* Under the lock of the row its status counts as it is now, and
\* unique_pending_verification_per_user allows one waiting request.
MayCreate == profile.status \in Submittable /\ Pending = {}

\* The request is inserted and the copy read by Submit is saved.
Create(s) ==
    /\ submission[s] # NotServed
    /\ MayCreate
    /\ Len(verifications) < MaxRequests
    /\ LET d == submission[s].details IN
          /\ verifications' = Append(verifications, [status |-> "pending", details |-> d])
          /\ profile' = [submission[s].read EXCEPT !.status = "pending", !.details = d]
    /\ reverted' = (reverted \/ submission[s].read.asked # profile.asked)
    /\ submission' = [submission EXCEPT ![s] = NotServed]
    /\ UNCHANGED <<form, forms, moved, due>>

\* Another submission came first, or another student has the number: the
\* transaction is rolled back.
CreateFails(s) ==
    /\ submission[s] # NotServed
    /\ submission' = [submission EXCEPT ![s] = NotServed]
    /\ UNCHANGED <<profile, verifications, form, forms, reverted, moved, due>>

-----------------------------------------------------------------------------
(* The decision *)

\* A decision is for a request that waits, or sends an approved one back.
Reviewable(v, decision) ==
    \/ verifications[v].status = "pending"
    \/ verifications[v].status = "approved" /\ decision = "needs_update"

\* Request and profile are read under their locks and written together.
Review(v, decision) ==
    /\ Reviewable(v, decision)
    /\ verifications' = [verifications EXCEPT ![v].status = decision]
    /\ profile' =
          [profile EXCEPT !.status = decision,
             !.details = IF decision = "approved" THEN verifications[v].details ELSE @]
    /\ moved' = (moved /\ decision # "approved")
    /\ UNCHANGED <<submission, form, forms, reverted, due>>

-----------------------------------------------------------------------------
(* The academic form *)

\* The details of a student whose request waits or is approved are not to be
\* changed, other fields are.
OpenForm(f) ==
    /\ form[f] = NotServed
    /\ forms < MaxForms
    /\ \E d \in Details :
          /\ profile.status \notin Submittable => d = profile.details
          /\ form' = [form EXCEPT ![f] = [read |-> profile, details |-> d]]
    /\ forms' = forms + 1
    /\ UNCHANGED <<profile, verifications, submission, reverted, moved, due>>

\* The whole copy is saved, with no look at what the row is now.
SaveForm(f) ==
    /\ form[f] # NotServed
    /\ profile' = [form[f].read EXCEPT !.details = form[f].details]
    /\ reverted' = (reverted \/ form[f].read # profile)
    /\ form' = [form EXCEPT ![f] = NotServed]
    /\ UNCHANGED <<verifications, submission, forms, moved, due>>

\* The number belongs to another student.
SaveFails(f) ==
    /\ form[f] # NotServed
    /\ form' = [form EXCEPT ![f] = NotServed]
    /\ UNCHANGED <<profile, verifications, submission, forms, reverted, moved, due>>

-----------------------------------------------------------------------------
(* The end of a term *)

\* One UPDATE of that column for every student.
Ask(ended) ==
    /\ due' = ended
    /\ profile' = [profile EXCEPT !.asked = ended]
    /\ UNCHANGED <<verifications, submission, form, forms, reverted, moved>>

EndTerm == Ask(TRUE)

\* An end of term that is undone takes the question back.
UndoTerm == Ask(FALSE)

\* The student answers, once, and may have moved to the next year.
Answer ==
    /\ profile.asked
    /\ \E d \in Details :
          /\ profile' = [profile EXCEPT !.details = d, !.asked = FALSE]
          /\ moved' = (moved \/ d # profile.details)
    /\ due' = FALSE
    /\ UNCHANGED <<verifications, submission, form, forms, reverted>>

Next ==
    \/ \E s \in Submitters : Submit(s) \/ Create(s) \/ CreateFails(s)
    \/ \E v \in DOMAIN verifications, decision \in Decisions : Review(v, decision)
    \/ \E f \in Forms : OpenForm(f) \/ SaveForm(f) \/ SaveFails(f)
    \/ EndTerm \/ UndoTerm \/ Answer

Spec == Init /\ [][Next]_vars

-----------------------------------------------------------------------------
(* What must hold *)

\* What the student was last told is what the profile says: its status is that
\* of the last request, an earlier one is closed, an approved student has the
\* details that were approved or those of a year the student moved to, and the
\* question of the end of a term waits for its answer.  A stale copy that
\* overwrites the row breaks this: see reverted.
LastRequest == verifications[Len(verifications)]

ProfileFollowsRequests ==
    ~reverted =>
        /\ profile.status =
              IF verifications = <<>> THEN "incomplete" ELSE LastRequest.status
        /\ Open \subseteq {Len(verifications)}
        /\ profile.status = "approved" /\ ~moved => profile.details = LastRequest.details
        /\ profile.asked = due
=============================================================================
