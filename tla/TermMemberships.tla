-------------------------- MODULE TermMemberships --------------------------
(***************************************************************************)
(* Who is in which group, term after term: subject registration            *)
(* (apps/enrollment/services.py), group memberships (apps/groups),         *)
(* the end of a term and its undo (apps/universities/terms.py), and the    *)
(* faculty communities joined on verification (apps/verification).         *)
(*                                                                         *)
(* Every operation is one transaction that holds the rows it acts on from  *)
(* the read to the commit, with one exception.  An end of term takes the   *)
(* lock of the CurrentTerm row, and before the first end of term there is  *)
(* no such row to lock: then it is a read and, later, a commit.            *)
(*                                                                         *)
(* A subject has one group here and stands for it.  Left out: the academic *)
(* hierarchy (one faculty), inactive groups, the WhatsApp channels, who    *)
(* performed a review, and GroupMembershipService.join, which nobody       *)
(* calls.  ended_at is set and cleared together with rollover.             *)
(***************************************************************************)
EXTENDS Naturals, Sequences

CONSTANTS
    Students,
    Subjects,      \* subjects, and their groups
    Communities,   \* groups of the faculty that are tied to no subject
    Requests,      \* identities of EnrollmentRequest rows
    Admins,        \* staff who may end a term, one request each at a time
    Terms,         \* semester and label
    MaxRollovers,  \* bound on the ends of term
    Null

Groups == Subjects \cup Communities

GroupMembershipStatus ==
    {"pending", "approved", "rejected", "blocked", "left", "term_ended"}

GroupMembership ==
    [status : GroupMembershipStatus, role : {"member", "moderator"},
     rollover : Nat]

EnrollmentStatus ==
    {"pending", "approved", "partially_approved", "rejected", "cancelled"}

EnrollmentRequest ==
    [user : Students, status : EnrollmentStatus, items : SUBSET Subjects,
     approved : SUBSET Subjects]

TermRollover == [from : Terms \cup {Null}, to : Terms, undone : BOOLEAN]

\* Null stands for a row that does not exist and for no term.
ASSUME MembershipAssumption ==
    /\ MaxRollovers \in Nat
    /\ Subjects \cap Communities = {}
    /\ Null \notin Terms \cup GroupMembership \cup EnrollmentRequest

VARIABLES
    membership,  \* GroupMembership rows
    enrollment,  \* EnrollmentRequest rows with their items
    verified,    \* students whose profile is approved
    asked,       \* needs_term_confirmation
    term,        \* the CurrentTerm row
    rollovers,   \* TermRollover rows, oldest first
    ending,      \* the term an admin is about to start, having read no term
    before,      \* approved memberships just before an end that can be undone
    staff,       \* moderators' memberships just before it
    touched      \* memberships decided by a person since then

vars == <<membership, enrollment, verified, asked, term, rollovers, ending,
          before, staff, touched>>

peopleVars == <<verified, asked>>
termVars == <<term, rollovers, ending>>
past == <<before, staff>>

TypeOK ==
    /\ membership \in [Students -> [Groups -> GroupMembership \cup {Null}]]
    /\ enrollment \in [Requests -> EnrollmentRequest \cup {Null}]
    /\ verified \in SUBSET Students
    /\ asked \in SUBSET Students
    /\ term \in Terms \cup {Null}
    /\ rollovers \in Seq(TermRollover)
    /\ ending \in [Admins -> Terms \cup {Null}]
    /\ {before, staff, touched} \subseteq SUBSET (Students \X Groups)

Init ==
    /\ membership = [s \in Students |-> [g \in Groups |-> Null]]
    /\ enrollment = [q \in Requests |-> Null]
    /\ verified = {}
    /\ asked = {}
    /\ term = Null
    /\ rollovers = <<>>
    /\ ending = [a \in Admins |-> Null]
    /\ before = {}
    /\ staff = {}
    /\ touched = {}

HasStatus(s, g, statuses) ==
    membership[s][g] # Null /\ membership[s][g].status \in statuses

Approved ==
    {m \in Students \X Groups : HasStatus(m[1], m[2], {"approved"})}

Moderated ==
    {m \in Students \X Groups :
        /\ HasStatus(m[1], m[2], GroupMembershipStatus)
        /\ membership[m[1]][m[2]].role = "moderator"}

\* The latest end of term stands: there is one, and it was not undone.
Standing == rollovers # <<>> /\ ~rollovers[Len(rollovers)].undone

-----------------------------------------------------------------------------
(* Admission *)

\* The row after add_to_group, which leaves a blocked or approved one alone;
\* rollover 0 is NULL.
MutantReadmitted(row) ==
    IF row = Null
    THEN [status |-> "approved", role |-> "member", rollover |-> 0]
    ELSE [row EXCEPT !.status = "approved", !.rollover = 0]

MutantAdmitted(row) ==
    IF row = Null
    THEN [status |-> "approved", role |-> "member", rollover |-> 0]
    ELSE IF row.status \in {"blocked", "approved"} THEN row
    ELSE [row EXCEPT !.status = "approved"]

Admitted(row) ==
    IF row = Null
    THEN [status |-> "approved", role |-> "member", rollover |-> 0]
    ELSE IF row.status \in {"blocked", "approved"} THEN row
    ELSE [row EXCEPT !.status = "approved", !.rollover = 0]

\* Decided by a person while the latest end of term stands.
Touch(s, groups) ==
    touched' = touched \cup {<<s, g>> : g \in IF Standing THEN groups ELSE {}}

\* add_to_group for each of the groups.
AddToGroups(s, groups) ==
    /\ membership' = [membership EXCEPT ![s] =
           [g \in Groups |-> IF g \in groups THEN Admitted(@[g]) ELSE @[g]]]
    /\ Touch(s, groups)

\* The student's open request; enrollment_one_pending_per_user keeps it single.
Pending(s) ==
    {q \in Requests : /\ enrollment[q] # Null
                      /\ enrollment[q].user = s
                      /\ enrollment[q].status = "pending"}

\* EnrollmentService.submit.
Submit(s, q, subjects) ==
    /\ s \in verified
    /\ subjects # {}
    /\ Pending(s) = {}
    /\ enrollment[q] = Null
    /\ enrollment' = [enrollment EXCEPT ![q] =
           [user |-> s, status |-> "pending", items |-> subjects,
            approved |-> {}]]
    /\ UNCHANGED <<membership, peopleVars, termVars, past, touched>>

\* EnrollmentService.cancel.
CancelRequest(q) ==
    /\ enrollment[q] # Null
    /\ enrollment[q].status = "pending"
    /\ enrollment' = [enrollment EXCEPT ![q].status = "cancelled"]
    /\ UNCHANGED <<membership, peopleVars, termVars, past, touched>>

MutantDecide(q, approved) ==
    /\ enrollment[q] # Null
    /\ enrollment[q].status = "pending"
    /\ approved \subseteq enrollment[q].items
    /\ enrollment' = [enrollment EXCEPT
           ![q].approved = approved,
           ![q].status = CASE approved = enrollment[q].items -> "approved"
                           [] approved = {} -> "rejected"
                           [] OTHER -> "partially_approved"]
    /\ AddToGroups(enrollment[q].user, enrollment[q].items)
    /\ UNCHANGED <<peopleVars, termVars, past>>

\* EnrollmentService.decide: the approved items put the student into their
\* groups, whatever happened since the request was sent.
Decide(q, approved) ==
    /\ enrollment[q] # Null
    /\ enrollment[q].status = "pending"
    /\ approved \subseteq enrollment[q].items
    /\ enrollment' = [enrollment EXCEPT
           ![q].approved = approved,
           ![q].status = CASE approved = enrollment[q].items -> "approved"
                           [] approved = {} -> "rejected"
                           [] OTHER -> "partially_approved"]
    /\ AddToGroups(enrollment[q].user, approved)
    /\ UNCHANGED <<peopleVars, termVars, past>>

\* VerificationService.review, approved: FacultyCommunityService.join follows.
Verify(s) ==
    /\ s \notin verified
    /\ verified' = verified \cup {s}
    /\ AddToGroups(s, Communities)
    /\ UNCHANGED <<enrollment, asked, termVars, past>>

\* VerificationService.review, needs update: the memberships stay.
SendBack(s) ==
    /\ s \in verified
    /\ verified' = verified \ {s}
    /\ UNCHANGED <<membership, enrollment, asked, termVars, past, touched>>

-----------------------------------------------------------------------------
(* Memberships *)

Decided(s, g, row) ==
    /\ membership' = [membership EXCEPT ![s][g] = row]
    /\ Touch(s, {g})
    /\ UNCHANGED <<enrollment, peopleVars, termVars, past>>

\* GroupMembershipService.leave.
Leave(s, g) ==
    /\ s \in verified
    /\ HasStatus(s, g, {"approved"})
    /\ Decided(s, g, [membership[s][g] EXCEPT !.status = "left"])

\* GroupMembershipService.review: an approval clears the rollover, a rejection
\* or a block keeps it.
Review(s, g, status) ==
    /\ membership[s][g] # Null
    /\ Decided(s, g,
           [membership[s][g] EXCEPT
              !.status = status,
              !.rollover = IF status = "approved" THEN 0 ELSE @])

\* MembershipRoleUpdateView.
SetRole(s, g, role) ==
    /\ membership[s][g] # Null
    /\ membership' = [membership EXCEPT ![s][g].role = role]
    /\ UNCHANGED <<enrollment, peopleVars, termVars, past, touched>>

-----------------------------------------------------------------------------
(* Terms *)

\* removable_memberships.
Removable(s, g) ==
    /\ g \in Subjects
    /\ HasStatus(s, g, {"approved"})
    /\ membership[s][g].role = "member"

\* _end_term_locked, once it has read the term.
MutantEndTermFrom(from, to) ==
    /\ Len(rollovers) < MaxRollovers
    /\ rollovers' = Append(rollovers, [from |-> from, to |-> to, undone |-> FALSE])
    /\ membership' = [s \in Students |-> [g \in Groups |->
           IF Removable(s, g) /\ s \in verified
           THEN [membership[s][g] EXCEPT !.status = "term_ended",
                                         !.rollover = Len(rollovers')]
           ELSE membership[s][g]]]
    /\ term' = to
    /\ asked' = Students
    /\ before' = Approved
    /\ staff' = Moderated
    /\ touched' = {}
    /\ UNCHANGED <<enrollment, verified>>

EndTermFrom(from, to) ==
    /\ Len(rollovers) < MaxRollovers
    /\ rollovers' = Append(rollovers, [from |-> from, to |-> to, undone |-> FALSE])
    /\ membership' = [s \in Students |-> [g \in Groups |->
           IF Removable(s, g)
           THEN [membership[s][g] EXCEPT !.status = "term_ended",
                                         !.rollover = Len(rollovers')]
           ELSE membership[s][g]]]
    /\ term' = to
    /\ asked' = Students
    /\ before' = Approved
    /\ staff' = Moderated
    /\ touched' = {}
    /\ UNCHANGED <<enrollment, verified>>

\* A repeated confirm finds its term already started and is refused.
EndTerm(to) ==
    /\ term # Null
    /\ term # to
    /\ EndTermFrom(term, to)
    /\ UNCHANGED ending

\* Without a CurrentTerm row there is nothing to compare with and nothing to
\* lock ...
ReadNoTerm(a, to) ==
    /\ term = Null
    /\ ending[a] = Null
    /\ ending' = [ending EXCEPT ![a] = to]
    /\ UNCHANGED <<membership, enrollment, peopleVars, term, rollovers, past, touched>>

\* ... and update_or_create takes over a row that was created meanwhile.
FirstEndTerm(a) ==
    /\ ending[a] # Null
    /\ EndTermFrom(Null, ending[a])
    /\ ending' = [ending EXCEPT ![a] = Null]

\* The request dies before its commit.
AbandonEndTerm(a) ==
    /\ ending[a] # Null
    /\ ending' = [ending EXCEPT ![a] = Null]
    /\ UNCHANGED <<membership, enrollment, peopleVars, term, rollovers, past, touched>>

\* undo_end_term: of the latest run only, and once.
MutantUndoEndTerm ==
    LET latest == Len(rollovers) IN
    /\ Standing
    /\ rollovers' = [rollovers EXCEPT ![latest].undone = TRUE]
    /\ membership' = [s \in Students |-> [g \in Groups |->
           IF membership[s][g] # Null /\ membership[s][g].rollover = latest
           THEN [membership[s][g] EXCEPT !.status = "approved", !.rollover = 0]
           ELSE membership[s][g]]]
    /\ term' = rollovers[latest].from
    /\ asked' = {}
    /\ before' = {}
    /\ staff' = {}
    /\ touched' = {}
    /\ UNCHANGED <<enrollment, verified, ending>>

UndoEndTerm ==
    LET latest == Len(rollovers) IN
    /\ Standing
    /\ rollovers' = [rollovers EXCEPT ![latest].undone = TRUE]
    /\ membership' = [s \in Students |-> [g \in Groups |->
           IF /\ HasStatus(s, g, {"term_ended"})
              /\ membership[s][g].rollover = latest
           THEN [membership[s][g] EXCEPT !.status = "approved", !.rollover = 0]
           ELSE membership[s][g]]]
    /\ term' = rollovers[latest].from
    /\ asked' = {}
    /\ before' = {}
    /\ staff' = {}
    /\ touched' = {}
    /\ UNCHANGED <<enrollment, verified, ending>>

\* set_current_term.
SetCurrentTerm(to) ==
    /\ term' = to
    /\ UNCHANGED <<membership, enrollment, peopleVars, rollovers, ending, past, touched>>

\* confirm_student_term.
ConfirmTerm(s) ==
    /\ s \in asked
    /\ asked' = asked \ {s}
    /\ UNCHANGED <<membership, enrollment, verified, termVars, past, touched>>

Registration ==
    \/ \E s \in Students, q \in Requests, subjects \in SUBSET Subjects :
           Submit(s, q, subjects)
    \/ \E q \in Requests : CancelRequest(q)
    \/ \E q \in Requests, approved \in SUBSET Subjects : Decide(q, approved)
    \/ \E s \in Students : Verify(s) \/ SendBack(s)

GroupStaff ==
    \E s \in Students, g \in Groups :
        \/ Leave(s, g)
        \/ \E status \in {"approved", "rejected", "blocked"} : Review(s, g, status)
        \/ \E role \in {"member", "moderator"} : SetRole(s, g, role)

TermOffice ==
    \/ \E to \in Terms : EndTerm(to) \/ SetCurrentTerm(to)
    \/ \E a \in Admins, to \in Terms : ReadNoTerm(a, to)
    \/ \E a \in Admins : FirstEndTerm(a) \/ AbandonEndTerm(a)
    \/ UndoEndTerm
    \/ \E s \in Students : ConfirmTerm(s)

Next == Registration \/ GroupStaff \/ TermOffice

Spec == Init /\ [][Next]_vars

-----------------------------------------------------------------------------
(* What must hold *)

\* Whoever lost a group at an end of term is on the removal list of a run that
\* was not undone, and whoever has the group is on the list of none.
OnOneRemovalList ==
    \A s \in Students, g \in Groups : membership[s][g] # Null =>
        CASE membership[s][g].status = "term_ended" ->
                 /\ membership[s][g].rollover \in 1..Len(rollovers)
                 /\ ~rollovers[membership[s][g].rollover].undone
          [] membership[s][g].status = "approved" ->
                 membership[s][g].rollover = 0
          [] OTHER -> TRUE

\* A student is in a subject's group only after a request of theirs for that
\* subject was approved: no leaving, blocking, ending or undoing lets another in.
AdmittedByDecision ==
    \A s \in Students, g \in Subjects : membership[s][g] # Null =>
        \E q \in Requests :
            /\ enrollment[q] # Null
            /\ enrollment[q].user = s
            /\ g \in enrollment[q].approved

\* While the latest end of term stands, a member of a subject's group has been
\* admitted since, unless it was a moderator's membership then.
NoMemberOfLastTerm ==
    Standing =>
        \A m \in Approved :
            m[2] \in Subjects => m \in staff \cup touched

\* A block is lifted by a review only: no registration, verification, end of
\* term or undo readmits a blocked student.
BlockSurvives ==
    [][\A s \in Students, g \in Groups :
         /\ HasStatus(s, g, {"blocked"})
         /\ membership'[s][g].status # "blocked"
         => UNCHANGED <<enrollment, verified, term, rollovers>>]_vars

\* An undo puts every membership back to what it was before the end of term,
\* those excepted that a person has decided since.
UndoRestores ==
    [][Standing /\ ~Standing' =>
         \A s \in Students, g \in Groups :
             IF <<s, g>> \in touched
             THEN membership'[s][g] = membership[s][g]
             ELSE <<s, g>> \in Approved' <=> <<s, g>> \in before]_vars

\* A second confirm of an end of term that has been confirmed is refused.
ConfirmedOnce ==
    [][Len(rollovers') > Len(rollovers) /\ Standing
       => ~(/\ term = rollovers[Len(rollovers)].to
            /\ term = rollovers'[Len(rollovers')].to)]_vars
=============================================================================
