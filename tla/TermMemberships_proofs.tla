----------------------- MODULE TermMemberships_proofs -----------------------
(***************************************************************************)
(* Proofs about TermMemberships, for any number of students, subjects,     *)
(* requests, admins, terms and ends of term.                               *)
(***************************************************************************)
EXTENDS TermMemberships, SequenceTheorems, TLAPS

-----------------------------------------------------------------------------
(* The inductive invariant *)

\* Of a request that waits for its decision nothing is approved.
PendingIsUndecided ==
    \A q \in Requests :
        enrollment[q] # Null /\ enrollment[q].status = "pending"
            => enrollment[q].approved = {}

\* A membership that a person has decided since the end of term was not removed
\* by it, or is back.
TouchedIsDecided ==
    \A s \in Students, g \in Groups :
        <<s, g>> \in touched =>
            HasStatus(s, g, GroupMembershipStatus \ {"term_ended"})

\* While the latest end of term stands, what it found is what it has left and
\* what it has put on its removal list, except where a person came after it.
BeforeIsKnown ==
    Standing => \A s \in Students, g \in Groups :
        <<s, g>> \notin touched =>
            (<<s, g>> \in before <=>
                \/ HasStatus(s, g, {"approved"})
                \/ /\ HasStatus(s, g, {"term_ended"})
                   /\ membership[s][g].rollover = Len(rollovers))

IInv ==
    /\ TypeOK
    /\ OnOneRemovalList
    /\ AdmittedByDecision
    /\ NoMemberOfLastTerm
    /\ PendingIsUndecided
    /\ TouchedIsDecided
    /\ BeforeIsKnown

-----------------------------------------------------------------------------
(* What a step does to the memberships *)

\* What a person's decision makes of a row: approved on no removal list, or
\* closed; who was blocked or approved may also be left alone.
Decision(old, new) ==
    /\ new \in GroupMembership
    /\ new.status \in {"approved", "rejected", "blocked", "left"}
    /\ new = old \/ (new.status = "approved" => new.rollover = 0)

\* A person decides about memberships of a student.
DecisionStep(s, groups) ==
    /\ \A t \in Students, g \in Groups :
           IF t = s /\ g \in groups
           THEN Decision(membership[t][g], membership'[t][g])
           ELSE membership'[t][g] = membership[t][g]
    /\ Touch(s, groups)
    /\ UNCHANGED <<rollovers, before, staff>>

\* add_to_group makes a member of whoever is neither blocked nor one already.
LEMMA AdmittedRow ==
    ASSUME NEW row \in GroupMembership \cup {Null}
    PROVE  /\ Decision(row, Admitted(row))
           /\ row # Null /\ row.status = "blocked" => Admitted(row) = row
  <1>1. CASE row = Null
    BY <1>1, MembershipAssumption
       DEF Admitted, Decision, GroupMembership, GroupMembershipStatus
  <1>2. CASE row # Null
    BY <1>2 DEF Admitted, Decision, GroupMembership, GroupMembershipStatus
  <1> QED  BY <1>1, <1>2

\* The groups it is called for get the student, or had them, or block them.
LEMMA AddStep ==
    ASSUME TypeOK, NEW s \in Students, NEW groups \in SUBSET Groups,
           AddToGroups(s, groups), UNCHANGED <<rollovers, before, staff>>
    PROVE  DecisionStep(s, groups)
  <1>1. ASSUME NEW t \in Students, NEW g \in Groups
        PROVE  IF t = s /\ g \in groups
               THEN Decision(membership[t][g], membership'[t][g])
               ELSE membership'[t][g] = membership[t][g]
    <2>1. membership[t][g] \in GroupMembership \cup {Null}
      BY DEF TypeOK
    <2>2. membership'[t][g] = IF t = s /\ g \in groups THEN Admitted(membership[t][g])
                              ELSE membership[t][g]
      BY DEF AddToGroups, TypeOK
    <2> QED  BY <2>1, <2>2, AdmittedRow
  <1> QED  BY <1>1 DEF AddToGroups, DecisionStep

\* So do leaving and a review, for one group.
LEMMA DecidedStep ==
    ASSUME TypeOK, NEW s \in Students, NEW g \in Groups, NEW row,
           Decided(s, g, row), Decision(membership[s][g], row)
    PROVE  DecisionStep(s, {g})
  <1>1. ASSUME NEW t \in Students, NEW h \in Groups
        PROVE  membership'[t][h] = IF t = s /\ h = g THEN row ELSE membership[t][h]
    BY DEF Decided, TypeOK
  <1> QED  BY <1>1 DEF Decided, DecisionStep, past, termVars

LEMMA LeaveStep ==
    ASSUME TypeOK, NEW s \in Students, NEW g \in Groups, Leave(s, g)
    PROVE  DecisionStep(s, {g})
  <1> DEFINE row == [membership[s][g] EXCEPT !.status = "left"]
  <1>1. membership[s][g] \in GroupMembership /\ Decided(s, g, row)
    BY DEF Leave, HasStatus, TypeOK
  <1>2. Decision(membership[s][g], row)
    BY <1>1 DEF Decision, GroupMembership, GroupMembershipStatus
  <1> QED  BY <1>1, <1>2, DecidedStep

LEMMA ReviewStep ==
    ASSUME TypeOK, NEW s \in Students, NEW g \in Groups,
           NEW status \in {"approved", "rejected", "blocked"}, Review(s, g, status)
    PROVE  DecisionStep(s, {g})
  <1> DEFINE row == [membership[s][g] EXCEPT
                        !.status = status,
                        !.rollover = IF status = "approved" THEN 0 ELSE @]
  <1>1. membership[s][g] \in GroupMembership /\ Decided(s, g, row)
    BY DEF Review, TypeOK
  <1>2. Decision(membership[s][g], row)
    BY <1>1 DEF Decision, GroupMembership, GroupMembershipStatus
  <1> QED  BY <1>1, <1>2, DecidedStep

\* A change of role changes nothing else.
RoleStep ==
    /\ \A s \in Students, g \in Groups :
           \/ membership'[s][g] = membership[s][g]
           \/ /\ membership[s][g] \in GroupMembership
              /\ membership'[s][g] \in GroupMembership
              /\ membership'[s][g].status = membership[s][g].status
              /\ membership'[s][g].rollover = membership[s][g].rollover
    /\ UNCHANGED <<enrollment, rollovers, before, staff, touched>>

LEMMA SetRoleStep ==
    ASSUME TypeOK, NEW s \in Students, NEW g \in Groups,
           NEW role \in {"member", "moderator"}, SetRole(s, g, role)
    PROVE  RoleStep
  <1>1. membership[s][g] \in GroupMembership
    BY DEF SetRole, TypeOK
  <1>2. ASSUME NEW t \in Students, NEW h \in Groups
        PROVE  membership'[t][h] = IF t = s /\ h = g
                                   THEN [membership[s][g] EXCEPT !.role = role]
                                   ELSE membership[t][h]
    BY DEF SetRole, TypeOK
  <1> QED  BY <1>1, <1>2 DEF SetRole, RoleStep, past, termVars, GroupMembership

\* The rows the end of a term leaves, and the log it leaves them with.
LEMMA EndStep ==
    ASSUME TypeOK, NEW from \in Terms \cup {Null}, NEW to \in Terms,
           EndTermFrom(from, to)
    PROVE  /\ rollovers' \in Seq(TermRollover)
           /\ Len(rollovers') = Len(rollovers) + 1
           /\ \A i \in 1..Len(rollovers) : rollovers'[i] = rollovers[i]
           /\ ~rollovers'[Len(rollovers')].undone
           /\ Standing'
           /\ \A s \in Students, g \in Groups :
                  IF Removable(s, g)
                  THEN /\ membership[s][g] \in GroupMembership
                       /\ membership'[s][g] \in GroupMembership
                       /\ membership'[s][g].status = "term_ended"
                       /\ membership'[s][g].rollover = Len(rollovers')
                  ELSE membership'[s][g] = membership[s][g]
  <1> DEFINE new == [from |-> from, to |-> to, undone |-> FALSE]
  <1>1. new \in TermRollover /\ rollovers' = Append(rollovers, new)
    BY DEF EndTermFrom, TermRollover
  <1>2. rollovers \in Seq(TermRollover) /\ Len(rollovers) \in Nat
    BY LenProperties DEF TypeOK
  <1>3. /\ rollovers' \in Seq(TermRollover)
        /\ Len(rollovers') = Len(rollovers) + 1
        /\ \A i \in 1..Len(rollovers) : rollovers'[i] = rollovers[i]
        /\ rollovers'[Len(rollovers) + 1] = new
    BY <1>1, <1>2, AppendProperties
  <1>4. ~rollovers'[Len(rollovers')].undone /\ rollovers' # <<>>
    BY <1>2, <1>3
  <1>5. ASSUME NEW s \in Students, NEW g \in Groups
        PROVE  IF Removable(s, g)
               THEN /\ membership[s][g] \in GroupMembership
                    /\ membership'[s][g] \in GroupMembership
                    /\ membership'[s][g].status = "term_ended"
                    /\ membership'[s][g].rollover = Len(rollovers')
               ELSE membership'[s][g] = membership[s][g]
    <2>1. membership'[s][g] =
              IF Removable(s, g)
              THEN [membership[s][g] EXCEPT !.status = "term_ended",
                                            !.rollover = Len(rollovers')]
              ELSE membership[s][g]
      BY DEF EndTermFrom
    <2>2. Removable(s, g) => membership[s][g] \in GroupMembership
      BY DEF Removable, HasStatus, TypeOK
    <2>3. Len(rollovers') \in Nat
      BY <1>2, <1>3
    <2> QED  BY <2>1, <2>2, <2>3 DEF GroupMembership, GroupMembershipStatus
  <1> QED  BY <1>3, <1>4, <1>5 DEF Standing

\* The rows an undo leaves.
LEMMA UndoStep ==
    ASSUME TypeOK, UndoEndTerm
    PROVE  /\ Len(rollovers) \in Nat \ {0}
           /\ rollovers' \in Seq(TermRollover)
           /\ Len(rollovers') = Len(rollovers)
           /\ \A i \in 1..Len(rollovers) :
                  i # Len(rollovers) => rollovers'[i] = rollovers[i]
           /\ rollovers[Len(rollovers)].from \in Terms \cup {Null}
           /\ Standing /\ ~Standing'
           /\ \A s \in Students, g \in Groups :
                  IF /\ HasStatus(s, g, {"term_ended"})
                     /\ membership[s][g].rollover = Len(rollovers)
                  THEN /\ membership'[s][g] \in GroupMembership
                       /\ membership'[s][g].status = "approved"
                       /\ membership'[s][g].rollover = 0
                  ELSE membership'[s][g] = membership[s][g]
  <1> DEFINE n == Len(rollovers)
             undone == [rollovers[n] EXCEPT !.undone = TRUE]
  <1>1. rollovers \in Seq(TermRollover) /\ n \in Nat \ {0} /\ Standing
    BY LenProperties, EmptySeq DEF TypeOK, UndoEndTerm, Standing
  <1>2. n \in 1..n /\ rollovers[n] \in TermRollover
    BY <1>1, ElementOfSeq
  <1>3. undone \in TermRollover /\ undone.undone
    BY <1>2 DEF TermRollover
  <1>4. rollovers' = [rollovers EXCEPT ![n] = undone]
    BY DEF UndoEndTerm
  <1> HIDE DEF undone
  <1>5. /\ rollovers' \in Seq(TermRollover)
        /\ Len(rollovers') = n
        /\ \A i \in 1..n : i # n => rollovers'[i] = rollovers[i]
        /\ rollovers'[n] = undone
    BY <1>1, <1>2, <1>3, <1>4, ExceptSeq
  <1>6. ~Standing'
    BY <1>3, <1>5 DEF Standing
  <1>7. rollovers[n].from \in Terms \cup {Null}
    BY <1>2 DEF TermRollover
  <1>8. ASSUME NEW s \in Students, NEW g \in Groups
        PROVE  IF HasStatus(s, g, {"term_ended"}) /\ membership[s][g].rollover = n
               THEN /\ membership'[s][g] \in GroupMembership
                    /\ membership'[s][g].status = "approved"
                    /\ membership'[s][g].rollover = 0
               ELSE membership'[s][g] = membership[s][g]
    <2>1. membership'[s][g] =
              IF HasStatus(s, g, {"term_ended"}) /\ membership[s][g].rollover = n
              THEN [membership[s][g] EXCEPT !.status = "approved", !.rollover = 0]
              ELSE membership[s][g]
      BY DEF UndoEndTerm
    <2> DEFINE old == membership[s][g]
               new == [old EXCEPT !.status = "approved", !.rollover = 0]
    <2>2. ASSUME old \in GroupMembership
          PROVE  /\ new \in GroupMembership
                 /\ new.status = "approved" /\ new.rollover = 0
      BY <2>2 DEF GroupMembership, GroupMembershipStatus
    <2>3. HasStatus(s, g, {"term_ended"}) => old \in GroupMembership
      BY DEF HasStatus, TypeOK
    <2> HIDE DEF new
    <2> QED  BY <2>1, <2>2, <2>3 DEF new
  <1> QED  BY <1>1, <1>5, <1>6, <1>7, <1>8

\* The memberships and what is known of the past are as they were.
RestStep == UNCHANGED <<membership, rollovers, before, staff, touched>>

\* Every step is of one of these kinds.
MembershipStep ==
    \/ \E s \in Students, groups \in SUBSET Groups : DecisionStep(s, groups)
    \/ RoleStep
    \/ \E from \in Terms \cup {Null}, to \in Terms : EndTermFrom(from, to)
    \/ UndoEndTerm
    \/ RestStep

LEMMA Memberships == ASSUME TypeOK, [Next]_vars PROVE MembershipStep
  <1> USE DEF past, termVars, peopleVars, MembershipStep
  <1>1. ASSUME NEW s \in Students, NEW q \in Requests, NEW subjects \in SUBSET Subjects,
               Submit(s, q, subjects)
        PROVE  RestStep
    BY <1>1 DEF Submit, RestStep
  <1>2. ASSUME NEW q \in Requests, CancelRequest(q) PROVE RestStep
    BY <1>2 DEF CancelRequest, RestStep
  <1>3. ASSUME NEW q \in Requests, NEW approved \in SUBSET Subjects, Decide(q, approved)
        PROVE  MembershipStep
    <2>1. enrollment[q].user \in Students /\ approved \in SUBSET Groups
      BY <1>3 DEF Decide, TypeOK, EnrollmentRequest, Groups
    <2> QED  BY <1>3, <2>1, AddStep DEF Decide
  <1>4. ASSUME NEW s \in Students, Verify(s) PROVE MembershipStep
    <2>1. Communities \in SUBSET Groups
      BY DEF Groups
    <2> QED  BY <1>4, <2>1, AddStep DEF Verify
  <1>5. ASSUME NEW s \in Students, SendBack(s) \/ ConfirmTerm(s) PROVE RestStep
    BY <1>5 DEF SendBack, ConfirmTerm, RestStep
  <1>6. ASSUME NEW s \in Students, NEW g \in Groups,
               \/ Leave(s, g)
               \/ \E status \in {"approved", "rejected", "blocked"} : Review(s, g, status)
        PROVE  MembershipStep
    <2>1. DecisionStep(s, {g}) /\ {g} \in SUBSET Groups
      BY <1>6, LeaveStep, ReviewStep
    <2> QED  BY <2>1
  <1>7. ASSUME NEW s \in Students, NEW g \in Groups,
               NEW role \in {"member", "moderator"}, SetRole(s, g, role)
        PROVE  MembershipStep
    BY <1>7, SetRoleStep
  <1>8. ASSUME NEW to \in Terms, EndTerm(to) PROVE MembershipStep
    BY <1>8 DEF EndTerm, TypeOK
  <1>9. ASSUME NEW a \in Admins, FirstEndTerm(a) PROVE MembershipStep
    <2>1. ending[a] \in Terms
      BY <1>9 DEF FirstEndTerm, TypeOK
    <2> QED  BY <1>9, <2>1 DEF FirstEndTerm
  <1>10. ASSUME NEW to \in Terms, SetCurrentTerm(to) PROVE RestStep
    BY <1>10 DEF SetCurrentTerm, RestStep
  <1>11. ASSUME NEW a \in Admins, NEW to \in Terms, ReadNoTerm(a, to) \/ AbandonEndTerm(a)
         PROVE  RestStep
    BY <1>11 DEF ReadNoTerm, AbandonEndTerm, RestStep
  <1>12. ASSUME NEW a \in Admins, AbandonEndTerm(a) PROVE RestStep
    BY <1>12 DEF AbandonEndTerm, RestStep
  <1>13. CASE UNCHANGED vars
    BY <1>13 DEF vars, RestStep
  <1> QED
    BY <1>1, <1>2, <1>3, <1>4, <1>5, <1>6, <1>7, <1>8, <1>9, <1>10, <1>11, <1>12,
       <1>13 DEF Next, Registration, GroupStaff, TermOffice

-----------------------------------------------------------------------------
(* The invariant is inductive *)

\* Initially nobody is a member and no term has ended.
LEMMA InitInv == ASSUME Init PROVE IInv
  <1>1. TypeOK
    BY EmptySeq DEF Init, TypeOK
  <1>2. rollovers = <<>> /\ ~Standing /\ touched = {}
    BY DEF Init, Standing
  <1>3. \A s \in Students, g \in Groups : membership[s][g] = Null
    BY DEF Init
  <1>4. OnOneRemovalList /\ AdmittedByDecision
    BY <1>3 DEF OnOneRemovalList, AdmittedByDecision, Groups
  <1>5. NoMemberOfLastTerm /\ TouchedIsDecided /\ BeforeIsKnown
    BY <1>2 DEF NoMemberOfLastTerm, TouchedIsDecided, BeforeIsKnown
  <1>6. PendingIsUndecided
    BY DEF Init, PendingIsUndecided
  <1> QED  BY <1>1, <1>4, <1>5, <1>6 DEF IInv

\* Types are kept by every step.
Rows == [Students -> [Groups -> GroupMembership \cup {Null}]]

LEMMA AddTypes ==
    ASSUME TypeOK, NEW s \in Students, NEW groups \in SUBSET Groups,
           AddToGroups(s, groups)
    PROVE  membership' \in Rows /\ touched' \subseteq Students \X Groups
  <1> DEFINE new == [g \in Groups |-> IF g \in groups THEN Admitted(membership[s][g])
                                                      ELSE membership[s][g]]
  <1>1. membership' = [membership EXCEPT ![s] = new]
    BY DEF AddToGroups, TypeOK
  <1>2. ASSUME NEW g \in Groups
        PROVE  (IF g \in groups THEN Admitted(membership[s][g]) ELSE membership[s][g])
                   \in GroupMembership \cup {Null}
    <2>1. membership[s][g] \in GroupMembership \cup {Null}
      BY DEF TypeOK
    <2> QED  BY <2>1, AdmittedRow DEF Decision
  <1>3. new \in [Groups -> GroupMembership \cup {Null}]
    BY <1>2
  <1> HIDE DEF new
  <1> QED  BY <1>1, <1>3 DEF TypeOK, Rows, AddToGroups, Touch

LEMMA DecidedTypes ==
    ASSUME TypeOK, NEW s \in Students, NEW g \in Groups, NEW row \in GroupMembership,
           Decided(s, g, row)
    PROVE  TypeOK'
  BY DEF Decided, Touch, TypeOK, peopleVars, termVars, past

LEMMA EndTypes ==
    ASSUME TypeOK, NEW from \in Terms \cup {Null}, NEW to \in Terms,
           EndTermFrom(from, to)
    PROVE  /\ membership' \in Rows
           /\ rollovers' \in Seq(TermRollover)
           /\ {before', staff', touched'} \subseteq SUBSET (Students \X Groups)
           /\ term' \in Terms \cup {Null} /\ asked' \in SUBSET Students
           /\ UNCHANGED <<enrollment, verified>>
  <1>1. ASSUME NEW s \in Students, NEW g \in Groups
        PROVE  membership'[s][g] \in GroupMembership \cup {Null}
    <2>1. membership[s][g] \in GroupMembership \cup {Null}
      BY DEF TypeOK
    <2> QED  BY <2>1, EndStep
  <1>2. membership' = [s \in Students |-> [g \in Groups |-> membership'[s][g]]]
    BY DEF EndTermFrom
  <1>3. membership' \in Rows
    BY <1>1, <1>2 DEF Rows
  <1>4. before' \subseteq Students \X Groups /\ staff' \subseteq Students \X Groups
    BY DEF EndTermFrom, Approved, Moderated
  <1> QED  BY <1>3, <1>4, EndStep DEF EndTermFrom

LEMMA TypeStep == ASSUME TypeOK, [Next]_vars PROVE TypeOK'
  <1> USE DEF past, termVars, peopleVars
  <1>1. ASSUME NEW s \in Students, NEW q \in Requests, NEW subjects \in SUBSET Subjects,
               Submit(s, q, subjects)
        PROVE  TypeOK'
    BY <1>1 DEF Submit, TypeOK, EnrollmentRequest, EnrollmentStatus
  <1>2. ASSUME NEW q \in Requests, CancelRequest(q) PROVE TypeOK'
    BY <1>2 DEF CancelRequest, TypeOK, EnrollmentRequest, EnrollmentStatus
  <1>3. ASSUME NEW q \in Requests, NEW approved \in SUBSET Subjects, Decide(q, approved)
        PROVE  TypeOK'
    <2>1. enrollment[q] \in EnrollmentRequest
      BY <1>3 DEF Decide, TypeOK
    <2>2. enrollment[q].user \in Students /\ approved \in SUBSET Groups
      BY <2>1 DEF EnrollmentRequest, Groups
    <2>3. membership' \in Rows /\ touched' \subseteq Students \X Groups
      BY <1>3, <2>2, AddTypes DEF Decide
    <2> DEFINE status == CASE approved = enrollment[q].items -> "approved"
                           [] approved = {} -> "rejected"
                           [] OTHER -> "partially_approved"
    <2>4. /\ status \in EnrollmentStatus
          /\ enrollment' = [enrollment EXCEPT ![q].approved = approved,
                                              ![q].status = status]
      BY <1>3 DEF Decide, EnrollmentStatus
    <2> HIDE DEF status
    <2>5. enrollment' \in [Requests -> EnrollmentRequest \cup {Null}]
      BY <2>1, <2>4 DEF TypeOK, EnrollmentRequest
    <2> QED  BY <1>3, <2>3, <2>5 DEF Decide, TypeOK, Rows
  <1>4. ASSUME NEW s \in Students, Verify(s) PROVE TypeOK'
    <2>1. Communities \in SUBSET Groups
      BY DEF Groups
    <2>2. membership' \in Rows /\ touched' \subseteq Students \X Groups
      BY <1>4, <2>1, AddTypes DEF Verify
    <2> QED  BY <1>4, <2>2 DEF Verify, TypeOK, Rows
  <1>5. ASSUME NEW s \in Students, SendBack(s) \/ ConfirmTerm(s) PROVE TypeOK'
    BY <1>5 DEF SendBack, ConfirmTerm, TypeOK
  <1>6. ASSUME NEW s \in Students, NEW g \in Groups, Leave(s, g) PROVE TypeOK'
    <2>1. membership[s][g] \in GroupMembership
      BY <1>6 DEF Leave, HasStatus, TypeOK
    <2>2. [membership[s][g] EXCEPT !.status = "left"] \in GroupMembership
      BY <2>1 DEF GroupMembership, GroupMembershipStatus
    <2> QED  BY <1>6, <2>2, DecidedTypes DEF Leave
  <1>7. ASSUME NEW s \in Students, NEW g \in Groups,
               NEW status \in {"approved", "rejected", "blocked"}, Review(s, g, status)
        PROVE  TypeOK'
    <2>1. membership[s][g] \in GroupMembership
      BY <1>7 DEF Review, TypeOK
    <2>2. [membership[s][g] EXCEPT
              !.status = status,
              !.rollover = IF status = "approved" THEN 0 ELSE @] \in GroupMembership
      BY <2>1 DEF GroupMembership, GroupMembershipStatus
    <2> QED  BY <1>7, <2>2, DecidedTypes DEF Review
  <1>8. ASSUME NEW s \in Students, NEW g \in Groups,
               NEW role \in {"member", "moderator"}, SetRole(s, g, role)
        PROVE  TypeOK'
    <2>1. membership[s][g] \in GroupMembership
      BY <1>8 DEF SetRole, TypeOK
    <2>2. [membership[s][g] EXCEPT !.role = role] \in GroupMembership
      BY <2>1 DEF GroupMembership
    <2> QED  BY <1>8, <2>2 DEF SetRole, TypeOK
  <1>9. ASSUME NEW to \in Terms, EndTerm(to) PROVE TypeOK'
    <2>1. EndTermFrom(term, to) /\ term \in Terms \cup {Null} /\ UNCHANGED ending
      BY <1>9 DEF EndTerm, TypeOK
    <2> QED  BY <2>1, EndTypes DEF TypeOK, Rows
  <1>10. ASSUME NEW a \in Admins, FirstEndTerm(a) PROVE TypeOK'
    <2>1. EndTermFrom(Null, ending[a]) /\ ending[a] \in Terms
          /\ ending' = [ending EXCEPT ![a] = Null]
      BY <1>10 DEF FirstEndTerm, TypeOK
    <2> QED  BY <2>1, EndTypes DEF TypeOK, Rows
  <1>11. CASE UndoEndTerm
    <2>1. ASSUME NEW s \in Students, NEW g \in Groups
          PROVE  membership'[s][g] \in GroupMembership \cup {Null}
      <3>1. membership[s][g] \in GroupMembership \cup {Null}
        BY DEF TypeOK
      <3> QED  BY <1>11, <3>1, UndoStep
    <2>2. membership' = [s \in Students |-> [g \in Groups |-> membership'[s][g]]]
      BY <1>11 DEF UndoEndTerm
    <2>3. membership' \in Rows
      BY <2>1, <2>2 DEF Rows
    <2>4. rollovers' \in Seq(TermRollover) /\ term' \in Terms \cup {Null}
      BY <1>11, UndoStep DEF UndoEndTerm
    <2> QED  BY <1>11, <2>3, <2>4 DEF UndoEndTerm, TypeOK, Rows
  <1>12. ASSUME NEW to \in Terms, SetCurrentTerm(to) PROVE TypeOK'
    BY <1>12 DEF SetCurrentTerm, TypeOK
  <1>13. ASSUME NEW a \in Admins, NEW to \in Terms, ReadNoTerm(a, to) PROVE TypeOK'
    BY <1>13 DEF ReadNoTerm, TypeOK
  <1>14. ASSUME NEW a \in Admins, AbandonEndTerm(a) PROVE TypeOK'
    BY <1>14 DEF AbandonEndTerm, TypeOK
  <1>15. CASE UNCHANGED vars
    BY <1>15 DEF vars, TypeOK
  <1> QED
    BY <1>1, <1>2, <1>3, <1>4, <1>5, <1>6, <1>7, <1>8, <1>9, <1>10, <1>11, <1>12,
       <1>13, <1>14, <1>15 DEF Next, Registration, GroupStaff, TermOffice

\* What one membership owes to the removal lists.
Listed(s, g) ==
    membership[s][g] # Null =>
        /\ membership[s][g].status = "term_ended" =>
               /\ membership[s][g].rollover \in 1..Len(rollovers)
               /\ ~rollovers[membership[s][g].rollover].undone
        /\ membership[s][g].status = "approved" => membership[s][g].rollover = 0

LEMMA ListedIsEnough ==
    OnOneRemovalList <=> \A s \in Students, g \in Groups : Listed(s, g)
  BY DEF OnOneRemovalList, Listed

\* Only the end of a term fills a removal list and only its undo clears one.
LEMMA RemovalStep ==
    ASSUME TypeOK, MembershipStep, NEW s \in Students, NEW g \in Groups, Listed(s, g)
    PROVE  Listed(s, g)'
  <1>0. /\ Len(rollovers) \in Nat
        /\ membership[s][g] \in GroupMembership \cup {Null}
    BY LenProperties DEF TypeOK
  <1>1. ASSUME NEW t \in Students, NEW groups \in SUBSET Groups, DecisionStep(t, groups)
        PROVE  Listed(s, g)'
    <2>1. \/ membership'[s][g] = membership[s][g]
          \/ Decision(membership[s][g], membership'[s][g])
      BY <1>1 DEF DecisionStep
    <2> QED  BY <1>1, <2>1 DEF DecisionStep, Decision, Listed
  <1>2. CASE RoleStep
    BY <1>0, <1>2, MembershipAssumption DEF RoleStep, Listed
  <1>3. ASSUME NEW from \in Terms \cup {Null}, NEW to \in Terms, EndTermFrom(from, to)
        PROVE  Listed(s, g)'
    <2>1. CASE Removable(s, g)
      <3>1. /\ membership'[s][g].status = "term_ended"
            /\ membership'[s][g].rollover = Len(rollovers')
            /\ ~rollovers'[Len(rollovers')].undone
            /\ Len(rollovers') = Len(rollovers) + 1
        BY <1>3, <2>1, EndStep
      <3> QED  BY <1>0, <3>1 DEF Listed
    <2>2. CASE ~Removable(s, g)
      <3>1. /\ membership'[s][g] = membership[s][g]
            /\ Len(rollovers') = Len(rollovers) + 1
            /\ \A i \in 1..Len(rollovers) : rollovers'[i] = rollovers[i]
        BY <1>3, <2>2, EndStep
      <3> QED  BY <1>0, <3>1 DEF Listed
    <2> QED  BY <2>1, <2>2
  <1>4. CASE UndoEndTerm
    <2>1. /\ Len(rollovers') = Len(rollovers)
          /\ \A i \in 1..Len(rollovers) :
                 i # Len(rollovers) => rollovers'[i] = rollovers[i]
      BY <1>4, UndoStep
    <2>2. CASE HasStatus(s, g, {"term_ended"})
               /\ membership[s][g].rollover = Len(rollovers)
      <3>1. /\ membership'[s][g].status = "approved"
            /\ membership'[s][g].rollover = 0
        BY <1>4, <2>2, UndoStep
      <3> QED  BY <3>1 DEF Listed
    <2>3. CASE ~(HasStatus(s, g, {"term_ended"})
                 /\ membership[s][g].rollover = Len(rollovers))
      <3>1. membership'[s][g] = membership[s][g]
        BY <1>4, <2>3, UndoStep
      <3> QED  BY <1>0, <2>1, <2>3, <3>1 DEF Listed, HasStatus
    <2> QED  BY <2>2, <2>3
  <1>5. CASE RestStep
    BY <1>5 DEF RestStep, Listed
  <1> QED  BY <1>1, <1>2, <1>3, <1>4, <1>5 DEF MembershipStep

\* A row for a subject comes into being with an approved item of a request, and
\* what was approved stays in the request.
LEMMA AdmissionStep ==
    ASSUME TypeOK, PendingIsUndecided, AdmittedByDecision, [Next]_vars
    PROVE  PendingIsUndecided' /\ AdmittedByDecision'
  <1> DEFINE By(q, s, g) == /\ enrollment[q] # Null
                            /\ enrollment[q].user = s
                            /\ g \in enrollment[q].approved
             Kept == /\ \A q \in Requests, s \in Students, g \in Subjects :
                            By(q, s, g) => By(q, s, g)'
                     /\ \A s \in Students, g \in Subjects :
                            \/ membership[s][g] # Null
                            \/ membership'[s][g] = Null
                            \/ \E q \in Requests : By(q, s, g)'
  <1> USE DEF past, termVars, peopleVars
  <1>0. Subjects \subseteq Groups /\ Communities \subseteq Groups
        /\ Subjects \cap Communities = {}
    BY MembershipAssumption DEF Groups
  <1>1. ASSUME NEW s \in Students, NEW q \in Requests, NEW subjects \in SUBSET Subjects,
               Submit(s, q, subjects)
        PROVE  PendingIsUndecided' /\ Kept
    BY <1>1 DEF Submit, TypeOK, PendingIsUndecided
  <1>2. ASSUME NEW q \in Requests, CancelRequest(q) PROVE PendingIsUndecided' /\ Kept
    BY <1>2, MembershipAssumption
       DEF CancelRequest, TypeOK, PendingIsUndecided, EnrollmentRequest, EnrollmentStatus
  <1>3. ASSUME NEW q \in Requests, NEW approved \in SUBSET Subjects, Decide(q, approved)
        PROVE  PendingIsUndecided' /\ Kept
    <2> DEFINE status == CASE approved = enrollment[q].items -> "approved"
                           [] approved = {} -> "rejected"
                           [] OTHER -> "partially_approved"
    <2>1. /\ enrollment[q] \in EnrollmentRequest
          /\ enrollment[q] # Null
          /\ enrollment[q].status = "pending"
          /\ enrollment[q].approved = {}
      BY <1>3 DEF Decide, TypeOK, PendingIsUndecided
    <2>2. /\ status \in EnrollmentStatus \ {"pending"}
          /\ enrollment' = [enrollment EXCEPT ![q].approved = approved,
                                              ![q].status = status]
      BY <1>3 DEF Decide, EnrollmentStatus
    <2> HIDE DEF status
    <2>3. /\ enrollment'[q] \in EnrollmentRequest
          /\ enrollment'[q].user = enrollment[q].user
          /\ enrollment'[q].approved = approved
          /\ enrollment'[q].status # "pending"
          /\ \A r \in Requests : r # q => enrollment'[r] = enrollment[r]
      BY <2>1, <2>2 DEF TypeOK, EnrollmentRequest
    <2>4. enrollment'[q] # Null
      BY <2>3, MembershipAssumption
    <2>5. PendingIsUndecided'
      BY <2>3 DEF PendingIsUndecided
    <2>6. ASSUME NEW s \in Students, NEW g \in Subjects
          PROVE  \/ membership'[s][g] = membership[s][g]
                 \/ s = enrollment[q].user /\ g \in approved
      <3>1. AddToGroups(enrollment[q].user, approved) /\ enrollment[q].user \in Students
        BY <1>3, <2>1 DEF Decide, EnrollmentRequest
      <3> QED  BY <1>0, <3>1 DEF AddToGroups, TypeOK
    <2> QED  BY <2>1, <2>3, <2>4, <2>5, <2>6
  <1>4. ASSUME NEW s \in Students, Verify(s) PROVE PendingIsUndecided' /\ Kept
    <2>1. \A t \in Students, g \in Subjects : membership'[t][g] = membership[t][g]
      BY <1>0, <1>4 DEF Verify, AddToGroups, TypeOK
    <2> QED  BY <1>4, <2>1 DEF Verify, PendingIsUndecided
  <1>5. ASSUME NEW s \in Students, SendBack(s) \/ ConfirmTerm(s)
        PROVE  PendingIsUndecided' /\ Kept
    BY <1>5 DEF SendBack, ConfirmTerm, PendingIsUndecided
  <1>6. ASSUME NEW s \in Students, NEW g \in Groups, NEW row,
               membership[s][g] # Null, Decided(s, g, row)
        PROVE  PendingIsUndecided' /\ Kept
    BY <1>0, <1>6 DEF Decided, TypeOK, PendingIsUndecided
  <1>7. ASSUME NEW s \in Students, NEW g \in Groups, Leave(s, g)
        PROVE  PendingIsUndecided' /\ Kept
    BY <1>6, <1>7 DEF Leave, HasStatus
  <1>8. ASSUME NEW s \in Students, NEW g \in Groups,
               NEW status \in {"approved", "rejected", "blocked"}, Review(s, g, status)
        PROVE  PendingIsUndecided' /\ Kept
    BY <1>6, <1>8 DEF Review
  <1>9. ASSUME NEW s \in Students, NEW g \in Groups,
               NEW role \in {"member", "moderator"}, SetRole(s, g, role)
        PROVE  PendingIsUndecided' /\ Kept
    BY <1>0, <1>9 DEF SetRole, TypeOK, PendingIsUndecided
  <1>10. ASSUME NEW from \in Terms \cup {Null}, NEW to \in Terms, EndTermFrom(from, to)
         PROVE  PendingIsUndecided' /\ Kept
    <2>1. \A s \in Students, g \in Groups :
              membership[s][g] # Null \/ membership'[s][g] = membership[s][g]
      BY <1>10, EndStep DEF Removable, HasStatus
    <2>2. enrollment' = enrollment
      BY <1>10 DEF EndTermFrom
    <2> QED  BY <1>0, <2>1, <2>2 DEF PendingIsUndecided
  <1>11. ASSUME NEW to \in Terms, EndTerm(to) PROVE PendingIsUndecided' /\ Kept
    <2>1. EndTermFrom(term, to) /\ term \in Terms \cup {Null}
      BY <1>11 DEF EndTerm, TypeOK
    <2> QED  BY <1>10, <2>1
  <1>12. ASSUME NEW a \in Admins, FirstEndTerm(a) PROVE PendingIsUndecided' /\ Kept
    <2>1. EndTermFrom(Null, ending[a]) /\ ending[a] \in Terms
      BY <1>12 DEF FirstEndTerm, TypeOK
    <2> QED  BY <1>10, <2>1
  <1>13. ASSUME UndoEndTerm PROVE PendingIsUndecided' /\ Kept
    <2>1. \A s \in Students, g \in Groups :
              membership[s][g] # Null \/ membership'[s][g] = membership[s][g]
      BY <1>13, UndoStep DEF HasStatus
    <2>2. enrollment' = enrollment
      BY <1>13 DEF UndoEndTerm
    <2> QED  BY <1>0, <2>1, <2>2 DEF PendingIsUndecided
  <1>14. ASSUME NEW to \in Terms, SetCurrentTerm(to) PROVE PendingIsUndecided' /\ Kept
    BY <1>14 DEF SetCurrentTerm, PendingIsUndecided
  <1>15. ASSUME NEW a \in Admins, NEW to \in Terms, ReadNoTerm(a, to)
         PROVE  PendingIsUndecided' /\ Kept
    BY <1>15 DEF ReadNoTerm, PendingIsUndecided
  <1>16. ASSUME NEW a \in Admins, AbandonEndTerm(a) PROVE PendingIsUndecided' /\ Kept
    BY <1>16 DEF AbandonEndTerm, PendingIsUndecided
  <1>17. ASSUME UNCHANGED vars PROVE PendingIsUndecided' /\ Kept
    BY <1>17 DEF vars, PendingIsUndecided
  <1>18. PendingIsUndecided' /\ Kept
    BY <1>1, <1>2, <1>3, <1>4, <1>5, <1>7, <1>8, <1>9, <1>11, <1>12, <1>13, <1>14,
       <1>15, <1>16, <1>17 DEF Next, Registration, GroupStaff, TermOffice
  <1> QED  BY <1>0, <1>18 DEF AdmittedByDecision

\* While an end of term stands, who is a member again has come back by a
\* person's decision; a new end leaves the moderators only.
LEMMA MembersStep ==
    ASSUME TypeOK, NoMemberOfLastTerm, MembershipStep PROVE NoMemberOfLastTerm'
  <1> SUFFICES ASSUME Standing', NEW s \in Students, NEW g \in Subjects,
                      HasStatus(s, g, {"approved"})'
               PROVE  <<s, g>> \in staff' \cup touched'
    BY DEF NoMemberOfLastTerm, Approved
  <1>0. /\ g \in Groups
        /\ Standing /\ HasStatus(s, g, {"approved"}) => <<s, g>> \in staff \cup touched
    BY DEF NoMemberOfLastTerm, Approved, Groups
  <1>1. ASSUME NEW t \in Students, NEW groups \in SUBSET Groups, DecisionStep(t, groups)
        PROVE  <<s, g>> \in staff' \cup touched'
    <2>1. Standing
      BY <1>1 DEF DecisionStep, Standing
    <2>2. CASE t = s /\ g \in groups
      BY <1>1, <2>1, <2>2 DEF DecisionStep, Touch
    <2>3. CASE ~(t = s /\ g \in groups)
      <3>1. membership'[s][g] = membership[s][g]
        BY <1>0, <1>1, <2>3 DEF DecisionStep
      <3>2. <<s, g>> \in staff \cup touched
        BY <1>0, <2>1, <3>1 DEF HasStatus
      <3> QED  BY <1>1, <3>2 DEF DecisionStep, Touch
    <2> QED  BY <2>2, <2>3
  <1>2. CASE RoleStep
    <2>1. Standing /\ UNCHANGED <<staff, touched>>
      BY <1>2 DEF RoleStep, Standing
    <2>2. HasStatus(s, g, {"approved"})
      BY <1>0, <1>2, MembershipAssumption DEF RoleStep, HasStatus
    <2> QED  BY <1>0, <2>1, <2>2
  <1>3. ASSUME NEW from \in Terms \cup {Null}, NEW to \in Terms, EndTermFrom(from, to)
        PROVE  <<s, g>> \in staff' \cup touched'
    <2>1. ~Removable(s, g) /\ membership'[s][g] = membership[s][g]
      BY <1>0, <1>3, EndStep DEF HasStatus
    <2>2. HasStatus(s, g, {"approved"}) /\ membership[s][g].role # "member"
      BY <2>1 DEF HasStatus, Removable
    <2>3. membership[s][g] \in GroupMembership
      BY <1>0, <2>2 DEF HasStatus, TypeOK
    <2>4. HasStatus(s, g, GroupMembershipStatus) /\ membership[s][g].role = "moderator"
      BY <2>2, <2>3 DEF HasStatus, GroupMembership
    <2>5. <<s, g>> \in Moderated
      BY <1>0, <2>4 DEF Moderated
    <2> QED  BY <1>3, <2>5 DEF EndTermFrom
  <1>4. CASE UndoEndTerm
    BY <1>4, UndoStep
  <1>5. CASE RestStep
    BY <1>0, <1>5 DEF RestStep, Standing, HasStatus
  <1> QED  BY <1>1, <1>2, <1>3, <1>4, <1>5 DEF MembershipStep

\* Nobody but an end of term removes, and that one has touched nothing yet.
LEMMA TouchedStep ==
    ASSUME TypeOK, TouchedIsDecided, MembershipStep PROVE TouchedIsDecided'
  <1> SUFFICES ASSUME NEW s \in Students, NEW g \in Groups, <<s, g>> \in touched'
               PROVE  HasStatus(s, g, GroupMembershipStatus \ {"term_ended"})'
    BY DEF TouchedIsDecided
  <1>0. <<s, g>> \in touched => HasStatus(s, g, GroupMembershipStatus \ {"term_ended"})
    BY DEF TouchedIsDecided
  <1>1. ASSUME NEW t \in Students, NEW groups \in SUBSET Groups, DecisionStep(t, groups)
        PROVE  HasStatus(s, g, GroupMembershipStatus \ {"term_ended"})'
    <2>1. CASE t = s /\ g \in groups
      <3>1. Decision(membership[s][g], membership'[s][g])
        BY <1>1, <2>1 DEF DecisionStep
      <3> QED  BY <3>1, MembershipAssumption DEF Decision, HasStatus, GroupMembershipStatus
    <2>2. CASE ~(t = s /\ g \in groups)
      <3>1. membership'[s][g] = membership[s][g]
        BY <1>1, <2>2 DEF DecisionStep
      <3>2. <<s, g>> \in touched
        BY <1>1, <2>2 DEF DecisionStep, Touch
      <3> QED  BY <1>0, <3>1, <3>2 DEF HasStatus
    <2> QED  BY <2>1, <2>2
  <1>2. CASE RoleStep
    BY <1>0, <1>2, MembershipAssumption DEF RoleStep, HasStatus
  <1>3. ASSUME NEW from \in Terms \cup {Null}, NEW to \in Terms, EndTermFrom(from, to)
        PROVE  FALSE
    BY <1>3 DEF EndTermFrom
  <1>4. CASE UndoEndTerm
    BY <1>4 DEF UndoEndTerm
  <1>5. CASE RestStep
    BY <1>0, <1>5 DEF RestStep, HasStatus
  <1> QED  BY <1>1, <1>2, <1>3, <1>4, <1>5 DEF MembershipStep

\* What one membership tells of the time before the end of term.
Known(s, g) ==
    Standing /\ <<s, g>> \notin touched =>
        (<<s, g>> \in before <=>
            \/ HasStatus(s, g, {"approved"})
            \/ /\ HasStatus(s, g, {"term_ended"})
               /\ membership[s][g].rollover = Len(rollovers))

LEMMA KnownStep ==
    ASSUME TypeOK, MembershipStep, NEW s \in Students, NEW g \in Groups,
           Listed(s, g), Known(s, g)
    PROVE  Known(s, g)'
  <1>0. Len(rollovers) \in Nat
    BY LenProperties DEF TypeOK
  <1>1. ASSUME NEW t \in Students, NEW groups \in SUBSET Groups, DecisionStep(t, groups)
        PROVE  Known(s, g)'
    <2>1. Standing' = Standing /\ UNCHANGED <<before, rollovers>>
      BY <1>1 DEF DecisionStep, Standing
    <2>2. CASE Standing /\ t = s /\ g \in groups
      BY <1>1, <2>2 DEF DecisionStep, Touch, Known
    <2>3. CASE ~(t = s /\ g \in groups)
      <3>1. membership'[s][g] = membership[s][g]
        BY <1>1, <2>3 DEF DecisionStep
      <3>2. <<s, g>> \notin touched' => <<s, g>> \notin touched
        BY <1>1 DEF DecisionStep, Touch
      <3> QED  BY <2>1, <3>1, <3>2 DEF Known, HasStatus
    <2> QED  BY <2>1, <2>2, <2>3 DEF Known
  <1>2. CASE RoleStep
    BY <1>2, MembershipAssumption DEF RoleStep, Known, Standing, HasStatus
  <1>3. ASSUME NEW from \in Terms \cup {Null}, NEW to \in Terms, EndTermFrom(from, to)
        PROVE  Known(s, g)'
    <2>1. before' = Approved /\ (<<s, g>> \in Approved <=> HasStatus(s, g, {"approved"}))
      BY <1>3 DEF EndTermFrom, Approved
    <2>2. Len(rollovers') = Len(rollovers) + 1
      BY <1>3, EndStep
    <2>3. CASE Removable(s, g)
      <3>1. /\ membership'[s][g] \in GroupMembership
            /\ membership'[s][g].status = "term_ended"
            /\ membership'[s][g].rollover = Len(rollovers')
        BY <1>3, <2>3, EndStep
      <3>2. HasStatus(s, g, {"term_ended"})' /\ membership'[s][g].rollover = Len(rollovers')
        BY <3>1, MembershipAssumption DEF HasStatus
      <3> QED  BY <2>1, <2>3, <3>2 DEF Known, Removable
    <2>4. CASE ~Removable(s, g)
      <3>1. membership'[s][g] = membership[s][g]
        BY <1>3, <2>4, EndStep
      <3>2. ~(HasStatus(s, g, {"term_ended"})'
              /\ membership'[s][g].rollover = Len(rollovers'))
        BY <1>0, <2>2, <3>1 DEF Listed, HasStatus
      <3> QED  BY <2>1, <3>1, <3>2 DEF Known, HasStatus
    <2> QED  BY <2>3, <2>4
  <1>4. CASE UndoEndTerm
    BY <1>4, UndoStep DEF Known
  <1>5. CASE RestStep
    BY <1>5 DEF RestStep, Known, Standing, HasStatus
  <1> QED  BY <1>1, <1>2, <1>3, <1>4, <1>5 DEF MembershipStep

LEMMA KnownIsEnough ==
    BeforeIsKnown <=> \A s \in Students, g \in Groups : Known(s, g)
  BY DEF BeforeIsKnown, Known

LEMMA InvStep == ASSUME IInv, [Next]_vars PROVE IInv'
  <1>1. TypeOK' /\ MembershipStep
    BY TypeStep, Memberships DEF IInv
  <1>2. OnOneRemovalList'
    BY <1>1, RemovalStep, ListedIsEnough DEF IInv, OnOneRemovalList, Listed
  <1>3. PendingIsUndecided' /\ AdmittedByDecision'
    BY AdmissionStep DEF IInv
  <1>4. NoMemberOfLastTerm' /\ TouchedIsDecided'
    BY <1>1, MembersStep, TouchedStep DEF IInv
  <1>5. \A s \in Students, g \in Groups : Listed(s, g) /\ Known(s, g)
    BY ListedIsEnough, KnownIsEnough DEF IInv
  <1>6. \A s \in Students, g \in Groups : Known(s, g)'
    BY <1>1, <1>5, KnownStep DEF IInv
  <1>7. BeforeIsKnown'
    BY <1>6 DEF BeforeIsKnown, Known
  <1> QED  BY <1>1, <1>2, <1>3, <1>4, <1>7 DEF IInv

-----------------------------------------------------------------------------
(* What is proved *)

\* The invariant holds of every reachable state.
THEOREM MembershipInvariance == Spec => []IInv
  <1>1. Init => IInv
    BY InitInv
  <1>2. IInv /\ [Next]_vars => IInv'
    BY InvStep
  <1> QED  BY <1>1, <1>2, PTL DEF Spec

\* Every variable keeps its type.
THEOREM MembershipTypeCorrect == Spec => []TypeOK
  <1>1. IInv => TypeOK
    BY DEF IInv
  <1> QED  BY <1>1, MembershipInvariance, PTL

\* Whoever lost a group at an end of term is on one removal list that counts.
THEOREM RemovalListsCorrect == Spec => []OnOneRemovalList
  <1>1. IInv => OnOneRemovalList
    BY DEF IInv
  <1> QED  BY <1>1, MembershipInvariance, PTL

\* Nobody is in a subject's group without a request that was approved.
THEOREM AdmissionsCorrect == Spec => []AdmittedByDecision
  <1>1. IInv => AdmittedByDecision
    BY DEF IInv
  <1> QED  BY <1>1, MembershipInvariance, PTL

\* While an end of term stands, its members are gone or were admitted again.
THEOREM TermsSeparate == Spec => []NoMemberOfLastTerm
  <1>1. IInv => NoMemberOfLastTerm
    BY DEF IInv
  <1> QED  BY <1>1, MembershipInvariance, PTL

\* A block is lifted by a review only.
THEOREM BlocksStand == Spec => BlockSurvives
  <1> DEFINE Kept == \A s \in Students, g \in Groups :
                         /\ HasStatus(s, g, {"blocked"})
                         /\ membership'[s][g].status # "blocked"
                         => UNCHANGED <<enrollment, verified, term, rollovers>>
  <1>1. ASSUME TypeOK, [Next]_vars PROVE Kept
    <2> SUFFICES ASSUME NEW s \in Students, NEW g \in Groups,
                        HasStatus(s, g, {"blocked"}),
                        membership'[s][g].status # "blocked"
                 PROVE  UNCHANGED <<enrollment, verified, term, rollovers>>
      OBVIOUS
    <2> USE DEF past, termVars, peopleVars
    <2>0. /\ membership'[s][g] # membership[s][g]
          /\ membership[s][g] # Null /\ membership[s][g].status = "blocked"
          /\ membership[s][g] \in GroupMembership
      BY <1>1 DEF HasStatus, TypeOK
    <2>1. ASSUME NEW t \in Students, NEW groups \in SUBSET Groups,
                 AddToGroups(t, groups)
          PROVE  FALSE
      <3>1. membership'[s][g] \in {membership[s][g], Admitted(membership[s][g])}
        BY <1>1, <2>1 DEF AddToGroups, TypeOK
      <3> QED  BY <2>0, <3>1, AdmittedRow
    <2>2. ASSUME NEW q \in Requests, NEW approved \in SUBSET Subjects, Decide(q, approved)
          PROVE  FALSE
      <3>1. enrollment[q].user \in Students /\ approved \in SUBSET Groups
        BY <1>1, <2>2 DEF Decide, TypeOK, EnrollmentRequest, Groups
      <3> QED  BY <2>1, <2>2, <3>1 DEF Decide
    <2>3. ASSUME NEW t \in Students, Verify(t) PROVE FALSE
      <3>1. Communities \in SUBSET Groups
        BY DEF Groups
      <3> QED  BY <2>1, <2>3, <3>1 DEF Verify
    <2>4. ASSUME NEW from \in Terms \cup {Null}, NEW to \in Terms, EndTermFrom(from, to)
          PROVE  FALSE
      BY <1>1, <2>0, <2>4, EndStep DEF Removable, HasStatus
    <2>5. ASSUME NEW to \in Terms, EndTerm(to) PROVE FALSE
      BY <1>1, <2>4, <2>5 DEF EndTerm, TypeOK
    <2>6. ASSUME NEW a \in Admins, FirstEndTerm(a) PROVE FALSE
      <3>1. ending[a] \in Terms
        BY <1>1, <2>6 DEF FirstEndTerm, TypeOK
      <3> QED  BY <2>4, <2>6, <3>1 DEF FirstEndTerm
    <2>7. CASE UndoEndTerm
      BY <1>1, <2>0, <2>7, UndoStep DEF HasStatus
    <2>8. ASSUME NEW t \in Students, NEW h \in Groups,
                 \/ Leave(t, h)
                 \/ \E status \in {"approved", "rejected", "blocked"} :
                        Review(t, h, status)
          PROVE  UNCHANGED <<enrollment, verified, term, rollovers>>
      BY <2>8 DEF Leave, Review, Decided
    <2>9. ASSUME NEW t \in Students, NEW h \in Groups,
                 NEW role \in {"member", "moderator"}, SetRole(t, h, role)
          PROVE  UNCHANGED <<enrollment, verified, term, rollovers>>
      BY <2>9 DEF SetRole
    <2>10. ASSUME membership' = membership PROVE FALSE
      BY <2>0, <2>10
    <2>11. ASSUME NEW t \in Students, SendBack(t) \/ ConfirmTerm(t) PROVE FALSE
      BY <2>10, <2>11 DEF SendBack, ConfirmTerm
    <2>12. ASSUME NEW t \in Students, NEW q \in Requests,
                  NEW subjects \in SUBSET Subjects, Submit(t, q, subjects)
           PROVE  FALSE
      BY <2>10, <2>12 DEF Submit
    <2>13. ASSUME NEW q \in Requests, CancelRequest(q) PROVE FALSE
      BY <2>10, <2>13 DEF CancelRequest
    <2>14. ASSUME NEW a \in Admins, NEW to \in Terms,
                  \/ ReadNoTerm(a, to) \/ AbandonEndTerm(a) \/ SetCurrentTerm(to)
           PROVE  FALSE
      BY <2>10, <2>14 DEF ReadNoTerm, AbandonEndTerm, SetCurrentTerm
    <2>15. ASSUME NEW a \in Admins, AbandonEndTerm(a) PROVE FALSE
      BY <2>10, <2>15 DEF AbandonEndTerm
    <2>16. ASSUME NEW to \in Terms, SetCurrentTerm(to) PROVE FALSE
      BY <2>10, <2>16 DEF SetCurrentTerm
    <2>17. CASE UNCHANGED vars
      BY <2>10, <2>17 DEF vars
    <2> QED
      BY <1>1, <2>2, <2>3, <2>5, <2>6, <2>7, <2>8, <2>9, <2>11, <2>12, <2>13, <2>14,
         <2>15, <2>16, <2>17 DEF Next, Registration, GroupStaff, TermOffice
  <1>2. TypeOK /\ [Next]_vars => [Kept]_vars
    BY <1>1
  <1> QED  BY <1>2, MembershipTypeCorrect, PTL DEF Spec, BlockSurvives

\* An undo brings back what the end of term found, and leaves alone what a
\* person has decided since.
THEOREM UndoCorrect == Spec => UndoRestores
  <1> DEFINE Restored == Standing /\ ~Standing' =>
                 \A s \in Students, g \in Groups :
                     IF <<s, g>> \in touched
                     THEN membership'[s][g] = membership[s][g]
                     ELSE <<s, g>> \in Approved' <=> <<s, g>> \in before
  <1>1. ASSUME IInv, [Next]_vars PROVE Restored
    <2> SUFFICES ASSUME Standing, ~Standing', NEW s \in Students, NEW g \in Groups
                 PROVE  IF <<s, g>> \in touched
                        THEN membership'[s][g] = membership[s][g]
                        ELSE <<s, g>> \in Approved' <=> <<s, g>> \in before
      OBVIOUS
    <2>1. TypeOK /\ MembershipStep
      BY <1>1, Memberships DEF IInv
    <2>2. UndoEndTerm
      BY <2>1, EndStep DEF MembershipStep, DecisionStep, RoleStep, RestStep, Standing
    <2>3. CASE HasStatus(s, g, {"term_ended"})
               /\ membership[s][g].rollover = Len(rollovers)
      <3>1. /\ membership'[s][g] \in GroupMembership
            /\ membership'[s][g].status = "approved"
        BY <2>1, <2>2, <2>3, UndoStep
      <3>2. <<s, g>> \in Approved'
        BY <3>1, MembershipAssumption DEF Approved, HasStatus
      <3>3. <<s, g>> \notin touched
        BY <1>1, <2>3 DEF IInv, TouchedIsDecided, HasStatus
      <3>4. <<s, g>> \in before
        BY <1>1, <2>3, <3>3 DEF IInv, BeforeIsKnown
      <3> QED  BY <3>2, <3>3, <3>4
    <2>4. CASE ~(HasStatus(s, g, {"term_ended"})
                 /\ membership[s][g].rollover = Len(rollovers))
      <3>1. membership'[s][g] = membership[s][g]
        BY <2>1, <2>2, <2>4, UndoStep
      <3>2. <<s, g>> \in Approved' <=> HasStatus(s, g, {"approved"})
        BY <3>1 DEF Approved, HasStatus
      <3>3. <<s, g>> \notin touched =>
                (<<s, g>> \in before <=> HasStatus(s, g, {"approved"}))
        BY <1>1, <2>4 DEF IInv, BeforeIsKnown
      <3> QED  BY <3>1, <3>2, <3>3
    <2> QED  BY <2>3, <2>4
  <1>2. IInv /\ [Next]_vars => [Restored]_vars
    BY <1>1
  <1> QED  BY <1>2, MembershipInvariance, PTL DEF Spec, UndoRestores
=============================================================================
