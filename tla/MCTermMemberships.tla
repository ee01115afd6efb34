------------------------- MODULE MCTermMemberships -------------------------
(* TermMemberships on a small instance: a student, a subject, a community, *)
(* two requests (to come back in a new term), two ends of term and two     *)
(* admins who may end the first term at the same time.                     *)
EXTENDS TermMemberships, TLC

Symmetry ==
    UNION {Permutations(Requests), Permutations(Admins), Permutations(Terms)}

\* The community is joined, left alone by the ends of term, and blocked.  What
\* the staff does with roles is explored while the student is in no community.
QuietCommunities ==
    \A s \in Students, c \in Communities :
        HasStatus(s, c, GroupMembershipStatus) =>
            /\ membership[s][c].status \in {"approved", "blocked"}
            /\ \A g \in Groups :
                   membership[s][g] # Null => membership[s][g].role = "member"
=============================================================================
