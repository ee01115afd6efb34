--------------------------- MODULE MCUserAccount ---------------------------
(* The account of a student and the profile that goes with it, which share *)
(* no state: UserAccount and StudentVerification on small instances.  A    *)
(* behaviour is one of one of them, while the other rests.  Of the account *)
(* one session is enough to be ended by what comes from elsewhere; there   *)
(* are two resends at a time and three links, so that each may revoke the  *)
(* first and miss the other's.  Of the profile two requests are enough for *)
(* one that was decided and one that two submissions race for.             *)
EXTENDS UserAccount, FiniteSets, TLC

CONSTANTS
    MaxInFlight,  \* bound on the requests under way at a time
    Details, Submitters, Forms, NotServed, MaxRequests, MaxForms

VARIABLES part, profile, verifications, submission, patch, forms, reverted, moved, due

identity == <<profile, verifications, submission, patch, forms, reverted, moved, due>>
everything == <<part, vars, identity>>

Identity == INSTANCE StudentVerification WITH form <- patch

ASSUME IdentityAssumption == Identity!Parameters

AccountInit ==
    /\ part \in {"access", "identity"}
    /\ Init /\ Identity!Init
    /\ part = "access"   => profile.details = CHOOSE d \in Details : TRUE
    /\ part = "identity" => user.password = Temporary

AccountNext ==
    /\ UNCHANGED part
    /\ \/ part = "access" /\ Next /\ UNCHANGED identity
       \/ part = "identity" /\ Identity!Next /\ UNCHANGED vars

AccountSpec == AccountInit /\ [][AccountNext]_everything

Symmetry ==
    UNION {Permutations(Sessions), Permutations(Links), Permutations(Admins)}

\* Of a profile that a stale copy has overwritten nothing is claimed any more.
FewInFlight ==
    /\ ~reverted
    /\ Cardinality({s \in Sessions : form[s] # Null}) + Cardinality(changing)
         + Cardinality({a \in Admins : resend[a] # Null})
         + (IF code = "used" THEN 1 ELSE 0) <= MaxInFlight

\* The profile of a student says what was last decided about the student.
ProfileFollowsRequests == Identity!ProfileFollowsRequests
=============================================================================
