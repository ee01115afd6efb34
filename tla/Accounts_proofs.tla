--------------------------- MODULE Accounts_proofs ---------------------------
(***************************************************************************)
(* Proofs about the account of a student and the profile that goes with    *)
(* it, for any number of sessions, links, admins, submissions and forms    *)
(* and any bounds: of UserAccount first, then of StudentVerification (its  *)
(* instance Identity).                                                      *)
(*                                                                         *)
(* Profile edits that write back a row that was current change nothing; of *)
(* the others the properties claim nothing.                                *)
(***************************************************************************)
EXTENDS MCUserAccount, SequenceTheorems, TLAPS

-----------------------------------------------------------------------------
(* The account: the inductive invariant *)

\* No session is of a version the account has not reached, and none was opened
\* without a password that worked.
SessionsAreOfThePast ==
    ~torn => \A s \in Sessions :
        session[s] # Null => /\ session[s].version <= user.version
                             /\ session[s].password # Unusable

\* Of an account that was not deleted, the sessions of its version have its
\* password, whether it is active or not: no activation may revive another.  So
\* they need not end when an invitation sets the first password.
VersionTellsPassword ==
    ~torn /\ ~replaced /\ ~user.deleted =>
        \A s \in Sessions :
            session[s] # Null /\ session[s].version = user.version
                => session[s].password = user.password

DeletedIsShut == ~torn /\ user.deleted => ~user.active

AccountInv ==
    /\ TypeOK
    /\ SessionsAreOfThePast
    /\ VersionTellsPassword
    /\ DeletedIsShut
    /\ WayIn

\* The password that is set is one that works.
LEMMA NewPasswordWorks ==
    ASSUME TypeOK, NewPassword
    PROVE  lastPassword' \in Nat /\ lastPassword' # Unusable
  BY DEF TypeOK, NewPassword, Unusable

\* Setting a password leaves the rest of the row alone.
LEMMA WithPassword ==
    ASSUME NEW row \in User, NEW p \in Nat
    PROVE  LET set == [row EXCEPT !.password = p, !.must_change = FALSE]
           IN  /\ set \in User
               /\ set.password = p
               /\ set.version = row.version
               /\ set.active = row.active
               /\ set.deleted = row.deleted
  BY DEF User

LEMMA WithPasswordOnly ==
    ASSUME NEW row \in User, NEW p \in Nat
    PROVE  LET set == [row EXCEPT !.password = p]
           IN  /\ set \in User
               /\ set.password = p
               /\ set.version = row.version
               /\ set.active = row.active
               /\ set.deleted = row.deleted
  BY DEF User

\* So does ending the sessions, which takes the row to the next version.
LEMMA InvalidatedRow ==
    ASSUME NEW row \in User
    PROVE  /\ Invalidated(row) \in User
           /\ Invalidated(row).version = row.version + 1
           /\ Invalidated(row).password = row.password
           /\ Invalidated(row).active = row.active
           /\ Invalidated(row).deleted = row.deleted
  BY DEF User, Invalidated

-----------------------------------------------------------------------------
(* The account: what a step does to the row *)

\* It ends every session, whatever else it changes, and takes no password away.
SessionsEnd ==
    /\ user'.version = user.version + 1
    /\ user'.deleted = user.deleted
    /\ user.deleted => user'.active = user.active
    /\ user'.password = Unusable => user.password = Unusable
    /\ session' = session

\* It sets the password of an invitation that was accepted.
InvitationAccepted ==
    /\ user'.version = user.version
    /\ user'.deleted = user.deleted
    /\ user'.active = user.active
    /\ user'.password # Unusable
    /\ ~replaced' => user.password = Unusable
    /\ session' = session

\* It invites the person again, with another link.
InvitedAgain ==
    /\ user'.version = user.version
    /\ user'.deleted = user.deleted
    /\ user'.active = user.active
    /\ user'.password = Unusable
    /\ ~replaced' => user.password = Unusable
    /\ session' = session
    /\ \E l \in Links : HasState(l, {"pending"})'

\* It deletes the account.
Deletion ==
    /\ user'.version = user.version
    /\ user'.deleted
    /\ ~user'.active
    /\ user'.password = Unusable
    /\ session' = session

\* What was torn or replaced stays so.
GhostStep == (torn => torn') /\ (replaced => replaced')

RowStep ==
    /\ user' \in User
    /\ GhostStep
    /\ \/ torn' \/ user' = user
       \/ SessionsEnd \/ InvitationAccepted \/ InvitedAgain \/ Deletion

\* Every step does one of these, or leaves the row as it is, or tears it.
LEMMA Rows == ASSUME TypeOK, [Next]_vars PROVE RowStep
  <1> USE DEF requests, ghosts, GhostStep
  <1>0. user \in User /\ user.version \in Nat
    BY DEF TypeOK, User
  <1>1. ASSUME NEW s \in Sessions, Login(s) \/ OpenProfile(s) \/ BeginChange(s)
        PROVE  RowStep
    BY <1>0, <1>1 DEF Login, OpenProfile, BeginChange, RowStep
  <1>2. ASSUME NEW s \in Sessions, SaveProfile(s) PROVE RowStep
    BY <1>0, <1>2 DEF SaveProfile, RowStep, TypeOK
  <1>3. ASSUME NEW s \in Sessions, CommitChange(s) PROVE RowStep
    <2> DEFINE set == [user EXCEPT !.password = lastPassword', !.must_change = FALSE]
    <2>1. NewPassword /\ user' = Invalidated(set)
          /\ UNCHANGED <<session, torn, replaced>>
      BY <1>3 DEF CommitChange
    <2>2. lastPassword' \in Nat /\ lastPassword' # Unusable
      BY <2>1, NewPasswordWorks
    <2>3. /\ set \in User /\ set.password = lastPassword'
          /\ set.version = user.version /\ set.active = user.active
          /\ set.deleted = user.deleted
      BY <1>0, <2>2, WithPassword
    <2> HIDE DEF set
    <2>4. /\ user' \in User /\ user'.version = set.version + 1
          /\ user'.password = set.password /\ user'.active = set.active
          /\ user'.deleted = set.deleted
      BY <2>1, <2>3, InvalidatedRow
    <2> QED  BY <2>1, <2>2, <2>3, <2>4 DEF SessionsEnd, RowStep
  <1>4. CASE RequestCode \/ UseCode \/ LoseCode \/ RevokeLinks
    BY <1>0, <1>4 DEF RequestCode, UseCode, LoseCode, RevokeLinks, RowStep
  <1>5. CASE ResetByCode
    <2> DEFINE set == [user EXCEPT !.password = lastPassword']
    <2>1. NewPassword /\ user' = Invalidated(set)
          /\ UNCHANGED <<session, torn, replaced>>
      BY <1>5 DEF ResetByCode
    <2>2. lastPassword' \in Nat /\ lastPassword' # Unusable
      BY <2>1, NewPasswordWorks
    <2>3. /\ set \in User /\ set.password = lastPassword'
          /\ set.version = user.version /\ set.active = user.active
          /\ set.deleted = user.deleted
      BY <1>0, <2>2, WithPasswordOnly
    <2> HIDE DEF set
    <2>4. /\ user' \in User /\ user'.version = set.version + 1
          /\ user'.password = set.password /\ user'.active = set.active
          /\ user'.deleted = set.deleted
      BY <2>1, <2>3, InvalidatedRow
    <2> QED  BY <2>1, <2>2, <2>3, <2>4 DEF SessionsEnd, RowStep
  <1>6. ASSUME NEW l \in Links, AcceptLink(l) PROVE RowStep
    <2> DEFINE set == [user EXCEPT !.password = lastPassword', !.must_change = FALSE]
    <2>1. /\ NewPassword /\ UNCHANGED <<session, torn>>
          /\ \/ user' = set /\ replaced' = (replaced \/ user.password # Unusable)
             \/ user' = Invalidated(set) /\ UNCHANGED replaced
      BY <1>6 DEF AcceptLink
    <2>2. lastPassword' \in Nat /\ lastPassword' # Unusable
      BY <2>1, NewPasswordWorks
    <2>3. /\ set \in User /\ set.password = lastPassword'
          /\ set.version = user.version /\ set.active = user.active
          /\ set.deleted = user.deleted
      BY <1>0, <2>2, WithPassword
    <2> HIDE DEF set
    <2>4. CASE user' = set /\ replaced' = (replaced \/ user.password # Unusable)
      BY <2>1, <2>2, <2>3, <2>4 DEF InvitationAccepted, RowStep
    <2>5. CASE user' = Invalidated(set) /\ UNCHANGED replaced
      <3>1. /\ user' \in User /\ user'.version = set.version + 1
            /\ user'.password = set.password /\ user'.active = set.active
            /\ user'.deleted = set.deleted
        BY <2>3, <2>5, InvalidatedRow
      <3> QED  BY <2>1, <2>2, <2>3, <2>5, <3>1 DEF SessionsEnd, RowStep
    <2> QED  BY <2>1, <2>4, <2>5
  <1>7. ASSUME NEW l \in Links, ExpireLink(l) PROVE RowStep
    BY <1>0, <1>7 DEF ExpireLink, RowStep
  <1>8. ASSUME NEW a \in Admins, ReadForResend(a) \/ RevokeForResend(a)
        PROVE  RowStep
    BY <1>0, <1>8 DEF ReadForResend, RevokeForResend, RowStep
  <1>9. ASSUME NEW a \in Admins, NEW l \in Links, CommitResend(a, l) PROVE RowStep
    <2>1. CASE resend[a].purpose # "invite"
      BY <1>0, <1>9, <2>1 DEF CommitResend, RowStep
    <2>2. CASE resend[a].purpose = "invite"
      <3>1. /\ user' = [user EXCEPT !.password = Unusable, !.must_change = FALSE]
            /\ replaced' = (replaced \/ user.password # Unusable)
            /\ UNCHANGED <<session, torn>>
        BY <1>9, <2>2 DEF CommitResend
      <3>2. /\ user' \in User /\ user'.password = Unusable
            /\ user'.version = user.version /\ user'.active = user.active
            /\ user'.deleted = user.deleted
        BY <1>0, <3>1, WithPassword DEF Unusable
      <3>3. link'[l] = [state |-> "pending", purpose |-> resend[a].purpose]
        BY <1>9 DEF CommitResend, TypeOK
      <3>4. resend[a].purpose \in {"invite", "reset"}
        BY <2>2
      <3>5. HasState(l, {"pending"})'
        BY <3>3, <3>4, AccountAssumption DEF HasState, UserInvitation
      <3> QED  BY <3>1, <3>2, <3>5 DEF InvitedAgain, RowStep
    <2> QED  BY <2>1, <2>2
  <1>10. CASE EndSessions
    BY <1>0, <1>10, InvalidatedRow DEF EndSessions, SessionsEnd, RowStep
  <1>11. CASE Deactivate \/ Activate
    <2>1. PICK on \in BOOLEAN :
              /\ user' = Invalidated([user EXCEPT !.active = on])
              /\ ~user.deleted /\ UNCHANGED <<session, torn, replaced>>
      BY <1>11 DEF Deactivate, Activate
    <2> DEFINE set == [user EXCEPT !.active = on]
    <2>2. /\ set \in User /\ set.password = user.password
          /\ set.version = user.version /\ set.deleted = user.deleted
      BY <1>0 DEF User
    <2> HIDE DEF set
    <2>3. /\ user' \in User /\ user'.version = set.version + 1
          /\ user'.password = set.password /\ user'.deleted = set.deleted
      BY <2>1, <2>2, InvalidatedRow DEF set
    <2> QED  BY <2>1, <2>2, <2>3 DEF SessionsEnd, RowStep
  <1>12. CASE DeleteAccount
    BY <1>0, <1>12 DEF DeleteAccount, Deletion, RowStep, User, Unusable
  <1>13. CASE UNCHANGED vars
    BY <1>0, <1>13 DEF vars, RowStep
  <1> QED
    BY <1>1, <1>2, <1>3, <1>4, <1>5, <1>6, <1>7, <1>8, <1>9, <1>10, <1>11, <1>12,
       <1>13 DEF Next, Person, Staff

-----------------------------------------------------------------------------
(* The account: the invariant is inductive *)

\* Initially nobody is signed in and there is a password or a link.
LEMMA InitInv == ASSUME Init PROVE AccountInv
  <1>1. /\ session = [s \in Sessions |-> Null]
        /\ ~torn /\ ~replaced
        /\ user \in User /\ ~user.deleted /\ user.version = 1
    <2>1. \E p \in {Unusable, Temporary}, m \in BOOLEAN :
              user = [password |-> p, must_change |-> m, version |-> 1,
                      active |-> TRUE, deleted |-> FALSE]
      BY DEF Init
    <2>2. user \in User /\ ~user.deleted /\ user.version = 1
      BY <2>1 DEF User, Unusable, Temporary
    <2> QED  BY <2>2 DEF Init
  <1>2. link \in [Links -> UserInvitation \cup {Null}]
    BY DEF Init, UserInvitation
  <1>3. TypeOK
    BY <1>1, <1>2 DEF Init, TypeOK, Temporary
  <1>4. SessionsAreOfThePast /\ VersionTellsPassword /\ DeletedIsShut
    BY <1>1 DEF SessionsAreOfThePast, VersionTellsPassword, DeletedIsShut
  <1>5. WayIn
    <2>1. SUFFICES ASSUME user.password = Unusable
                   PROVE  \E l \in Links :
                              HasState(l, {"pending", "expired", "withdrawn"})
      BY DEF WayIn
    <2>2. PICK l \in Links :
              link = [i \in Links |->
                  IF i = l THEN [state |-> "pending", purpose |-> "invite"]
                           ELSE Null]
      BY <2>1 DEF Init, Unusable, Temporary
    <2>3. link[l] = [state |-> "pending", purpose |-> "invite"]
      BY <2>2
    <2> QED  BY <2>3, AccountAssumption DEF HasState, UserInvitation
  <1> QED  BY <1>3, <1>4, <1>5 DEF AccountInv

\* Types are kept by every step.
LEMMA TypeStep == ASSUME TypeOK, [Next]_vars PROVE TypeOK'
  <1> USE DEF TypeOK, requests, ghosts
  <1>0. user' \in User
    BY Rows DEF RowStep
  <1>1. ASSUME NEW s \in Sessions, Login(s) PROVE TypeOK'
    BY <1>0, <1>1 DEF Login, Session, User
  <1>2. ASSUME NEW s \in Sessions, OpenProfile(s) PROVE TypeOK'
    BY <1>2 DEF OpenProfile
  <1>3. ASSUME NEW s \in Sessions, SaveProfile(s) PROVE TypeOK'
    BY <1>0, <1>3 DEF SaveProfile
  <1>4. ASSUME NEW s \in Sessions, BeginChange(s) PROVE TypeOK'
    BY <1>4 DEF BeginChange
  <1>5. ASSUME NEW s \in Sessions, CommitChange(s) PROVE TypeOK'
    BY <1>0, <1>5 DEF CommitChange, NewPassword
  <1>6. CASE RequestCode \/ UseCode \/ LoseCode
    BY <1>6 DEF RequestCode, UseCode, LoseCode
  <1>7. CASE ResetByCode
    BY <1>0, <1>7 DEF ResetByCode, NewPassword
  <1>8. ASSUME NEW l \in Links, AcceptLink(l) PROVE TypeOK'
    <2>1. link' \in [Links -> UserInvitation \cup {Null}]
      BY <1>8 DEF AcceptLink, Pending, HasState, UserInvitation
    <2>2. lastPassword' \in Nat /\ replaced' \in BOOLEAN
      <3>1. NewPassword
            /\ \/ replaced' = (replaced \/ user.password # Unusable)
               \/ replaced' = replaced
        BY <1>8 DEF AcceptLink
      <3>2. replaced' \in BOOLEAN
        BY <3>1
      <3> QED  BY <3>1, <3>2, NewPasswordWorks
    <2> QED  BY <1>0, <1>8, <2>1, <2>2 DEF AcceptLink
  <1>9. ASSUME NEW l \in Links, ExpireLink(l) PROVE TypeOK'
    BY <1>9 DEF ExpireLink, Pending, HasState, UserInvitation
  <1>10. ASSUME NEW a \in Admins, ReadForResend(a) PROVE TypeOK'
    BY <1>10 DEF ReadForResend, Resend
  <1>11. ASSUME NEW a \in Admins, RevokeForResend(a) PROVE TypeOK'
    BY <1>11 DEF RevokeForResend, Resend, Open
  <1>12. ASSUME NEW a \in Admins, NEW l \in Links, CommitResend(a, l) PROVE TypeOK'
    <2>1. resend[a] \in Resend
      BY <1>12 DEF CommitResend
    <2>2. link' \in [Links -> UserInvitation \cup {Null}]
      BY <1>12, <2>1 DEF CommitResend, Open, HasState, UserInvitation, Resend
    <2>3. replaced' \in BOOLEAN
      BY <1>12 DEF CommitResend
    <2> QED  BY <1>0, <1>12, <2>2, <2>3 DEF CommitResend
  <1>13. CASE RevokeLinks
    BY <1>13 DEF RevokeLinks, Open, HasState, UserInvitation
  <1>14. CASE EndSessions \/ Deactivate \/ Activate \/ DeleteAccount
    BY <1>0, <1>14 DEF EndSessions, Deactivate, Activate, DeleteAccount
  <1>15. CASE UNCHANGED vars
    BY <1>15 DEF vars
  <1> QED
    BY <1>1, <1>2, <1>3, <1>4, <1>5, <1>6, <1>7, <1>8, <1>9, <1>10, <1>11, <1>12,
       <1>13, <1>14, <1>15 DEF Next, Person, Staff

\* A person without a password keeps a link that is not used, and revoked by no
\* resend, or is given a new one.
LEMMA LinkStep ==
    ASSUME TypeOK, [Next]_vars
    PROVE  \/ user'.password # Unusable
           \/ \E l \in Links : HasState(l, {"pending"})'
           \/ \A l \in Links : HasState(l, {"pending", "expired", "withdrawn"})
                  => HasState(l, {"pending", "expired", "withdrawn"})'
  <1> DEFINE Kept == \A l \in Links :
                         HasState(l, {"pending", "expired", "withdrawn"})
                             => HasState(l, {"pending", "expired", "withdrawn"})'
  <1> USE AccountAssumption DEF requests, ghosts, HasState
  <1>1. ASSUME NEW l \in Links, AcceptLink(l) PROVE user'.password # Unusable
    <2>1. NewPassword /\ user \in User
      BY <1>1 DEF AcceptLink, TypeOK
    <2>2. lastPassword' \in Nat /\ lastPassword' # Unusable
      BY <2>1, NewPasswordWorks
    <2> DEFINE set == [user EXCEPT !.password = lastPassword', !.must_change = FALSE]
    <2>3. set \in User /\ set.password = lastPassword'
      BY <2>1, <2>2, WithPassword
    <2>4. user' = set \/ user' = Invalidated(set)
      BY <1>1 DEF AcceptLink
    <2> HIDE DEF set
    <2> QED  BY <2>2, <2>3, <2>4, InvalidatedRow
  <1>2. ASSUME NEW l \in Links, ExpireLink(l) PROVE Kept
    BY <1>2 DEF ExpireLink, Pending, TypeOK, UserInvitation
  <1>3. CASE RevokeLinks
    BY <1>3 DEF RevokeLinks, Open, TypeOK, UserInvitation
  <1>4. ASSUME NEW a \in Admins, NEW l \in Links, CommitResend(a, l)
        PROVE  HasState(l, {"pending"})'
    <2>1. link'[l] = [state |-> "pending", purpose |-> resend[a].purpose]
          /\ resend[a] \in Resend
      BY <1>4 DEF CommitResend, TypeOK
    <2> QED  BY <2>1 DEF UserInvitation, Resend
  <1>5. ASSUME link' = link PROVE Kept
    BY <1>5
  <1>6. ASSUME NEW s \in Sessions,
               \/ Login(s) \/ OpenProfile(s) \/ SaveProfile(s) \/ BeginChange(s)
               \/ CommitChange(s)
        PROVE  Kept
    BY <1>5, <1>6 DEF Login, OpenProfile, SaveProfile, BeginChange, CommitChange
  <1>7. CASE RequestCode \/ UseCode \/ LoseCode \/ ResetByCode
    BY <1>5, <1>7 DEF RequestCode, UseCode, LoseCode, ResetByCode
  <1>8. CASE EndSessions \/ Deactivate \/ Activate \/ DeleteAccount
    BY <1>5, <1>8 DEF EndSessions, Deactivate, Activate, DeleteAccount
  <1>9. ASSUME NEW a \in Admins, ReadForResend(a) \/ RevokeForResend(a) PROVE Kept
    BY <1>5, <1>9 DEF ReadForResend, RevokeForResend
  <1>10. CASE UNCHANGED vars
    BY <1>5, <1>10 DEF vars
  <1> QED
    BY <1>1, <1>2, <1>3, <1>4, <1>6, <1>7, <1>8, <1>9, <1>10 DEF Next, Person, Staff

\* A step that leaves the row as it is changes the sessions by a login at most.
LEMMA SessionStep ==
    ASSUME TypeOK, [Next]_vars
    PROVE  \/ session' = session
           \/ /\ user' = user /\ user.password # Unusable /\ user.active
              /\ \E s \in Sessions :
                     /\ session[s] = Null
                     /\ session' = [session EXCEPT
                            ![s] = [version |-> user.version,
                                    password |-> user.password]]
  BY DEF Next, Person, Staff, Login, OpenProfile, SaveProfile, BeginChange,
         CommitChange, RequestCode, UseCode, ResetByCode, LoseCode, AcceptLink,
         ExpireLink, ReadForResend, RevokeForResend, CommitResend, RevokeLinks,
         EndSessions, Deactivate, Activate, DeleteAccount, vars, requests, ghosts

\* What was true of the account and its sessions is true after every step.
LEMMA InvStep == ASSUME AccountInv, [Next]_vars PROVE AccountInv'
  <1> USE DEF AccountInv
  <1>0. /\ RowStep /\ user' \in User /\ user \in User
        /\ user.version \in Nat /\ user'.version \in Nat
        /\ session \in [Sessions -> Session \cup {Null}]
    BY Rows DEF RowStep, TypeOK, User
  <1>1. TypeOK'
    BY TypeStep
  <1>2. SessionsAreOfThePast'
    <2>1. SUFFICES ASSUME ~torn', NEW s \in Sessions, session'[s] # Null
                   PROVE  /\ session'[s].version <= user'.version
                          /\ session'[s].password # Unusable
      BY DEF SessionsAreOfThePast
    <2>2. ~torn
      BY <1>0, <2>1 DEF RowStep, GhostStep
    <2>3. user'.version = user.version \/ user'.version = user.version + 1
      BY <1>0, <2>1 DEF RowStep, SessionsEnd, InvitationAccepted, InvitedAgain,
                        Deletion
    <2>4. CASE session'[s] = session[s]
      <3>1. session[s] \in Session
        BY <1>0, <2>1, <2>4
      <3> QED  BY <1>0, <2>1, <2>2, <2>3, <2>4, <3>1 DEF SessionsAreOfThePast, Session
    <2>5. CASE user' = user /\ user.password # Unusable
               /\ session'[s] = [version |-> user.version, password |-> user.password]
      BY <1>0, <2>5
    <2> QED  BY <1>0, <2>4, <2>5, SessionStep
  <1>3. VersionTellsPassword'
    <2>1. SUFFICES ASSUME ~torn', ~replaced', ~user'.deleted,
                          NEW s \in Sessions, session'[s] # Null,
                          session'[s].version = user'.version
                   PROVE  session'[s].password = user'.password
      BY DEF VersionTellsPassword
    <2>2. ~torn /\ ~replaced
      BY <1>0, <2>1 DEF RowStep, GhostStep
    <2>3. CASE user' = user
      <3>1. CASE session'[s] = session[s]
        BY <2>1, <2>2, <2>3, <3>1 DEF VersionTellsPassword
      <3>2. CASE session'[s] = [version |-> user.version, password |-> user.password]
        BY <2>3, <3>2
      <3> QED  BY <1>0, <3>1, <3>2, SessionStep
    <2>4. CASE SessionsEnd
      <3>1. session[s] # Null /\ session[s] \in Session
        BY <1>0, <2>1, <2>4 DEF SessionsEnd
      <3>2. session[s].version <= user.version
        BY <2>2, <3>1 DEF SessionsAreOfThePast
      <3>3. FALSE
        BY <1>0, <2>1, <2>4, <3>1, <3>2 DEF SessionsEnd, Session
      <3> QED  BY <3>3
    <2>5. CASE InvitationAccepted \/ InvitedAgain
      <3>1. /\ session[s] # Null /\ session[s].version = user.version
            /\ ~user.deleted /\ user.password = Unusable
        BY <2>1, <2>5 DEF InvitationAccepted, InvitedAgain
      <3>2. session[s].password = Unusable
        BY <2>2, <3>1 DEF VersionTellsPassword
      <3> QED  BY <2>2, <3>1, <3>2 DEF SessionsAreOfThePast
    <2> QED  BY <1>0, <2>1, <2>3, <2>4, <2>5 DEF RowStep, Deletion
  <1>4. DeletedIsShut'
    BY <1>0 DEF DeletedIsShut, RowStep, GhostStep, SessionsEnd,
                InvitationAccepted, InvitedAgain, Deletion
  <1>5. WayIn'
    <2>1. SUFFICES ASSUME ~torn', ~user'.deleted, user'.password = Unusable
                   PROVE  \E l \in Links :
                              HasState(l, {"pending", "expired", "withdrawn"})'
      BY DEF WayIn
    <2>2. CASE \E l \in Links : HasState(l, {"pending"})'
      BY <2>2 DEF HasState
    <2>3. ASSUME ~user.deleted, user.password = Unusable, ~torn,
                 \A l \in Links : HasState(l, {"pending", "expired", "withdrawn"})
                     => HasState(l, {"pending", "expired", "withdrawn"})'
          PROVE  \E l \in Links : HasState(l, {"pending", "expired", "withdrawn"})'
      BY <2>3 DEF WayIn
    <2>4. ~torn
      BY <1>0, <2>1 DEF RowStep, GhostStep
    <2>5. \/ \E l \in Links : HasState(l, {"pending"})'
          \/ ~user.deleted /\ user.password = Unusable
      BY <1>0, <2>1 DEF RowStep, SessionsEnd, InvitationAccepted, InvitedAgain,
                        Deletion
    <2> QED  BY <2>1, <2>2, <2>3, <2>4, <2>5, LinkStep
  <1> QED  BY <1>1, <1>2, <1>3, <1>4, <1>5

-----------------------------------------------------------------------------
(* The account: what is proved *)

\* The invariant holds of every reachable state.
THEOREM AccountInvariance == Spec => []AccountInv
  <1>1. Init => AccountInv
    BY InitInv
  <1>2. AccountInv /\ [Next]_vars => AccountInv'
    BY InvStep
  <1> QED  BY <1>1, <1>2, PTL DEF Spec

\* Every variable keeps its type.
THEOREM AccountTypeCorrect == Spec => []TypeOK
  <1>1. AccountInv => TypeOK
    BY DEF AccountInv
  <1> QED  BY <1>1, AccountInvariance, PTL

\* Whoever signed in with a password is signed out when another is set.
THEOREM PasswordsEndSessions == Spec => []SessionsEndWithPassword
  <1>1. AccountInv => SessionsEndWithPassword
    <2>1. SUFFICES ASSUME AccountInv, ~torn, ~replaced, NEW s \in Sessions, Accepted(s)
                   PROVE  session[s].password = user.password
      BY DEF SessionsEndWithPassword
    <2>2. user.active /\ session[s] # Null /\ session[s].version = user.version
      BY <2>1 DEF Accepted
    <2>3. ~user.deleted
      BY <2>1, <2>2 DEF AccountInv, DeletedIsShut
    <2> QED  BY <2>1, <2>2, <2>3 DEF AccountInv, VersionTellsPassword
  <1> QED  BY <1>1, AccountInvariance, PTL

\* While no password works there is a link that no resend has revoked.
THEOREM SomeWayIn == Spec => []WayIn
  <1>1. AccountInv => WayIn
    BY DEF AccountInv
  <1> QED  BY <1>1, AccountInvariance, PTL

\* A link that was used or revoked is never touched again: whoever may change
\* one looks at its state when its row is locked.
THEOREM LinksAreFinal == Spec => LinkIsFinal
  <1> DEFINE Final == \A l \in Links :
                          HasState(l, {"accepted", "revoked", "withdrawn"})
                              => link'[l] = link[l]
  <1>1. ASSUME TypeOK, [Next]_vars PROVE Final \/ UNCHANGED vars
    <2> USE DEF HasState, requests, ghosts
    <2>1. ASSUME link' = link PROVE Final
      BY <2>1
    <2>2. ASSUME NEW l \in Links, AcceptLink(l) \/ ExpireLink(l) PROVE Final
      BY <1>1, <2>2 DEF AcceptLink, ExpireLink, Pending, TypeOK
    <2>3. CASE RevokeLinks
      BY <1>1, <2>3 DEF RevokeLinks, Open, TypeOK
    <2>4. ASSUME NEW a \in Admins, NEW l \in Links, CommitResend(a, l) PROVE Final
      BY <1>1, <2>4 DEF CommitResend, Open, TypeOK
    <2>5. ASSUME NEW s \in Sessions,
                 \/ Login(s) \/ OpenProfile(s) \/ SaveProfile(s) \/ BeginChange(s)
                 \/ CommitChange(s)
          PROVE  Final
      BY <2>1, <2>5 DEF Login, OpenProfile, SaveProfile, BeginChange, CommitChange
    <2>6. CASE RequestCode \/ UseCode \/ LoseCode \/ ResetByCode
      BY <2>1, <2>6 DEF RequestCode, UseCode, LoseCode, ResetByCode
    <2>7. CASE EndSessions \/ Deactivate \/ Activate \/ DeleteAccount
      BY <2>1, <2>7 DEF EndSessions, Deactivate, Activate, DeleteAccount
    <2>8. ASSUME NEW a \in Admins, ReadForResend(a) \/ RevokeForResend(a) PROVE Final
      BY <2>1, <2>8 DEF ReadForResend, RevokeForResend
    <2> QED
      BY <1>1, <2>2, <2>3, <2>4, <2>5, <2>6, <2>7, <2>8 DEF Next, Person, Staff
  <1>2. TypeOK /\ [Next]_vars => [Final]_vars
    BY <1>1
  <1> QED  BY <1>2, AccountTypeCorrect, PTL DEF Spec, LinkIsFinal

\* A session that was ended comes back by nothing but a profile edit that writes
\* back an old row: not by a password, an activation or an invitation.
THEOREM EndedUnlessTorn == Spec => OnlyTearsRevive
  <1> DEFINE Ended == \A s \in Sessions :
                          ~torn' /\ session[s] # Null /\ ~Accepted(s) => ~Accepted(s)'
  <1>1. ASSUME AccountInv, [Next]_vars PROVE Ended
    <2>1. SUFFICES ASSUME NEW s \in Sessions, ~torn', session[s] # Null,
                          ~Accepted(s), Accepted(s)'
                   PROVE  FALSE
      OBVIOUS
    <2>2. RowStep /\ user.version \in Nat /\ session[s] \in Session
      BY <1>1, <2>1, Rows DEF AccountInv, TypeOK, User
    <2>3. ~torn
      BY <2>1, <2>2 DEF RowStep, GhostStep
    <2>4. session'[s] = session[s]
      BY <1>1, <2>1, SessionStep DEF AccountInv, TypeOK
    <2>5. session[s].version <= user.version
      BY <1>1, <2>1, <2>3 DEF AccountInv, SessionsAreOfThePast
    <2>6. user'.active /\ session[s].version = user'.version
      BY <2>1, <2>4 DEF Accepted
    <2>7. ~user.active \/ session[s].version # user.version
      BY <2>1 DEF Accepted
    <2>8. session[s].version \in Nat
      BY <2>2 DEF Session
    <2>9. CASE user' = user
      BY <2>6, <2>7, <2>9
    <2>10. CASE SessionsEnd
      BY <2>2, <2>5, <2>6, <2>8, <2>10 DEF SessionsEnd
    <2>11. CASE InvitationAccepted \/ InvitedAgain \/ Deletion
      BY <2>6, <2>7, <2>11 DEF InvitationAccepted, InvitedAgain, Deletion
    <2> QED
      BY <2>1, <2>2, <2>9, <2>10, <2>11 DEF RowStep
  <1>2. AccountInv /\ [Next]_vars => [Ended]_vars
    BY <1>1
  <1> QED  BY <1>2, AccountInvariance, PTL DEF Spec, OnlyTearsRevive

-----------------------------------------------------------------------------
(* The profile: the inductive invariant *)

\* A form does not change the details of a profile it has read while they were
\* not to be changed.
FormsKeepDetails ==
    \A f \in Forms :
        patch[f] # NotServed /\ patch[f].read.status \notin Identity!Submittable
            => patch[f].details = patch[f].read.details

IdentityInv == Identity!TypeOK /\ FormsKeepDetails /\ Identity!ProfileFollowsRequests

USE DEF Identity!Submittable, Identity!Decisions

\* Initially there is no request and no stale copy.
LEMMA IdentityInit == ASSUME Identity!Parameters, Identity!Init PROVE IdentityInv
  <1>1. Len(verifications) = 0 /\ Identity!Open = {}
    BY DEF Identity!Init, Identity!Open
  <1>2. Identity!TypeOK
    <2>0. profile \in Identity!Profile
      BY DEF Identity!Init, Identity!Profile
    <2>1. forms \in 0..MaxForms
      BY DEF Identity!Init, Identity!Parameters
    <2>2. verifications \in Seq(Identity!Request) /\ Len(verifications) <= MaxRequests
      BY <1>1, EmptySeq DEF Identity!Init, Identity!Parameters
    <2>3. /\ submission \in [Submitters -> Identity!Served \cup {NotServed}]
          /\ patch \in [Forms -> Identity!Served \cup {NotServed}]
      BY DEF Identity!Init
    <2> QED  BY <2>0, <2>1, <2>2, <2>3 DEF Identity!Init, Identity!TypeOK
  <1>3. FormsKeepDetails
    BY DEF Identity!Init, FormsKeepDetails
  <1>4. Identity!ProfileFollowsRequests
    BY <1>1 DEF Identity!Init, Identity!ProfileFollowsRequests
  <1> QED  BY <1>2, <1>3, <1>4 DEF IdentityInv

\* Types are kept by every step.
LEMMA IdentityTypeStep ==
    ASSUME Identity!TypeOK, Identity!Parameters, [Identity!Next]_(Identity!vars)
    PROVE  Identity!TypeOK'
  <1> USE DEF Identity!TypeOK, Identity!Profile, Identity!Served
  <1>1. ASSUME NEW s \in Submitters, Identity!Submit(s) PROVE Identity!TypeOK'
    BY <1>1 DEF Identity!Submit
  <1>2. ASSUME NEW s \in Submitters, Identity!Create(s) PROVE Identity!TypeOK'
    <2> DEFINE new == [status |-> "pending", details |-> submission[s].details]
    <2>1. submission[s] \in Identity!Served /\ new \in Identity!Request
      BY <1>2 DEF Identity!Create, Identity!Request
    <2>2. Append(verifications, new) \in Seq(Identity!Request)
          /\ Len(Append(verifications, new)) = Len(verifications) + 1
      BY <2>1, AppendProperties
    <2>3. /\ verifications' \in Seq(Identity!Request)
          /\ Len(verifications') <= MaxRequests
      BY <1>2, <2>2, LenProperties DEF Identity!Create, Identity!Parameters
    <2>4. profile' \in Identity!Profile
      BY <1>2, <2>1 DEF Identity!Create
    <2> QED  BY <1>2, <2>3, <2>4 DEF Identity!Create
  <1>3. ASSUME NEW s \in Submitters, Identity!CreateFails(s) PROVE Identity!TypeOK'
    BY <1>3 DEF Identity!CreateFails
  <1>4. ASSUME NEW v \in DOMAIN verifications, NEW decision \in Identity!Decisions,
               Identity!Review(v, decision)
        PROVE  Identity!TypeOK'
    <2>0. v \in 1..Len(verifications) /\ verifications[v] \in Identity!Request
      BY <1>4, ElementOfSeq, LenProperties
    <2>1. [verifications[v] EXCEPT !.status = decision] \in Identity!Request
      BY <1>4, <2>0 DEF Identity!Request
    <2>2. /\ verifications' \in Seq(Identity!Request)
          /\ Len(verifications') = Len(verifications)
      BY <1>4, <2>0, <2>1, ExceptSeq DEF Identity!Review
    <2>3. verifications[v].details \in Details
      BY <2>0 DEF Identity!Request
    <2>4. profile' \in Identity!Profile
      BY <1>4, <2>3 DEF Identity!Review
    <2> QED  BY <1>4, <2>2, <2>4 DEF Identity!Review
  <1>5. ASSUME NEW f \in Forms, Identity!OpenForm(f) PROVE Identity!TypeOK'
    BY <1>5 DEF Identity!OpenForm, Identity!Parameters
  <1>6. ASSUME NEW f \in Forms, Identity!SaveForm(f) PROVE Identity!TypeOK'
    BY <1>6 DEF Identity!SaveForm
  <1>7. ASSUME NEW f \in Forms, Identity!SaveFails(f) PROVE Identity!TypeOK'
    BY <1>7 DEF Identity!SaveFails
  <1>8. ASSUME Identity!EndTerm \/ Identity!UndoTerm PROVE Identity!TypeOK'
    BY <1>8 DEF Identity!EndTerm, Identity!UndoTerm, Identity!Ask
  <1>9. ASSUME Identity!Answer PROVE Identity!TypeOK'
    BY <1>9 DEF Identity!Answer
  <1>10. CASE UNCHANGED Identity!vars
    BY <1>10 DEF Identity!vars
  <1> QED  BY <1>1, <1>2, <1>3, <1>4, <1>5, <1>6, <1>7, <1>8, <1>9, <1>10
     DEF Identity!Next

\* What the form of a student may change is decided when the form is read.
LEMMA FormStep ==
    ASSUME Identity!TypeOK, FormsKeepDetails, [Identity!Next]_(Identity!vars)
    PROVE  FormsKeepDetails'
  <1> USE DEF Identity!TypeOK, FormsKeepDetails
  <1>1. ASSUME patch' = patch PROVE FormsKeepDetails'
    BY <1>1
  <1>2. ASSUME NEW f \in Forms, Identity!OpenForm(f) PROVE FormsKeepDetails'
    BY <1>2 DEF Identity!OpenForm
  <1>3. ASSUME NEW f \in Forms, Identity!SaveForm(f) \/ Identity!SaveFails(f)
        PROVE  FormsKeepDetails'
    BY <1>3 DEF Identity!SaveForm, Identity!SaveFails
  <1> QED
    BY <1>1, <1>2, <1>3
       DEF Identity!Next, Identity!vars, Identity!Submit, Identity!Create,
           Identity!CreateFails, Identity!Review, Identity!EndTerm,
       Identity!UndoTerm, Identity!Ask, Identity!Answer

\* While nothing stale was saved, a student who may submit has no request that
\* is waiting or approved.
LEMMA NothingOpen ==
    ASSUME Identity!TypeOK, Identity!ProfileFollowsRequests, ~reverted,
        profile.status \in Identity!Submittable
    PROVE  Identity!Open = {}
  BY
     DEF Identity!TypeOK, Identity!ProfileFollowsRequests, Identity!Open,
         Identity!LastRequest

\* A request that is created is the last and the only one that is open.
LEMMA CreateStep ==
    ASSUME Identity!TypeOK, Identity!ProfileFollowsRequests, NEW s \in Submitters,
        Identity!Create(s)
    PROVE  Identity!ProfileFollowsRequests'
  <1> SUFFICES ASSUME ~reverted' PROVE Identity!ProfileFollowsRequests'
    BY DEF Identity!ProfileFollowsRequests
  <1> DEFINE n == Len(verifications)
             new == [status |-> "pending", details |-> submission[s].details]
  <1>1. /\ ~reverted
        /\ profile.status \in Identity!Submittable
        /\ submission[s] \in Identity!Served
        /\ verifications' = Append(verifications, new)
        /\ profile' = [submission[s].read EXCEPT !.status = "pending",
                                                 !.details = submission[s].details]
        /\ submission[s].read.asked = profile.asked
        /\ due' = due
    BY DEF Identity!Create, Identity!MayCreate, Identity!TypeOK
  <1>2. /\ Len(verifications') = n + 1
        /\ DOMAIN verifications' = 1..n + 1
        /\ verifications'[n + 1] = new
        /\ \A i \in 1..n : verifications'[i] = verifications[i]
    BY <1>1 DEF Identity!TypeOK
  <1>3. Identity!Open = {}
    BY <1>1, NothingOpen
  <1>4. Identity!Open' \subseteq {Len(verifications')}
    BY <1>2, <1>3 DEF Identity!Open, Identity!TypeOK
  <1>5. /\ profile'.status = "pending" /\ Identity!LastRequest'.status = "pending"
        /\ profile'.asked = profile.asked
    BY <1>1, <1>2 DEF Identity!LastRequest, Identity!Served, Identity!Profile
  <1>6. verifications' # <<>>
    BY <1>2 DEF Identity!TypeOK
  <1> QED  BY <1>1, <1>4, <1>5, <1>6 DEF Identity!ProfileFollowsRequests

\* A decision is for the last request: every other one is closed.
LEMMA ReviewStep ==
    ASSUME Identity!TypeOK, Identity!ProfileFollowsRequests,
           NEW v \in DOMAIN verifications,
           NEW decision \in Identity!Decisions, Identity!Review(v, decision)
    PROVE  Identity!ProfileFollowsRequests'
  <1> SUFFICES ASSUME ~reverted PROVE Identity!ProfileFollowsRequests'
    BY DEF Identity!ProfileFollowsRequests, Identity!Review
  <1>1. v \in Identity!Open
    BY DEF Identity!Review, Identity!Reviewable, Identity!Open
  <1>2. v = Len(verifications) /\ verifications # <<>>
    BY <1>1 DEF Identity!ProfileFollowsRequests, Identity!TypeOK
  <1>3. /\ Len(verifications') = Len(verifications)
        /\ DOMAIN verifications' = DOMAIN verifications
        /\ verifications' # <<>>
        /\ Identity!LastRequest'.status = decision
        /\ Identity!LastRequest'.details = Identity!LastRequest.details
        /\ \A i \in DOMAIN verifications :
               i # v => verifications'[i] = verifications[i]
    <2>1. verifications[v] \in Identity!Request /\ Len(verifications) \in Nat
      BY ElementOfSeq, LenProperties DEF Identity!TypeOK
    <2>2. verifications' =
              [verifications EXCEPT ![v] = [@ EXCEPT !.status = decision]]
      BY DEF Identity!Review
    <2>3. [verifications[v] EXCEPT !.status = decision] \in Identity!Request
      BY <2>1 DEF Identity!Request
    <2>4. /\ verifications' \in Seq(Identity!Request)
          /\ Len(verifications') = Len(verifications)
          /\ DOMAIN verifications' = DOMAIN verifications
          /\ \A i \in DOMAIN verifications :
                 i # v => verifications'[i] = verifications[i]
          /\ verifications'[v] = [verifications[v] EXCEPT !.status = decision]
      BY <2>2, <2>3, ExceptSeq, LenProperties DEF Identity!TypeOK
    <2> QED  BY <1>2, <2>1, <2>4 DEF Identity!LastRequest, Identity!Request
  <1>4. /\ profile'.status = decision
        /\ decision = "approved" => profile'.details = Identity!LastRequest.details
        /\ profile'.asked = profile.asked /\ due' = due
    BY <1>2
       DEF Identity!Review, Identity!TypeOK, Identity!Profile, Identity!LastRequest
  <1>5. Identity!Open' \subseteq {Len(verifications')}
    BY <1>2, <1>3 DEF Identity!Open, Identity!ProfileFollowsRequests
  <1> QED  BY <1>3, <1>4, <1>5 DEF Identity!ProfileFollowsRequests

\* A form that has read the row as it still is changes what may be changed.
LEMMA SaveStep ==
    ASSUME Identity!TypeOK, FormsKeepDetails, Identity!ProfileFollowsRequests,
           NEW f \in Forms, Identity!SaveForm(f)
    PROVE  Identity!ProfileFollowsRequests'
  <1> SUFFICES ASSUME ~reverted' PROVE Identity!ProfileFollowsRequests'
    BY DEF Identity!ProfileFollowsRequests
  <1>1. /\ ~reverted /\ patch[f] \in Identity!Served /\ patch[f] # NotServed
        /\ patch[f].read = profile
        /\ profile' = [profile EXCEPT !.details = patch[f].details]
        /\ UNCHANGED <<verifications, moved, due>>
    BY DEF Identity!SaveForm, Identity!TypeOK
  <1>2. profile.status = "approved" => profile'.details = profile.details
    BY <1>1 DEF FormsKeepDetails, Identity!TypeOK, Identity!Profile
  <1>3. profile'.status = profile.status /\ profile'.asked = profile.asked
    BY <1>1 DEF Identity!TypeOK, Identity!Profile
  <1>4. Identity!Open' = Identity!Open /\ Identity!LastRequest' = Identity!LastRequest
    BY <1>1 DEF Identity!Open, Identity!LastRequest
  <1> QED  BY <1>1, <1>2, <1>3, <1>4 DEF Identity!ProfileFollowsRequests

\* The question of the end of a term and its answer leave the decision alone.
LEMMA TermStep ==
    ASSUME Identity!TypeOK, Identity!ProfileFollowsRequests,
           Identity!EndTerm \/ Identity!UndoTerm \/ Identity!Answer
    PROVE  Identity!ProfileFollowsRequests'
  <1>1. /\ profile'.status = profile.status
        /\ profile'.asked = due'
        /\ UNCHANGED <<verifications, reverted>>
        /\ moved' \/ (profile'.details = profile.details /\ moved' = moved)
    BY DEF Identity!EndTerm, Identity!UndoTerm, Identity!Ask, Identity!Answer,
           Identity!TypeOK, Identity!Profile
  <1>2. Identity!Open' = Identity!Open /\ Identity!LastRequest' = Identity!LastRequest
    BY <1>1 DEF Identity!Open, Identity!LastRequest
  <1> QED  BY <1>1, <1>2 DEF Identity!ProfileFollowsRequests

LEMMA IdentityStep ==
    ASSUME IdentityInv, Identity!Parameters, [Identity!Next]_(Identity!vars)
    PROVE  IdentityInv'
  <1>1. Identity!TypeOK' /\ FormsKeepDetails'
    BY IdentityTypeStep, FormStep DEF IdentityInv
  <1>2. ASSUME UNCHANGED <<profile, verifications, reverted, moved, due>>
        PROVE  Identity!ProfileFollowsRequests'
    BY <1>2
       DEF IdentityInv, Identity!ProfileFollowsRequests, Identity!Open,
           Identity!LastRequest
  <1>3. Identity!ProfileFollowsRequests'
    BY <1>2, CreateStep, ReviewStep, SaveStep, TermStep
       DEF IdentityInv, Identity!Next, Identity!vars, Identity!Submit,
           Identity!CreateFails, Identity!OpenForm, Identity!SaveFails
  <1> QED  BY <1>1, <1>3 DEF IdentityInv

-----------------------------------------------------------------------------
(* The profile: what is proved *)

\* Whatever is submitted, decided, edited and asked at the same time, the
\* inductive invariant holds.
THEOREM VerificationInvariance == Identity!Spec => []IdentityInv
  <1>1. Identity!Init => IdentityInv
    BY IdentityInit, IdentityAssumption
  <1>2. IdentityInv /\ [Identity!Next]_(Identity!vars) => IdentityInv'
    BY IdentityStep, IdentityAssumption
  <1> QED  BY <1>1, <1>2, PTL DEF Identity!Spec

\* Profile, requests and what is under way always have their types.
THEOREM VerificationTypeCorrect == Identity!Spec => []Identity!TypeOK
  <1>1. IdentityInv => Identity!TypeOK
    BY DEF IdentityInv
  <1> QED  BY <1>1, VerificationInvariance, PTL

\* For any number of submissions, forms and requests: unless a stale copy was
\* saved, the profile says what was last decided, no two requests are open,
\* and an approved student has the details that were approved.
THEOREM DecisionsStand == Identity!Spec => []ProfileFollowsRequests
  <1>1. IdentityInv => ProfileFollowsRequests
    BY DEF IdentityInv, ProfileFollowsRequests
  <1> QED  BY <1>1, VerificationInvariance, PTL
=============================================================================
