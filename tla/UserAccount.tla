---------------------------- MODULE UserAccount ----------------------------
(***************************************************************************)
(* One account: its row, the sessions signed in to it, the links that were *)
(* e-mailed for it and the requests in flight on it                        *)
(* (apps/accounts; AccountDeletionService of apps/product).                *)
(*                                                                         *)
(* The dashboard and accept hold the row lock of the account from the read *)
(* to the commit.  Four requests do not, and are split where another may   *)
(* come in between: a profile edit, which reads the whole row when the     *)
(* request is authenticated and saves all of it; a change of password,     *)
(* which compares the old password with the row so read; a resent          *)
(* invitation, which decides by the row the view has read, revokes the     *)
(* links it sees and then inserts its own; and a reset by code, which      *)
(* commits the use of the code before it sets the password.                *)
(*                                                                         *)
(* A session is a token and all its refreshments: they keep its version.   *)
(* Left out: roles and ranks, e-mail and its failures, the attempts and    *)
(* the expiry of a code, the login lockout, the grace period of a deletion *)
(* and the blacklist: its tokens have an old version anyhow, and after a   *)
(* torn row it stops the refreshments of a session, not the session.       *)
(***************************************************************************)
EXTENDS Naturals

CONSTANTS
    Sessions,
    Links,         \* identities of UserInvitation rows
    Admins,        \* staff with user management, one resend each at a time
    MaxPasswords,  \* bound on the passwords ever set
    MaxVersion,    \* bound on session_version
    Null

\* Passwords are numbered in the order they are set.  Before any was chosen,
\* there is none that works, or the temporary one of the invitation.
Unusable == 0
Temporary == 1

User ==
    [password : Nat, must_change : BOOLEAN, version : Nat, active : BOOLEAN,
     deleted : BOOLEAN]

\* "withdrawn" is a revoked link, too: by the staff, with no other in its place.
UserInvitation ==
    [state : {"pending", "accepted", "revoked", "withdrawn", "expired"},
     purpose : {"invite", "reset"}]

Session == [version : Nat, password : Nat]

Resend ==
    [step : {"read", "revoked"}, purpose : {"invite", "reset"},
     old : SUBSET Links]

\* Null stands for no row and no request.
ASSUME AccountAssumption ==
    /\ {MaxPasswords, MaxVersion} \subseteq Nat
    /\ Null \notin User \cup UserInvitation \cup Session \cup Resend

VARIABLES
    user,          \* the User row
    link,          \* UserInvitation rows
    session,       \* sessions, with the password they were opened with
    code,          \* the password-reset code
    form,          \* the row a profile edit of a session has read
    changing,      \* sessions whose change of password has passed its checks
    resend,        \* the resend each admin has under way
    lastPassword,  \* the last password that was set
    torn,          \* a profile edit has written back a row that was not current
    replaced       \* an invitation has replaced a password that worked

vars == <<user, link, session, code, form, changing, resend, lastPassword,
          torn, replaced>>

requests == <<form, changing, resend>>
ghosts == <<torn, replaced>>

TypeOK ==
    /\ user \in User
    /\ link \in [Links -> UserInvitation \cup {Null}]
    /\ session \in [Sessions -> Session \cup {Null}]
    /\ code \in {"none", "sent", "used"}
    /\ form \in [Sessions -> User \cup {Null}]
    /\ changing \in SUBSET Sessions
    /\ resend \in [Admins -> Resend \cup {Null}]
    /\ lastPassword \in Nat
    /\ torn \in BOOLEAN
    /\ replaced \in BOOLEAN

\* InvitationService.invite has created the account, with a link or with a
\* temporary password; a resend can mail a link for the latter.
Init ==
    /\ \/ /\ user = [password |-> Unusable, must_change |-> FALSE, version |-> 1,
                     active |-> TRUE, deleted |-> FALSE]
          /\ \E l \in Links :
                 link = [i \in Links |->
                     IF i = l THEN [state |-> "pending", purpose |-> "invite"]
                              ELSE Null]
       \/ /\ user = [password |-> Temporary, must_change |-> TRUE, version |-> 1,
                     active |-> TRUE, deleted |-> FALSE]
          /\ link = [l \in Links |-> Null]
    /\ session = [s \in Sessions |-> Null]
    /\ code = "none"
    /\ form = [s \in Sessions |-> Null]
    /\ changing = {}
    /\ resend = [a \in Admins |-> Null]
    /\ lastPassword = Temporary
    /\ torn = FALSE
    /\ replaced = FALSE

HasState(l, states) == link[l] # Null /\ link[l].state \in states

Pending == {l \in Links : HasState(l, {"pending"})}

\* Neither accepted nor revoked; expiry is not looked at.
Open == {l \in Links : HasState(l, {"pending", "expired"})}

\* MUTANT: the sessions go with the flag or the password, not with a version.
MutantInvalidated(row) == row

\* invalidate_sessions reads the version under the row lock.
Invalidated(row) == [row EXCEPT !.version = @ + 1]

\* A password nobody has used before.
NewPassword ==
    /\ lastPassword < MaxPasswords
    /\ lastPassword' = lastPassword + 1

-----------------------------------------------------------------------------
(* Signing in *)

\* LoginSerializer.validate; the token carries the version of the row read.
Login(s) ==
    /\ session[s] = Null
    /\ user.active
    /\ user.password # Unusable
    /\ session' = [session EXCEPT
           ![s] = [version |-> user.version, password |-> user.password]]
    /\ UNCHANGED <<user, link, code, requests, lastPassword, ghosts>>

\* SessionVersionJWTAuthentication.get_user, and the check of a refresh.
Accepted(s) ==
    /\ session[s] # Null
    /\ user.active
    /\ session[s].version = user.version

-----------------------------------------------------------------------------
(* The person's own requests *)

\* CurrentUserView.patch is authenticated: request.user is the row as it is.
OpenProfile(s) ==
    /\ Accepted(s)
    /\ form[s] = Null
    /\ form' = [form EXCEPT ![s] = user]
    /\ UNCHANGED <<user, link, session, code, changing, resend, lastPassword,
                   ghosts>>

\* serializer.save writes every column of it.
SaveProfile(s) ==
    /\ form[s] # Null
    /\ user' = form[s]
    /\ torn' = (torn \/ user # form[s])
    /\ form' = [form EXCEPT ![s] = Null]
    /\ UNCHANGED <<link, session, code, changing, resend, lastPassword, replaced>>

\* ChangePasswordSerializer: the old password was right ...
BeginChange(s) ==
    /\ Accepted(s)
    /\ user.password # Unusable
    /\ changing' = changing \cup {s}
    /\ UNCHANGED <<user, link, session, code, form, resend, lastPassword, ghosts>>

\* ... and the new one is saved, whatever the password is by then.
MutantCommitChange(s) ==
    /\ s \in changing
    /\ NewPassword
    /\ user' = [user EXCEPT !.password = lastPassword', !.must_change = FALSE]
    /\ changing' = changing \ {s}
    /\ UNCHANGED <<link, session, code, form, resend, ghosts>>

CommitChange(s) ==
    /\ s \in changing
    /\ NewPassword
    /\ user.version < MaxVersion
    /\ user' = Invalidated(
           [user EXCEPT !.password = lastPassword', !.must_change = FALSE])
    /\ changing' = changing \ {s}
    /\ UNCHANGED <<link, session, code, form, resend, ghosts>>

\* RequestPasswordResetSerializer.
RequestCode ==
    /\ user.active
    /\ code' = "sent"
    /\ UNCHANGED <<user, link, session, requests, lastPassword, ghosts>>

\* OTPService.verify_otp uses the code up in a transaction of its own ...
UseCode ==
    /\ code = "sent"
    /\ code' = "used"
    /\ UNCHANGED <<user, link, session, requests, lastPassword, ghosts>>

\* ... before ConfirmPasswordResetSerializer sets the password.
ResetByCode ==
    /\ code = "used"
    /\ NewPassword
    /\ user.version < MaxVersion
    /\ user' = Invalidated([user EXCEPT !.password = lastPassword'])
    /\ code' = "none"
    /\ UNCHANGED <<link, session, requests, ghosts>>

\* The request dies in between: the code is gone and the password as it was.
LoseCode ==
    /\ code = "used"
    /\ code' = "none"
    /\ UNCHANGED <<user, link, session, requests, lastPassword, ghosts>>

-----------------------------------------------------------------------------
(* Links *)

\* InvitationService.accept.  It waits for a resend that is revoking the link.
AcceptLink(l) ==
    /\ l \in Pending
    /\ \A a \in Admins : resend[a] # Null => l \notin resend[a].old
    /\ user.active
    /\ NewPassword
    /\ LET set == [user EXCEPT !.password = lastPassword', !.must_change = FALSE]
       IN  \/ /\ link[l].purpose = "invite"
              /\ user' = set
              /\ replaced' = (replaced \/ user.password # Unusable)
           \/ /\ link[l].purpose = "reset"
              /\ user.version < MaxVersion
              /\ user' = Invalidated(set)
              /\ UNCHANGED replaced
    /\ link' = [link EXCEPT ![l].state = "accepted"]
    /\ UNCHANGED <<session, code, requests, torn>>

ExpireLink(l) ==
    /\ l \in Pending
    /\ link' = [link EXCEPT ![l].state = "expired"]
    /\ UNCHANGED <<user, session, code, requests, lastPassword, ghosts>>

\* InvitationService.revoke.
RevokeLinks ==
    /\ Open # {}
    /\ link' = [l \in Links |->
           IF l \in Open THEN [link[l] EXCEPT !.state = "withdrawn"] ELSE link[l]]
    /\ UNCHANGED <<user, session, code, requests, lastPassword, ghosts>>

\* is_set_up.
SetUp == user.password # Unusable /\ ~user.must_change

\* ResendInvitationView has read the account ...
ReadForResend(a) ==
    /\ resend[a] = Null
    /\ user.active
    /\ ~user.deleted
    /\ resend' = [resend EXCEPT ![a] =
           [step |-> "read", old |-> {},
            purpose |-> IF SetUp THEN "reset" ELSE "invite"]]
    /\ UNCHANGED <<user, link, session, code, form, changing, lastPassword, ghosts>>

\* ... _issue finds the links to revoke and holds their rows ...
RevokeForResend(a) ==
    /\ resend[a] # Null
    /\ resend[a].step = "read"
    /\ resend' = [resend EXCEPT ![a].step = "revoked", ![a].old = Open]
    /\ UNCHANGED <<user, link, session, code, form, changing, lastPassword, ghosts>>

\* ... inserts the new one, and the commit makes an invited person's password
\* unusable until it is used.
MutantCommitResend(a, l) ==
    /\ resend[a] # Null
    /\ resend[a].step = "revoked"
    /\ link[l] = Null
    /\ link' = [i \in Links |->
           IF i = l
           THEN [state |-> "pending", purpose |-> resend[a].purpose]
           ELSE IF link[i] # Null
           THEN [link[i] EXCEPT !.state = "revoked"]
           ELSE link[i]]
    /\ IF resend[a].purpose = "invite"
         THEN /\ user' = [user EXCEPT !.password = Unusable, !.must_change = FALSE]
              /\ replaced' = (replaced \/ user.password # Unusable)
         ELSE UNCHANGED <<user, replaced>>
    /\ resend' = [resend EXCEPT ![a] = Null]
    /\ UNCHANGED <<session, code, form, changing, lastPassword, torn>>

MutantCommitResendRevoking(a, l) ==
    /\ resend[a] # Null
    /\ resend[a].step = "revoked"
    /\ link[l] = Null
    /\ link' = [i \in Links |->
           IF i = l \/ i \in resend[a].old \cap Open
           THEN [state |-> "revoked", purpose |-> resend[a].purpose]
           ELSE link[i]]
    /\ IF resend[a].purpose = "invite"
         THEN /\ user' = [user EXCEPT !.password = Unusable, !.must_change = FALSE]
              /\ replaced' = (replaced \/ user.password # Unusable)
         ELSE UNCHANGED <<user, replaced>>
    /\ resend' = [resend EXCEPT ![a] = Null]
    /\ UNCHANGED <<session, code, form, changing, lastPassword, torn>>

CommitResend(a, l) ==
    /\ resend[a] # Null
    /\ resend[a].step = "revoked"
    /\ link[l] = Null
    /\ link' = [i \in Links |->
           IF i = l
           THEN [state |-> "pending", purpose |-> resend[a].purpose]
           ELSE IF i \in resend[a].old \cap Open
           THEN [link[i] EXCEPT !.state = "revoked"]
           ELSE link[i]]
    /\ IF resend[a].purpose = "invite"
         THEN /\ user' = [user EXCEPT !.password = Unusable, !.must_change = FALSE]
              /\ replaced' = (replaced \/ user.password # Unusable)
         ELSE UNCHANGED <<user, replaced>>
    /\ resend' = [resend EXCEPT ![a] = Null]
    /\ UNCHANGED <<session, code, form, changing, lastPassword, torn>>

-----------------------------------------------------------------------------
(* The staff and the end of the account *)

\* EndSessionsView; a change of role ends the sessions in the same way.
EndSessions ==
    /\ ~user.deleted
    /\ user.version < MaxVersion
    /\ user' = Invalidated(user)
    /\ UNCHANGED <<link, session, code, requests, lastPassword, ghosts>>

Deactivate ==
    /\ ~user.deleted
    /\ user.active
    /\ user.version < MaxVersion
    /\ user' = Invalidated([user EXCEPT !.active = FALSE])
    /\ UNCHANGED <<link, session, code, requests, lastPassword, ghosts>>

Activate ==
    /\ ~user.deleted
    /\ ~user.active
    /\ user.version < MaxVersion
    /\ user' = Invalidated([user EXCEPT !.active = TRUE])
    /\ UNCHANGED <<link, session, code, requests, lastPassword, ghosts>>

\* AccountDeletionService.execute: the codes go, the links stay.
DeleteAccount ==
    /\ ~user.deleted
    /\ user' = [user EXCEPT !.active = FALSE, !.deleted = TRUE,
                            !.password = Unusable]
    /\ code' = IF code = "sent" THEN "none" ELSE code
    /\ UNCHANGED <<link, session, requests, lastPassword, ghosts>>

Person ==
    \/ \E s \in Sessions :
           \/ Login(s) \/ OpenProfile(s) \/ SaveProfile(s)
           \/ BeginChange(s) \/ CommitChange(s)
    \/ RequestCode \/ UseCode \/ ResetByCode \/ LoseCode
    \/ \E l \in Links : AcceptLink(l) \/ ExpireLink(l)

Staff ==
    \/ \E a \in Admins :
           \/ ReadForResend(a) \/ RevokeForResend(a)
           \/ \E l \in Links : CommitResend(a, l)
    \/ RevokeLinks \/ EndSessions \/ Deactivate \/ Activate \/ DeleteAccount

Next == Person \/ Staff

Spec == Init /\ [][Next]_vars

-----------------------------------------------------------------------------
(* What must hold *)

\* Whoever signed in with a password is signed out when another is set: by its
\* owner, by a code or by a reset link, however these meet with deactivations
\* and resends.  Torn rows and invitations over a working password aside.
SessionsEndWithPassword ==
    ~torn /\ ~replaced =>
        \A s \in Sessions : Accepted(s) => session[s].password = user.password

\* A link that was used or revoked stays so: no resend takes back what the
\* person was told.
LinkIsFinal ==
    [][\A l \in Links :
         HasState(l, {"accepted", "revoked", "withdrawn"})
         => link'[l] = link[l]]_vars

\* Nobody is shut out: while no password works there is a link to set one with,
\* or it expired or was withdrawn, and two resends never revoke each other's.
WayIn ==
    ~torn /\ ~user.deleted /\ user.password = Unusable =>
        \E l \in Links :
            HasState(l, {"pending", "expired", "withdrawn"})

\* A session that was ended does not come back.
EndedForGood ==
    [][\A s \in Sessions : session[s] # Null /\ ~Accepted(s) => ~Accepted(s)']_vars

\* A session that was ended comes back by nothing but a profile edit that writes
\* back an old row: not by an activation after a deactivation, a password, an
\* invitation or a reset that were under way when it ended.
OnlyTearsRevive ==
    [][\A s \in Sessions :
         ~torn' /\ session[s] # Null /\ ~Accepted(s) => ~Accepted(s)']_vars

\* Nothing but the deletion of the account takes a password away that the
\* person has chosen.  The code does not keep this: see replaced.
OwnPasswordKept ==
    [][user.password > Temporary /\ user'.password = Unusable
       => user'.deleted]_vars
=============================================================================
