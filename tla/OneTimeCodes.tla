---------------------------- MODULE OneTimeCodes ----------------------------
(***************************************************************************)
(* The one-time codes of one address and purpose: how they are sent and    *)
(* checked (OTPService of apps/accounts/services.py, OTPCode of            *)
(* apps/accounts/models.py, the mail task of apps/accounts/tasks.py).      *)
(*                                                                         *)
(* Both operations lock the newest unused row.  PostgreSQL looks for it    *)
(* when the statement begins, waits for whoever holds it, and looks again  *)
(* at that row only: one that was used meanwhile is passed over for the    *)
(* next of those it saw, and a row inserted meanwhile is not seen.         *)
(***************************************************************************)
EXTENDS Integers, FiniteSetsExt

CONSTANTS
    Senders,      \* requests for a code under way at a time
    Checks,       \* codes being entered at a time
    MaxAttempts,  \* OTP_MAX_ATTEMPTS
    NoCode,       \* no row; a wrong guess
    MaxCodes      \* bound on the codes ever sent

Codes == 1..MaxCodes

OTPCode ==
    [used : BOOLEAN, attempts : 0..MaxAttempts, cooling : BOOLEAN, expired : BOOLEAN]

Parameters ==
    /\ MaxAttempts \in Nat \ {0} /\ MaxCodes \in Nat
    /\ NoCode \notin Nat \cup OTPCode

VARIABLES
    row,      \* the OTPCode rows, numbered in their order
    sender,   \* what each request for a code is doing
    check,    \* what each check is doing
    mail,     \* codes whose mail is queued
    mailed,   \* codes that were mailed
    wrong,    \* wrong guesses each code has answered
    consumed  \* how often each code was accepted

vars == <<row, sender, check, mail, mailed, wrong, consumed>>

NoRequest == [at |-> "idle"]

\* The rows a statement saw, and for a sender the ones it holds.
Sender == [at : {"look", "deliver"}, seen : SUBSET Codes, held : SUBSET Codes]

Check == [at : {"look"}, seen : SUBSET Codes, guess : Codes \cup {NoCode}]

TypeOK ==
    /\ row \in [Codes -> OTPCode \cup {NoCode}]
    /\ sender \in [Senders -> Sender \cup {NoRequest}]
    /\ check \in [Checks -> Check \cup {NoRequest}]
    /\ mail \subseteq Codes /\ mailed \subseteq Codes
    /\ wrong \in [Codes -> Nat]
    /\ consumed \in [Codes -> Nat]

Init ==
    /\ row = [c \in Codes |-> NoCode]
    /\ sender = [s \in Senders |-> NoRequest]
    /\ check = [k \in Checks |-> NoRequest]
    /\ mail = {} /\ mailed = {}
    /\ wrong = [c \in Codes |-> 0]
    /\ consumed = [c \in Codes |-> 0]

Unused == {c \in Codes : row[c] # NoCode /\ ~row[c].used}

Held == UNION {sender[s].held : s \in {x \in Senders : sender[x] # NoRequest}}

\* is_locked: a code has answered too many wrong guesses.
Locked(c) == row[c].attempts >= MaxAttempts

\* The row a statement gets the lock of: the newest it saw that is still
\* unused, once nobody holds it; none at all when they are all used by then.
Gets(request, c) ==
    LET left == request.seen \cap Unused IN
    /\ left \cap Held = {}
    /\ c = IF left = {} THEN NoCode ELSE Max(left)

-----------------------------------------------------------------------------
(* Sending *)

\* send_otp looks for the newest unused code.
Look(s) ==
    /\ sender[s] = NoRequest
    /\ sender' = [sender EXCEPT ![s] = [at |-> "look", seen |-> Unused, held |-> {}]]
    /\ UNCHANGED <<row, check, mail, mailed, wrong, consumed>>

\* It is too early for another code.
TooEarly(s) ==
    /\ sender[s].at = "look"
    /\ \E c \in Codes : /\ Gets(sender[s], c)
                        /\ row[c].cooling /\ ~row[c].expired
    /\ sender' = [sender EXCEPT ![s] = NoRequest]
    /\ UNCHANGED <<row, check, mail, mailed, wrong, consumed>>

\* It will replace all unused codes there are by now, if it found one.
Prepare(s) ==
    /\ sender[s].at = "look"
    /\ \E c \in Codes \cup {NoCode} :
         /\ Gets(sender[s], c)
         /\ c # NoCode => ~row[c].cooling \/ row[c].expired
         /\ c # NoCode => Unused \cap Held = {}
         /\ sender' = [sender EXCEPT ![s] =
              [at |-> "deliver", seen |-> {}, held |-> IF c = NoCode THEN {} ELSE Unused]]
    /\ UNCHANGED <<row, check, mail, mailed, wrong, consumed>>

\* The mail is queued for after the commit, or already sent; all is committed.
Deliver(s) ==
    /\ sender[s].at = "deliver"
    /\ \E c \in Codes :
         /\ row[c] = NoCode
         /\ \A b \in Codes : b < c => row[b] # NoCode
         /\ row' = [b \in Codes |->
              CASE b = c                -> [used |-> FALSE, attempts |-> 0,
                                            cooling |-> TRUE, expired |-> FALSE]
                [] b \in sender[s].held -> [row[b] EXCEPT !.used = TRUE]
                [] OTHER                -> row[b]]
         /\ \/ mail' = mail \cup {c} /\ UNCHANGED mailed
            \/ mailed' = mailed \cup {c} /\ UNCHANGED mail
    /\ sender' = [sender EXCEPT ![s] = NoRequest]
    /\ UNCHANGED <<check, wrong, consumed>>

\* The mail server fails: everything is rolled back, the replacement of the
\* earlier codes, too.
DeliveryFails(s) ==
    /\ sender[s].at = "deliver"
    /\ sender' = [sender EXCEPT ![s] = NoRequest]
    /\ UNCHANGED <<row, check, mail, mailed, wrong, consumed>>

\* send_otp_email drops a code that is of no use any more, sends it, or tries
\* again later.
SendMail(c) ==
    /\ c \in mail
    /\ \/ mail' = mail \ {c}
          /\ IF c \in Unused /\ ~row[c].expired
             THEN mailed' = mailed \cup {c} ELSE UNCHANGED mailed
    /\ UNCHANGED <<row, sender, check, wrong, consumed>>

-----------------------------------------------------------------------------
(* Checking *)

\* A code that was mailed is entered, or something else.
Enter(k, guess) ==
    /\ check[k] = NoRequest
    /\ guess \in mailed \cup {NoCode}
    /\ check' = [check EXCEPT ![k] = [at |-> "look", seen |-> Unused, guess |-> guess]]
    /\ UNCHANGED <<row, sender, mail, mailed, wrong, consumed>>

\* verify_otp holds the row from here to its commit.
Accept(k, c) ==
    /\ check[k].at = "look"
    /\ Gets(check[k], c)
    /\ ~row[c].expired /\ ~Locked(c)
    /\ check[k].guess = c
    /\ row' = [row EXCEPT ![c].used = TRUE]
    /\ consumed' = [consumed EXCEPT ![c] = @ + 1]
    /\ check' = [check EXCEPT ![k] = NoRequest]
    /\ UNCHANGED <<sender, mail, mailed, wrong>>

\* MUTANT: the error that is raised rolls the count back.
MutantReject(k, c) ==
    /\ check[k].at = "look"
    /\ Gets(check[k], c)
    /\ ~row[c].expired /\ ~Locked(c)
    /\ check[k].guess # c
    /\ wrong' = [wrong EXCEPT ![c] = @ + 1]
    /\ check' = [check EXCEPT ![k] = NoRequest]
    /\ UNCHANGED <<row, sender, mail, mailed, consumed>>

\* A wrong guess is counted and committed before the error is raised.
Reject(k, c) ==
    /\ check[k].at = "look"
    /\ Gets(check[k], c)
    /\ ~row[c].expired /\ ~Locked(c)
    /\ check[k].guess # c
    /\ row' = [row EXCEPT ![c].attempts = @ + 1]
    /\ wrong' = [wrong EXCEPT ![c] = @ + 1]
    /\ check' = [check EXCEPT ![k] = NoRequest]
    /\ UNCHANGED <<sender, mail, mailed, consumed>>

\* No code, an expired one, or one with too many wrong guesses.
Refuse(k) ==
    /\ check[k].at = "look"
    /\ \E c \in Codes \cup {NoCode} :
         Gets(check[k], c) /\ (c # NoCode => row[c].expired \/ Locked(c))
    /\ check' = [check EXCEPT ![k] = NoRequest]
    /\ UNCHANGED <<row, sender, mail, mailed, wrong, consumed>>

\* The pause before the next code ends, then the code expires.
Age(c) ==
    /\ row[c] # NoCode
    /\ \/ row[c].cooling /\ row' = [row EXCEPT ![c].cooling = FALSE]
       \/ /\ ~row[c].cooling /\ ~row[c].expired
          /\ row' = [row EXCEPT ![c].expired = TRUE]
    /\ UNCHANGED <<sender, check, mail, mailed, wrong, consumed>>

-----------------------------------------------------------------------------

Next ==
    \/ \E s \in Senders :
          Look(s) \/ TooEarly(s) \/ Prepare(s) \/ Deliver(s) \/ DeliveryFails(s)
    \/ \E c \in Codes : SendMail(c) \/ Age(c)
    \/ \E k \in Checks :
          \/ \E guess \in Codes \cup {NoCode} : Enter(k, guess)
          \/ \E c \in Codes : Accept(k, c) \/ Reject(k, c)
          \/ Refuse(k)

Spec == Init /\ [][Next]_vars

-----------------------------------------------------------------------------
(* Properties *)

\* However many guesses are entered at a time, a code answers MaxAttempts wrong
\* ones and no more, and is accepted once.
CodeIsSpent ==
    \A c \in Codes : wrong[c] <= MaxAttempts /\ consumed[c] <= 1
=============================================================================
