---------------------------- MODULE LoginLockout ----------------------------
(***************************************************************************)
(* The lock of an account after too many failed logins                     *)
(* (apps/accounts/lockout.py, LoginView of apps/accounts/views.py).        *)
(*                                                                         *)
(* Its state is two keys of the cache for each identifier the account      *)
(* signs in with: a counter of failures and the lock, which both expire at *)
(* a time fixed when they are written.  A request asks for the lock once,  *)
(* at its beginning; checking a password takes long; every later step is   *)
(* one command of the cache, and between two of them other requests come   *)
(* in and the keys expire.                                                 *)
(***************************************************************************)
EXTENDS Integers, FiniteSets

CONSTANTS
    Identifiers,  \* e-mail address and telephone number of the account
    Requests,     \* requests under way at a time
    Threshold,    \* LOGIN_LOCKOUT_THRESHOLD
    NoKey,        \* the cache does not hold the key
    MaxGuesses    \* bound on the wrong passwords tried

Parameters ==
    /\ Threshold \in Nat \ {0} /\ MaxGuesses \in Nat
    /\ NoKey \notin Nat /\ IsFiniteSet(Requests)

VARIABLES
    fails,    \* the counter of each identifier
    lock,     \* identifiers that are locked
    request,  \* what each request is doing
    guesses,  \* wrong passwords checked, those of a window that is over left out
    erased    \* those of them that a late command has taken off the counter

vars == <<fails, lock, request, guesses, erased>>

NoRequest == [at |-> "idle"]

\* A login, or what else clears the lock: the staff, a reset by code.
Request == [at : {"check", "add", "incr", "set", "lock", "delete", "clear"},
            id : Identifiers, left : SUBSET Identifiers]

TypeOK ==
    /\ fails \in [Identifiers -> Nat \cup {NoKey}]
    /\ lock \subseteq Identifiers
    /\ request \in [Requests -> Request \cup {NoRequest}]
    /\ guesses \in [Identifiers -> Nat]
    /\ erased \in [Identifiers -> Nat]

Init ==
    /\ fails = [i \in Identifiers |-> NoKey]
    /\ lock = {}
    /\ request = [r \in Requests |-> NoRequest]
    /\ guesses = [i \in Identifiers |-> 0]
    /\ erased = [i \in Identifiers |-> 0]

At(r, place) == request[r].at = place
Goes(r, place) == request' = [request EXCEPT ![r].at = place]
Ends(r) == request' = [request EXCEPT ![r] = NoRequest]

Count(i) == IF fails[i] = NoKey THEN 0 ELSE fails[i]

\* What a command takes off the counter although nothing was cleared.
Erases(i, keep) ==
    erased' = [erased EXCEPT ![i] = @ + IF Count(i) > keep THEN Count(i) - keep ELSE 0]

-----------------------------------------------------------------------------
(* Logging in *)

\* ensure_not_locked; a locked identifier is answered 429 and nothing happens.
Begin(r, i) ==
    /\ request[r] = NoRequest
    /\ i \notin lock
    /\ request' = [request EXCEPT ![r] = [at |-> "check", id |-> i, left |-> Identifiers]]
    /\ UNCHANGED <<fails, lock, guesses, erased>>

\* The password is right: the tokens are made.
Succeed(r) ==
    /\ At(r, "check")
    /\ Goes(r, "clear")
    /\ UNCHANGED <<fails, lock, guesses, erased>>

\* Right, but the account is not verified: refused, not counted.
Refuse(r) ==
    /\ At(r, "check")
    /\ Ends(r)
    /\ UNCHANGED <<fails, lock, guesses, erased>>

\* Wrong.
Guess(r) ==
    /\ At(r, "check")
    /\ guesses[request[r].id] < MaxGuesses
    /\ guesses' = [guesses EXCEPT ![request[r].id] = @ + 1]
    /\ Goes(r, "add")
    /\ UNCHANGED <<fails, lock, erased>>

\* record_failure: cache.add(fail_key, 0, window).
AddCounter(r) ==
    /\ At(r, "add")
    /\ LET i == request[r].id IN
       fails' = IF fails[i] = NoKey THEN [fails EXCEPT ![i] = 0] ELSE fails
    /\ Goes(r, "incr")
    /\ UNCHANGED <<lock, guesses, erased>>

\* MUTANT: the lock comes one failure late.
MutantCounted(r, attempts) == IF attempts <= Threshold THEN Ends(r) ELSE Goes(r, "lock")

\* What a failure leads to once it is counted.
Counted(r, attempts) == IF attempts < Threshold THEN Ends(r) ELSE Goes(r, "lock")

\* cache.incr(fail_key), a ValueError when the key is gone.
Increment(r) ==
    /\ At(r, "incr")
    /\ LET i == request[r].id IN
       \/ /\ fails[i] # NoKey
          /\ fails' = [fails EXCEPT ![i] = @ + 1]
          /\ Counted(r, fails[i] + 1)
       \/ /\ fails[i] = NoKey
          /\ Goes(r, "set")
          /\ UNCHANGED fails
    /\ UNCHANGED <<lock, guesses, erased>>

\* cache.set(fail_key, 1, window).
SetCounter(r) ==
    /\ At(r, "set")
    /\ fails' = [fails EXCEPT ![request[r].id] = 1]
    /\ Erases(request[r].id, 0)
    /\ Counted(r, 1)
    /\ UNCHANGED <<lock, guesses>>

\* cache.add of the lock; the request that sets it writes the audit row.
AddLock(r) ==
    /\ At(r, "lock")
    /\ lock' = lock \cup {request[r].id}
    /\ Goes(r, "delete")
    /\ UNCHANGED <<fails, guesses, erased>>

\* cache.delete(fail_key): the lock stands for what was counted, if it does.
DeleteCounter(r) ==
    /\ At(r, "delete")
    /\ LET i == request[r].id IN
       /\ fails' = [fails EXCEPT ![i] = NoKey]
       /\ IF i \in lock THEN UNCHANGED erased ELSE Erases(i, 0)
    /\ Ends(r)
    /\ UNCHANGED <<lock, guesses>>

-----------------------------------------------------------------------------
(* Clearing *)

\* The wrong passwords that are still to be counted.
ToCount(i) ==
    {r \in Requests : request[r].at \in {"add", "incr", "set"} /\ request[r].id = i}

\* The guesses at an identifier do not count any more, but for those that have
\* not been counted: they go into the next window.
Forgiven(i) ==
    /\ guesses' = [guesses EXCEPT ![i] = Cardinality(ToCount(i))]
    /\ erased' = [erased EXCEPT ![i] = 0]

\* clear: both keys of an identifier go.
Clear(i) ==
    /\ fails' = [fails EXCEPT ![i] = NoKey]
    /\ lock' = lock \ {i}
    /\ Forgiven(i)

\* unlock_login, ConfirmPasswordResetSerializer.save.
Unlock(r) ==
    /\ request[r] = NoRequest
    /\ \E i \in Identifiers :
         request' = [request EXCEPT ![r] = [at |-> "clear", id |-> i, left |-> Identifiers]]
    /\ UNCHANGED <<fails, lock, guesses, erased>>

\* clear_for_user: one identifier after the other.
ClearNext(r) ==
    /\ At(r, "clear")
    /\ \E i \in request[r].left :
         /\ Clear(i)
         /\ \/ request[r].left = {i} /\ Ends(r)
            \/ /\ request[r].left # {i}
               /\ request' = [request EXCEPT ![r].left = @ \ {i}]

\* The window ends.  cache.add and cache.incr leave the time at which the key
\* expires as the first failure has set it, so it may be any moment, between
\* two commands of a login as well.
WindowEnds(i) ==
    /\ fails[i] # NoKey
    /\ fails' = [fails EXCEPT ![i] = NoKey]
    /\ IF i \in lock THEN UNCHANGED <<guesses, erased>> ELSE Forgiven(i)
    /\ UNCHANGED <<lock, request>>

\* The lock ends, whoever is under way.
LockEnds(i) ==
    /\ i \in lock
    /\ lock' = lock \ {i}
    /\ Forgiven(i)
    /\ UNCHANGED <<fails, request>>

-----------------------------------------------------------------------------

Next ==
    \/ \E r \in Requests, i \in Identifiers : Begin(r, i)
    \/ \E r \in Requests :
          \/ Succeed(r) \/ Refuse(r) \/ Guess(r) \/ AddCounter(r) \/ Increment(r)
          \/ SetCounter(r) \/ AddLock(r) \/ DeleteCounter(r)
          \/ Unlock(r) \/ ClearNext(r)
    \/ \E i \in Identifiers : WindowEnds(i) \/ LockEnds(i)

Spec == Init /\ [][Next]_vars

-----------------------------------------------------------------------------
(* Properties *)

\* The budget belongs to the account: within a window, and until it is cleared,
\* an identifier takes the guesses that lead to the lock, one for each request
\* that was under way by then, and those that a late command has erased.  It
\* does so when the window ends in the middle of logins, too: what they have
\* still to count falls to the next window.
GuessesBounded ==
    \A i \in Identifiers :
        guesses[i] <= Threshold - 1 + Cardinality(Requests) + erased[i]
=============================================================================
