----------------------------- MODULE MCRetries -----------------------------
(* What is tried again and is to happen once: writes under an             *)
(* Idempotency-Key (IdempotentWrites) and pushes to the telephones and    *)
(* browsers of a member (PushDelivery), which share no state.  A          *)
(* behaviour is one of one of them, while the other rests; a run is about *)
(* one or the other (Parts).                                              *)
(*                                                                        *)
(* There are four attempts with the key, so that a late release or        *)
(* completion of the first meets the takeover of the second, the arrival  *)
(* of the third, and the write of a fourth; and one push to a telephone   *)
(* that is registered twice and to a browser, with one retry and one      *)
(* mishap.                                                                *)
EXTENDS IdempotentWrites, TLC

CONSTANTS
    Parts,  \* what works in a run, of {"writes", "pushes"}
    Pushes, Devices, Browsers, Workers, MaxRetries, FailureLimit, RetryAnswers,
    MaxMishaps, MaxChanges

VARIABLES
    part,  \* the one that works
    stored, subs, gone, queue, queued, run, row, check, got, mishaps, known,
    missed, dropped, changes

pushes == <<stored, subs, gone, queue, queued, run, row, check, got, mishaps,
            known, missed, dropped, changes>>
everything == <<part, vars, pushes>>

Push == INSTANCE PushDelivery

ASSUME PushAssumption == Push!Parameters

RetriesInit == part \in Parts /\ Init /\ Push!Init

RetriesNext ==
    /\ UNCHANGED part
    /\ \/ part = "writes" /\ Next /\ UNCHANGED pushes
       \/ part = "pushes" /\ Push!Next /\ UNCHANGED vars

RetriesSpec == RetriesInit /\ [][RetriesNext]_everything

RetriesFairSpec == RetriesSpec /\ Push!Fairness

Symmetry == Permutations(Requests) \cup Permutations(Payloads)

\* A recipient gets one copy of a push, but for lost workers and lost answers.
NoSecondCopy == Push!NoSecondCopy

\* A device that was found to be gone is switched off in both stores.
DeadIsSwitchedOff == Push!DeadIsSwitchedOff

\* Retries come to an end.
PushEnds == Push!PushEnds
=============================================================================
