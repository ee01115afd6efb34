----------------------------- MODULE ChatSocket -----------------------------
(***************************************************************************)
(* The sockets of one member in the chat of one group: the ticket that     *)
(* opens one, and how long one stays open to a member who has lost the     *)
(* right to it (apps/chat/services.py, apps/chat/middleware.py,            *)
(* apps/chat/consumers.py).                                                *)
(*                                                                         *)
(* A ticket is two keys of the cache: what it entitles to, and that it has *)
(* been used.  A socket handles one frame after the other; it asks the     *)
(* database for the right of its member and then trusts the answer for a   *)
(* while, except to store a message.                                       *)
(***************************************************************************)
EXTENDS Integers

CONSTANTS
    Tickets,    \* one-time tickets of the member
    Sockets,    \* handshakes and the sockets they become
    TTL,        \* AUTHORIZATION_CACHE_TTL_SECONDS, in units of time
    NoTicket,   \* not issued
    MaxVersion  \* bound on session_version

Ticket == [version : Nat, key : BOOLEAN, consumed : BOOLEAN]

Parameters == TTL \in Nat \ {0} /\ MaxVersion \in Nat /\ NoTicket \notin Ticket

VARIABLES
    version,  \* session_version of the member
    active,   \* account, verification and group are as they have to be
    member,   \* the membership is approved
    ticket,   \* the cache keys of each ticket
    socket,   \* what each socket is doing
    lapse,    \* how long the right of its member has been gone; 1 at first
    worst,    \* the longest lapse at which something was granted
    opened    \* how many sockets each ticket has opened

vars == <<version, active, member, ticket, socket, lapse, worst, opened>>

\* What a socket grants: itself; a frame that stores nothing but a cursor or a
\* sign of presence, and a frame of others; a message.
Grants == {"open", "frame", "message"}

\* Where a socket is, the ticket it came with, the version it goes by, what
\* it was told of its right and how long it will still trust that.
Socket == [at : {"reserve", "delete", "claims", "connect", "wait", "checked", "store"},
           ticket : Tickets, version : Nat, right : BOOLEAN, why : Grants,
           left : 0..TTL]

NoSocket == [at |-> "closed"]

\* A lapse is counted up to the first that is too long.
Lapse == 0..(TTL + 1)

TypeOK ==
    /\ version \in 0..MaxVersion
    /\ active \in BOOLEAN /\ member \in BOOLEAN
    /\ ticket \in [Tickets -> Ticket \cup {NoTicket}]
    /\ socket \in [Sockets -> Socket \cup {NoSocket}]
    /\ lapse \in [Sockets -> Lapse]
    /\ worst \in [Grants -> Lapse]
    /\ opened \in [Tickets -> Nat]

Init ==
    /\ version = 0
    /\ active = TRUE /\ member = TRUE
    /\ ticket = [t \in Tickets |-> NoTicket]
    /\ socket = [s \in Sockets |-> NoSocket]
    /\ lapse = [s \in Sockets |-> 0]
    /\ worst = [g \in Grants |-> 0]
    /\ opened = [t \in Tickets |-> 0]

At(s, place) == socket[s].at = place
Goes(s, place) == socket' = [socket EXCEPT ![s].at = place]
Closes(s) == socket' = [socket EXCEPT ![s] = NoSocket]

\* Something is granted to the member of a socket.
Grant(s, what) ==
    worst' = [worst EXCEPT ![what] = IF lapse[s] > @ THEN lapse[s] ELSE @]

Rights == <<version, active, member>>

-----------------------------------------------------------------------------
(* The right of the member *)

\* The lapses after a change of rights: a socket starts one, or has its right.
Lapses ==
    lapse' = [s \in Sockets |->
        IF socket[s] = NoSocket \/ (active' /\ member' /\ socket[s].version = version')
        THEN 0 ELSE IF lapse[s] = 0 THEN 1 ELSE lapse[s]]

\* The password is changed, or the sessions are ended otherwise.
EndSessions ==
    /\ version < MaxVersion
    /\ version' = version + 1
    /\ UNCHANGED <<active, member, ticket, socket, worst, opened>>
    /\ Lapses

\* The account or the group is switched off, or on.
SwitchAccount ==
    /\ active' = ~active
    /\ UNCHANGED <<version, member, ticket, socket, worst, opened>>
    /\ Lapses

\* The member leaves or is blocked, or is admitted.
ChangeMembership ==
    /\ member' = ~member
    /\ UNCHANGED <<version, active, ticket, socket, worst, opened>>
    /\ Lapses

-----------------------------------------------------------------------------
(* Tickets *)

\* ChatHandshakeTicketService.issue; the version is that of the session.
Issue(t) ==
    /\ ticket[t] = NoTicket
    /\ active /\ member
    /\ ticket' = [ticket EXCEPT ![t] =
                    [version |-> version, key |-> TRUE, consumed |-> FALSE]]
    /\ UNCHANGED <<Rights, socket, lapse, worst, opened>>

\* consume, in three commands of the cache: get ...
Present(s, t) ==
    /\ socket[s] = NoSocket
    /\ ticket[t] # NoTicket
    /\ ticket[t].key
    /\ socket' = [socket EXCEPT ![s] =
         [at |-> "reserve", ticket |-> t, version |-> ticket[t].version,
          right |-> FALSE, why |-> "open", left |-> 0]]
    /\ lapse' = [lapse EXCEPT ![s] =
         IF active /\ member /\ ticket[t].version = version THEN 0 ELSE 1]
    /\ UNCHANGED <<Rights, ticket, worst, opened>>

\* MUTANT: whoever has read the first key goes on.
MutantReserve(s) ==
    /\ At(s, "reserve")
    /\ ticket' = [ticket EXCEPT ![socket[s].ticket].consumed = TRUE]
    /\ Goes(s, "delete")
    /\ UNCHANGED <<Rights, lapse, worst, opened>>

\* ... add, which only one of them wins ...
Reserve(s) ==
    /\ At(s, "reserve")
    /\ LET t == socket[s].ticket IN
       IF ticket[t].consumed THEN Closes(s) /\ UNCHANGED ticket
       ELSE /\ ticket' = [ticket EXCEPT ![t].consumed = TRUE]
            /\ Goes(s, "delete")
    /\ UNCHANGED <<Rights, lapse, worst, opened>>

\* ... and delete.
DeleteKey(s) ==
    /\ At(s, "delete")
    /\ ticket' = [ticket EXCEPT ![socket[s].ticket].key = FALSE]
    /\ Goes(s, "claims")
    /\ UNCHANGED <<Rights, lapse, worst, opened>>

\* The cache fails: the handshake is refused.
CacheFails(s) ==
    /\ socket[s].at \in {"reserve", "delete"}
    /\ Closes(s)
    /\ UNCHANGED <<Rights, ticket, lapse, worst, opened>>

\* The keys live equally long, the second from when the first was there to be
\* read; no handshake takes as long.
KeyExpires(t) ==
    /\ ticket[t] # NoTicket
    /\ \/ ticket[t].key
          /\ ticket' = [ticket EXCEPT ![t].key = FALSE]
       \/ /\ ticket[t].consumed /\ ~ticket[t].key
          /\ \A s \in Sockets : At(s, "reserve") => socket[s].ticket # t
          /\ ticket' = [ticket EXCEPT ![t].consumed = FALSE]
    /\ UNCHANGED <<Rights, socket, lapse, worst, opened>>

Right(s) == active /\ member /\ socket[s].version = version

\* authenticate_claims.
Authenticate(s) ==
    /\ At(s, "claims")
    /\ IF Right(s) THEN Goes(s, "connect") ELSE Closes(s)
    /\ UNCHANGED <<Rights, ticket, lapse, worst, opened>>

-----------------------------------------------------------------------------
(* The socket *)

\* refresh_authorization asks: to open the socket, to store a message, or for
\* any other frame when the last answer is too old.
Ask(s, why) ==
    /\ \/ At(s, "connect") /\ why = "open"
       \/ At(s, "wait") /\ why = "message"
       \/ At(s, "wait") /\ why = "frame" /\ socket[s].left = 0
    /\ socket' = [socket EXCEPT ![s] =
                    [@ EXCEPT !.at = "checked", !.right = Right(s), !.why = why]]
    /\ UNCHANGED <<Rights, ticket, lapse, worst, opened>>

\* From now on the answer is trusted.
Trusts(s, place) == socket' = [socket EXCEPT ![s].left = TTL, ![s].at = place]

\* It closes the socket, or lets what was asked for go on.
Answer(s) ==
    /\ At(s, "checked")
    /\ \/ /\ ~socket[s].right
          /\ Closes(s)
          /\ UNCHANGED <<worst, opened>>
       \/ /\ socket[s].right /\ socket[s].why = "open"
          /\ Trusts(s, "wait")
          /\ Grant(s, "open")
          /\ opened' = [opened EXCEPT ![socket[s].ticket] = @ + 1]
       \/ /\ socket[s].right /\ socket[s].why = "frame"
          /\ Trusts(s, "wait")
          /\ Grant(s, "frame")
          /\ UNCHANGED opened
       \/ /\ socket[s].right /\ socket[s].why = "message"
          /\ Trusts(s, "store")
          /\ UNCHANGED <<worst, opened>>
    /\ UNCHANGED <<Rights, ticket, lapse>>

\* create_message asks for the membership again, by the user it has in memory.
StoreMessage(s) ==
    /\ At(s, "store")
    /\ IF member THEN Grant(s, "message") ELSE UNCHANGED worst
    /\ Goes(s, "wait")
    /\ UNCHANGED <<Rights, ticket, lapse, opened>>

\* MUTANT: every frame prolongs the trust.
MutantServe(s) ==
    /\ At(s, "wait")
    /\ socket[s].left > 0
    /\ Grant(s, "frame")
    /\ Trusts(s, "wait")
    /\ UNCHANGED <<Rights, ticket, lapse, opened>>

\* A typing, receipt or presence frame, or a frame of others, while the last
\* answer is trusted.  (That somebody else is typing is passed on unasked, and
\* is left out.)
Serve(s) ==
    /\ At(s, "wait")
    /\ socket[s].left > 0
    /\ Grant(s, "frame")
    /\ UNCHANGED <<Rights, ticket, socket, lapse, opened>>

\* The client goes away.
Disconnect(s) ==
    /\ At(s, "wait")
    /\ Closes(s)
    /\ UNCHANGED <<Rights, ticket, lapse, worst, opened>>

\* Time passes; a frame takes much less of it than the unit.
Tick ==
    /\ \A s \in Sockets : socket[s] = NoSocket \/ At(s, "wait")
    /\ \E s \in Sockets : At(s, "wait")
    /\ socket' = [s \in Sockets |->
         IF At(s, "wait") /\ socket[s].left > 0
         THEN [socket[s] EXCEPT !.left = @ - 1] ELSE socket[s]]
    /\ lapse' = [s \in Sockets |->
         IF lapse[s] \in 1..TTL THEN lapse[s] + 1 ELSE lapse[s]]
    /\ UNCHANGED <<Rights, ticket, worst, opened>>

-----------------------------------------------------------------------------

Next ==
    \/ EndSessions \/ SwitchAccount \/ ChangeMembership
    \/ \E t \in Tickets : Issue(t) \/ KeyExpires(t)
    \/ \E s \in Sockets, t \in Tickets : Present(s, t)
    \/ \E s \in Sockets :
          \/ Reserve(s) \/ DeleteKey(s) \/ CacheFails(s) \/ Authenticate(s)
          \/ \E why \in Grants : Ask(s, why)
          \/ Answer(s) \/ StoreMessage(s) \/ Serve(s) \/ Disconnect(s)
    \/ Tick

Spec == Init /\ [][Next]_vars

-----------------------------------------------------------------------------
(* Properties *)

\* Handshakes race for a ticket, the cache fails between its commands, the keys
\* expire in their order: a ticket opens one socket.
TicketOpensOnce == \A t \in Tickets : opened[t] <= 1

\* Whoever loses the right while a socket is open is shut out of what it grants
\* when the last answer has grown old, and of messages and new sockets at once.
StaleBounded ==
    worst["frame"] <= TTL /\ worst["message"] <= 1 /\ worst["open"] <= 1
=============================================================================
