------------------------------- MODULE BanBook -------------------------------
(***************************************************************************)
(* What the login bans promise, without saying how they are counted: which *)
(* key is banned until when, how often it has been, and what of that a     *)
(* restart of the server brings back.  The n-th ban of a key lasts         *)
(* BanDurs[n], the last entry for every later one; zero is for ever.       *)
(***************************************************************************)
EXTENDS Integers, Sequences

CONSTANTS Names,    \* the keys bans are kept under
          BanDurs,  \* durations of the first, second, ... ban
          Forever,  \* the expiry of a permanent ban
          MaxTime   \* bound on the clock

VARIABLES now,
          until,    \* when the ban of a key ends, 0 if it is not banned
          count,    \* bans so far
          durable   \* what is stored: the count and the expiry

bookVars == <<now, until, count, durable>>

NoRow == [count |-> 0, expiry |-> 0]
DurationOf(n) == IF n >= Len(BanDurs) THEN BanDurs[Len(BanDurs)] ELSE BanDurs[n + 1]
ExpiryOf(n, t) == IF DurationOf(n) = 0 THEN Forever ELSE t + DurationOf(n)
StillOn(expiry, t) == IF expiry > t THEN expiry ELSE 0

Init == now = 0 /\ until = [k \in Names |-> 0] /\ count = [k \in Names |-> 0] /\ durable = [k \in Names |-> NoRow]

\* Bans end by themselves.
Pass ==
    /\ now < MaxTime /\ now' = now + 1
    /\ until' = [k \in Names |-> StillOn(until[k], now')]
    /\ UNCHANGED <<count, durable>>

\* A key that is not banned is banned, for longer each time; the row may not
\* reach the database.
Impose(k, kept) ==
    /\ until[k] = 0
    /\ until' = [until EXCEPT ![k] = StillOn(ExpiryOf(count[k], now), now)]
    /\ count' = [count EXCEPT ![k] = @ + 1]
    /\ durable' = IF kept THEN [durable EXCEPT ![k] = [count |-> count[k] + 1, expiry |-> ExpiryOf(count[k], now)]]
                  ELSE durable
    /\ UNCHANGED now

\* An administrator lifts the bans of some keys, here, in the database or both.
Lift(K, D) ==
    /\ until' = [k \in Names |-> IF k \in K THEN 0 ELSE until[k]]
    /\ count' = [k \in Names |-> IF k \in K THEN 0 ELSE count[k]]
    /\ durable' = [k \in Names |-> IF k \in D THEN NoRow ELSE durable[k]]
    /\ UNCHANGED now

\* A restart keeps what was stored, or nothing if it cannot be read.
Reload(loaded) ==
    /\ until' = [k \in Names |-> IF loaded THEN StillOn(durable[k].expiry, now) ELSE 0]
    /\ count' = [k \in Names |-> IF loaded THEN durable[k].count ELSE 0]
    /\ UNCHANGED <<now, durable>>

Next ==
    \/ Pass
    \/ \E k \in Names, kept \in BOOLEAN : Impose(k, kept)
    \/ \E K, D \in SUBSET Names : Lift(K, D)
    \/ \E loaded \in BOOLEAN : Reload(loaded)

Spec == Init /\ [][Next]_bookVars
=============================================================================
