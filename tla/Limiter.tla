------------------------------- MODULE Limiter -------------------------------
(***************************************************************************)
(* Fixed-window rate limits (internal/ratelimit/ratelimit.go) as a bucket  *)
(* that counts events until it is reset, and the check of the current      *)
(* password before a sensitive change (internal/web/handlers/profile.go),  *)
(* which looks at the bucket first and counts only the failures.           *)
(***************************************************************************)
EXTENDS Clock

CONSTANTS Requests,    \* slots of the requests that can be under way at once
          LimitMax,    \* events that a window allows
          LimitWindow  \* its length

ASSUME LimiterAssumption == {LimitMax, LimitWindow} \subseteq Nat \ {0} /\ Requests \subseteq Nat /\ IsFiniteSet(Requests)

VARIABLES bucket,     \* of one user: failed password checks
          checking,   \* requests between Blocked and the comparison
          wrong       \* history: wrong passwords compared, by when the check began

limiterVars == <<bucket, checking, wrong>>

NoBucket == [count |-> 0, reset |-> Unset]

\* allow counts an event, in a new bucket once the old one has passed.
allow(b) == IF b = NoBucket \/ now > b.reset THEN [count |-> 1, reset |-> now + LimitWindow] ELSE [b EXCEPT !.count = @ + 1]
OneTooMany(b) == b # NoBucket /\ now < b.reset /\ b.count > LimitMax   \* mutant: > for >=
Blocked(b) == b # NoBucket /\ now < b.reset /\ b.count >= LimitMax

LimiterInit == bucket = NoBucket /\ checking = {} /\ wrong = <<>>

\* checkCurrentPassword, in two steps: between them other requests run.
BeginCheck(q) ==
    /\ scene.part = "limits" /\ \A c \in checking : c.req # q
    /\ \A p \in Requests : p < q => \E c \in checking : c.req = p   \* the first free slot
    /\ ~Blocked(bucket)
    /\ checking' = checking \cup {[req |-> q, at |-> now]}
    /\ UNCHANGED <<now, scene, bucket, wrong>>
CompareWrong(c) ==
    /\ c \in checking /\ Len(wrong) < 2 * (LimitMax + Cardinality(Requests))
    /\ checking' = checking \ {c}
    /\ bucket' = allow(bucket)
    /\ wrong' = Append(wrong, c.at)
    /\ UNCHANGED <<now, scene>>
CompareRight(c) == c \in checking /\ checking' = checking \ {c} /\ UNCHANGED <<now, scene, bucket, wrong>>

\* The hourly cleanup drops buckets that have passed.
cleanup ==
    /\ scene.part = "limits" /\ bucket # NoBucket /\ now > bucket.reset
    /\ bucket' = NoBucket /\ UNCHANGED <<now, scene, checking, wrong>>

LimiterNext ==
    \/ \E q \in Requests : BeginCheck(q)
    \/ \E c \in checking : CompareWrong(c) \/ CompareRight(c)
    \/ cleanup

LimiterTypeOK ==
    /\ bucket = NoBucket \/ (bucket.count \in Nat \ {0} /\ bucket.reset \in Nat)
    /\ \A c \in checking : c.req \in Requests /\ c.at \in 0..now

\* Checks of one password that began inside one window, none of them at the
\* very instant it ends: never more than the limit and the requests that were
\* under way when it was reached (Blocked, internal/ratelimit/ratelimit.go:67).
PasswordChecksBounded ==
    bucket # NoBucket =>
        Cardinality({i \in DOMAIN wrong : bucket.reset - LimitWindow <= wrong[i] /\ wrong[i] < bucket.reset})
            <= LimitMax - 1 + Cardinality(Requests)
=============================================================================
