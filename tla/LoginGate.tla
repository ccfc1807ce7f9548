------------------------------ MODULE LoginGate ------------------------------
(***************************************************************************)
(* The login form of the web UI: the progressive bans that a failed login  *)
(* counts towards (internal/ratelimit/banhammer.go), kept in memory and    *)
(* stored (internal/store/ip_bans.go), and the throttled notices to the    *)
(* administrators (internal/web/handlers/security_notifications.go).       *)
(* Logins overlap: the ban is looked at first, the password compared later *)
(* (internal/web/handlers/auth.go).                                        *)
(***************************************************************************)
EXTENDS Limiter

CONSTANTS Clients,     \* addresses
          Key,         \* the key of each (BanKey: an IPv6 address has its /64's)
          Trusted,     \* addresses in a trusted network (isTrusted)
          MaxFails, Window, BanDurs, Forever,   \* as given to NewBanhammer
          NoticeInterval, NoticeWindow, NoticeLimit, NoticeMaxIPs,
          MaxRestarts, MaxSkipped   \* bounds on the restarts and on the notices left out

Names == Clients \cup {Key[c] : c \in Clients}

ASSUME GateAssumption ==
    /\ Trusted \subseteq Clients /\ Key \in [Clients -> Names]
    /\ {MaxFails, Window, NoticeInterval, NoticeWindow, NoticeLimit, NoticeMaxIPs} \subseteq Nat \ {0}
    /\ BanDurs \in Seq(Nat) /\ BanDurs # <<>>
    /\ \A i \in DOMAIN BanDurs : BanDurs[i] = 0 \/ BanDurs[i] >= Window
    /\ {MaxRestarts, MaxSkipped} \subseteq Nat
    /\ Forever \in Nat /\ Forever > MaxTime

VARIABLES states,    \* of each key: recent failures, the expiry of its ban (0: none) and its bans so far
          stored,    \* the ip_bans table
          logins,    \* requests under way: [req, client, at, pc, banned]
          notices,   \* loginNoticeThrottle: last, sent, suppressed
          restarts,
          guesses,   \* history: when the failed logins of a key began, since it was last cleared
          sentLog,   \* history: every notice of this process
          untold     \* history: clients whose ban should have been told and was not

gateVars == <<states, stored, logins, notices, restarts, guesses, sentLog, untold>>

\* A list of times of which only the length is read is the set of its entries:
\* a time, and a number that tells the entries of one instant apart.
Entry(list) == <<now, Cardinality({e \in list : e[1] = now})>>

Fresh == [failures |-> {}, expiry |-> 0, count |-> 0]
NoRow == [count |-> 0, expiry |-> 0]
Book == INSTANCE BanBook WITH
    until <- [k \in Names |-> IF states[k].expiry > now THEN states[k].expiry ELSE 0],
    count <- [k \in Names |-> states[k].count], durable <- stored

-----------------------------------------------------------------------------
\* The operations of the banhammer on the state s of one key.
isTrusted(c) == c \in Trusted
banDurFor(n) == IF n >= Len(BanDurs) THEN BanDurs[Len(BanDurs)] ELSE BanDurs[n + 1]
Active(s) == s.expiry > now

IsBanned(s) == Active(s)
\* A ban that has run out is forgotten when it is looked at.
AfterLook(s) == IF s.expiry # 0 /\ s.expiry <= now THEN [s EXCEPT !.expiry = 0, !.failures = {}] ELSE s

Recent(s) == {e \in s.failures : e[1] > now - Window}
LastOnly(s) == {e \in s.failures : e[1] = now}   \* mutant: only the failures of this instant count
Valid(s) == Recent(s)
Bans(s) == ~Active(s) /\ Cardinality(Valid(s)) + 1 >= MaxFails
Expiry(s) == IF banDurFor(s.count) = 0 THEN Forever ELSE now + banDurFor(s.count)
FlatCount(s) == [failures |-> {}, expiry |-> Expiry(s), count |-> s.count]   \* mutant: bans do not escalate
Imposed(s) == [failures |-> {}, expiry |-> Expiry(s), count |-> s.count + 1]
RecordFailure(s) ==
    CASE Active(s) -> s
      [] ~Active(s) /\ Bans(s) -> Imposed(s)
      [] OTHER -> [s EXCEPT !.failures = Valid(s) \cup {Entry(Valid(s))}]
ClearFailures(s) == [s EXCEPT !.failures = {}]
cleanupAt(s) == IF Active(s) \/ Recent(s) # {} THEN s ELSE IF s.count = 0 THEN Fresh ELSE ClearFailures(s)
UnbanKeys(c) == {c, Key[c]}
LoadRow(row) == row   \* mutant: the list of failures is not made
\* Load: a stored ban that has run out keeps its count.
Load(row) == [Fresh EXCEPT !.count = row.count, !.expiry = IF row.expiry > now THEN row.expiry ELSE 0]

\* loginNoticeThrottle.allow.
NoNotices == [last |-> [x \in Clients \X BOOLEAN |-> Unset], sent |-> {}, suppressed |-> 0]
Listed(last) == {x \in DOMAIN last : last[x] # Unset}
Purged(last) ==
    IF Cardinality(Listed(last)) < NoticeMaxIPs THEN last
    ELSE [x \in DOMAIN last |-> IF last[x] # Unset /\ now - last[x] >= NoticeInterval THEN Unset ELSE last[x]]
Pruned(sent) == {e \in sent : now - e[1] < NoticeWindow}
noticeByIP(c, banned) == <<c, FALSE>>   \* mutant: a ban is not keyed apart
noticeKey(c, banned) == <<c, banned>>
MaySend(x, last, sent) ==
    /\ last[x] = Unset \/ now - last[x] >= NoticeInterval
    /\ Cardinality(sent) < NoticeLimit /\ Cardinality(Listed(last)) < NoticeMaxIPs
throttle(x) ==
    LET last == Purged(notices.last)
        sent == Pruned(notices.sent)
    IN  IF MaySend(x, last, sent)
        THEN [last |-> [last EXCEPT ![x] = now], sent |-> sent \cup {Entry(sent)}, suppressed |-> 0]
        ELSE [last |-> last, sent |-> sent, suppressed |-> notices.suppressed + 1]
IsSent(x) == MaySend(x, Purged(notices.last), Pruned(notices.sent))

-----------------------------------------------------------------------------
GateInit ==
    /\ states = [k \in Names |-> Fresh] /\ stored = [k \in Names |-> NoRow]
    /\ logins = {} /\ notices = NoNotices /\ restarts = 0
    /\ guesses = [k \in Names |-> <<>>] /\ sentLog = <<>> /\ untold = {}

\* LoginPost and Login2FAPost begin: a banned address is turned away.
LoginPost(q, c) ==
    /\ scene.part = "bans" /\ \A r \in logins : r.req # q
    /\ \A p \in Requests : p < q => \E r \in logins : r.req = p   \* the first free slot
    /\ c \in scene.clients /\ notices.suppressed < MaxSkipped
    /\ states' = IF isTrusted(c) THEN states ELSE [states EXCEPT ![Key[c]] = AfterLook(@)]
    /\ logins' = IF ~isTrusted(c) /\ IsBanned(states[Key[c]]) THEN logins
                 ELSE logins \cup {[req |-> q, client |-> c, at |-> now, pc |-> "compare", banned |-> FALSE]}
    /\ UNCHANGED <<now, scene, stored, notices, restarts, guesses, sentLog, untold>>

\* The password, or the 2FA code, is wrong.  The row of a ban may fail to be
\* stored, and nothing tells.
loginFailed(r, kept) ==
    LET k == Key[r.client]
        bans == ~isTrusted(r.client) /\ Bans(states[k])
    IN  /\ r \in logins /\ r.pc = "compare"
        /\ kept \/ bans
        /\ states' = IF isTrusted(r.client) THEN states ELSE [states EXCEPT ![k] = RecordFailure(@)]
        /\ stored' = IF bans /\ kept THEN [stored EXCEPT ![k] = [count |-> states[k].count + 1, expiry |-> Expiry(states[k])]]
                     ELSE stored
        /\ logins' = (logins \ {r}) \cup {[r EXCEPT !.pc = "notify", !.banned = bans]}
        /\ guesses' = IF isTrusted(r.client) THEN guesses ELSE [guesses EXCEPT ![k] = Append(@, r.at)]
        /\ UNCHANGED <<now, scene, notices, restarts, sentLog, untold>>

\* The global limits leave room and no ban of the client was told just before.
RoomFor(c) ==
    LET last == notices.last[<<c, TRUE>>] IN
    /\ Cardinality({i \in DOMAIN sentLog : now - sentLog[i] < NoticeWindow}) < NoticeLimit
    /\ Cardinality(Listed(notices.last)) < NoticeMaxIPs
    /\ last = Unset \/ now - last >= NoticeInterval

\* notifyAdminLoginFailed, after RecordFailure has let go of its lock.
notifyAdminLoginFailed(r) ==
    LET x == noticeKey(r.client, r.banned) IN
    /\ r \in logins /\ r.pc = "notify"
    /\ logins' = logins \ {r}
    /\ notices' = throttle(x)
    /\ sentLog' = IF IsSent(x) THEN Append(sentLog, now) ELSE sentLog
    /\ untold' = IF r.banned /\ ~IsSent(x) /\ RoomFor(r.client) THEN untold \cup {r.client} ELSE untold
    /\ UNCHANGED <<now, scene, states, stored, restarts, guesses>>

\* A login that succeeds.  Before the second factor the failures stay.
LoginPassed(r, last) ==
    /\ r \in logins /\ r.pc = "compare"
    /\ logins' = logins \ {r}
    /\ states' = IF last THEN [states EXCEPT ![Key[r.client]] = ClearFailures(@)] ELSE states
    /\ guesses' = IF last THEN [guesses EXCEPT ![Key[r.client]] = <<>>] ELSE guesses
    /\ UNCHANGED <<now, scene, stored, notices, restarts, sentLog, untold>>

\* The password is right, the time to set up the second factor is over: the
\* account is deactivated and the administrators told, under the same limits.
handleTOTPEnforcement(r) ==
    /\ r \in logins /\ r.pc = "compare"
    /\ logins' = (logins \ {r}) \cup {[r EXCEPT !.pc = "notify", !.banned = FALSE]}
    /\ UNCHANGED <<now, scene, states, stored, notices, restarts, guesses, sentLog, untold>>

Cleanup ==
    /\ scene.part = "bans"
    /\ states' = [k \in Names |-> cleanupAt(states[k])]
    /\ UNCHANGED <<now, scene, stored, logins, notices, restarts, guesses, sentLog, untold>>

\* UnbanIPPost, for any address, banned or not; the deletion of the row may
\* fail unseen.
UnbanIP(c, kept) ==
    /\ scene.part = "bans"
    /\ states' = [k \in Names |-> IF k \in UnbanKeys(c) THEN Fresh ELSE states[k]]
    /\ stored' = IF kept THEN stored ELSE [k \in Names |-> IF k \in UnbanKeys(c) THEN NoRow ELSE stored[k]]
    /\ guesses' = [k \in Names |-> IF k \in UnbanKeys(c) THEN <<>> ELSE guesses[k]]
    /\ UNCHANGED <<now, scene, logins, notices, restarts, sentLog, untold>>
\* The command line deletes the row; the running server keeps its ban.
unbanIP(c) ==
    /\ scene.part = "bans" /\ \E k \in UnbanKeys(c) : stored[k] # NoRow
    /\ stored' = [k \in Names |-> IF k \in UnbanKeys(c) THEN NoRow ELSE stored[k]]
    /\ UNCHANGED <<now, scene, states, logins, notices, restarts, guesses, sentLog, untold>>

\* The server restarts: memory is lost and the bans are loaded, if they can be.
Restart(loaded) ==
    /\ scene.part = "bans" /\ restarts < MaxRestarts /\ restarts' = restarts + 1
    /\ states' = [k \in Names |-> IF loaded THEN Load(stored[k]) ELSE Fresh]
    /\ logins' = {} /\ notices' = NoNotices
    /\ guesses' = [k \in Names |-> <<>>] /\ sentLog' = <<>>
    /\ UNCHANGED <<now, scene, stored, untold>>

GateNext ==
    \/ \E q \in Requests, c \in Clients : LoginPost(q, c)
    \/ \E r \in logins : (\E kept \in BOOLEAN : loginFailed(r, kept)) \/ notifyAdminLoginFailed(r)
                         \/ (\E last \in BOOLEAN : LoginPassed(r, last)) \/ handleTOTPEnforcement(r)
    \/ Cleanup
    \/ \E c \in Clients : unbanIP(c) \/ \E kept \in BOOLEAN : UnbanIP(c, kept)
    \/ \E loaded \in BOOLEAN : Restart(loaded)

-----------------------------------------------------------------------------
GateTypeOK ==
    /\ states \in [Names -> [failures : SUBSET ((0..MaxTime) \X Nat), expiry : Nat, count : Nat]]
    /\ stored \in [Names -> [count : Nat, expiry : Nat]]
    /\ \A r \in logins : r.client \in Clients /\ r.at \in 0..now
    /\ notices.suppressed \in Nat

\* Failed logins of one key that began within one window since it was last
\* cleared: never more than the limit and the requests that were under way
\* when it was reached (RecordFailure, internal/ratelimit/banhammer.go:213).
GuessesBounded ==
    \A k \in Names : \A t \in 0..now :
        Cardinality({i \in DOMAIN guesses[k] : t - Window < guesses[k][i] /\ guesses[k][i] <= t})
            <= MaxFails - 1 + Cardinality(Requests)

\* Whatever window one looks at, the administrators got at most NoticeLimit
\* notices in it (internal/web/handlers/security_notifications.go:28).
NoticesBounded ==
    \A t \in 0..now :
        Cardinality({i \in DOMAIN sentLog : t - NoticeWindow < sentLog[i] /\ sentLog[i] <= t}) <= NoticeLimit

\* "A new ban is keyed apart from ordinary failures so the per-IP interval
\* cannot hide it" (internal/web/handlers/security_notifications.go:79): a ban
\* is told as long as the global limits leave room and no ban of the address
\* was told just before.
BansAreTold == untold = {}

\* Neither too many notices nor a ban untold.
NoticesKept == NoticesBounded /\ BansAreTold

\* Memory and table together behave like the book of bans: bans escalate, end
\* on time, survive a restart once stored, and only an administrator lifts one
\* (internal/ratelimit/banhammer.go).
ImplementsBanBook == Book!Spec
=============================================================================
