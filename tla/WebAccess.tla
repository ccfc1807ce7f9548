------------------------------ MODULE WebAccess ------------------------------
(***************************************************************************)
(* Accounts, logins and sessions of the web UI: the users table            *)
(* (internal/store/user.go), the password challenge between the password   *)
(* and the TOTP code (internal/session/challenge.go), the TOTP steps that  *)
(* may be claimed once, the session cookies and their revocation, the 2FA  *)
(* enforcement of the middleware, and the account handlers.                *)
(*                                                                         *)
(* Requests run concurrently: a request is idle or stands between two SQL  *)
(* statements (or two critical sections of the challenge table) with the   *)
(* user row it has read and the TOTP step whose code it has validated.  A  *)
(* password is known by the version it was set at, a TOTP secret by the    *)
(* version it was enabled at.  A cookie, once issued, can be presented by  *)
(* any later request.                                                      *)
(***************************************************************************)
EXTENDS Naturals, FiniteSets

CONSTANTS Users,         \* user ids, none of them 0
          Requests,      \* HTTP requests served at the same time
          MaxSessions,   \* bound: sessions issued
          MaxTokens,     \* bound: password challenges issued
          MaxVer,        \* bound: changes of one account
          MaxNow,        \* bound: clock
          MaxServed,     \* bound: requests served
          MaxAttempts,   \* codes one challenge allows (5 in the code)
          ChallengeLife, \* ticks a challenge lives (5 minutes)
          Grace,         \* ticks a user has to set up 2FA (72 hours)
          Fresh          \* ticks a sensitive-action code stays fresh (10 minutes)

ASSUME AccessAssumption ==
    /\ {MaxSessions, MaxTokens, MaxVer, MaxNow, MaxServed} \subseteq Nat
    /\ {MaxAttempts, ChallengeLife, Grace, Fresh} \subseteq Nat
    /\ MaxVer > 0 /\ MaxTokens > 0 /\ MaxNow > 1
    /\ 0 \notin Users /\ IsFiniteSet(Requests)

VARIABLES users,     \* the users table
          config,    \* the two security switches of the settings row
          sess,      \* the cookies issued so far, by session id
          revoked,   \* the revoked_sessions table
          chal,      \* challenges.items, by token
          issued,    \* tokens already drawn
          req,       \* the requests in progress
          served,    \* requests accepted so far
          now,       \* the clock, in TOTP steps
          tries,     \* history: codes checked against each challenge
          spent,     \* history: codes claimed so far, as <<user, secret, step>>
          replayed   \* history: one was claimed again for an account that still
                     \* has its secret

vars == <<users, config, sess, revoked, chal, issued, req, served, now, tries, spent, replayed>>
history == <<tries, spent, replayed>>

Sids == 1..MaxSessions
Tokens == 1..MaxTokens
Roles == {"admin", "editor", "reader"}
None == 0
Times == 2..MaxNow
Steps == 1..(MaxNow + 1)
NoRow == [exists |-> FALSE, active |-> FALSE, role |-> "reader", ver |-> 0,
          pw |-> 0, secret |-> None, lastStep |-> 0, grace |-> None]
NewRow(r) == [NoRow EXCEPT !.exists = TRUE, !.active = TRUE, !.role = r, !.ver = 1, !.pw = 1]
NoReq == [pc |-> "idle", user |-> None, row |-> NoRow, sid |-> None,
          token |-> None, then |-> "idle", target |-> None, step |-> 0]

Rows == [exists : BOOLEAN, active : BOOLEAN, role : Roles, ver : 0..MaxVer,
         pw : Nat, secret : 0..MaxVer, lastStep : 0..(MaxNow + 1),
         grace : 0..MaxNow]
NoSession == [user |-> None]
NoChal == [user |-> None]
\* What a request of a signed-in user is for: a change of the own account that
\* needs a sensitive-action code, the 2FA setup, or an administrator's page.
Pages == {"own", "setup", "admin"}

-----------------------------------------------------------------------------
\* The statements of internal/store/user.go: what one UPDATE does to a row.
CanBump(u) == users[u].ver < MaxVer
Bump(row) == [row EXCEPT !.ver = @ + 1]
KeepVersionOnPassword(row) == [row EXCEPT !.pw = @ + 1]   \* mutant: the version is not raised
UpdateUserPassword(row) == [Bump(row) EXCEPT !.pw = row.ver + 1]
UpdateUserRole(row, r) == [Bump(row) EXCEPT !.role = r]
SetUserActive(row, on) == [Bump(row) EXCEPT !.active = on]
EnableUserTOTP(row) == [Bump(row) EXCEPT !.secret = row.ver + 1, !.grace = None]
DisableUserTOTP(row) == [Bump(row) EXCEPT !.secret = None, !.grace = None, !.lastStep = 0]
ToggleUser(row) == SetUserActive(row, ~row.active)
Reactivate(row) == [Bump(row) EXCEPT !.active = TRUE, !.grace = None]
StartUserTOTPGrace(row) == [row EXCEPT !.grace = IF @ = None THEN now ELSE @]

IsLastActiveAdmin(u) ==
    LET ActiveAdmin(v) == users[v].exists /\ users[v].active /\ users[v].role = "admin"
    IN  ActiveAdmin(u) /\ \A v \in Users \ {u} : ~ActiveAdmin(v)

\* An UPDATE ... WHERE id = ? that finds no row changes nothing.
Write(u, row) == users' = IF users[u].exists THEN [users EXCEPT ![u] = row] ELSE users

Accept(r) == req[r].pc = "idle" /\ served < MaxServed /\ served' = served + 1
Done(r) == req' = [req EXCEPT ![r] = NoReq]
Goto(r, pc) == req' = [req EXCEPT ![r].pc = pc]

\* SetUserWithVersion: a cookie with a new session id, made from the row that
\* the request has read.  The history fields say what opened it.
NewSession(u, row, token, by) ==
    \E s \in Sids :
        /\ sess[s] = NoSession
        /\ \A k \in Sids : k < s => sess[k] # NoSession
        /\ sess' = [sess EXCEPT ![s] =
              [user |-> u, ver |-> row.ver, role |-> row.role, fresh |-> 0,
               pw |-> row.pw, secret |-> row.secret, token |-> token, by |-> by]]

\* GetPending2FA: the challenge is there and has not expired.
Live(t) == chal[t] # NoChal /\ chal[t].expires > now

\* SetPending2FA: drops the expired challenges and the one the browser held.
SetPending2FA(u, row, held) ==
    /\ issued < MaxTokens
    /\ issued' = issued + 1
    /\ chal' = [t \in Tokens |->
           IF t = issued + 1
           THEN [user |-> u, ver |-> row.ver, expires |-> now + ChallengeLife, attempts |-> 0]
           ELSE IF t # held /\ Live(t) THEN chal[t] ELSE NoChal]

\* discardChallenge, ClearPending2FA and the delete in ConsumePending2FA.
KeepChallenge(t) == UNCHANGED chal   \* mutant: a challenge can be consumed again
DiscardChallenge(t) == chal' = [chal EXCEPT ![t] = NoChal]

\* AllowPending2FAAttempt: the condition and the count.
AllowsOneMore(t) == Live(t) /\ chal[t].attempts <= MaxAttempts   \* mutant: <= instead of <
AllowsAttempt(t) == Live(t) /\ chal[t].attempts < MaxAttempts
CountAttempt(t) == chal' = [chal EXCEPT ![t].attempts = @ + 1]

\* ConsumePending2FA deletes the challenge and reports whether it was good for
\* this user and version.
Consumable(t, u, row) == Live(t) /\ chal[t].user = u /\ chal[t].ver = row.ver

RevokeSession(s) == revoked' = revoked \cup {s}
IsSessionRevoked(s) == s \in revoked
SensitiveTOTPFresh(s) == sess[s].fresh > now
SetSensitiveTOTPFresh(s) == sess' = [sess EXCEPT ![s].fresh = now + Fresh]

\* What the cookie must agree with in the row of its user.
CookieMatches(s) ==
    LET row == users[sess[s].user] IN row.exists /\ row.active /\ row.ver = sess[s].ver

\* ClaimUserTOTPStep: one UPDATE that only moves totp_last_step forward.
ClaimSameStep(u, step) == users[u].exists /\ users[u].lastStep <= step   \* mutant: <= in the UPDATE
Claimable(u, step) == users[u].exists /\ users[u].lastStep < step
Claim(r) ==
    LET u == req[r].user
        step == req[r].step
        code == <<u, req[r].row.secret, step>>     \* validated with the row read before
    IN  /\ Claimable(u, step)
        /\ users' = [users EXCEPT ![u].lastStep = step]
        /\ spent' = spent \cup {code}
        /\ replayed' = (replayed \/ (code \in spent /\ users[u].secret = req[r].row.secret))

\* The steps whose codes totp.ValidateStep accepts at this moment.
ValidSteps == {now - 1, now, now + 1}
Validated(r, row, step, pc) ==
    req' = [req EXCEPT ![r].pc = pc, ![r].row = row, ![r].step = step]

-----------------------------------------------------------------------------
Init ==
    /\ users \in [Users -> {NoRow, NewRow("reader"),
                           [NewRow("admin") EXCEPT !.grace = 1], [NewRow("admin") EXCEPT !.secret = 1]}]
    /\ \E u \in Users : users[u].role = "admin"
    /\ now = 2
    /\ config \in {c \in [enforce : BOOLEAN, sensitive : BOOLEAN] : c.enforce # c.sensitive}
    /\ sess = [s \in Sids |-> NoSession]
    /\ revoked = {}
    /\ \/ chal = [t \in Tokens |-> NoChal] /\ issued = 0
       \/ \E u \in Users :      \* a password was checked just before
            /\ users[u].secret # None /\ issued = 1
            /\ chal = [t \in Tokens |-> IF t = 1 THEN [user |-> u, ver |-> 1, expires |-> now + ChallengeLife, attempts |-> 0]
                                        ELSE NoChal]
    /\ req = [r \in Requests |-> NoReq]
    /\ served = 0
    /\ tries = [t \in Tokens |-> 0]
    /\ spent = {}
    /\ replayed = FALSE

\* LoginPost up to the password check, for a right password.  A wrong one
\* only feeds the bans (module LoginLimits).
LoginPost(r, u) ==
    /\ Accept(r)
    /\ users[u].exists /\ users[u].active
    /\ req' = [req EXCEPT ![r] = [NoReq EXCEPT !.pc = "enforce", !.user = u,
                                   !.row = users[u], !.then = "session"]]
    /\ UNCHANGED <<users, config, sess, revoked, chal, issued, now, history>>

\* RequireLogin up to the revocation check: the cookie must carry the version
\* of an active user and its session id must not be closed.
RequireLogin(r, s, page) ==
    /\ Accept(r) /\ sess[s] # NoSession
    /\ LET u == sess[s].user IN
         /\ CookieMatches(s) /\ ~IsSessionRevoked(s)
         /\ page = "admin" => users[u].role = "admin"
         /\ req' = [req EXCEPT ![r] = [NoReq EXCEPT !.pc = "enforce", !.user = u, !.row = users[u],
                                        !.sid = s, !.then = page]]
    /\ UNCHANGED <<users, config, sess, revoked, chal, issued, now, history>>

\* The enforcement lets the request go on; the handlers read the row again.
Proceed(r) ==
    req' = [req EXCEPT ![r].pc = IF req[r].then \in {"own", "admin"} THEN "sensitive" ELSE req[r].then,
                       ![r].row = IF req[r].then = "session" THEN @ ELSE NoRow]

\* handleTOTPEnforcement and userNeedsTOTPEnforcement: start the grace period,
\* let it run, or find it over; the last active administrator is spared.
Enforced(row) == row.role # "reader" /\ row.secret = None /\ config.enforce
GraceOver(u, row) ==
    Enforced(row) /\ row.grace # None /\ now - row.grace >= Grace /\ ~IsLastActiveAdmin(u)
Enforce(r) ==
    LET u == req[r].user
        row == req[r].row
    IN  /\ req[r].pc = "enforce"
        /\ \/ GraceOver(u, row) /\ Goto(r, "deactivate") /\ UNCHANGED users
           \/ /\ Enforced(row) /\ row.grace = None
              /\ Write(u, StartUserTOTPGrace(users[u]))
              /\ Proceed(r)
           \/ /\ ~GraceOver(u, row) /\ (Enforced(row) => row.grace # None)
              /\ Proceed(r) /\ UNCHANGED users
        /\ UNCHANGED <<config, sess, revoked, chal, issued, served, now, history>>

\* SetUserActive(false) after the enforcement check; the session is cleared.
Deactivate(r) ==
    /\ req[r].pc = "deactivate" /\ CanBump(req[r].user)
    /\ Write(req[r].user, SetUserActive(users[req[r].user], FALSE))
    /\ Done(r)
    /\ UNCHANGED <<config, sess, revoked, chal, issued, served, now, history>>

\* The end of LoginPost: a session, or with 2FA a challenge.
LoginDone(r) ==
    /\ req[r].pc = "session"
    /\ \/ /\ req[r].row.secret = None
          /\ NewSession(req[r].user, req[r].row, None, "login")
          /\ UNCHANGED <<chal, issued>>
       \/ /\ req[r].row.secret # None
          /\ \E held \in {None} \cup Tokens : SetPending2FA(req[r].user, req[r].row, held)
          /\ UNCHANGED sess
    /\ Done(r)
    /\ UNCHANGED <<users, config, revoked, served, now, history>>

\* Login2FAPost up to the user check: the challenge must be alive and the user
\* still active, with 2FA and the version of the challenge.
Login2FAPost(r, t) ==
    /\ Accept(r) /\ Live(t)
    /\ LET u == chal[t].user
           row == users[u]
       IN \/ /\ row.exists /\ row.active /\ row.secret # None /\ row.ver = chal[t].ver
             /\ req' = [req EXCEPT ![r] = [NoReq EXCEPT !.pc = "allow", !.user = u,
                                            !.row = row, !.token = t]]
             /\ UNCHANGED chal
          \/ /\ ~(row.exists /\ row.active /\ row.secret # None /\ row.ver = chal[t].ver)
             /\ DiscardChallenge(t)
             /\ UNCHANGED req
    /\ UNCHANGED <<users, config, sess, revoked, issued, now, history>>

\* AllowPending2FAAttempt: counts the attempt or drops the challenge.
AllowPending2FAAttempt(r) ==
    LET t == req[r].token IN
    /\ req[r].pc = "allow"
    /\ \/ AllowsAttempt(t) /\ CountAttempt(t) /\ Goto(r, "code")
       \/ ~AllowsAttempt(t) /\ DiscardChallenge(t) /\ Done(r)
    /\ UNCHANGED <<users, config, sess, revoked, issued, served, now, history>>

\* ValidateStep for the code of a login, with the secret of the row read before.
Login2FACode(r) ==
    /\ req[r].pc = "code"
    /\ tries' = [tries EXCEPT ![req[r].token] = @ + 1]
    /\ \/ \E step \in ValidSteps : Validated(r, req[r].row, step, "claim")
       \/ Done(r)
    /\ UNCHANGED <<users, config, sess, revoked, chal, issued, served, now, spent, replayed>>

\* ClaimUserTOTPStep for a validated code: the login goes on to its challenge, a
\* sensitive action makes the session fresh and goes on to its handler.  Where
\* nothing is claimed, or the statement fails, the request ends.
ClaimCode(r) ==
    /\ req[r].pc = "claim"
    /\ \/ /\ Claim(r)
          /\ \/ req[r].token # None /\ Validated(r, req[r].row, 0, "consume") /\ UNCHANGED sess
             \/ /\ req[r].token = None
                /\ SetSensitiveTOTPFresh(req[r].sid)
                /\ Validated(r, NoRow, 0, req[r].then)
       \/ /\ Done(r) /\ UNCHANGED <<users, sess, spent, replayed>>
    /\ UNCHANGED <<config, revoked, chal, issued, served, now, tries>>

\* ConsumePending2FA and, when it succeeds, SetUserWithVersion.
ConsumePending2FA(r) ==
    LET t == req[r].token IN
    /\ req[r].pc = "consume"
    /\ DiscardChallenge(t)
    /\ \/ /\ Consumable(t, req[r].user, req[r].row)
          /\ NewSession(req[r].user, req[r].row, t, "login")
       \/ ~Consumable(t, req[r].user, req[r].row) /\ UNCHANGED sess
    /\ Done(r)
    /\ UNCHANGED <<users, config, revoked, issued, served, now, history>>

\* Logout: the session id is revoked in the database, then the cookie cleared.
Logout(s) ==
    /\ sess[s] # NoSession
    /\ RevokeSession(s)
    /\ UNCHANGED <<users, config, sess, chal, issued, req, served, now, history>>

-----------------------------------------------------------------------------
\* The changes of the user's own account.  Each closes every session of the
\* user and is followed by a new session for this browser.
ProfilePost(r) ==
    LET u == req[r].user IN
    /\ req[r].pc = "own" /\ CanBump(u)
    /\ Write(u, UpdateUserPassword(users[u]))
    /\ Goto(r, "reissue")
    /\ UNCHANGED <<config, sess, revoked, chal, issued, served, now, history>>

Profile2FADisable(r) ==
    LET u == req[r].user IN
    /\ req[r].pc = "own" /\ CanBump(u)
    /\ Write(u, DisableUserTOTP(users[u]))
    /\ Goto(r, "reissue")
    /\ UNCHANGED <<config, sess, revoked, chal, issued, served, now, history>>

\* 2FA is off in the row, and the code is one of the secret the browser was shown.
Profile2FAConfirm(r) ==
    /\ req[r].pc = "setup" /\ users[req[r].user].secret = None
    /\ \E step \in ValidSteps : Validated(r, NoRow, step, "enable")
    /\ UNCHANGED <<users, config, sess, revoked, chal, issued, served, now, history>>

\* EnableUserTOTP does not ask again: of two confirmations the later one stays.
\* Of an account that is gone neither this nor the claim finds a row.
EnableSetup(r) ==
    LET u == req[r].user IN
    /\ req[r].pc = "enable" /\ CanBump(u)
    /\ Write(u, EnableUserTOTP(users[u]))
    /\ IF users[u].exists THEN Validated(r, users'[u], req[r].step, "claimSetup")
                          ELSE Validated(r, NoRow, 0, "reissue")
    /\ UNCHANGED <<config, sess, revoked, chal, issued, served, now, history>>

\* The step of the confirmation code is claimed after 2FA was enabled; whether
\* that worked is not asked.
ClaimSetup(r) ==
    /\ req[r].pc = "claimSetup"
    /\ Claim(r) \/ UNCHANGED <<users, spent, replayed>>
    /\ Validated(r, NoRow, 0, "reissue")
    /\ UNCHANGED <<config, sess, revoked, chal, issued, served, now, tries>>

\* redirectAfterOwnSecurityChange re-reads the row and issues a new cookie.
Reissue(r) ==
    LET u == req[r].user IN
    /\ req[r].pc = "reissue"
    /\ IF users[u].exists THEN NewSession(u, users[u], None, "own") ELSE UNCHANGED sess
    /\ Done(r)
    /\ UNCHANGED <<users, config, revoked, chal, issued, served, now, history>>

\* RequireTOTPForSensitiveAction: the row is read again; a fresh session passes,
\* else a code is validated, to be claimed in a second statement, or refused.
Sensitive(r) ==
    LET row == users[req[r].user]
        has2FA == row.exists /\ row.active /\ row.secret # None
    IN  /\ req[r].pc = "sensitive"
        /\ \/ /\ ~config.sensitive \/ (has2FA /\ SensitiveTOTPFresh(req[r].sid))
              /\ Goto(r, req[r].then)
           \/ /\ config.sensitive /\ has2FA
              /\ \E step \in ValidSteps : Validated(r, row, step, "claim")
           \/ config.sensitive /\ Done(r)
        /\ UNCHANGED <<users, config, sess, revoked, chal, issued, served, now, history>>

\* The administrator's handlers on an account v: what each writes.
CreateUserPost(v) == users[v].ver = 0 /\ \E role \in Roles : users' = [users EXCEPT ![v] = NewRow(role)]
ChangeUsernamePost(v) == Write(v, Bump(users[v]))
ChangePasswordPost(v) == Write(v, UpdateUserPassword(users[v]))
DisableUser2FAPost(v) == Write(v, DisableUserTOTP(users[v]))
ChangeRolePost(u, v) == v # u /\ \E role \in Roles : Write(v, UpdateUserRole(users[v], role))
ToggleUserPost(u, v) == v # u /\ Write(v, ToggleUser(users[v]))

AdminAct(r, v) ==
    /\ req[r].pc = "admin"
    /\ \/ CreateUserPost(v)
       \/ /\ users[v].exists /\ CanBump(v)
          /\ \/ ChangeUsernamePost(v) \/ ChangePasswordPost(v) \/ DisableUser2FAPost(v)
             \/ ChangeRolePost(req[r].user, v) \/ ToggleUserPost(req[r].user, v)
    /\ Done(r)
    /\ UNCHANGED <<config, sess, revoked, chal, issued, served, now, history>>

\* DeleteUserPost reads the role first.
DeleteUserPost(r, v) ==
    /\ req[r].pc = "admin" /\ users[v].exists /\ users[v].role # "admin"
    /\ req' = [req EXCEPT ![r].pc = "delete", ![r].target = v]
    /\ UNCHANGED users
    /\ UNCHANGED <<config, sess, revoked, chal, issued, served, now, history>>

\* The two security switches; turning the enforcement off ends every grace.
SystemSettingsPost(r) ==
    /\ req[r].pc = "admin"
    /\ config' \in [enforce : BOOLEAN, sensitive : BOOLEAN]
    /\ users' = IF config.enforce /\ ~config'.enforce
                THEN [w \in Users |-> [users[w] EXCEPT !.grace = None]] ELSE users
    /\ Done(r)
    /\ UNCHANGED <<sess, revoked, chal, issued, served, now, history>>

\* DeleteUser, a second statement after the role was read.
DeleteUser(r) ==
    /\ req[r].pc = "delete"
    /\ users' = [users EXCEPT ![req[r].target] = [NoRow EXCEPT !.ver = users[req[r].target].ver]]
    /\ Done(r)
    /\ UNCHANGED <<config, sess, revoked, chal, issued, served, now, history>>

\* A handler that refuses: not found, the own account, an administrator, 2FA
\* already on, a taken name, a wrong current password, a failed statement.
Refuse(r) ==
    /\ req[r].pc \in {"own", "setup", "enable", "admin", "delete"}
    /\ Done(r)
    /\ UNCHANGED <<users, config, sess, revoked, chal, issued, served, now, history>>

-----------------------------------------------------------------------------
\* The commands for an administrator who is locked out.
unlock2FA(u) == users' = [users EXCEPT ![u] = DisableUserTOTP(users[u])]
enableUser(u) == users' = [users EXCEPT ![u] = Reactivate(users[u])]
resetPassword(u) == users' = [users EXCEPT ![u] = UpdateUserPassword(users[u])]
CLI(u) ==
    /\ users[u].exists /\ CanBump(u)
    /\ unlock2FA(u) \/ enableUser(u) \/ resetPassword(u)
    /\ UNCHANGED <<config, sess, revoked, chal, issued, req, served, now, history>>

\* A restart of the server forgets the requests and every challenge.
Restart ==
    /\ req # [r \in Requests |-> NoReq] \/ \E t \in Tokens : chal[t] # NoChal
    /\ req' = [r \in Requests |-> NoReq]
    /\ chal' = [t \in Tokens |-> NoChal]
    /\ UNCHANGED <<users, config, sess, revoked, issued, served, now, history>>

Tick ==
    /\ now < MaxNow
    /\ now' = now + 1
    /\ UNCHANGED <<users, config, sess, revoked, chal, issued, req, served, history>>

Handle(r) ==
    \/ \E u \in Users : LoginPost(r, u)
    \/ \E s \in Sids, page \in Pages : RequireLogin(r, s, page)
    \/ \E t \in Tokens : Login2FAPost(r, t)
    \/ Enforce(r) \/ Deactivate(r) \/ LoginDone(r)
    \/ AllowPending2FAAttempt(r) \/ Login2FACode(r) \/ ClaimCode(r) \/ ConsumePending2FA(r)
    \/ ProfilePost(r) \/ Profile2FADisable(r) \/ Profile2FAConfirm(r) \/ EnableSetup(r) \/ ClaimSetup(r)
    \/ Reissue(r)
    \/ Sensitive(r) \/ DeleteUser(r) \/ SystemSettingsPost(r) \/ Refuse(r)
    \/ \E v \in Users : AdminAct(r, v) \/ DeleteUserPost(r, v)

Next ==
    \/ \E r \in Requests : Handle(r)
    \/ \E s \in Sids : Logout(s)
    \/ \E u \in Users : CLI(u)
    \/ Restart
    \/ Tick

Spec == Init /\ [][Next]_vars

-----------------------------------------------------------------------------
\* Every variable has its type (the rows of internal/store/user.go, the
\* challenge table of internal/session/challenge.go).
TypeOK ==
    /\ users \in [Users -> Rows]
    /\ config \in [enforce : BOOLEAN, sensitive : BOOLEAN]
    /\ revoked \subseteq Sids
    /\ issued \in 0..MaxTokens
    /\ now \in Times
    /\ served \in 0..MaxServed
    /\ tries \in [Tokens -> Nat]
    /\ spent \subseteq (Users \X (1..MaxVer) \X Steps)
    /\ replayed \in BOOLEAN
    /\ \A s \in Sids : sess[s] = NoSession \/ sess[s].user \in Users
    /\ \A t \in Tokens : chal[t] = NoChal \/ (chal[t].user \in Users /\ chal[t].attempts \in 0..MaxAttempts)

\* A session opened by a login that the middleware would still accept was
\* opened with the password, the second factor and the role that the account
\* has now: every change of them closes the logins made before it, also the
\* ones whose request had read the row before the change
\* (internal/web/middleware.go:42, session_version in internal/store/user.go).
LoginsAreCurrent ==
    \A s \in Sids :
        LET c == sess[s] IN
        (c # NoSession /\ c.by = "login" /\ users[c.user].exists /\ users[c.user].ver = c.ver)
        => /\ c.pw = users[c.user].pw
           /\ c.secret = users[c.user].secret
           /\ c.role = users[c.user].role
           /\ c.secret # None => c.token # None

\* One password challenge opens at most one session, however many requests
\* carry its token at the same time (internal/session/challenge.go:22).
OneSessionPerChallenge ==
    \A s, k \in Sids :
        (sess[s] # NoSession /\ sess[k] # NoSession /\ sess[s].token # None /\ sess[s].token = sess[k].token)
        => s = k

\* No more codes are checked against one challenge than it allows, whichever
\* requests submit them (internal/session/challenge.go:95).
AttemptsBounded == \A t \in Tokens : tries[t] <= MaxAttempts

\* A challenge is good for one session and a few codes.
ChallengesHold == OneSessionPerChallenge /\ AttemptsBounded

\* A TOTP code claimed for an account, at a login, for a sensitive action or when
\* 2FA was set up, is not accepted for it again while the account keeps the secret
\* of the code (internal/store/user.go:131), though the code is validated with a
\* row read before (internal/web/middleware.go:106) and claimed by a statement
\* that does not ask for the secret.  It is not so once 2FA has been switched off:
\* DisableUserTOTP resets totp_last_step (internal/store/user.go:115), so a request
\* that validated the code before claims it a second time.
CodeWorksOnce == ~replayed

HasAdmin == \E u \in Users : users[u].exists /\ users[u].active /\ users[u].role = "admin"

\* "Never lock out the last active administrator" (the comment at
\* internal/web/middleware.go:231): a deactivation by the 2FA enforcement
\* leaves an active administrator where there was one.
EnforcementSparesLastAdmin ==
    [][((\E r \in Requests : Deactivate(r)) /\ HasAdmin) => HasAdmin']_vars
=============================================================================
