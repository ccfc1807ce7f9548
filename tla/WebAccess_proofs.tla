-------------------------- MODULE WebAccess_proofs --------------------------
(***************************************************************************)
(* Proofs about the accounts, logins and sessions of the web UI, for any   *)
(* users, requests, limits and times.  What a request or a cookie carries  *)
(* is a copy of a row that may have changed since: the argument rests on   *)
(* how one statement may change a row (Evolves), and on what that leaves   *)
(* of a copy (Current).                                                    *)
(***************************************************************************)
EXTENDS WebAccess, FiniteSetTheorems, TLAPS

-----------------------------------------------------------------------------
(* The invariant.                                                          *)

Points == {"idle", "enforce", "deactivate", "session", "allow", "code", "claim", "consume", "sensitive",
           "own", "setup", "enable", "admin", "delete", "claimSetup", "reissue"}
Sessions == [user : Users, ver : 0..MaxVer, role : Roles, fresh : Nat, pw : Nat, secret : 0..MaxVer,
             token : {None} \cup Tokens, by : {"login", "own"}]
Challenges == [user : Users, ver : 0..MaxVer, expires : Nat, attempts : 0..MaxAttempts]
Reqs == [pc : Points, user : Users \cup {None}, row : Rows, sid : {None} \cup Sids,
         token : {None} \cup Tokens, then : {"idle", "session"} \cup Pages, target : Users \cup {None},
         step : 0..(MaxNow + 1)]

Types ==
    /\ users \in [Users -> Rows]
    /\ config \in [enforce : BOOLEAN, sensitive : BOOLEAN]
    /\ sess \in [Sids -> {NoSession} \cup Sessions]
    /\ revoked \subseteq Sids
    /\ chal \in [Tokens -> {NoChal} \cup Challenges]
    /\ issued \in 0..MaxTokens
    /\ req \in [Requests -> Reqs]
    /\ served \in 0..MaxServed
    /\ now \in Times
    /\ tries \in [Tokens -> Nat]
    /\ spent \subseteq (Users \X (1..MaxVer) \X Steps)
    /\ replayed \in BOOLEAN

\* A row that exists has a version, and its secret is not newer than it.
RowOK(row) == row.secret <= row.ver /\ (row.exists => row.ver > 0)

\* A copy c of a row: if the row still has its version, nothing that logs in
\* has changed.
Current(c, row) ==
    /\ c.ver <= row.ver
    /\ row.exists /\ row.ver = c.ver => c.pw = row.pw /\ c.secret = row.secret /\ c.role = row.role

\* What a request knows at each point of its handler.
At(q) ==
    /\ q.pc # "idle" => q.user \in Users
    /\ q.pc \in {"allow", "code", "consume"} => q.token # None /\ q.row.secret # None
    /\ q.pc = "claim" => q.token # None \/ (q.then \in {"own", "admin"} /\ q.sid # None)
    /\ q.pc \in {"claim", "claimSetup"} => q.row.secret # None
    /\ q.pc \in {"claim", "enable", "claimSetup"} => q.step \in Steps
    /\ q.pc = "delete" => q.target \in Users
    /\ q.pc = "enforce" => q.then # "idle" /\ (q.then \in Pages => q.sid # None)
    /\ q.pc = "sensitive" => q.then \in {"own", "admin"} /\ q.sid # None

\* The copies that a request and a cookie carry.
KnownReq(q) ==
    /\ At(q) /\ RowOK(q.row)
    /\ q.user \in Users => Current(q.row, users[q.user])
    /\ q.sid # None => sess[q.sid] # NoSession
KnownSess(c) ==
    c # NoSession /\ c.by = "login" => Current(c, users[c.user]) /\ (c.secret # None => c.token # None)
Copies ==
    /\ \A u \in Users : RowOK(users[u])
    /\ \A r \in Requests : KnownReq(req[r])
    /\ \A s \in Sids : KnownSess(sess[s])

\* A challenge is either held or used up: one that opened a session is gone,
\* and its token is not drawn again.
Used ==
    /\ \A t \in Tokens : chal[t] # NoChal => t <= issued
    /\ \A s \in Sids : sess[s] # NoSession /\ sess[s].token # None => sess[s].token <= issued /\ chal[sess[s].token] = NoChal
    /\ \A r \in Requests : req[r].token <= issued
    /\ OneSessionPerChallenge

\* The requests that have been allowed a code of challenge t and not checked it.
Coding(t) == {r \in Requests : req[r].pc = "code" /\ req[r].token = t}
Counted ==
    \A t \in Tokens :
        /\ tries[t] + Cardinality(Coding(t)) <= MaxAttempts
        /\ chal[t] # NoChal => tries[t] + Cardinality(Coding(t)) <= chal[t].attempts
        /\ issued < t => tries[t] = 0

\* A code accepted with the secret that an account has now is of a step that
\* the row has passed.
Passed ==
    /\ \A c \in spent : /\ c[2] <= users[c[1]].ver
                        /\ users[c[1]].secret = c[2] => c[3] <= users[c[1]].lastStep
    /\ ~replayed

AccessInv == Types /\ Copies /\ Used /\ Counted /\ Passed

-----------------------------------------------------------------------------
(* How a statement may change a row.                                       *)

\* The version never falls.  Without a new version the password, the secret
\* and the role stay, and a secret is kept with its steps or is new.
Evolves(row, new) ==
    /\ new \in Rows /\ RowOK(new) /\ row.ver <= new.ver
    /\ new.exists /\ new.ver = row.ver =>
           row.exists /\ new.pw = row.pw /\ new.secret = row.secret /\ new.role = row.role
    /\ new.secret # None => (new.secret = row.secret /\ row.lastStep <= new.lastStep) \/ row.ver < new.secret

\* The fields of a row are numbers, within the bounds.
LEMMA RowNumbers ==
    ASSUME NEW row \in Rows
    PROVE  /\ row.ver \in 0..MaxVer /\ row.ver \in Nat /\ row.secret \in 0..MaxVer /\ row.secret \in Nat
           /\ row.lastStep \in 0..(MaxNow + 1) /\ row.lastStep \in Nat /\ row.grace \in 0..MaxNow /\ row.pw \in Nat
BY AccessAssumption DEF Rows

LEMMA NoRowOK == NoRow \in Rows /\ RowOK(NoRow)
<1>1. 0 \in 0..MaxVer /\ 0 \in 0..MaxNow /\ 0 \in 0..(MaxNow + 1) /\ 0 \in Nat
  BY AccessAssumption
<1>2. FALSE \in BOOLEAN /\ "reader" \in Roles
  BY DEF Roles
<1>3. NoRow \in Rows
  BY <1>1, <1>2 DEF NoRow, Rows, None
<1>4. NoRow.secret = 0 /\ NoRow.ver = 0 /\ NoRow.exists = FALSE
  BY DEF NoRow, None
<1>5. QED
  BY <1>3, <1>4 DEF RowOK

\* A row that stays as it is.
LEMMA RowStays ==
    ASSUME NEW row \in Rows, RowOK(row)
    PROVE  Evolves(row, row)
BY RowNumbers DEF Evolves

\* A new version: of anything but the secret, or with the secret dropped or new.
LEMMA RowBumped ==
    ASSUME NEW row \in Rows, RowOK(row), row.ver < MaxVer, NEW new \in Rows, new.ver = row.ver + 1,
           \/ new.secret = row.secret /\ new.lastStep = row.lastStep
           \/ new.secret = None
           \/ new.secret = new.ver
    PROVE  Evolves(row, new)
BY RowNumbers DEF Evolves, RowOK, None

\* The statements that raise session_version.
LEMMA Statements ==
    ASSUME NEW row \in Rows, RowOK(row), row.ver < MaxVer
    PROVE  /\ Evolves(row, Bump(row))
           /\ Evolves(row, UpdateUserPassword(row))
           /\ \A r \in Roles : Evolves(row, UpdateUserRole(row, r))
           /\ \A on \in BOOLEAN : Evolves(row, SetUserActive(row, on))
           /\ Evolves(row, ToggleUser(row))
           /\ Evolves(row, EnableUserTOTP(row))
           /\ Evolves(row, DisableUserTOTP(row))
           /\ Evolves(row, Reactivate(row))
<1> DEFINE b == [row EXCEPT !.ver = row.ver + 1]
<1>1. /\ row.ver + 1 \in 0..MaxVer /\ row.ver + 1 \in Nat /\ 0 \in 0..MaxVer /\ 0 \in 0..MaxNow
      /\ 0 \in 0..(MaxNow + 1)
  BY RowNumbers, AccessAssumption
<1>2. b \in Rows /\ b.ver = row.ver + 1 /\ b.secret = row.secret /\ b.lastStep = row.lastStep /\ Bump(row) = b
  BY <1>1 DEF Rows, Bump
<1> HIDE DEF b
<1>3. Evolves(row, Bump(row))
  BY <1>2, RowBumped
<1>4. Evolves(row, UpdateUserPassword(row))
  <2>1. UpdateUserPassword(row) = [b EXCEPT !.pw = row.ver + 1]
    BY <1>2 DEF UpdateUserPassword
  <2> DEFINE new == [b EXCEPT !.pw = row.ver + 1]
  <2>2. new \in Rows /\ new.ver = b.ver /\ new.secret = b.secret /\ new.lastStep = b.lastStep
    BY <1>1, <1>2 DEF Rows
  <2>3. QED
    BY <1>2, <2>1, <2>2, RowBumped
<1>5. ASSUME NEW r \in Roles PROVE Evolves(row, UpdateUserRole(row, r))
  <2>1. UpdateUserRole(row, r) = [b EXCEPT !.role = r]
    BY <1>2 DEF UpdateUserRole
  <2> DEFINE new == [b EXCEPT !.role = r]
  <2>2. new \in Rows /\ new.ver = b.ver /\ new.secret = b.secret /\ new.lastStep = b.lastStep
    BY <1>2 DEF Rows
  <2>3. QED
    BY <1>2, <2>1, <2>2, RowBumped
<1>6. ASSUME NEW on \in BOOLEAN PROVE Evolves(row, SetUserActive(row, on))
  <2>1. SetUserActive(row, on) = [b EXCEPT !.active = on]
    BY <1>2 DEF SetUserActive
  <2> DEFINE new == [b EXCEPT !.active = on]
  <2>2. new \in Rows /\ new.ver = b.ver /\ new.secret = b.secret /\ new.lastStep = b.lastStep
    BY <1>2 DEF Rows
  <2>3. QED
    BY <1>2, <2>1, <2>2, RowBumped
<1>7. Evolves(row, ToggleUser(row))
  <2>1. (~row.active) \in BOOLEAN
    OBVIOUS
  <2>2. QED
    BY <1>6, <2>1 DEF ToggleUser
<1>8. Evolves(row, EnableUserTOTP(row))
  <2>1. EnableUserTOTP(row) = [b EXCEPT !.secret = row.ver + 1, !.grace = 0]
    BY <1>2 DEF EnableUserTOTP, None
  <2> DEFINE new == [b EXCEPT !.secret = row.ver + 1, !.grace = 0]
  <2>2. new \in Rows /\ new.ver = b.ver /\ new.secret = row.ver + 1
    BY <1>1, <1>2 DEF Rows
  <2>3. QED
    BY <1>2, <2>1, <2>2, RowBumped
<1>9. Evolves(row, DisableUserTOTP(row))
  <2>1. DisableUserTOTP(row) = [b EXCEPT !.secret = 0, !.grace = 0, !.lastStep = 0]
    BY <1>2 DEF DisableUserTOTP, None
  <2> DEFINE new == [b EXCEPT !.secret = 0, !.grace = 0, !.lastStep = 0]
  <2>2. new \in Rows /\ new.ver = b.ver /\ new.secret = 0
    BY <1>1, <1>2 DEF Rows
  <2>3. QED
    BY <1>2, <2>1, <2>2, RowBumped DEF None
<1>10. Evolves(row, Reactivate(row))
  <2>1. Reactivate(row) = [b EXCEPT !.active = TRUE, !.grace = 0]
    BY <1>2 DEF Reactivate, None
  <2> DEFINE new == [b EXCEPT !.active = TRUE, !.grace = 0]
  <2>2. new \in Rows /\ new.ver = b.ver /\ new.secret = b.secret /\ new.lastStep = b.lastStep
    BY <1>1, <1>2 DEF Rows
  <2>3. QED
    BY <1>2, <2>1, <2>2, RowBumped
<1>11. QED
  BY <1>3, <1>4, <1>5, <1>6, <1>7, <1>8, <1>9, <1>10

\* The statements that do not: a claimed step, the grace period.
LEMMA QuietStatements ==
    ASSUME NEW row \in Rows, RowOK(row)
    PROVE  /\ \A step \in 0..(MaxNow + 1) : row.lastStep < step => Evolves(row, [row EXCEPT !.lastStep = step])
           /\ \A g \in 0..MaxNow : Evolves(row, [row EXCEPT !.grace = g])
<1>1. ASSUME NEW step \in 0..(MaxNow + 1), row.lastStep < step PROVE Evolves(row, [row EXCEPT !.lastStep = step])
  <2> DEFINE new == [row EXCEPT !.lastStep = step]
  <2>1. new \in Rows /\ new.lastStep = step /\ new.ver = row.ver /\ new.secret = row.secret /\ new.exists = row.exists
        /\ new.pw = row.pw /\ new.role = row.role
    BY DEF Rows
  <2>2. step \in Nat
    OBVIOUS
  <2> HIDE DEF new
  <2>3. Evolves(row, new)
    BY <1>1, <2>1, <2>2, RowNumbers DEF Evolves, RowOK
  <2>4. QED
    BY <2>3 DEF new
<1>2. ASSUME NEW g \in 0..MaxNow PROVE Evolves(row, [row EXCEPT !.grace = g])
  <2> DEFINE new == [row EXCEPT !.grace = g]
  <2>1. new \in Rows /\ new.lastStep = row.lastStep /\ new.ver = row.ver /\ new.secret = row.secret /\ new.exists = row.exists
        /\ new.pw = row.pw /\ new.role = row.role
    BY DEF Rows
  <2> HIDE DEF new
  <2>2. Evolves(row, new)
    BY <2>1, RowNumbers DEF Evolves, RowOK
  <2>3. QED
    BY <2>2 DEF new
<1>3. QED
  BY <1>1, <1>2

\* A new account in a row never used before, and the end of one.
LEMMA RowBeginsAndEnds ==
    ASSUME NEW row \in Rows, RowOK(row)
    PROVE  /\ row.ver = 0 => \A r \in Roles : Evolves(row, NewRow(r))
           /\ Evolves(row, [NoRow EXCEPT !.ver = row.ver])
<1>1. ASSUME row.ver = 0, NEW r \in Roles PROVE Evolves(row, NewRow(r))
  <2>1. 1 \in 0..MaxVer /\ 1 \in Nat
    BY AccessAssumption
  <2>2. NewRow(r) \in Rows /\ NewRow(r).ver = 1 /\ NewRow(r).secret = 0
    BY <2>1, NoRowOK DEF NewRow, Rows, NoRow, None
  <2>3. QED
    BY <1>1, <2>2 DEF Evolves, RowOK, None
<1>2. Evolves(row, [NoRow EXCEPT !.ver = row.ver])
  <2> DEFINE new == [NoRow EXCEPT !.ver = row.ver]
  <2>1. new \in Rows /\ new.ver = row.ver /\ new.secret = 0 /\ new.exists = FALSE
    BY RowNumbers, NoRowOK DEF Rows, NoRow, None
  <2> HIDE DEF new
  <2>2. Evolves(row, new)
    BY <2>1, RowNumbers DEF Evolves, RowOK, None
  <2>3. QED
    BY <2>2 DEF new
<1>3. QED
  BY <1>1, <1>2
-----------------------------------------------------------------------------
(* What a step leaves of each part of the invariant.                       *)

UsersEvolve == users' \in [Users -> Rows] /\ \A u \in Users : Evolves(users[u], users'[u])

LEMMA UsersStay ==
    ASSUME Types, Copies, UNCHANGED users
    PROVE  UsersEvolve
BY RowStays DEF Types, Copies, UsersEvolve

LEMMA OneRow ==
    ASSUME Types, Copies, NEW u \in Users, NEW new, Evolves(users[u], new), users' = [users EXCEPT ![u] = new]
    PROVE  UsersEvolve
<1>1. \A v \in Users : users[v] \in Rows /\ RowOK(users[v])
  BY DEF Types, Copies
<1>2. new \in Rows
  BY DEF Evolves
<1>3. users' \in [Users -> Rows] /\ \A v \in Users : users'[v] = IF v = u THEN new ELSE users[v]
  BY <1>2 DEF Types
<1>4. \A v \in Users : Evolves(users[v], users'[v])
  BY <1>1, <1>3, RowStays
<1>5. QED
  BY <1>3, <1>4 DEF UsersEvolve

\* An UPDATE, whether it finds its row or not.
LEMMA WriteRow ==
    ASSUME Types, Copies, NEW u \in Users, NEW new, Evolves(users[u], new), Write(u, new)
    PROVE  UsersEvolve
BY OneRow, UsersStay DEF Write

\* A copy stays what it is while its row evolves.
LEMMA CurrentStays ==
    ASSUME NEW row \in Rows, NEW new, Evolves(row, new), NEW c, c.ver \in Nat, Current(c, row)
    PROVE  Current(c, new)
BY RowNumbers DEF Evolves, Current

LEMMA CopiesStep ==
    ASSUME Types, Types', Copies, UsersEvolve,
           \A r \in Requests : KnownReq(req'[r]) \/ KnownReq(req[r])',
           \A s \in Sids : KnownSess(sess'[s]),
           \A s \in Sids : sess[s] # NoSession => sess'[s] # NoSession
    PROVE  Copies'
<1>1. \A u \in Users : users[u] \in Rows /\ Evolves(users[u], users'[u]) /\ RowOK(users'[u])
  BY DEF Types, UsersEvolve, Evolves
<1>2. ASSUME NEW r \in Requests, KnownReq(req'[r]) PROVE KnownReq(req[r])'
  <2>1. req'[r] \in Reqs /\ req'[r].row \in Rows /\ req'[r].sid \in {None} \cup Sids
    BY DEF Types, Reqs
  <2>2. KnownReq(req'[r])
    BY <1>2
  <2>3. req'[r].user \in Users => Current(req'[r].row, users'[req'[r].user])
    BY <1>1, <2>1, <2>2, CurrentStays, RowNumbers DEF KnownReq
  <2>4. req'[r].sid # None => sess'[req'[r].sid] # NoSession
    BY <2>1, <2>2 DEF KnownReq
  <2>5. QED
    BY <2>2, <2>3, <2>4 DEF KnownReq, At
<1>3. ASSUME NEW s \in Sids PROVE KnownSess(sess[s])'
  <2>1. SUFFICES ASSUME sess'[s] # NoSession, sess'[s].by = "login"
                 PROVE  Current(sess'[s], users'[sess'[s].user]) /\ (sess'[s].secret # None => sess'[s].token # None)
    BY DEF KnownSess
  <2>2. sess'[s] \in Sessions
    BY <2>1 DEF Types, NoSession
  <2>3. sess'[s].user \in Users /\ sess'[s].ver \in Nat
    BY <2>2, AccessAssumption DEF Sessions
  <2>4. KnownSess(sess'[s])
    OBVIOUS
  <2>5. QED
    BY <1>1, <2>1, <2>3, <2>4, CurrentStays DEF KnownSess
<1>4. QED
  BY <1>1, <1>2, <1>3 DEF Copies

LEMMA UsedStep ==
    ASSUME Types, Types', Used, issued <= issued',
           \A t \in Tokens : chal'[t] # NoChal => chal[t] # NoChal \/ (issued < t /\ t <= issued'),
           \A r \in Requests : req'[r].token <= issued',
           \A s \in Sids : sess'[s] # NoSession /\ sess'[s].token # None =>
               \/ sess[s] # NoSession /\ sess[s].token = sess'[s].token
               \/ /\ chal[sess'[s].token] # NoChal /\ chal'[sess'[s].token] = NoChal
                  /\ \A k \in Sids : sess'[k] # NoSession /\ k # s => sess[k] # NoSession /\ sess[k].token = sess'[k].token
    PROVE  Used'
<1>1. \A t \in Tokens : t \in Nat
  BY DEF Tokens
<1>2. issued \in Nat /\ issued' \in Nat
  BY DEF Types
<1>3. \A t \in Tokens : chal'[t] # NoChal => t <= issued'
  BY <1>1, <1>2 DEF Used
<1>4. \A s \in Sids : sess[s] # NoSession => sess[s].token \in {None} \cup Tokens
  BY DEF Types, Sessions
<1>5. \A s \in Sids : sess'[s] # NoSession => sess'[s].token \in {None} \cup Tokens
  BY DEF Types, Sessions
<1>6. ASSUME NEW s \in Sids, sess'[s] # NoSession, sess'[s].token # None
      PROVE  sess'[s].token <= issued' /\ chal'[sess'[s].token] = NoChal
  <2> DEFINE t == sess'[s].token
  <2>1. t \in Tokens /\ t \in Nat
    BY <1>1, <1>5, <1>6
  <2>2. CASE sess[s] # NoSession /\ sess[s].token = t
    <3>1. t <= issued /\ chal[t] = NoChal
      BY <2>2, <1>6 DEF Used
    <3>2. QED
      BY <3>1, <2>1, <1>2
  <2>3. CASE chal[t] # NoChal /\ chal'[t] = NoChal
    <3>1. t <= issued
      BY <2>1, <2>3 DEF Used
    <3>2. QED
      BY <3>1, <2>1, <2>3, <1>2
  <2>4. QED
    BY <1>6, <2>2, <2>3
<1>7. OneSessionPerChallenge'
  <2>1. SUFFICES ASSUME NEW s \in Sids, NEW k \in Sids, sess'[s] # NoSession, sess'[k] # NoSession,
                        sess'[s].token # None, sess'[s].token = sess'[k].token, s # k
                 PROVE  FALSE
    BY DEF OneSessionPerChallenge
  <2>2. CASE (sess[s] # NoSession /\ sess[s].token = sess'[s].token) /\ (sess[k] # NoSession /\ sess[k].token = sess'[k].token)
    BY <2>1, <2>2 DEF Used, OneSessionPerChallenge
  <2>3. CASE chal[sess'[s].token] # NoChal /\ sess[k] # NoSession /\ sess[k].token = sess'[k].token
    BY <2>1, <2>3 DEF Used
  <2>4. CASE chal[sess'[k].token] # NoChal /\ sess[s] # NoSession /\ sess[s].token = sess'[s].token
    BY <2>1, <2>4 DEF Used
  <2>5. QED
    BY <2>1, <2>2, <2>3, <2>4
<1>8. QED
  BY <1>3, <1>6, <1>7 DEF Used

\* No request is allowed a code that was not, and no code is checked.
LEMMA CountedStays ==
    ASSUME Types, Types', Used, Counted, UNCHANGED tries, issued <= issued',
           \A t \in Tokens : chal'[t] \in {chal[t], NoChal} \/ (issued < t /\ chal'[t].attempts = 0),
           \A r \in Requests : req'[r].pc = "code" => req[r].pc = "code" /\ req[r].token = req'[r].token
    PROVE  Counted'
<1> SUFFICES ASSUME NEW t \in Tokens
             PROVE  /\ tries[t] + Cardinality(Coding(t)') <= MaxAttempts
                    /\ chal'[t] # NoChal => tries[t] + Cardinality(Coding(t)') <= chal'[t].attempts
                    /\ issued' < t => tries[t] = 0
  BY DEF Counted
<1>1. Coding(t)' \subseteq Coding(t)
  BY DEF Coding
<1>2. IsFiniteSet(Coding(t))
  BY FS_Subset, AccessAssumption DEF Coding
<1>3. /\ Cardinality(Coding(t)) \in Nat /\ Cardinality(Coding(t)') \in Nat
      /\ Cardinality(Coding(t)') <= Cardinality(Coding(t))
  BY <1>1, <1>2, FS_Subset, FS_CardinalityType
<1>4. tries[t] \in Nat /\ t \in Nat /\ issued \in Nat /\ issued' \in Nat /\ MaxAttempts \in Nat
  <2>1. tries[t] \in Nat
    BY DEF Types
  <2>2. issued \in Nat /\ issued' \in Nat
    BY DEF Types
  <2>3. QED
    BY <2>1, <2>2, AccessAssumption DEF Tokens
<1>5. tries[t] + Cardinality(Coding(t)) <= MaxAttempts /\ (issued < t => tries[t] = 0)
  BY DEF Counted
<1>6. tries[t] + Cardinality(Coding(t)') <= MaxAttempts
  BY <1>3, <1>4, <1>5
<1>7. issued' < t => tries[t] = 0
  BY <1>4, <1>5
<1>8. ASSUME chal'[t] # NoChal PROVE tries[t] + Cardinality(Coding(t)') <= chal'[t].attempts
  <2>1. CASE chal'[t] = chal[t]
    <3>1. chal[t] \in Challenges /\ chal[t].attempts \in Nat
      BY <1>8, <2>1, AccessAssumption DEF Types, Challenges
    <3>2. tries[t] + Cardinality(Coding(t)) <= chal[t].attempts
      BY <1>8, <2>1 DEF Counted
    <3>3. QED
      BY <2>1, <3>1, <3>2, <1>3, <1>4
  <2>2. CASE issued < t /\ chal'[t].attempts = 0
    <3>1. \A r \in Requests : req[r].token \in Nat /\ req[r].token <= issued
      BY DEF Used, Types, Reqs, Tokens, None
    <3>2. Coding(t) = {}
      BY <3>1, <2>2, <1>4 DEF Coding
    <3>3. Coding(t)' = {} /\ Cardinality({}) = 0
      BY <3>2, <1>1, FS_EmptySet
    <3>4. QED
      BY <3>3, <2>2, <1>4, <1>5
  <2>3. QED
    BY <1>8, <2>1, <2>2
<1>9. QED
  BY <1>6, <1>7, <1>8

\* A code that was accepted stays behind the step of its row.
LEMMA CodeStaysBehind ==
    ASSUME Types, Passed, UsersEvolve, NEW c \in spent
    PROVE  c[2] <= users'[c[1]].ver /\ (users'[c[1]].secret = c[2] => c[3] <= users'[c[1]].lastStep)
<1>1. c[1] \in Users /\ c[2] \in 1..MaxVer /\ c[3] \in Steps
  BY DEF Types
<1>2. c[2] \in Nat /\ c[3] \in Nat /\ c[2] # None
  BY <1>1 DEF Steps, None
<1>3. users[c[1]] \in Rows /\ users'[c[1]] \in Rows /\ Evolves(users[c[1]], users'[c[1]])
  BY <1>1 DEF Types, UsersEvolve
<1>4. QED
  BY <1>2, <1>3, RowNumbers DEF Passed, Evolves

LEMMA PassedStays ==
    ASSUME Types, Passed, UsersEvolve, UNCHANGED <<spent, replayed>>
    PROVE  Passed'
BY CodeStaysBehind DEF Passed

\* A step that opens no session, draws no challenge and checks no code: the
\* rows evolve, requests move on, challenges may be dropped, a code be claimed.
LEMMA SpendStep ==
    ASSUME AccessInv, UsersEvolve, req' \in [Requests -> Reqs],
           \A r \in Requests : \/ req'[r] = req[r]
                               \/ /\ KnownReq(req'[r]) \/ KnownReq(req[r])'
                                  /\ req'[r].token <= issued /\ req'[r].pc # "code",
           chal' \in [Tokens -> {NoChal} \cup Challenges], \A t \in Tokens : chal'[t] \in {chal[t], NoChal},
           served' \in 0..MaxServed, config' \in [enforce : BOOLEAN, sensitive : BOOLEAN], revoked' \subseteq Sids,
           now' \in Times, UNCHANGED <<sess, issued, tries>>,
           spent' \subseteq (Users \X (1..MaxVer) \X Steps), replayed' \in BOOLEAN, Passed'
    PROVE  AccessInv'
<1> USE DEF AccessInv
<1>1. Types'
  BY DEF Types, UsersEvolve
<1>2. issued \in Nat /\ issued <= issued'
  BY DEF Types
<1>3. Copies'
  <2>1. \A r \in Requests : KnownReq(req'[r]) \/ KnownReq(req[r])'
    BY DEF Copies
  <2>2. \A s \in Sids : KnownSess(sess'[s])
    BY DEF Copies
  <2>3. QED
    BY <1>1, <2>1, <2>2, CopiesStep
<1>4. Used'
  <2>1. \A r \in Requests : req'[r].token <= issued'
    BY DEF Used
  <2>2. QED
    BY <1>1, <1>2, <2>1, UsedStep
<1>5. Counted'
  BY <1>1, <1>2, CountedStays
<1>6. QED
  BY <1>1, <1>3, <1>4, <1>5

\* The same where none is claimed.
LEMMA PlainStep ==
    ASSUME AccessInv, UsersEvolve, req' \in [Requests -> Reqs],
           \A r \in Requests : \/ req'[r] = req[r]
                               \/ /\ KnownReq(req'[r]) \/ KnownReq(req[r])'
                                  /\ req'[r].token <= issued /\ req'[r].pc # "code",
           chal' \in [Tokens -> {NoChal} \cup Challenges], \A t \in Tokens : chal'[t] \in {chal[t], NoChal},
           served' \in 0..MaxServed, config' \in [enforce : BOOLEAN, sensitive : BOOLEAN], revoked' \subseteq Sids,
           now' \in Times, UNCHANGED <<sess, issued, tries, spent, replayed>>
    PROVE  AccessInv'
<1>1. spent' \subseteq (Users \X (1..MaxVer) \X Steps) /\ replayed' \in BOOLEAN
  BY DEF AccessInv, Types
<1>2. Passed'
  BY PassedStays DEF AccessInv
<1>3. QED
  BY <1>1, <1>2, SpendStep

\* The same for a step of one request that drops no challenge.
LEMMA HandlerStep ==
    ASSUME AccessInv, UsersEvolve, NEW r \in Requests, NEW q \in Reqs, req' = [req EXCEPT ![r] = q],
           KnownReq(q) \/ KnownReq(req[r])', q.token <= issued, q.pc # "code",
           served' \in 0..MaxServed, config' \in [enforce : BOOLEAN, sensitive : BOOLEAN],
           UNCHANGED <<sess, revoked, chal, issued, now, tries, spent, replayed>>
    PROVE  AccessInv'
<1>1. req' \in [Requests -> Reqs] /\ \A x \in Requests : req'[x] = IF x = r THEN q ELSE req[x]
  BY DEF AccessInv, Types
<1>2. chal' \in [Tokens -> {NoChal} \cup Challenges] /\ revoked' \subseteq Sids /\ now' \in Times
  BY DEF AccessInv, Types
<1>3. QED
  BY <1>1, <1>2, PlainStep

\* What the invariant says of one request and of one row.
LEMMA ReqFacts ==
    ASSUME AccessInv, NEW r \in Requests
    PROVE  req[r] \in Reqs /\ KnownReq(req[r]) /\ req[r].token <= issued /\ req[r].token \in Nat /\ issued \in Nat
<1>1. req[r] \in Reqs /\ issued \in Nat
  BY DEF AccessInv, Types
<1>2. req[r].token \in Nat
  BY <1>1 DEF Reqs, Tokens, None
<1>3. QED
  BY <1>1, <1>2 DEF AccessInv, Copies, Used

LEMMA UserFacts ==
    ASSUME AccessInv, NEW u \in Users
    PROVE  users[u] \in Rows /\ RowOK(users[u]) /\ Current(users[u], users[u]) /\ Current(NoRow, users[u])
<1>1. users[u] \in Rows /\ RowOK(users[u])
  BY DEF AccessInv, Types, Copies
<1>2. NoRow.ver = 0
  BY DEF NoRow
<1>3. QED
  BY <1>1, <1>2, RowNumbers DEF Current, RowOK

\* A request that is done.
LEMMA NoReqOK == NoReq \in Reqs /\ KnownReq(NoReq) /\ NoReq.token = 0 /\ NoReq.pc = "idle"
<1>1. NoReq = [pc |-> "idle", user |-> 0, row |-> NoRow, sid |-> 0, token |-> 0, then |-> "idle", target |-> 0, step |-> 0]
  BY DEF NoReq, None
<1>2. "idle" \in Points
  BY DEF Points
<1>3. NoReq \in Reqs
  BY <1>1, <1>2, NoRowOK, AccessAssumption DEF Reqs, None
<1>4. At(NoReq)
  BY <1>1 DEF At
<1>5. QED
  BY <1>1, <1>3, <1>4, NoRowOK, AccessAssumption DEF KnownReq, None

LEMMA DoneStep ==
    ASSUME AccessInv, UsersEvolve, NEW r \in Requests, Done(r), config' \in [enforce : BOOLEAN, sensitive : BOOLEAN],
           UNCHANGED <<sess, revoked, chal, issued, served, now, tries, spent, replayed>>
    PROVE  AccessInv'
<1>1. issued \in Nat /\ served' \in 0..MaxServed
  BY DEF AccessInv, Types
<1>2. NoReq.token <= issued /\ NoReq.pc # "code"
  BY <1>1, NoReqOK
<1>3. QED
  BY <1>1, <1>2, NoReqOK, HandlerStep DEF Done

\* A request goes to another point with what it knows.
LEMMA GotoStep ==
    ASSUME AccessInv, UsersEvolve, NEW r \in Requests, NEW pc \in Points, pc # "code", Goto(r, pc),
           At([req[r] EXCEPT !.pc = pc]),
           UNCHANGED <<config, sess, revoked, chal, issued, served, now, tries, spent, replayed>>
    PROVE  AccessInv'
<1> DEFINE q == [req[r] EXCEPT !.pc = pc]
<1>1. req[r] \in Reqs /\ KnownReq(req[r]) /\ req[r].token <= issued
  BY ReqFacts
<1>2. /\ q \in Reqs /\ q.pc = pc /\ q.user = req[r].user /\ q.row = req[r].row /\ q.sid = req[r].sid
      /\ q.token = req[r].token
  BY <1>1 DEF Reqs
<1>3. KnownReq(q)
  BY <1>1, <1>2 DEF KnownReq
<1>4. req' = [req EXCEPT ![r] = q]
  BY DEF Goto, AccessInv, Types
<1>5. served' \in 0..MaxServed /\ config' \in [enforce : BOOLEAN, sensitive : BOOLEAN]
  BY DEF AccessInv, Types
<1> HIDE DEF q
<1>6. QED
  BY <1>1, <1>2, <1>3, <1>4, <1>5, HandlerStep

\* A request validates a code with a row, or has done with it.
LEMMA ValidatedStep ==
    ASSUME AccessInv, UsersEvolve, NEW r \in Requests, NEW row \in Rows, NEW step \in 0..(MaxNow + 1),
           NEW pc \in Points, pc # "code", Validated(r, row, step, pc), RowOK(row),
           req[r].user \in Users => Current(row, users[req[r].user]),
           At([req[r] EXCEPT !.pc = pc, !.row = row, !.step = step]),
           UNCHANGED <<config, sess, revoked, chal, issued, served, now, tries, spent, replayed>>
    PROVE  AccessInv'
<1> DEFINE q == [req[r] EXCEPT !.pc = pc, !.row = row, !.step = step]
<1>1. req[r] \in Reqs /\ KnownReq(req[r]) /\ req[r].token <= issued
  BY ReqFacts
<1>2. /\ q \in Reqs /\ q.pc = pc /\ q.user = req[r].user /\ q.row = row /\ q.sid = req[r].sid
      /\ q.token = req[r].token
  BY <1>1 DEF Reqs
<1>3. KnownReq(q)
  BY <1>1, <1>2 DEF KnownReq
<1>4. req' = [req EXCEPT ![r] = q]
  BY DEF Validated, AccessInv, Types
<1>5. served' \in 0..MaxServed /\ config' \in [enforce : BOOLEAN, sensitive : BOOLEAN]
  BY DEF AccessInv, Types
<1> HIDE DEF q
<1>6. QED
  BY <1>1, <1>2, <1>3, <1>4, <1>5, HandlerStep
-----------------------------------------------------------------------------
(* The handlers, one by one.                                               *)

LEMMA LoginPostStep ==
    ASSUME AccessInv, NEW r \in Requests, NEW u \in Users, LoginPost(r, u)
    PROVE  AccessInv'
<1> DEFINE q == [NoReq EXCEPT !.pc = "enforce", !.user = u, !.row = users[u], !.then = "session"]
<1>1. users[u] \in Rows /\ RowOK(users[u]) /\ Current(users[u], users[u])
  BY UserFacts
<1>2. /\ q.pc = "enforce" /\ q.user = u /\ q.row = users[u] /\ q.sid = 0 /\ q.token = 0 /\ q.then = "session"
      /\ q \in Reqs
  BY <1>1, NoReqOK DEF Reqs, Points, NoReq, None
<1>3. req' = [req EXCEPT ![r] = q]
  BY DEF LoginPost
<1> HIDE DEF q
<1>4. KnownReq(q)
  BY <1>1, <1>2 DEF KnownReq, At, None, Pages
<1>5. served' \in 0..MaxServed /\ issued \in Nat
  BY AccessAssumption DEF AccessInv, Types, LoginPost, Accept
<1>6. config' \in [enforce : BOOLEAN, sensitive : BOOLEAN] /\ UsersEvolve
  BY UsersStay DEF LoginPost, AccessInv, Types
<1>7. q.token <= issued /\ q.pc # "code"
  BY <1>2, <1>5
<1>8. QED
  BY <1>2, <1>3, <1>4, <1>5, <1>6, <1>7, HandlerStep DEF LoginPost, history

LEMMA RequireLoginStep ==
    ASSUME AccessInv, NEW r \in Requests, NEW s \in Sids, NEW page \in Pages, RequireLogin(r, s, page)
    PROVE  AccessInv'
<1> DEFINE u == sess[s].user
           q == [NoReq EXCEPT !.pc = "enforce", !.user = u, !.row = users[u], !.sid = s, !.then = page]
<1>1. u \in Users /\ sess[s] # NoSession
  BY DEF RequireLogin, AccessInv, Types, Sessions
<1>2. users[u] \in Rows /\ RowOK(users[u]) /\ Current(users[u], users[u])
  BY <1>1, UserFacts
<1> HIDE DEF u
<1>3. /\ q.pc = "enforce" /\ q.user = u /\ q.row = users[u] /\ q.sid = s /\ q.token = 0 /\ q.then = page
      /\ q \in Reqs
  BY <1>1, <1>2, NoReqOK DEF Reqs, Points, NoReq, None
<1>4. req' = [req EXCEPT ![r] = q]
  BY DEF RequireLogin, u
<1> HIDE DEF q
<1>5. s # None /\ page # "idle"
  BY DEF Sids, None, Pages
<1>6. KnownReq(q)
  BY <1>1, <1>2, <1>3, <1>5 DEF KnownReq, At
<1>7. served' \in 0..MaxServed /\ issued \in Nat
  BY AccessAssumption DEF AccessInv, Types, RequireLogin, Accept
<1>8. config' \in [enforce : BOOLEAN, sensitive : BOOLEAN] /\ UsersEvolve
  BY UsersStay DEF RequireLogin, AccessInv, Types
<1>9. q.token <= issued /\ q.pc # "code"
  BY <1>3, <1>7
<1>10. QED
  BY <1>3, <1>4, <1>6, <1>7, <1>8, <1>9, HandlerStep DEF RequireLogin, history

\* The enforcement may start a grace period before it lets the request go on.
LEMMA EnforceStep ==
    ASSUME AccessInv, NEW r \in Requests, Enforce(r)
    PROVE  AccessInv'
<1>1. req[r] \in Reqs /\ KnownReq(req[r]) /\ req[r].token <= issued /\ req[r].pc = "enforce" /\ req[r].user \in Users
  BY ReqFacts DEF Enforce, KnownReq, At
<1>2. UNCHANGED <<config, sess, revoked, chal, issued, served, now, tries, spent, replayed>>
  BY DEF Enforce, history
<1>3. CASE Goto(r, "deactivate") /\ UNCHANGED users
  <2>1. At([req[r] EXCEPT !.pc = "deactivate"])
    BY <1>1 DEF At, Reqs
  <2>2. "deactivate" \in Points /\ UsersEvolve
    BY <1>3, UsersStay DEF Points, AccessInv
  <2>3. QED
    BY <1>2, <1>3, <2>1, <2>2, GotoStep
<1>4. ASSUME Proceed(r), UsersEvolve PROVE AccessInv'
  <2> DEFINE pc == IF req[r].then \in {"own", "admin"} THEN "sensitive" ELSE req[r].then
             row == IF req[r].then = "session" THEN req[r].row ELSE NoRow
             q == [req[r] EXCEPT !.pc = pc, !.row = row]
  <2>1. req' = [req EXCEPT ![r] = q]
    BY <1>4 DEF Proceed, AccessInv, Types
  <2>2. req[r].then \in {"session", "own", "setup", "admin"} /\ (req[r].then # "session" => req[r].sid # None)
    BY <1>1 DEF KnownReq, At, Reqs, Pages
  <2>3. pc \in {"sensitive", "session", "setup"} /\ (pc = "sensitive" => req[r].then \in {"own", "admin"} /\ req[r].sid # None)
    BY <2>2
  <2>4. row \in Rows /\ RowOK(row) /\ Current(row, users[req[r].user])
    BY <1>1, NoRowOK, UserFacts DEF Reqs, KnownReq
  <2> HIDE DEF pc, row
  <2>5. /\ q \in Reqs /\ q.pc = pc /\ q.row = row /\ q.user = req[r].user /\ q.sid = req[r].sid
        /\ q.token = req[r].token /\ q.then = req[r].then
    BY <1>1, <2>3, <2>4 DEF Reqs, Points
  <2> HIDE DEF q
  <2>6. KnownReq(q)
    BY <1>1, <2>3, <2>4, <2>5 DEF KnownReq, At
  <2>7. served' \in 0..MaxServed /\ config' \in [enforce : BOOLEAN, sensitive : BOOLEAN]
    BY <1>2 DEF AccessInv, Types
  <2>8. q.pc # "code" /\ q.token <= issued
    BY <1>1, <2>3, <2>5
  <2>9. QED
    BY <1>2, <1>4, <2>1, <2>5, <2>6, <2>7, <2>8, HandlerStep
<1>5. ASSUME Write(req[r].user, StartUserTOTPGrace(users[req[r].user])) PROVE UsersEvolve
  <2> DEFINE row == users[req[r].user]
             g == IF row.grace = None THEN now ELSE row.grace
  <2>1. row \in Rows /\ RowOK(row)
    BY <1>1, UserFacts
  <2>2. now \in 0..MaxNow /\ g \in 0..MaxNow
    BY <2>1, RowNumbers, AccessAssumption DEF AccessInv, Types, Times
  <2>3. StartUserTOTPGrace(row) = [row EXCEPT !.grace = g]
    BY DEF StartUserTOTPGrace
  <2>4. Evolves(row, StartUserTOTPGrace(row))
    BY <2>1, <2>2, <2>3, QuietStatements
  <2>5. QED
    BY <1>1, <1>5, <2>4, WriteRow DEF AccessInv
<1>6. UNCHANGED users => UsersEvolve
  BY UsersStay DEF AccessInv
<1>7. QED
  BY <1>3, <1>4, <1>5, <1>6 DEF Enforce

LEMMA DeactivateStep ==
    ASSUME AccessInv, NEW r \in Requests, Deactivate(r)
    PROVE  AccessInv'
<1> DEFINE u == req[r].user
<1>1. u \in Users /\ users[u] \in Rows /\ RowOK(users[u]) /\ users[u].ver < MaxVer
  BY ReqFacts, UserFacts DEF Deactivate, KnownReq, At, CanBump
<1>2. Evolves(users[u], SetUserActive(users[u], FALSE))
  BY <1>1, Statements
<1>3. UsersEvolve
  BY <1>1, <1>2, WriteRow DEF Deactivate, AccessInv
<1>4. config' \in [enforce : BOOLEAN, sensitive : BOOLEAN]
  BY DEF Deactivate, AccessInv, Types
<1>5. QED
  BY <1>3, <1>4, DoneStep DEF Deactivate, history

\* The changes of the own account: a new version, then a new cookie.
LEMMA OwnSteps ==
    ASSUME AccessInv, NEW r \in Requests, ProfilePost(r) \/ Profile2FADisable(r)
    PROVE  AccessInv'
<1> DEFINE u == req[r].user
<1>1. req[r].pc = "own" /\ req[r] \in Reqs
  BY ReqFacts DEF ProfilePost, Profile2FADisable
<1>2. u \in Users /\ users[u] \in Rows /\ RowOK(users[u])
  BY <1>1, ReqFacts, UserFacts DEF KnownReq, At
<1>3. users[u].ver < MaxVer
  BY DEF CanBump, ProfilePost, Profile2FADisable
<1>4. /\ Evolves(users[u], UpdateUserPassword(users[u]))
      /\ Evolves(users[u], DisableUserTOTP(users[u]))
  BY <1>2, <1>3, Statements
<1>5. UsersEvolve
  BY <1>2, <1>4, WriteRow DEF AccessInv, ProfilePost, Profile2FADisable
<1>6. Goto(r, "reissue")
  BY DEF ProfilePost, Profile2FADisable
<1>7. At([req[r] EXCEPT !.pc = "reissue"])
  BY <1>1, <1>2 DEF At, Reqs
<1>8. "reissue" \in Points /\ "reissue" # "code"
  BY DEF Points
<1>9. UNCHANGED <<config, sess, revoked, chal, issued, served, now, tries, spent, replayed>>
  BY DEF ProfilePost, Profile2FADisable, history
<1>10. QED
  BY <1>5, <1>6, <1>7, <1>8, <1>9, GotoStep

\* The steps that a code may be of are steps.
LEMMA StepFacts ==
    ASSUME AccessInv, NEW step \in ValidSteps
    PROVE  step \in Steps /\ step \in 0..(MaxNow + 1) /\ step \in Nat
BY AccessAssumption DEF AccessInv, Types, ValidSteps, Steps, Times

\* The confirmation of the 2FA setup validates a code and then enables 2FA.
LEMMA SetupSteps ==
    ASSUME AccessInv, NEW r \in Requests, Profile2FAConfirm(r) \/ EnableSetup(r)
    PROVE  AccessInv'
<1> DEFINE u == req[r].user
<1>1. /\ req[r] \in Reqs /\ req[r].pc \in {"setup", "enable"} /\ req[r].token <= issued
      /\ KnownReq(req[r])
  BY ReqFacts DEF Profile2FAConfirm, EnableSetup
<1>2. /\ u \in Users /\ users[u] \in Rows /\ RowOK(users[u]) /\ Current(NoRow, users[u])
      /\ (req[r].pc = "enable" => req[r].step \in Steps)
  BY <1>1, UserFacts DEF KnownReq, At
<1>3. UNCHANGED <<config, sess, revoked, chal, issued, served, now, tries, spent, replayed>>
  BY DEF Profile2FAConfirm, EnableSetup, history
<1>4. CASE Profile2FAConfirm(r)
  <2>1. PICK step \in ValidSteps : Validated(r, NoRow, step, "enable")
    BY <1>4 DEF Profile2FAConfirm
  <2>2. step \in Steps /\ step \in 0..(MaxNow + 1) /\ "enable" \in Points
    BY StepFacts DEF Points
  <2>3. At([req[r] EXCEPT !.pc = "enable", !.row = NoRow, !.step = step])
    BY <1>1, <1>2, <2>2 DEF At, Reqs
  <2>4. UsersEvolve
    BY <1>4, UsersStay DEF Profile2FAConfirm, AccessInv
  <2>5. QED
    BY <1>2, <1>3, <2>1, <2>2, <2>3, <2>4, NoRowOK, ValidatedStep
<1>5. CASE EnableSetup(r)
  <2>1. users[u].ver < MaxVer
    BY <1>5 DEF EnableSetup, CanBump
  <2>2. UsersEvolve
    <3>1. Evolves(users[u], EnableUserTOTP(users[u]))
      BY <1>2, <2>1, Statements
    <3>2. QED
      BY <1>2, <1>5, <3>1, WriteRow DEF EnableSetup, AccessInv
  <2>3. CASE ~users[u].exists
    <3>1. Validated(r, NoRow, 0, "reissue")
      BY <1>5, <2>3 DEF EnableSetup
    <3>2. 0 \in 0..(MaxNow + 1) /\ "reissue" \in Points
      BY AccessAssumption DEF Points
    <3>3. At([req[r] EXCEPT !.pc = "reissue", !.row = NoRow, !.step = 0])
      BY <1>1, <1>2 DEF At, Reqs
    <3>4. QED
      BY <1>2, <1>3, <2>2, <3>1, <3>2, <3>3, NoRowOK, ValidatedStep
  <2>4. CASE users[u].exists
    <3> DEFINE row == users'[u]
               q == [req[r] EXCEPT !.pc = "claimSetup", !.row = row, !.step = req[r].step]
    <3>1. row \in Rows /\ RowOK(row)
      BY <1>2, <2>2 DEF UsersEvolve, Evolves
    <3>2. row.secret # None
      <4>1. users' = [users EXCEPT ![u] = EnableUserTOTP(users[u])]
        BY <1>5, <2>4 DEF EnableSetup, Write
      <4>2. row = EnableUserTOTP(users[u])
        BY <1>2, <4>1 DEF AccessInv, Types
      <4>3. EnableUserTOTP(users[u]).secret = users[u].ver + 1
        BY <1>2 DEF EnableUserTOTP, Bump, Rows
      <4>4. QED
        BY <1>2, <4>2, <4>3, RowNumbers DEF None
    <3>3. req' = [req EXCEPT ![r] = q]
      BY <1>5, <2>4 DEF EnableSetup, Validated, AccessInv, Types
    <3>4. req[r].pc = "enable"
      BY <1>5 DEF EnableSetup
    <3> HIDE DEF row
    <3>5. /\ q \in Reqs /\ q.pc = "claimSetup" /\ q.user = u /\ q.row = row /\ q.sid = req[r].sid
          /\ q.token = req[r].token /\ q.step = req[r].step
      BY <1>1, <3>1 DEF Reqs, Points
    <3> HIDE DEF q
    <3>6. At(q)
      BY <1>1, <1>2, <3>2, <3>4, <3>5 DEF At
    <3>7. req'[r] = q
      BY <3>3 DEF AccessInv, Types
    <3>8. Current(row, users'[u])
      BY <3>1, RowNumbers DEF Current, row
    <3>9. KnownReq(req[r])'
      <4>1. q.sid # None => sess'[q.sid] # NoSession
        BY <1>1, <1>3, <3>5 DEF KnownReq
      <4>2. QED
        BY <3>1, <3>5, <3>6, <3>7, <3>8, <4>1 DEF KnownReq, At
    <3>10. served' \in 0..MaxServed /\ config' \in [enforce : BOOLEAN, sensitive : BOOLEAN]
      BY <1>3 DEF AccessInv, Types
    <3>11. q.token <= issued /\ q.pc # "code"
      BY <1>1, <3>5
    <3>12. QED
      BY <1>3, <2>2, <3>3, <3>5, <3>9, <3>10, <3>11, HandlerStep
  <2>5. QED
    BY <2>3, <2>4
<1>6. QED
  BY <1>4, <1>5
\* The administrator's handlers.
LEMMA AdminActStep ==
    ASSUME AccessInv, NEW r \in Requests, NEW v \in Users, AdminAct(r, v)
    PROVE  AccessInv'
<1>1. users[v] \in Rows /\ RowOK(users[v])
  BY UserFacts
<1>2. ASSUME CreateUserPost(v) PROVE UsersEvolve
  BY <1>1, <1>2, RowBeginsAndEnds, OneRow DEF CreateUserPost, AccessInv
<1>3. ASSUME CanBump(v), \/ ChangeUsernamePost(v) \/ ChangePasswordPost(v) \/ DisableUser2FAPost(v)
                         \/ ChangeRolePost(req[r].user, v) \/ ToggleUserPost(req[r].user, v)
      PROVE  UsersEvolve
  <2>1. /\ Evolves(users[v], Bump(users[v])) /\ Evolves(users[v], UpdateUserPassword(users[v]))
        /\ Evolves(users[v], DisableUserTOTP(users[v])) /\ Evolves(users[v], ToggleUser(users[v]))
        /\ \A role \in Roles : Evolves(users[v], UpdateUserRole(users[v], role))
    BY <1>1, <1>3, Statements DEF CanBump
  <2>2. QED
    BY <1>3, <2>1, WriteRow
       DEF AccessInv, ChangeUsernamePost, ChangePasswordPost, DisableUser2FAPost, ChangeRolePost, ToggleUserPost
<1>4. UsersEvolve
  BY <1>2, <1>3 DEF AdminAct
<1>5. config' \in [enforce : BOOLEAN, sensitive : BOOLEAN]
  BY DEF AdminAct, AccessInv, Types
<1>6. QED
  BY <1>4, <1>5, DoneStep DEF AdminAct, history

LEMMA DeleteSteps ==
    ASSUME AccessInv, NEW r \in Requests
    PROVE  /\ \A v \in Users : DeleteUserPost(r, v) => AccessInv'
           /\ DeleteUser(r) => AccessInv'
           /\ Refuse(r) => AccessInv'
           /\ SystemSettingsPost(r) => AccessInv'
<1>1. ASSUME NEW v \in Users, DeleteUserPost(r, v) PROVE AccessInv'
  <2> DEFINE q == [req[r] EXCEPT !.pc = "delete", !.target = v]
  <2>1. req[r] \in Reqs /\ KnownReq(req[r]) /\ req[r].token <= issued /\ req[r].user \in Users
    BY <1>1, ReqFacts DEF DeleteUserPost, KnownReq, At
  <2>2. req' = [req EXCEPT ![r] = q]
    BY <1>1 DEF DeleteUserPost, AccessInv, Types
  <2>3. /\ q \in Reqs /\ q.pc = "delete" /\ q.target = v /\ q.user = req[r].user /\ q.row = req[r].row
        /\ q.sid = req[r].sid /\ q.token = req[r].token
    BY <2>1 DEF Reqs, Points
  <2> HIDE DEF q
  <2>4. KnownReq(q)
    BY <2>1, <2>3 DEF KnownReq, At
  <2>5. UsersEvolve /\ served' \in 0..MaxServed /\ config' \in [enforce : BOOLEAN, sensitive : BOOLEAN]
    BY <1>1, UsersStay DEF DeleteUserPost, AccessInv, Types
  <2>6. q.token <= issued /\ q.pc # "code"
    BY <2>1, <2>3
  <2>7. QED
    BY <1>1, <2>2, <2>3, <2>4, <2>5, <2>6, HandlerStep DEF DeleteUserPost, history
<1>2. ASSUME DeleteUser(r) PROVE AccessInv'
  <2> DEFINE v == req[r].target
  <2>1. v \in Users /\ users[v] \in Rows /\ RowOK(users[v])
    BY <1>2, ReqFacts, UserFacts DEF DeleteUser, KnownReq, At
  <2>2. UsersEvolve
    BY <1>2, <2>1, RowBeginsAndEnds, OneRow DEF DeleteUser, AccessInv
  <2>3. config' \in [enforce : BOOLEAN, sensitive : BOOLEAN]
    BY <1>2 DEF DeleteUser, AccessInv, Types
  <2>4. QED
    BY <1>2, <2>2, <2>3, DoneStep DEF DeleteUser, history
<1>3. ASSUME Refuse(r) PROVE AccessInv'
  <2>1. UsersEvolve /\ config' \in [enforce : BOOLEAN, sensitive : BOOLEAN]
    BY <1>3, UsersStay DEF Refuse, AccessInv, Types
  <2>2. QED
    BY <1>3, <2>1, DoneStep DEF Refuse, history
<1>4. ASSUME SystemSettingsPost(r) PROVE AccessInv'
  <2>1. CASE users' = users
    <3>1. UsersEvolve
      BY <2>1, UsersStay DEF AccessInv
    <3>2. QED
      BY <1>4, <3>1, DoneStep DEF SystemSettingsPost, history
  <2>2. CASE users' = [w \in Users |-> [users[w] EXCEPT !.grace = None]]
    <3>1. \A w \in Users : users[w] \in Rows /\ RowOK(users[w])
      BY UserFacts
    <3>2. None \in 0..MaxNow
      BY AccessAssumption DEF None
    <3>3. \A w \in Users : users'[w] = [users[w] EXCEPT !.grace = None]
      BY <2>2
    <3>4. ASSUME NEW w \in Users PROVE Evolves(users[w], users'[w])
      <4>1. Evolves(users[w], [users[w] EXCEPT !.grace = None])
        BY <3>1, <3>2, QuietStatements
      <4>2. QED
        BY <3>3, <4>1
    <3>5. UsersEvolve
      BY <2>2, <3>4 DEF UsersEvolve, Evolves
    <3>6. QED
      BY <1>4, <3>5, DoneStep DEF SystemSettingsPost, history
  <2>3. QED
    BY <1>4, <2>1, <2>2 DEF SystemSettingsPost
<1>5. QED
  BY <1>1, <1>2, <1>3, <1>4

\* What happens beside the requests.
LEMMA AsideSteps ==
    ASSUME AccessInv
    PROVE  /\ \A s \in Sids : Logout(s) => AccessInv'
           /\ \A u \in Users : CLI(u) => AccessInv'
           /\ Restart => AccessInv'
           /\ Tick => AccessInv'
           /\ UNCHANGED vars => AccessInv'
<1>1. /\ req \in [Requests -> Reqs] /\ chal \in [Tokens -> {NoChal} \cup Challenges] /\ served \in 0..MaxServed
      /\ config \in [enforce : BOOLEAN, sensitive : BOOLEAN] /\ revoked \subseteq Sids /\ now \in Times /\ issued \in Nat
  BY DEF AccessInv, Types
<1>2. ASSUME NEW s \in Sids, Logout(s) PROVE AccessInv'
  <2>1. UsersEvolve /\ revoked' \subseteq Sids
    BY <1>1, <1>2, UsersStay DEF Logout, AccessInv, RevokeSession
  <2>2. QED
    BY <1>1, <1>2, <2>1, PlainStep DEF Logout, history
<1>3. ASSUME NEW u \in Users, CLI(u) PROVE AccessInv'
  <2>1. users[u] \in Rows /\ RowOK(users[u]) /\ users[u].ver < MaxVer
    BY <1>3, UserFacts DEF CLI, CanBump
  <2>2. /\ Evolves(users[u], DisableUserTOTP(users[u])) /\ Evolves(users[u], Reactivate(users[u]))
        /\ Evolves(users[u], UpdateUserPassword(users[u]))
    BY <2>1, Statements
  <2>3. UsersEvolve
    BY <1>3, <2>2, OneRow DEF CLI, unlock2FA, enableUser, resetPassword, AccessInv
  <2>4. QED
    BY <1>1, <1>3, <2>3, PlainStep DEF CLI, history
<1>4. ASSUME Restart PROVE AccessInv'
  <2>1. UsersEvolve
    BY <1>4, UsersStay DEF Restart, AccessInv
  <2>2. req' \in [Requests -> Reqs] /\ \A r \in Requests : req'[r] = NoReq
    BY <1>4, NoReqOK DEF Restart
  <2>3. chal' \in [Tokens -> {NoChal} \cup Challenges] /\ \A t \in Tokens : chal'[t] = NoChal
    BY <1>4 DEF Restart
  <2>4. NoReq.token <= issued /\ NoReq.pc # "code" /\ KnownReq(NoReq)
    BY <1>1, NoReqOK
  <2>5. UNCHANGED <<config, sess, revoked, issued, served, now, tries, spent, replayed>>
    BY <1>4 DEF Restart, history
  <2>6. QED
    BY <1>1, <2>1, <2>2, <2>3, <2>4, <2>5, PlainStep
<1>5. ASSUME Tick PROVE AccessInv'
  <2>1. UsersEvolve
    BY <1>5, UsersStay DEF Tick, AccessInv
  <2>2. now' \in Times
    BY <1>1, <1>5, AccessAssumption DEF Tick, Times
  <2>3. QED
    BY <1>1, <1>5, <2>1, <2>2, PlainStep DEF Tick, history
<1>6. ASSUME UNCHANGED vars PROVE AccessInv'
  <2>1. UsersEvolve
    BY <1>6, UsersStay DEF vars, AccessInv
  <2>2. QED
    BY <1>1, <1>6, <2>1, PlainStep DEF vars
<1>7. QED
  BY <1>2, <1>3, <1>4, <1>5, <1>6

-----------------------------------------------------------------------------
(* Challenges, codes and sessions.                                         *)

LEMMA Login2FAPostStep ==
    ASSUME AccessInv, NEW r \in Requests, NEW t \in Tokens, Login2FAPost(r, t)
    PROVE  AccessInv'
<1> DEFINE u == chal[t].user
           q == [NoReq EXCEPT !.pc = "allow", !.user = u, !.row = users[u], !.token = t]
<1>1. chal[t] \in Challenges /\ u \in Users /\ t <= issued /\ t # None
  BY DEF Login2FAPost, Live, AccessInv, Types, Used, Challenges, Tokens, None
<1>2. served' \in 0..MaxServed /\ issued \in Nat /\ req \in [Requests -> Reqs] /\ chal \in [Tokens -> {NoChal} \cup Challenges]
  BY AccessAssumption DEF AccessInv, Types, Login2FAPost, Accept
<1>3. config' \in [enforce : BOOLEAN, sensitive : BOOLEAN] /\ UsersEvolve /\ revoked' \subseteq Sids /\ now' \in Times
  BY UsersStay DEF Login2FAPost, AccessInv, Types
<1>4. UNCHANGED <<sess, revoked, issued, now, tries, spent, replayed>>
  BY DEF Login2FAPost, history
<1>5. CASE DiscardChallenge(t) /\ UNCHANGED req
  <2>1. chal' \in [Tokens -> {NoChal} \cup Challenges] /\ \A x \in Tokens : chal'[x] \in {chal[x], NoChal}
    BY <1>2, <1>5 DEF DiscardChallenge
  <2>2. QED
    BY <1>2, <1>3, <1>4, <1>5, <2>1, PlainStep
<1>6. CASE users[u].secret # None /\ req' = [req EXCEPT ![r] = q] /\ UNCHANGED chal
  <2>1. users[u] \in Rows /\ RowOK(users[u]) /\ Current(users[u], users[u])
    BY <1>1, UserFacts
  <2> HIDE DEF u
  <2>2. q.pc = "allow" /\ q.user = u /\ q.row = users[u] /\ q.sid = 0 /\ q.token = t /\ q \in Reqs
    BY <1>1, <2>1, NoReqOK DEF Reqs, Points, NoReq, None
  <2> HIDE DEF q
  <2>3. KnownReq(q)
    BY <1>1, <1>6, <2>1, <2>2 DEF KnownReq, At, None
  <2>4. q.token <= issued /\ q.pc # "code"
    BY <1>1, <2>2
  <2>5. QED
    BY <1>2, <1>3, <1>4, <1>6, <2>2, <2>3, <2>4, HandlerStep
<1>7. QED
  BY <1>5, <1>6 DEF Login2FAPost
\* A cookie: a new session id with a copy of the row.
LEMMA NewSessionFacts ==
    ASSUME Types, NEW u \in Users, NEW row \in Rows, NEW token \in {None} \cup Tokens, NEW by \in {"login", "own"},
           NewSession(u, row, token, by)
    PROVE  \E s \in Sids, c \in Sessions :
               /\ sess[s] = NoSession /\ sess' = [sess EXCEPT ![s] = c] /\ c # NoSession
               /\ c.user = u /\ c.ver = row.ver /\ c.role = row.role /\ c.pw = row.pw /\ c.secret = row.secret
               /\ c.token = token /\ c.by = by
<1> DEFINE c == [user |-> u, ver |-> row.ver, role |-> row.role, fresh |-> 0,
                 pw |-> row.pw, secret |-> row.secret, token |-> token, by |-> by]
<1>1. PICK s \in Sids : sess[s] = NoSession /\ sess' = [sess EXCEPT ![s] = c]
  BY DEF NewSession
<1>2. c \in Sessions
  BY DEF Sessions, Rows
<1>3. c # NoSession
  <2>1. c.user = u /\ NoSession.user = 0
    BY DEF NoSession, None
  <2>2. QED
    BY <2>1, AccessAssumption
<1>4. /\ c.user = u /\ c.ver = row.ver /\ c.role = row.role /\ c.pw = row.pw /\ c.secret = row.secret
      /\ c.token = token /\ c.by = by
  OBVIOUS
<1> HIDE DEF c
<1>5. QED
  BY <1>1, <1>2, <1>3, <1>4

\* A request ends with a new session, and uses up the challenge it came with.
LEMMA OpenStep ==
    ASSUME AccessInv, NEW r \in Requests, NEW u \in Users, NEW row \in Rows, NEW token \in {None} \cup Tokens,
           NEW by \in {"login", "own"}, NewSession(u, row, token, by), Done(r),
           by = "login" => Current(row, users[u]) /\ (row.secret # None => token # None),
           \/ token = None /\ UNCHANGED chal
           \/ token # None /\ chal[token] # NoChal /\ DiscardChallenge(token),
           UNCHANGED <<users, config, revoked, issued, served, now, tries, spent, replayed>>
    PROVE  AccessInv'
<1> USE DEF AccessInv
<1>1. PICK s \in Sids, c \in Sessions :
          /\ sess[s] = NoSession /\ sess' = [sess EXCEPT ![s] = c] /\ c # NoSession
          /\ c.user = u /\ c.ver = row.ver /\ c.role = row.role /\ c.pw = row.pw /\ c.secret = row.secret
          /\ c.token = token /\ c.by = by
  BY NewSessionFacts
<1>2. sess' \in [Sids -> {NoSession} \cup Sessions] /\ \A k \in Sids : sess'[k] = IF k = s THEN c ELSE sess[k]
  BY <1>1 DEF Types
<1>3. req' \in [Requests -> Reqs] /\ \A x \in Requests : req'[x] = IF x = r THEN NoReq ELSE req[x]
  BY NoReqOK DEF Types, Done
<1>4. chal' \in [Tokens -> {NoChal} \cup Challenges] /\ \A t \in Tokens : chal'[t] \in {chal[t], NoChal}
  BY DEF Types, DiscardChallenge
<1>5. Types'
  BY <1>2, <1>3, <1>4 DEF Types
<1>6. issued \in Nat /\ issued <= issued'
  BY DEF Types
<1>7. UsersEvolve
  BY UsersStay
<1>8. Copies'
  <2>1. \A x \in Requests : KnownReq(req'[x])
    BY <1>3, NoReqOK DEF Copies
  <2>2. KnownSess(c)
    BY <1>1 DEF KnownSess, Current
  <2>3. \A k \in Sids : KnownSess(sess'[k])
    BY <1>2, <2>2 DEF Copies
  <2>4. \A k \in Sids : sess[k] # NoSession => sess'[k] # NoSession
    BY <1>1, <1>2
  <2>5. QED
    BY <1>5, <1>7, <2>1, <2>3, <2>4, CopiesStep
<1>9. Used'
  <2>1. \A x \in Requests : req'[x].token <= issued'
    BY <1>3, <1>6, NoReqOK DEF Used
  <2>2. \A t \in Tokens : chal'[t] # NoChal => chal[t] # NoChal
    BY <1>4
  <2>3. token # None => chal'[token] = NoChal
    BY DEF DiscardChallenge, Types
  <2>4. ASSUME NEW k \in Sids, sess'[k] # NoSession, sess'[k].token # None
        PROVE  \/ sess[k] # NoSession /\ sess[k].token = sess'[k].token
               \/ /\ chal[sess'[k].token] # NoChal /\ chal'[sess'[k].token] = NoChal
                  /\ \A l \in Sids : sess'[l] # NoSession /\ l # k => sess[l] # NoSession /\ sess[l].token = sess'[l].token
    BY <1>1, <1>2, <2>3, <2>4
  <2>5. QED
    BY <1>5, <1>6, <2>1, <2>2, <2>4, UsedStep
<1>10. Counted'
  <2>1. \A x \in Requests : req'[x].pc = "code" => req[x].pc = "code" /\ req[x].token = req'[x].token
    BY <1>3, NoReqOK
  <2>2. QED
    BY <1>4, <1>5, <1>6, <2>1, CountedStays
<1>11. Passed'
  BY <1>7, PassedStays
<1>12. QED
  BY <1>5, <1>8, <1>9, <1>10, <1>11

LEMMA ConsumeStep ==
    ASSUME AccessInv, NEW r \in Requests, ConsumePending2FA(r)
    PROVE  AccessInv'
<1> DEFINE t == req[r].token
<1>1. req[r] \in Reqs /\ KnownReq(req[r]) /\ req[r].pc = "consume" /\ issued \in Nat
  BY ReqFacts DEF ConsumePending2FA
<1>2. t \in Tokens /\ t # None /\ req[r].user \in Users /\ req[r].row \in Rows /\ Current(req[r].row, users[req[r].user])
  BY <1>1 DEF KnownReq, At, Reqs
<1>3. UNCHANGED <<users, config, revoked, issued, served, now, tries, spent, replayed>> /\ Done(r) /\ DiscardChallenge(t)
  BY DEF ConsumePending2FA, history
<1>4. CASE Consumable(t, req[r].user, req[r].row) /\ NewSession(req[r].user, req[r].row, t, "login")
  <2>1. chal[t] # NoChal
    BY <1>4 DEF Consumable, Live
  <2>2. QED
    BY <1>2, <1>3, <1>4, <2>1, OpenStep
<1>5. CASE UNCHANGED sess
  <2>1. UsersEvolve
    BY <1>3, UsersStay DEF AccessInv
  <2>2. /\ chal' \in [Tokens -> {NoChal} \cup Challenges] /\ \A x \in Tokens : chal'[x] \in {chal[x], NoChal}
        /\ served' \in 0..MaxServed /\ config' \in [enforce : BOOLEAN, sensitive : BOOLEAN] /\ revoked' \subseteq Sids
        /\ now' \in Times
    BY <1>3 DEF DiscardChallenge, AccessInv, Types
  <2>3. req' \in [Requests -> Reqs] /\ \A x \in Requests : req'[x] = IF x = r THEN NoReq ELSE req[x]
    BY <1>3, NoReqOK DEF AccessInv, Types, Done
  <2>4. NoReq.token <= issued /\ NoReq.pc # "code" /\ KnownReq(NoReq)
    BY <1>1, NoReqOK
  <2>5. QED
    BY <1>3, <1>5, <2>1, <2>2, <2>3, <2>4, PlainStep
<1>6. QED
  BY <1>4, <1>5 DEF ConsumePending2FA

LEMMA ReissueStep ==
    ASSUME AccessInv, NEW r \in Requests, Reissue(r)
    PROVE  AccessInv'
<1> DEFINE u == req[r].user
<1>1. u \in Users /\ users[u] \in Rows
  BY ReqFacts, UserFacts DEF Reissue, KnownReq, At
<1>2. UNCHANGED <<users, config, revoked, chal, issued, served, now, tries, spent, replayed>> /\ Done(r)
  BY DEF Reissue, history
<1>3. CASE NewSession(u, users[u], None, "own")
  BY <1>1, <1>2, <1>3, OpenStep
<1>4. CASE UNCHANGED sess
  <2>1. UsersEvolve /\ config' \in [enforce : BOOLEAN, sensitive : BOOLEAN]
    BY <1>2, UsersStay DEF AccessInv, Types
  <2>2. QED
    BY <1>2, <1>4, <2>1, DoneStep
<1>5. QED
  BY <1>3, <1>4 DEF Reissue

\* The end of a login by password: a session, or the first step of two.
LEMMA LoginDoneStep ==
    ASSUME AccessInv, NEW r \in Requests, LoginDone(r)
    PROVE  AccessInv'
<1> USE DEF AccessInv
<1>1. req[r] \in Reqs /\ KnownReq(req[r]) /\ req[r].pc = "session" /\ issued \in Nat
  BY ReqFacts DEF LoginDone
<1>2. req[r].user \in Users /\ req[r].row \in Rows /\ Current(req[r].row, users[req[r].user])
  BY <1>1 DEF KnownReq, At, Reqs
<1>3. UNCHANGED <<users, config, revoked, served, now, tries, spent, replayed>> /\ Done(r)
  BY DEF LoginDone, history
<1>4. CASE req[r].row.secret = None /\ NewSession(req[r].user, req[r].row, None, "login") /\ UNCHANGED <<chal, issued>>
  BY <1>2, <1>3, <1>4, OpenStep
<1>5. ASSUME NEW held, SetPending2FA(req[r].user, req[r].row, held), UNCHANGED sess PROVE AccessInv'
  <2> DEFINE new == [user |-> req[r].user, ver |-> req[r].row.ver, expires |-> now + ChallengeLife, attempts |-> 0]
  <2>1. issued' = issued + 1 /\ issued < MaxTokens
    BY <1>5 DEF SetPending2FA
  <2>2. new \in Challenges /\ new.attempts = 0
    <3>1. now + ChallengeLife \in Nat /\ 0 \in 0..MaxAttempts
      BY AccessAssumption DEF Types, Times
    <3>2. req[r].row.ver \in 0..MaxVer
      BY <1>2, RowNumbers
    <3>3. QED
      BY <1>2, <3>1, <3>2 DEF Challenges
  <2>3. chal' = [t \in Tokens |-> IF t = issued + 1 THEN new ELSE IF t # held /\ Live(t) THEN chal[t] ELSE NoChal]
    BY <1>5 DEF SetPending2FA
  <2> HIDE DEF new
  <2>4. chal' \in [Tokens -> {NoChal} \cup Challenges]
    BY <2>2, <2>3 DEF Types
  <2>5. \A t \in Tokens : chal'[t] \in {chal[t], NoChal} \/ (t = issued + 1 /\ chal'[t].attempts = 0)
    BY <2>2, <2>3
  <2>6. \A t \in Tokens : t \in Nat
    BY DEF Tokens
  <2>7. req' \in [Requests -> Reqs] /\ \A x \in Requests : req'[x] = IF x = r THEN NoReq ELSE req[x]
    BY <1>3, NoReqOK DEF Types, Done
  <2>8. issued' \in 0..MaxTokens /\ issued <= issued'
    BY <1>1, <2>1, AccessAssumption
  <2>9. Types'
    BY <1>3, <1>5, <2>4, <2>7, <2>8 DEF Types
  <2>10. UsersEvolve
    BY <1>3, UsersStay
  <2>11. Copies'
    <3>1. \A x \in Requests : KnownReq(req'[x])
      BY <2>7, NoReqOK DEF Copies
    <3>2. \A s \in Sids : KnownSess(sess'[s])
      BY <1>5 DEF Copies
    <3>3. QED
      BY <1>5, <2>9, <2>10, <3>1, <3>2, CopiesStep
  <2>12. Used'
    <3>1. \A x \in Requests : req[x].token \in Nat /\ req[x].token <= issued
      BY ReqFacts
    <3>2. \A x \in Requests : req'[x].token <= issued'
      BY <1>1, <2>1, <2>7, <3>1, NoReqOK
    <3>3. \A t \in Tokens : chal'[t] # NoChal => chal[t] # NoChal \/ (issued < t /\ t <= issued')
      BY <1>1, <2>1, <2>5, <2>6
    <3>4. QED
      BY <1>5, <2>8, <2>9, <3>2, <3>3, UsedStep
  <2>13. Counted'
    <3>1. \A x \in Requests : req'[x].pc = "code" => req[x].pc = "code" /\ req[x].token = req'[x].token
      BY <2>7, NoReqOK
    <3>2. \A t \in Tokens : chal'[t] \in {chal[t], NoChal} \/ (issued < t /\ chal'[t].attempts = 0)
      BY <1>1, <2>5, <2>6
    <3>3. QED
      BY <1>3, <2>8, <2>9, <3>1, <3>2, CountedStays
  <2>14. Passed'
    BY <1>3, <2>10, PassedStays
  <2>15. QED
    BY <2>9, <2>11, <2>12, <2>13, <2>14
<1>6. QED
  BY <1>4, <1>5 DEF LoginDone
\* A request asks to check a code: it is counted first, or refused.
LEMMA AllowStep ==
    ASSUME AccessInv, NEW r \in Requests, AllowPending2FAAttempt(r)
    PROVE  AccessInv'
<1> USE DEF AccessInv
<1> DEFINE t == req[r].token
<1>1. req[r] \in Reqs /\ KnownReq(req[r]) /\ req[r].pc = "allow" /\ issued \in Nat /\ t <= issued
  BY ReqFacts DEF AllowPending2FAAttempt
<1>2. t \in Tokens /\ t # None /\ req[r].user \in Users /\ req[r].row.secret # None
  BY <1>1 DEF KnownReq, At, Reqs
<1>3. UNCHANGED <<users, config, sess, revoked, issued, served, now, tries, spent, replayed>>
  BY DEF AllowPending2FAAttempt, history
<1>4. UsersEvolve
  BY <1>3, UsersStay
<1>5. CASE DiscardChallenge(t) /\ Done(r)
  <2>1. /\ chal' \in [Tokens -> {NoChal} \cup Challenges] /\ \A x \in Tokens : chal'[x] \in {chal[x], NoChal}
        /\ served' \in 0..MaxServed /\ config' \in [enforce : BOOLEAN, sensitive : BOOLEAN] /\ revoked' \subseteq Sids
        /\ now' \in Times
    BY <1>3, <1>5 DEF DiscardChallenge, Types
  <2>2. req' \in [Requests -> Reqs] /\ \A x \in Requests : req'[x] = IF x = r THEN NoReq ELSE req[x]
    BY <1>5, NoReqOK DEF Types, Done
  <2>3. NoReq.token <= issued /\ NoReq.pc # "code" /\ KnownReq(NoReq)
    BY <1>1, NoReqOK
  <2>4. QED
    BY <1>3, <1>4, <2>1, <2>2, <2>3, PlainStep
<1>6. CASE AllowsAttempt(t) /\ CountAttempt(t) /\ Goto(r, "code")
  <2> DEFINE q == [req[r] EXCEPT !.pc = "code"]
             c == [chal[t] EXCEPT !.attempts = chal[t].attempts + 1]
  <2>1. chal[t] \in Challenges /\ chal[t].attempts < MaxAttempts /\ chal[t].attempts \in Nat /\ chal[t] # NoChal
    BY <1>2, <1>6 DEF AllowsAttempt, Live, Types, Challenges
  <2>2. chal' = [chal EXCEPT ![t] = c] /\ req' = [req EXCEPT ![r] = q]
    BY <1>2, <1>6 DEF CountAttempt, Goto, Types
  <2>3. c \in Challenges /\ c.attempts = chal[t].attempts + 1
    <3>1. chal[t].attempts + 1 \in 0..MaxAttempts
      BY <2>1, AccessAssumption
    <3>2. QED
      BY <2>1, <3>1 DEF Challenges
  <2>4. /\ q \in Reqs /\ q.pc = "code" /\ q.token = t /\ q.user = req[r].user /\ q.row = req[r].row /\ q.sid = req[r].sid
    BY <1>1 DEF Reqs, Points
  <2> HIDE DEF q, c
  <2>5. /\ chal' \in [Tokens -> {NoChal} \cup Challenges] /\ req' \in [Requests -> Reqs]
        /\ \A x \in Tokens : chal'[x] = IF x = t THEN c ELSE chal[x]
        /\ \A x \in Requests : req'[x] = IF x = r THEN q ELSE req[x]
    BY <2>2, <2>3, <2>4 DEF Types
  <2>6. Types'
    BY <1>3, <2>5 DEF Types
  <2>7. Copies'
    <3>1. KnownReq(q)
      BY <1>1, <1>2, <2>4 DEF KnownReq, At
    <3>2. \A x \in Requests : KnownReq(req'[x])
      BY <2>5, <3>1 DEF Copies
    <3>3. \A s \in Sids : KnownSess(sess'[s])
      BY <1>3 DEF Copies
    <3>4. QED
      BY <1>3, <1>4, <2>6, <3>2, <3>3, CopiesStep
  <2>8. Used'
    <3>1. \A x \in Requests : req'[x].token <= issued'
      BY <1>1, <1>3, <2>4, <2>5 DEF Used
    <3>2. \A x \in Tokens : chal'[x] # NoChal => chal[x] # NoChal
      BY <2>1, <2>5
    <3>3. issued <= issued'
      BY <1>1, <1>3
    <3>4. QED
      BY <1>3, <2>6, <3>1, <3>2, <3>3, UsedStep
  <2>9. Counted'
    <3> SUFFICES ASSUME NEW x \in Tokens
                 PROVE  /\ tries[x] + Cardinality(Coding(x)') <= MaxAttempts
                        /\ chal'[x] # NoChal => tries[x] + Cardinality(Coding(x)') <= chal'[x].attempts
                        /\ issued < x => tries[x] = 0
      BY <1>3 DEF Counted
    <3>1. /\ tries[x] + Cardinality(Coding(x)) <= MaxAttempts /\ (issued < x => tries[x] = 0)
          /\ chal[x] # NoChal => tries[x] + Cardinality(Coding(x)) <= chal[x].attempts
      BY DEF Counted
    <3>2. CASE x # t
      <4>1. Coding(x)' = Coding(x)
        BY <1>1, <2>4, <2>5, <3>2 DEF Coding
      <4>2. QED
        BY <2>5, <3>1, <3>2, <4>1
    <3>3. CASE x = t
      <4>1. Coding(x)' = Coding(x) \cup {r} /\ r \notin Coding(x)
        BY <1>1, <2>4, <2>5, <3>3 DEF Coding
      <4>2. IsFiniteSet(Coding(x))
        BY FS_Subset, AccessAssumption DEF Coding
      <4>3. Cardinality(Coding(x)') = Cardinality(Coding(x)) + 1 /\ Cardinality(Coding(x)) \in Nat
        BY <4>1, <4>2, FS_AddElement, FS_CardinalityType
      <4>4. tries[x] \in Nat /\ MaxAttempts \in Nat
        BY <1>2, AccessAssumption DEF Types
      <4>5. chal'[x].attempts = chal[x].attempts + 1
        BY <1>2, <2>3, <2>5, <3>3
      <4>6. tries[x] + Cardinality(Coding(x)) <= chal[x].attempts /\ (issued < x => tries[x] = 0)
        BY <2>1, <3>1, <3>3
      <4>7. /\ tries[x] + Cardinality(Coding(x)') <= MaxAttempts
            /\ tries[x] + Cardinality(Coding(x)') <= chal'[x].attempts
        BY <2>1, <3>3, <4>3, <4>4, <4>5, <4>6
      <4>8. QED
        BY <4>6, <4>7
    <3>4. QED
      BY <3>2, <3>3
  <2>10. Passed'
    BY <1>3, <1>4, PassedStays
  <2>11. QED
    BY <2>6, <2>7, <2>8, <2>9, <2>10
<1>7. QED
  BY <1>5, <1>6 DEF AllowPending2FAAttempt

\* A step of the clock is claimed for an account: it was not spent with the
\* secret that the account has.
LEMMA ClaimFacts ==
    ASSUME AccessInv, NEW u \in Users, NEW step \in Steps, Claimable(u, step), NEW secret \in 1..MaxVer,
           secret <= users[u].ver,
           users' = [users EXCEPT ![u].lastStep = step], spent' = spent \cup {<<u, secret, step>>}
    PROVE  /\ UsersEvolve /\ spent' \subseteq (Users \X (1..MaxVer) \X Steps)
           /\ users[u].secret = secret => <<u, secret, step>> \notin spent
           /\ ~replayed' => Passed'
<1>1. users[u] \in Rows /\ RowOK(users[u]) /\ users \in [Users -> Rows]
  BY UserFacts DEF AccessInv, Types
<1>2. step \in Steps /\ step \in 0..(MaxNow + 1) /\ step \in Nat /\ users[u].lastStep < step
  BY AccessAssumption DEF Claimable, Steps
<1>3. users' = [users EXCEPT ![u] = [users[u] EXCEPT !.lastStep = step]]
  BY <1>1
<1>4. UsersEvolve
  <2>1. Evolves(users[u], [users[u] EXCEPT !.lastStep = step])
    BY <1>1, <1>2, QuietStatements
  <2>2. QED
    BY <1>3, <2>1, OneRow DEF AccessInv
<1>5. spent' \subseteq (Users \X (1..MaxVer) \X Steps)
  BY <1>2 DEF AccessInv, Types
<1>6. ASSUME users[u].secret = secret PROVE <<u, secret, step>> \notin spent
  <2> DEFINE c == <<u, secret, step>>
  <2>1. c[1] = u /\ c[2] = secret /\ c[3] = step
    OBVIOUS
  <2> HIDE DEF c
  <2>2. ASSUME c \in spent PROVE FALSE
    <3>1. c[3] <= users[u].lastStep
      BY <1>6, <2>1, <2>2 DEF AccessInv, Passed
    <3>2. users[u].lastStep \in Nat
      BY <1>1, RowNumbers
    <3>3. QED
      BY <1>2, <2>1, <3>1, <3>2
  <2>3. QED
    BY <2>2 DEF c
<1>7. ASSUME ~replayed' PROVE Passed'
  <2>1. users'[u].ver = users[u].ver /\ users'[u].lastStep = step
    BY <1>1, <1>3 DEF Rows
  <2>2. ASSUME NEW c \in spent
        PROVE  c[2] <= users'[c[1]].ver /\ (users'[c[1]].secret = c[2] => c[3] <= users'[c[1]].lastStep)
    BY <1>4, CodeStaysBehind DEF AccessInv
  <2>3. ASSUME NEW c, c = <<u, secret, step>>
        PROVE  c[2] <= users'[c[1]].ver /\ (users'[c[1]].secret = c[2] => c[3] <= users'[c[1]].lastStep)
    <3>1. c[1] = u /\ c[2] = secret /\ c[3] = step
      BY <2>3
    <3>2. step <= step /\ secret <= users'[u].ver /\ step <= users'[u].lastStep
      BY <1>2, <2>1
    <3>3. QED
      BY <3>1, <3>2
  <2>4. QED
    BY <1>7, <2>2, <2>3 DEF Passed
<1>8. QED
  BY <1>4, <1>5, <1>6, <1>7

\* A claimed code was validated with a secret that the account has, or had.
LEMMA ClaimKeeps ==
    ASSUME AccessInv, NEW r \in Requests, Claim(r), req[r].user \in Users, req[r].row.secret # None, req[r].step \in Steps
    PROVE  UsersEvolve /\ spent' \subseteq (Users \X (1..MaxVer) \X Steps) /\ replayed' \in BOOLEAN /\ Passed'
<1> DEFINE u == req[r].user
           step == req[r].step
           secret == req[r].row.secret
<1>1. /\ req[r].row \in Rows /\ RowOK(req[r].row) /\ Current(req[r].row, users[u]) /\ users[u] \in Rows
  BY ReqFacts, UserFacts DEF KnownReq, Reqs
<1>2. secret \in 1..MaxVer /\ secret <= users[u].ver
  <2>1. secret <= req[r].row.ver /\ req[r].row.ver <= users[u].ver /\ secret # 0
    BY <1>1 DEF RowOK, Current, None
  <2>2. secret \in Nat /\ secret \in 0..MaxVer /\ req[r].row.ver \in Nat /\ users[u].ver \in Nat
    BY <1>1, RowNumbers
  <2>3. QED
    BY <2>1, <2>2, AccessAssumption
<1>3. /\ Claimable(u, step) /\ users' = [users EXCEPT ![u].lastStep = step]
      /\ spent' = spent \cup {<<u, secret, step>>}
      /\ replayed' = (replayed \/ (<<u, secret, step>> \in spent /\ users[u].secret = secret)) /\ ~replayed
  BY DEF Claim, AccessInv, Passed
<1>4. /\ UsersEvolve /\ spent' \subseteq (Users \X (1..MaxVer) \X Steps)
      /\ users[u].secret = secret => <<u, secret, step>> \notin spent
      /\ ~replayed' => Passed'
  BY <1>2, <1>3, ClaimFacts
<1>5. ~replayed' /\ replayed' \in BOOLEAN
  BY <1>3, <1>4, Zenon
<1>6. QED
  BY <1>4, <1>5

LEMMA ClaimSetupStep ==
    ASSUME AccessInv, NEW r \in Requests, ClaimSetup(r)
    PROVE  AccessInv'
<1> DEFINE q == [req[r] EXCEPT !.pc = "reissue", !.row = NoRow, !.step = 0]
<1>1. /\ req[r] \in Reqs /\ KnownReq(req[r]) /\ req[r].pc = "claimSetup" /\ req[r].token <= issued
  BY ReqFacts DEF ClaimSetup
<1>2. req[r].user \in Users /\ req[r].row.secret # None /\ req[r].step \in Steps
  BY <1>1 DEF KnownReq, At
<1>3. UNCHANGED <<config, sess, revoked, chal, issued, served, now, tries>> /\ req' = [req EXCEPT ![r] = q]
  BY DEF ClaimSetup, Validated, AccessInv, Types
<1>4. UsersEvolve /\ spent' \subseteq (Users \X (1..MaxVer) \X Steps) /\ replayed' \in BOOLEAN /\ Passed'
  <2>1. CASE Claim(r)
    BY <1>2, <2>1, ClaimKeeps
  <2>2. CASE UNCHANGED <<users, spent, replayed>>
    <3>1. UsersEvolve
      BY <2>2, UsersStay DEF AccessInv
    <3>2. Passed' /\ spent' \subseteq (Users \X (1..MaxVer) \X Steps) /\ replayed' \in BOOLEAN
      BY <2>2, <3>1, PassedStays DEF AccessInv, Types
    <3>3. QED
      BY <3>1, <3>2
  <2>3. QED
    BY <2>1, <2>2 DEF ClaimSetup
<1>5. 0 \in 0..(MaxNow + 1) /\ "reissue" \in Points
  BY AccessAssumption DEF Points
<1>6. /\ q \in Reqs /\ q.pc = "reissue" /\ q.user = req[r].user /\ q.row = NoRow /\ q.sid = req[r].sid
      /\ q.token = req[r].token
  BY <1>1, <1>5, NoRowOK DEF Reqs
<1> HIDE DEF q
<1>7. KnownReq(q)
  BY <1>1, <1>2, <1>6, NoRowOK, UserFacts DEF KnownReq, At
<1>8. req' \in [Requests -> Reqs] /\ \A x \in Requests : req'[x] = IF x = r THEN q ELSE req[x]
  BY <1>3, <1>6 DEF AccessInv, Types
<1>9. \A x \in Requests : req'[x] = req[x] \/ (KnownReq(req'[x]) /\ req'[x].token <= issued /\ req'[x].pc # "code")
  BY <1>1, <1>6, <1>7, <1>8
<1>10. /\ chal' \in [Tokens -> {NoChal} \cup Challenges] /\ \A t \in Tokens : chal'[t] \in {chal[t], NoChal}
       /\ served' \in 0..MaxServed /\ config' \in [enforce : BOOLEAN, sensitive : BOOLEAN] /\ revoked' \subseteq Sids
       /\ now' \in Times
  BY <1>3 DEF AccessInv, Types
<1>11. QED
  BY <1>3, <1>4, <1>8, <1>9, <1>10, SpendStep

LEMMA CodeStep ==
    ASSUME AccessInv, NEW r \in Requests, Login2FACode(r)
    PROVE  AccessInv'
<1> DEFINE t == req[r].token
           u == req[r].user
<1>1. req[r] \in Reqs /\ KnownReq(req[r]) /\ req[r].pc = "code" /\ issued \in Nat /\ t <= issued
  BY ReqFacts DEF Login2FACode
<1>2. /\ t \in Tokens /\ t # None /\ u \in Users /\ req[r].row.secret # None /\ req[r].row \in Rows
      /\ Current(req[r].row, users[u]) /\ RowOK(req[r].row)
  BY <1>1 DEF KnownReq, At, Reqs
<1>3. UNCHANGED <<users, config, sess, revoked, chal, issued, served, now, spent, replayed>>
      /\ tries' = [tries EXCEPT ![t] = @ + 1]
  BY DEF Login2FACode
<1>4. PICK q : /\ q \in Reqs /\ KnownReq(q) /\ q.token <= issued /\ q.pc # "code" /\ req' = [req EXCEPT ![r] = q]
  <2>1. CASE Done(r)
    <3>1. NoReq.token <= issued /\ NoReq.pc # "code"
      BY <1>1, NoReqOK
    <3>2. QED
      BY <2>1, <3>1, NoReqOK DEF Done
  <2>2. ASSUME NEW step \in ValidSteps, Validated(r, req[r].row, step, "claim")
        PROVE  \E p \in Reqs : KnownReq(p) /\ p.token <= issued /\ p.pc # "code" /\ req' = [req EXCEPT ![r] = p]
    <3> DEFINE q == [req[r] EXCEPT !.pc = "claim", !.row = req[r].row, !.step = step]
    <3>1. req' = [req EXCEPT ![r] = q]
      BY <2>2 DEF Validated, AccessInv, Types
    <3>2. step \in Steps /\ step \in 0..(MaxNow + 1)
      BY StepFacts
    <3>3. /\ q \in Reqs /\ q.pc = "claim" /\ q.token = t /\ q.user = u /\ q.row = req[r].row /\ q.sid = req[r].sid
          /\ q.step = step
      BY <1>1, <1>2, <3>2 DEF Reqs, Points
    <3> HIDE DEF q
    <3>4. KnownReq(q)
      BY <1>1, <1>2, <3>2, <3>3 DEF KnownReq, At
    <3>5. q.token <= issued /\ q.pc # "code"
      BY <1>1, <3>3
    <3>6. QED
      BY <3>1, <3>3, <3>4, <3>5
  <2>3. QED
    BY <2>1, <2>2 DEF Login2FACode
<1>5. UsersEvolve /\ spent' \subseteq (Users \X (1..MaxVer) \X Steps) /\ replayed' \in BOOLEAN /\ Passed'
  <2>1. UsersEvolve
    BY <1>3, UsersStay DEF AccessInv
  <2>2. Passed' /\ spent' \subseteq (Users \X (1..MaxVer) \X Steps) /\ replayed' \in BOOLEAN
    BY <1>3, <2>1, PassedStays DEF AccessInv, Types
  <2>3. QED
    BY <2>1, <2>2
<1>6. req' \in [Requests -> Reqs] /\ \A x \in Requests : req'[x] = IF x = r THEN q ELSE req[x]
  BY <1>4 DEF AccessInv, Types
<1>7. tries' \in [Tokens -> Nat] /\ \A x \in Tokens : tries'[x] = IF x = t THEN tries[x] + 1 ELSE tries[x]
  BY <1>2, <1>3 DEF AccessInv, Types
<1>8. Types'
  BY <1>3, <1>5, <1>6, <1>7 DEF AccessInv, Types, UsersEvolve
<1>9. Copies'
  <2>1. \A x \in Requests : KnownReq(req'[x])
    BY <1>4, <1>6 DEF AccessInv, Copies
  <2>2. \A s \in Sids : KnownSess(sess'[s])
    BY <1>3 DEF AccessInv, Copies
  <2>3. QED
    BY <1>3, <1>5, <1>8, <2>1, <2>2, CopiesStep DEF AccessInv
<1>10. Used'
  <2>1. \A x \in Requests : req'[x].token <= issued'
    BY <1>3, <1>4, <1>6 DEF AccessInv, Used
  <2>2. issued <= issued'
    BY <1>1, <1>3
  <2>3. QED
    BY <1>3, <1>8, <2>1, <2>2, UsedStep DEF AccessInv
<1>11. Counted'
  <2> SUFFICES ASSUME NEW x \in Tokens
               PROVE  /\ tries'[x] + Cardinality(Coding(x)') <= MaxAttempts
                      /\ chal[x] # NoChal => tries'[x] + Cardinality(Coding(x)') <= chal[x].attempts
                      /\ issued < x => tries'[x] = 0
    BY <1>3 DEF Counted
  <2>1. /\ tries[x] + Cardinality(Coding(x)) <= MaxAttempts /\ (issued < x => tries[x] = 0)
        /\ chal[x] # NoChal => tries[x] + Cardinality(Coding(x)) <= chal[x].attempts
    BY DEF AccessInv, Counted
  <2>2. CASE x # t
    <3>1. Coding(x)' = Coding(x)
      BY <1>1, <1>4, <1>6, <2>2 DEF Coding
    <3>2. QED
      BY <1>7, <2>1, <2>2, <3>1
  <2>3. CASE x = t
    <3>1. Coding(x)' = Coding(x) \ {r} /\ r \in Coding(x)
      <4>1. \A x1 \in Requests : x1 \in Coding(x)' <=> (req'[x1].pc = "code" /\ req'[x1].token = x)
        BY DEF Coding
      <4>2. \A x1 \in Requests : x1 \in Coding(x) <=> (req[x1].pc = "code" /\ req[x1].token = x)
        BY DEF Coding
      <4>3. Coding(x) \subseteq Requests /\ Coding(x)' \subseteq Requests
        BY DEF Coding
      <4>4. r \in Coding(x) /\ r \notin Coding(x)'
        BY <1>1, <1>4, <1>6, <2>3, <4>1, <4>2
      <4>5. \A x1 \in Requests \ {r} : x1 \in Coding(x)' <=> x1 \in Coding(x)
        BY <1>6, <4>1, <4>2
      <4>6. QED
        BY <4>3, <4>4, <4>5
    <3>2. IsFiniteSet(Coding(x))
      BY FS_Subset, AccessAssumption DEF Coding
    <3>3. Cardinality(Coding(x)') = Cardinality(Coding(x)) - 1 /\ Cardinality(Coding(x)) \in Nat
      BY <3>1, <3>2, FS_RemoveElement, FS_CardinalityType
    <3>4. tries[x] \in Nat /\ x \in Nat
      BY <1>2 DEF AccessInv, Types, Tokens
    <3>5. tries'[x] + Cardinality(Coding(x)') = tries[x] + Cardinality(Coding(x))
      BY <1>2, <1>7, <2>3, <3>3, <3>4
    <3>6. ~(issued < x)
      BY <1>1, <2>3, <3>4
    <3>7. /\ tries'[x] + Cardinality(Coding(x)') <= MaxAttempts
          /\ chal[x] # NoChal => tries'[x] + Cardinality(Coding(x)') <= chal[x].attempts
      BY <2>1, <3>5
    <3>8. QED
      BY <3>6, <3>7
  <2>4. QED
    BY <2>2, <2>3
<1>12. QED
  BY <1>5, <1>8, <1>9, <1>10, <1>11 DEF AccessInv

\* A sensitive action: the session is fresh, or a code is validated.
LEMMA SensitiveStep ==
    ASSUME AccessInv, NEW r \in Requests, Sensitive(r)
    PROVE  AccessInv'
<1> DEFINE u == req[r].user
<1>1. /\ req[r] \in Reqs /\ KnownReq(req[r]) /\ req[r].pc = "sensitive"
  BY ReqFacts DEF Sensitive
<1>2. /\ u \in Users /\ req[r].then \in {"own", "admin"} /\ req[r].sid # None
      /\ users[u] \in Rows /\ RowOK(users[u]) /\ Current(users[u], users[u])
  BY <1>1, UserFacts DEF KnownReq, At
<1>3. UNCHANGED <<users, config, sess, revoked, chal, issued, served, now, tries, spent, replayed>>
  BY DEF Sensitive, history
<1>4. UsersEvolve
  BY <1>3, UsersStay DEF AccessInv
<1>5. CASE Goto(r, req[r].then)
  <2>1. At([req[r] EXCEPT !.pc = req[r].then])
    BY <1>1, <1>2 DEF At, Reqs
  <2>2. req[r].then \in Points /\ req[r].then # "code"
    BY <1>2 DEF Points
  <2>3. QED
    BY <1>3, <1>4, <1>5, <2>1, <2>2, GotoStep
<1>6. CASE Done(r)
  <2>1. config' \in [enforce : BOOLEAN, sensitive : BOOLEAN]
    BY <1>3 DEF AccessInv, Types
  <2>2. QED
    BY <1>3, <1>4, <1>6, <2>1, DoneStep
<1>7. ASSUME NEW step \in ValidSteps, users[u].secret # None, Validated(r, users[u], step, "claim")
      PROVE  AccessInv'
  <2>1. step \in Steps /\ step \in 0..(MaxNow + 1) /\ "claim" \in Points
    BY StepFacts DEF Points
  <2>2. At([req[r] EXCEPT !.pc = "claim", !.row = users[u], !.step = step])
    BY <1>1, <1>2, <1>7, <2>1 DEF At, Reqs
  <2>3. QED
    BY <1>2, <1>3, <1>4, <1>7, <2>1, <2>2, ValidatedStep
<1>8. QED
  BY <1>5, <1>6, <1>7 DEF Sensitive

\* A validated code is claimed, at a login or to make a session fresh.
LEMMA ClaimCodeStep ==
    ASSUME AccessInv, NEW r \in Requests, ClaimCode(r)
    PROVE  AccessInv'
<1> DEFINE u == req[r].user
           s == req[r].sid
<1>1. /\ req[r] \in Reqs /\ KnownReq(req[r]) /\ req[r].pc = "claim" /\ req[r].token <= issued
      /\ issued \in Nat
  BY ReqFacts DEF ClaimCode
<1>2. /\ u \in Users /\ req[r].row.secret # None /\ req[r].step \in Steps /\ req[r].row \in Rows
      /\ req[r].token = None => req[r].then \in {"own", "admin"} /\ s \in Sids /\ sess[s] # NoSession
  BY <1>1 DEF KnownReq, At, Reqs
<1>3. UNCHANGED <<config, revoked, chal, issued, served, now, tries>>
  BY DEF ClaimCode
<1>4. 0 \in 0..(MaxNow + 1)
  BY AccessAssumption
<1>5. CASE Done(r) /\ UNCHANGED <<users, sess, spent, replayed>>
  <2>1. UsersEvolve
    BY <1>5, UsersStay DEF AccessInv
  <2>2. config' \in [enforce : BOOLEAN, sensitive : BOOLEAN]
    BY <1>3 DEF AccessInv, Types
  <2>3. QED
    BY <1>3, <1>5, <2>1, <2>2, DoneStep
<1>6. ASSUME Claim(r), req[r].token # None, Validated(r, req[r].row, 0, "consume"), UNCHANGED sess
      PROVE  AccessInv'
  <2> DEFINE q == [req[r] EXCEPT !.pc = "consume", !.row = req[r].row, !.step = 0]
  <2>1. req' = [req EXCEPT ![r] = q]
    BY <1>6 DEF Validated, AccessInv, Types
  <2>2. /\ q \in Reqs /\ q.pc = "consume" /\ q.user = u /\ q.row = req[r].row /\ q.sid = s
        /\ q.token = req[r].token
    BY <1>1, <1>2, <1>4 DEF Reqs, Points
  <2> HIDE DEF q
  <2>3. KnownReq(q)
    BY <1>1, <1>2, <1>6, <2>2 DEF KnownReq, At
  <2>4. req' \in [Requests -> Reqs] /\ \A x \in Requests : req'[x] = IF x = r THEN q ELSE req[x]
    BY <2>1, <2>2 DEF AccessInv, Types
  <2>5. \A x \in Requests : req'[x] = req[x] \/ (KnownReq(req'[x]) /\ req'[x].token <= issued /\ req'[x].pc # "code")
    BY <1>1, <2>2, <2>3, <2>4
  <2>6. /\ chal' \in [Tokens -> {NoChal} \cup Challenges] /\ \A t \in Tokens : chal'[t] \in {chal[t], NoChal}
        /\ served' \in 0..MaxServed /\ config' \in [enforce : BOOLEAN, sensitive : BOOLEAN] /\ revoked' \subseteq Sids
        /\ now' \in Times
    BY <1>3 DEF AccessInv, Types
  <2>7. UsersEvolve /\ spent' \subseteq (Users \X (1..MaxVer) \X Steps) /\ replayed' \in BOOLEAN /\ Passed'
    BY <1>2, <1>6, ClaimKeeps
  <2>8. QED
    BY <1>3, <1>6, <2>4, <2>5, <2>6, <2>7, SpendStep
<1>7. ASSUME Claim(r), req[r].token = None, SetSensitiveTOTPFresh(s), Validated(r, NoRow, 0, req[r].then)
      PROVE  AccessInv'
  <2> DEFINE q == [req[r] EXCEPT !.pc = req[r].then, !.row = NoRow, !.step = 0]
             c == [sess[s] EXCEPT !.fresh = now + Fresh]
  <2>1. /\ req[r].then \in {"own", "admin"} /\ s \in Sids /\ sess[s] # NoSession
    BY <1>2, <1>7
  <2>2. /\ q \in Reqs /\ q.pc \in {"own", "admin"} /\ q.user = u /\ q.row = NoRow /\ q.sid = s
        /\ q.token = req[r].token
    BY <1>1, <1>4, <2>1, NoRowOK DEF Reqs, Points
  <2>3. UsersEvolve /\ spent' \subseteq (Users \X (1..MaxVer) \X Steps) /\ replayed' \in BOOLEAN /\ Passed'
    BY <1>2, <1>7, ClaimKeeps
  <2>5. now + Fresh \in Nat
    BY AccessAssumption DEF AccessInv, Types, Times
  <2>6. sess[s] \in Sessions
    BY <2>1 DEF AccessInv, Types
  <2>7. /\ c \in Sessions /\ c.user = sess[s].user /\ c.ver = sess[s].ver /\ c.role = sess[s].role
        /\ c.pw = sess[s].pw /\ c.secret = sess[s].secret /\ c.token = sess[s].token /\ c.by = sess[s].by
    BY <2>5, <2>6 DEF Sessions
  <2>8. sess' = [sess EXCEPT ![s] = c] /\ req' = [req EXCEPT ![r] = q]
    BY <1>7, <2>1 DEF SetSensitiveTOTPFresh, Validated, AccessInv, Types
  <2> HIDE DEF c, q
  <2>9. /\ sess' \in [Sids -> {NoSession} \cup Sessions] /\ req' \in [Requests -> Reqs]
        /\ \A x \in Sids : sess'[x] = IF x = s THEN c ELSE sess[x]
        /\ \A x \in Requests : req'[x] = IF x = r THEN q ELSE req[x]
    BY <2>2, <2>7, <2>8 DEF AccessInv, Types
  <2>10. c # NoSession
    <3>1. c.ver \in 0..MaxVer /\ c = [user |-> c.user, ver |-> c.ver, role |-> c.role, fresh |-> c.fresh, pw |-> c.pw,
                                      secret |-> c.secret, token |-> c.token, by |-> c.by]
      BY <2>7 DEF Sessions
    <3>2. DOMAIN c # DOMAIN NoSession
      BY <3>1 DEF NoSession
    <3>3. QED
      BY <3>2
  <2>11. Types'
    BY <1>3, <2>3, <2>9 DEF AccessInv, Types, UsersEvolve
  <2>12. Copies'
    <3>1. KnownReq(q)
      BY <1>1, <1>2, <2>2, NoRowOK, UserFacts DEF KnownReq, At
    <3>2. \A x \in Requests : KnownReq(req'[x])
      BY <2>9, <3>1 DEF AccessInv, Copies
    <3>3. KnownSess(c)
      <4>1. KnownSess(sess[s])
        BY <2>1 DEF AccessInv, Copies
      <4>2. QED
        BY <2>1, <2>7, <4>1 DEF KnownSess, Current
    <3>4. \A x \in Sids : KnownSess(sess'[x])
      BY <2>9, <3>3 DEF AccessInv, Copies
    <3>5. \A x \in Sids : sess[x] # NoSession => sess'[x] # NoSession
      BY <2>9, <2>10
    <3>6. QED
      BY <2>3, <2>11, <3>2, <3>4, <3>5, CopiesStep DEF AccessInv
  <2>13. Used'
    <3>1. \A x \in Requests : req'[x].token <= issued'
      BY <1>1, <1>3, <2>2, <2>9 DEF AccessInv, Used
    <3>2. \A x \in Sids : sess'[x] # NoSession => sess[x] # NoSession /\ sess[x].token = sess'[x].token
      BY <2>1, <2>7, <2>9
    <3>3. issued <= issued'
      BY <1>1, <1>3
    <3>4. QED
      BY <1>3, <2>11, <3>1, <3>2, <3>3, UsedStep DEF AccessInv
  <2>14. Counted'
    <3>1. \A x \in Requests : req'[x].pc = "code" => req[x].pc = "code" /\ req[x].token = req'[x].token
      BY <2>2, <2>9
    <3>2. issued <= issued' /\ \A x \in Tokens : chal'[x] \in {chal[x], NoChal}
      BY <1>1, <1>3
    <3>3. QED
      BY <1>3, <2>11, <3>1, <3>2, CountedStays DEF AccessInv
  <2>15. QED
    BY <2>3, <2>11, <2>12, <2>13, <2>14 DEF AccessInv
<1>8. QED
  BY <1>5, <1>6, <1>7 DEF ClaimCode

-----------------------------------------------------------------------------
(* The theorems.                                                           *)

LEMMA AccessInit == Init => AccessInv
<1> SUFFICES ASSUME Init PROVE AccessInv
  OBVIOUS
<1>1. /\ sess = [s \in Sids |-> NoSession] /\ revoked = {} /\ req = [r \in Requests |-> NoReq] /\ served = 0
      /\ tries = [t \in Tokens |-> 0] /\ spent = {} /\ replayed = FALSE /\ now = 2
  BY DEF Init
<1>2. 1 \in 0..MaxVer /\ 1 \in Nat /\ 0 \in 0..MaxVer /\ 0 \in 0..MaxNow /\ 1 \in 0..MaxNow /\ 0 \in 0..(MaxNow + 1)
      /\ 0 \in 0..MaxServed /\ 0 \in 0..MaxTokens /\ 1 \in 0..MaxTokens /\ 0 \in 0..MaxAttempts /\ 2 \in Times
      /\ 2 + ChallengeLife \in Nat
  BY AccessAssumption DEF Times
<1>3. ASSUME NEW role \in Roles
      PROVE  /\ NewRow(role) \in Rows /\ NewRow(role).secret = 0 /\ NewRow(role).ver = 1
             /\ [NewRow(role) EXCEPT !.grace = 1] \in Rows /\ [NewRow(role) EXCEPT !.grace = 1].secret = 0
             /\ [NewRow(role) EXCEPT !.grace = 1].ver = 1
             /\ [NewRow(role) EXCEPT !.secret = 1] \in Rows /\ [NewRow(role) EXCEPT !.secret = 1].secret = 1
             /\ [NewRow(role) EXCEPT !.secret = 1].ver = 1
  BY <1>2, NoRowOK DEF NewRow, NoRow, Rows, None
<1>4. users \in [Users -> Rows] /\ \A u \in Users : RowOK(users[u])
  <2>1. "admin" \in Roles /\ "reader" \in Roles
    BY DEF Roles
  <2>2. ASSUME NEW u \in Users PROVE users[u] \in Rows /\ RowOK(users[u])
    <3>1. users[u] \in {NoRow, NewRow("reader"),
                        [NewRow("admin") EXCEPT !.grace = 1], [NewRow("admin") EXCEPT !.secret = 1]}
      BY DEF Init
    <3>2. users[u] = NoRow \/ (users[u] \in Rows /\ users[u].secret \in {0, 1} /\ users[u].ver = 1)
      BY <1>3, <2>1, <3>1
    <3>3. CASE users[u] = NoRow
      BY <3>3, NoRowOK
    <3>4. CASE users[u] \in Rows /\ users[u].secret \in {0, 1} /\ users[u].ver = 1
      BY <3>4 DEF RowOK
    <3>5. QED
      BY <3>2, <3>3, <3>4
  <2>3. QED
    BY <2>2 DEF Init
<1>5. chal \in [Tokens -> {NoChal} \cup Challenges] /\ issued \in 0..MaxTokens /\ \A t \in Tokens : chal[t] # NoChal => t <= issued /\ chal[t].attempts = 0
  <2>1. CASE chal = [t \in Tokens |-> NoChal] /\ issued = 0
    BY <1>2, <2>1
  <2>2. ASSUME NEW u \in Users, issued = 1,
               chal = [t \in Tokens |-> IF t = 1 THEN [user |-> u, ver |-> 1, expires |-> now + ChallengeLife, attempts |-> 0]
                                        ELSE NoChal]
        PROVE  <1>5!:
    <3> DEFINE c == [user |-> u, ver |-> 1, expires |-> now + ChallengeLife, attempts |-> 0]
    <3>1. c \in Challenges /\ c.attempts = 0
      BY <1>1, <1>2 DEF Challenges
    <3> HIDE DEF c
    <3>2. chal = [t \in Tokens |-> IF t = 1 THEN c ELSE NoChal]
      BY <2>2 DEF c
    <3>3. QED
      BY <1>2, <2>2, <3>1, <3>2
  <2>3. QED
    BY <2>1, <2>2 DEF Init
<1>6. Types
  <2>1. config \in [enforce : BOOLEAN, sensitive : BOOLEAN]
    BY DEF Init
  <2>2. /\ sess \in [Sids -> {NoSession} \cup Sessions] /\ revoked \subseteq Sids
        /\ spent \subseteq (Users \X (1..MaxVer) \X Steps) /\ replayed \in BOOLEAN
    BY <1>1
  <2>3. tries \in [Tokens -> Nat] /\ req \in [Requests -> Reqs] /\ served \in 0..MaxServed /\ now \in Times
    BY <1>1, <1>2, NoReqOK
  <2>4. QED
    BY <1>4, <1>5, <2>1, <2>2, <2>3 DEF Types
<1>7. Copies
  BY <1>1, <1>4, NoReqOK DEF Copies, KnownSess
<1>8. Used
  <2>1. issued \in Nat
    BY <1>5
  <2>2. \A r \in Requests : req[r].token = 0
    BY <1>1, NoReqOK
  <2>3. \A s \in Sids : sess[s] = NoSession
    BY <1>1
  <2>4. QED
    BY <1>5, <2>1, <2>2, <2>3 DEF Used, OneSessionPerChallenge
<1>9. Counted
  <2> SUFFICES ASSUME NEW t \in Tokens
               PROVE  /\ tries[t] + Cardinality(Coding(t)) <= MaxAttempts
                      /\ chal[t] # NoChal => tries[t] + Cardinality(Coding(t)) <= chal[t].attempts
                      /\ issued < t => tries[t] = 0
    BY DEF Counted
  <2>1. Coding(t) = {}
    BY <1>1, NoReqOK DEF Coding
  <2>2. tries[t] = 0 /\ Cardinality(Coding(t)) = 0
    BY <1>1, <2>1, FS_EmptySet
  <2>3. 0 + 0 <= MaxAttempts /\ 0 + 0 <= 0
    BY AccessAssumption
  <2>4. QED
    BY <1>5, <2>2, <2>3
<1>10. Passed
  BY <1>1 DEF Passed
<1>11. QED
  BY <1>6, <1>7, <1>8, <1>9, <1>10 DEF AccessInv

LEMMA AccessStep == AccessInv /\ [Next]_vars => AccessInv'
<1> SUFFICES ASSUME AccessInv, [Next]_vars PROVE AccessInv'
  OBVIOUS
<1>1. ASSUME NEW r \in Requests, Handle(r) PROVE AccessInv'
  <2>1. ASSUME NEW u \in Users, LoginPost(r, u) PROVE AccessInv'
    BY <2>1, LoginPostStep
  <2>2. ASSUME NEW s \in Sids, NEW page \in Pages, RequireLogin(r, s, page) PROVE AccessInv'
    BY <2>2, RequireLoginStep
  <2>3. ASSUME NEW t \in Tokens, Login2FAPost(r, t) PROVE AccessInv'
    BY <2>3, Login2FAPostStep
  <2>4. CASE Enforce(r) \/ Deactivate(r) \/ LoginDone(r)
    BY <2>4, EnforceStep, DeactivateStep, LoginDoneStep
  <2>5. CASE AllowPending2FAAttempt(r) \/ Login2FACode(r) \/ ClaimCode(r) \/ ConsumePending2FA(r)
    BY <2>5, AllowStep, CodeStep, ClaimCodeStep, ConsumeStep
  <2>6. CASE ProfilePost(r) \/ Profile2FADisable(r) \/ Profile2FAConfirm(r) \/ EnableSetup(r) \/ ClaimSetup(r)
             \/ Reissue(r)
    BY <2>6, OwnSteps, SetupSteps, ClaimSetupStep, ReissueStep
  <2>7. CASE Sensitive(r)
    BY <2>7, SensitiveStep
  <2>8. CASE DeleteUser(r) \/ SystemSettingsPost(r) \/ Refuse(r)
    BY <2>8, DeleteSteps
  <2>9. ASSUME NEW v \in Users, AdminAct(r, v) \/ DeleteUserPost(r, v) PROVE AccessInv'
    BY <2>9, AdminActStep, DeleteSteps
  <2>10. QED
    BY <1>1, <2>1, <2>2, <2>3, <2>4, <2>5, <2>6, <2>7, <2>8, <2>9 DEF Handle
<1>2. CASE (\E s \in Sids : Logout(s)) \/ (\E u \in Users : CLI(u)) \/ Restart \/ Tick \/ UNCHANGED vars
  BY <1>2, AsideSteps
<1>3. QED
  BY <1>1, <1>2 DEF Next

\* What the invariant says: a cookie is a copy of the row, a challenge is held
\* or used up, and the codes checked are among those counted.
LEMMA AccessMeans == AccessInv => TypeOK /\ LoginsAreCurrent /\ ChallengesHold /\ CodeWorksOnce
<1> SUFFICES ASSUME AccessInv PROVE TypeOK /\ LoginsAreCurrent /\ ChallengesHold /\ CodeWorksOnce
  OBVIOUS
<1>1. TypeOK
  BY DEF AccessInv, Types, TypeOK, Sessions, Challenges
<1>2. LoginsAreCurrent
  BY DEF AccessInv, Copies, KnownSess, Current, LoginsAreCurrent
<1>3. AttemptsBounded
  <2> SUFFICES ASSUME NEW t \in Tokens PROVE tries[t] <= MaxAttempts
    BY DEF AttemptsBounded
  <2>1. IsFiniteSet(Coding(t))
    BY FS_Subset, AccessAssumption DEF Coding
  <2>2. Cardinality(Coding(t)) \in Nat /\ tries[t] \in Nat /\ MaxAttempts \in Nat
    BY <2>1, FS_CardinalityType, AccessAssumption DEF AccessInv, Types
  <2>3. tries[t] + Cardinality(Coding(t)) <= MaxAttempts
    BY DEF AccessInv, Counted
  <2>4. QED
    BY <2>2, <2>3
<1>4. ChallengesHold /\ CodeWorksOnce
  BY <1>3 DEF AccessInv, Used, Passed, ChallengesHold, CodeWorksOnce
<1>5. QED
  BY <1>1, <1>2, <1>4

LEMMA AccessAlways == Spec => []AccessInv
BY AccessInit, AccessStep, PTL DEF Spec

\* The users table, the challenge table, the revoked sessions and the request
\* counters keep their types (internal/store/user.go, internal/session).
THEOREM AccessTypeCorrect == Spec => []TypeOK
BY AccessAlways, AccessMeans, PTL

\* However the requests interleave with changes of the account, a login that
\* the middleware still accepts was opened with the password, second factor and
\* role that the account has now: the session_version read before the change
\* (internal/web/middleware.go:42) no longer matches after it.
THEOREM LoginsStayCurrent == Spec => []LoginsAreCurrent
BY AccessAlways, AccessMeans, PTL

\* Any number of requests may carry the token of one password challenge at the
\* same time: it opens one session at most, and no more codes are checked
\* against it than it allows (internal/session/challenge.go).
THEOREM ChallengesAreHeld == Spec => []ChallengesHold
BY AccessAlways, AccessMeans, PTL

\* A TOTP code claimed for an account is not accepted again while the account
\* keeps its secret, however many requests have validated it with a row read
\* before: ClaimUserTOTPStep only moves the step forward, and the statement that
\* sets it back also drops the secret (internal/store/user.go:115, :131).
THEOREM CodesWorkOnce == Spec => []CodeWorksOnce
BY AccessAlways, AccessMeans, PTL
=============================================================================
