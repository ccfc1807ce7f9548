---------------------------- MODULE ServerProcess ----------------------------
(***************************************************************************)
(* The parts of the server process that run beside the alerts: the login   *)
(* gate and the rate limit, the life of the process with its tasks, the    *)
(* copies to the NAS and the mail.                                         *)
(***************************************************************************)
EXTENDS LoginGate, NASBackup, Mailer

CONSTANTS Scenes,     \* what to follow
          SavedRows   \* rows of the NAS settings at the start

Unconfigured == Row(Config(FALSE, None, None, 0))
Attempts == [id : Nat, at : Int, dest : Dests \cup {None}]
Rows == [enabled : BOOLEAN, dest : Dests \cup {None}, password : Dests \cup {None}, time : 0..(DayLen - 1),
         attempt : Attempts, scheduled : Attempts, success : Attempts, error : Messages]
ASSUME SceneAssumption ==
    /\ \A s \in Scenes : s.time \in 0..MaxTime
    /\ SavedRows \subseteq Rows
    /\ \A r \in SavedRows : r.password \in {None, r.dest} /\ r.scheduled.at <= 0
    /\ \A r \in SavedRows : r.success = NoAttempt /\ r.error # "running"   \* the NAS is empty at the start

vars == <<now, scene, limiterVars, gateVars, lifeVars, nasVars, mailVars>>

Init ==
    /\ now = 0 /\ scene \in Scenes
    /\ LimiterInit /\ GateInit /\ LifeInit
    /\ NASInit(IF scene.part = "nas" THEN SavedRows ELSE {Unconfigured})
    /\ MailInit([enabled : IF scene.part = "daily" THEN BOOLEAN ELSE {FALSE}, time : {1}],
                IF scene.part = "pace" THEN Batches ELSE {0})

Accounts == UNCHANGED <<lifeVars, nasVars, mailVars>> /\
    \/ Tick /\ scene.part \in {"bans", "limits"} /\ UNCHANGED <<limiterVars, gateVars>>
    \/ LimiterNext /\ UNCHANGED gateVars
    \/ GateNext /\ UNCHANGED limiterVars

Process == scene.part = "life" /\ UNCHANGED <<now, scene, limiterVars, gateVars, nasVars, mailVars>> /\
    \/ ShutdownStep \/ TaskStep \/ Boot
    \/ Exit({"closed"}) \/ Exit({"up", "draining", "stopping", "waiting"})

Copies == scene.part = "nas" /\ UNCHANGED <<limiterVars, gateVars, mailVars>> /\
    \/ NASTick /\ UNCHANGED <<lifeVars, nasVars>>
    \/ NASNext /\ UNCHANGED <<now, scene>>

Mail == UNCHANGED <<limiterVars, gateVars, lifeVars, nasVars>> /\
    \/ scene.part = "daily" /\ DailyTick /\ UNCHANGED mailVars
    \/ scene.part = "pace" /\ PaceTick /\ UNCHANGED mailVars
    \/ MailNext /\ UNCHANGED <<now, scene>>

Next == Accounts \/ Process \/ Copies \/ Mail
Spec == Init /\ [][Next]_vars

TypeOK == LimiterTypeOK /\ GateTypeOK /\ LifeTypeOK /\ NASTypeOK /\ MailTypeOK
=============================================================================
