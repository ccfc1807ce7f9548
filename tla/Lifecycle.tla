------------------------------ MODULE Lifecycle ------------------------------
(***************************************************************************)
(* The server process from start to exit (main.go) and the group of its    *)
(* background tasks (internal/service/background.go): HTTP requests, the   *)
(* scheduler loops, one-shot tasks and the worker of the alert queue, which*)
(* joins the group for each item only (internal/api/handlers/handlers.go). *)
(* A stop refuses new work and waits for the rest, for a limited time; then*)
(* the database is closed.                                                 *)
(***************************************************************************)
EXTENDS Clock

CONSTANT Loops   \* the scheduler loops

ASSUME LifecycleAssumption == IsFiniteSet(Loops)

VARIABLES stage,     \* "up", "draining", "stopping", "waiting", "closed" (the database is) or "down"
          closed,    \* the group refuses work
          running,   \* its tasks
          requests,  \* HTTP requests under way
          overdue,   \* history: one of the two waits of this process ran out
          boots

lifeVars == <<stage, closed, running, requests, overdue, boots>>

Alive == stage # "down"
Cancelled == stage \in {"stopping", "waiting", "closed"}   \* the context of the schedulers

trackAlways(task) == running \cup {task}   \* mutant: the group never refuses
track(task) == IF closed THEN running ELSE running \cup {task}

LifeInit ==
    /\ stage = "up" /\ closed = FALSE /\ running = Loops /\ requests = {}
    /\ overdue = FALSE /\ boots = 1

-----------------------------------------------------------------------------
\* main's shutdown, step by step.
Signal == stage = "up" /\ stage' = "draining" /\ UNCHANGED <<closed, running, requests, overdue, boots>>
stopSchedulers ==   \* after srv.Shutdown, which waits for the requests
    /\ stage = "draining" /\ stage' = "stopping"
    /\ overdue' = (requests # {})
    /\ UNCHANGED <<closed, running, requests, boots>>
closeGroup ==
    /\ stage = "stopping" /\ stage' = "waiting"
    /\ closed' = TRUE
    /\ UNCHANGED <<running, requests, overdue, boots>>
WaitBackground ==   \* the tasks end, or the wait does; the database is closed
    /\ stage = "waiting" /\ stage' = "closed"
    /\ overdue' = (overdue \/ running # {})
    /\ UNCHANGED <<closed, running, requests, boots>>

\* The process exits, or crashes, and is started again.
Exit(from) == stage \in from /\ stage' = "down" /\ running' = {} /\ requests' = {} /\ UNCHANGED <<closed, overdue, boots>>
Boot ==
    /\ stage = "down" /\ boots < scene.boots /\ boots' = boots + 1
    /\ stage' = "up" /\ closed' = FALSE /\ running' = Loops /\ overdue' = FALSE
    /\ UNCHANGED requests

BeginRequest(r) ==
    /\ stage = "up" /\ r \notin requests /\ requests' = requests \cup {r}
    /\ UNCHANGED <<stage, closed, running, overdue, boots>>
EndRequest(r) ==
    /\ r \in requests /\ requests' = requests \ {r}
    /\ UNCHANGED <<stage, closed, running, overdue, boots>>
\* A loop looks at its context between two rounds.
LoopEnds(l) ==
    /\ l \in running \cap Loops /\ Cancelled
    /\ running' = running \ {l} /\ UNCHANGED <<stage, closed, requests, overdue, boots>>

\* The rest of the tasks: a request starts a notice, the queue worker an
\* evaluation, and each of them ends.
notifyAdminSecurity(r) ==
    /\ r \in requests /\ "notice" \notin running
    /\ running' = track("notice") /\ UNCHANGED <<stage, closed, requests, overdue, boots>>
runAlertQueue ==
    /\ Alive /\ "queue" \notin running
    /\ running' = track("queue") /\ UNCHANGED <<stage, closed, requests, overdue, boots>>
TaskEnds(task) ==
    /\ task \in running \cap {"notice", "queue"}
    /\ running' = running \ {task} /\ UNCHANGED <<stage, closed, requests, overdue, boots>>

ShutdownStep == Signal \/ stopSchedulers \/ closeGroup \/ WaitBackground
TaskStep ==
    \/ BeginRequest(<<"page", 0>>) \/ EndRequest(<<"page", 0>>) \/ notifyAdminSecurity(<<"page", 0>>)
    \/ runAlertQueue \/ \E task \in {"notice", "queue"} : TaskEnds(task)
    \/ \E l \in Loops : LoopEnds(l)

-----------------------------------------------------------------------------
LifeTypeOK ==
    /\ stage \in {"up", "draining", "stopping", "waiting", "closed", "down"}
    /\ closed \in BOOLEAN /\ overdue \in BOOLEAN /\ boots \in Nat \ {0}

\* "the database is closed only when nothing uses it" (main.go:260), unless one
\* of the two waits of the shutdown ran out.
IdleWhenClosed == stage = "closed" /\ ~overdue => running = {} /\ requests = {}
=============================================================================
