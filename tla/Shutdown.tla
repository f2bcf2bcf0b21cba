------------------------------ MODULE Shutdown ------------------------------
(***************************************************************************)
(* How the relay process stops (cmd/relay/main.go): first the HTTP server, *)
(* then the gRPC server, each within a time of its own, while systemd      *)
(* allows a time for the whole (deploy/systemd/harbor-relay.service).      *)
(*                                                                         *)
(* Time is counted in seconds from the signal.  Of a stream handler this   *)
(* module keeps how far it is, and what the store says of its agent in     *)
(* memory and in the file; an agent has one stream at a time.              *)
(* RelaySessions has the rest.                                             *)
(***************************************************************************)
EXTENDS Naturals, FiniteSets

CONSTANTS
    Agent, Request,
    HttpWait,    \* 15 s for httpServer.Shutdown
    GraceWait,   \* grpcShutdownTimeout, 8 s
    ForceWait,   \* 2 s after Stop
    StopSec,     \* TimeoutStopSec, 20 s
    EndTime      \* a handler whose stream is cut has returned after this time

ASSUME ShutdownAssumption ==
    /\ {HttpWait, GraceWait, ForceWait, StopSec, EndTime} \subseteq Nat
    /\ 0 < EndTime /\ EndTime < ForceWait

VARIABLES
    stage,     \* where main is
    cause,     \* a signal, which systemd waits for, or a server that failed
    clock,     \* seconds since main left its select
    since,     \* when the stage began
    requests,  \* HTTP requests being served
    handler,   \* the stream handler of an agent: it sends the ack and the first task,
               \* reads, posts a callback, returns, or there is none
    online, held, \* the agent in the store: Online, and whether it has a task
    disk,      \* the same in the file
    slowest,   \* history: how long main waited for the last HTTP request
    unserved,  \* history: agents whose last hello, if any, did not come to the defer
    unsaved    \* history: the last save failed

mainVars == <<stage, cause, since, slowest>>
storeVars == <<online, held, disk, unsaved>>
agentVars == <<handler, unserved, storeVars>>
vars == <<mainVars, clock, requests, agentVars>>

MaxTime == HttpWait + GraceWait + ForceWait

TypeOK ==
    /\ stage \in {"running", "http", "graceful", "forced", "exited", "killed"}
    /\ cause \in {"none", "signal", "failure"}
    /\ clock \in 0..MaxTime
    /\ since \in 0..clock
    /\ slowest \in 0..clock
    /\ requests \in SUBSET Request
    /\ handler \in [Agent -> {"none", "first", "recv", "callback", "exit"}]
    /\ online \in [Agent -> BOOLEAN]
    /\ held \in [Agent -> BOOLEAN]
    /\ disk \in [online : [Agent -> BOOLEAN], held : [Agent -> BOOLEAN]]
    /\ unserved \in SUBSET Agent
    /\ unsaved \in BOOLEAN
    /\ \A a \in Agent : handler[a] # "none" \/ held[a] => online[a]

\* NewStore takes the agents as the file has them, which may be that of a process
\* that was killed.
Init ==
    /\ stage = "running"
    /\ cause = "none"
    /\ clock = 0 /\ since = 0 /\ slowest = 0
    /\ requests = {}
    /\ handler = [a \in Agent |-> "none"]
    /\ online \in [Agent -> BOOLEAN]
    /\ held \in [Agent -> BOOLEAN]
    /\ \A a \in Agent : held[a] => online[a]
    /\ disk = [online |-> online, held |-> held]
    /\ unserved = Agent
    /\ unsaved = FALSE

Ended == stage \in {"exited", "killed"}

-----------------------------------------------------------------------------
(* Requests and streams. *)

\* The listener is closed by Shutdown.
Accept(r) ==
    /\ stage = "running"
    /\ requests' = requests \cup {r}
    /\ UNCHANGED <<mainVars, clock, agentVars>>

\* A request takes as long as its client takes to send the body.
Answer(r) ==
    /\ ~Ended /\ r \in requests
    /\ requests' = requests \ {r}
    /\ slowest' = IF stage = "http" THEN clock ELSE slowest
    /\ UNCHANGED <<stage, cause, since, clock, agentVars>>

\* saveLocked at the end of an operation writes all agents, or fails and leaves the
\* file as it was.
Save(ok) ==
    /\ disk' = IF ok THEN [online |-> online', held |-> held'] ELSE disk
    /\ unsaved' = ~ok

\* A hello is registered; the gRPC listener is open until GracefulStop.  The handler
\* returns, with no defer yet, when that cannot be saved.
Hello(a) ==
    /\ stage \in {"running", "http"}
    /\ handler[a] = "none"
    /\ online' = [online EXCEPT ![a] = TRUE]
    /\ unserved' = unserved \cup {a}
    /\ UNCHANGED <<mainVars, clock, requests, held>>
    /\ \E ok \in BOOLEAN :
          /\ Save(ok)
          /\ handler' = IF ok THEN [handler EXCEPT ![a] = "first"] ELSE handler

AssignNextTask(a) ==
    /\ ~held[a]
    /\ held' = [held EXCEPT ![a] = TRUE]
    /\ online' = [online EXCEPT ![a] = TRUE]

\* The ack and, if there is one, a first task are sent: MarkAgentOffline is deferred.
FirstTask(a) ==
    /\ ~Ended /\ handler[a] = "first"
    /\ handler' = [handler EXCEPT ![a] = "recv"]
    /\ unserved' = unserved \ {a}
    /\ \/ UNCHANGED storeVars
       \/ AssignNextTask(a) /\ Save(TRUE)
    /\ UNCHANGED <<mainVars, clock, requests>>

\* One of the two is not sent, or the assignment not saved: the handler returns and
\* leaves the agent as it is.
HelloFails(a) ==
    /\ ~Ended /\ handler[a] = "first"
    /\ handler' = [handler EXCEPT ![a] = "none"]
    /\ \/ UNCHANGED storeVars
       \/ AssignNextTask(a) /\ \E ok \in BOOLEAN : Save(ok)
    /\ UNCHANGED <<mainVars, clock, requests, unserved>>

Serves(a) == stage \in {"running", "http", "graceful"} /\ handler[a] = "recv"

\* The handler of a goes on in h, or returns when the save has failed.
SavedOrExit(a, h) ==
    \E ok \in BOOLEAN :
       /\ Save(ok)
       /\ handler' = [handler EXCEPT ![a] = IF ok THEN h ELSE "exit"]

\* Streams that are open go on as before: tasks are still handed out,
SendTask(a) ==
    /\ Serves(a)
    /\ AssignNextTask(a)
    /\ SavedOrExit(a, "recv")
    /\ UNCHANGED <<mainVars, clock, requests, unserved>>

\* heartbeats and progress come in,
Progress(a) ==
    /\ Serves(a)
    /\ UNCHANGED <<mainVars, clock, requests, unserved, online, held>>
    /\ SavedOrExit(a, "recv")

\* and tasks end, which may lead to a callback.
TaskEnds(a) ==
    /\ Serves(a) /\ held[a]
    /\ held' = [held EXCEPT ![a] = FALSE]
    /\ UNCHANGED <<mainVars, clock, requests, unserved, online>>
    /\ \E h \in {"recv", "callback"} : SavedOrExit(a, h)

\* Whether the result of a callback is saved makes no difference to the handler.
CallbackReturns(a) ==
    /\ ~Ended /\ handler[a] = "callback"
    /\ handler' = [handler EXCEPT ![a] = "recv"]
    /\ UNCHANGED <<mainVars, clock, requests, unserved, online, held>>
    /\ \E ok \in BOOLEAN : Save(ok)

MarkAgentOffline_keepsTask_bug(a) ==
    /\ online' = [online EXCEPT ![a] = FALSE]
    /\ UNCHANGED held
    /\ \E ok \in BOOLEAN : Save(ok)

MarkAgentOffline(a) ==
    /\ online' = [online EXCEPT ![a] = FALSE]
    /\ held' = [held EXCEPT ![a] = FALSE]
    /\ \E ok \in BOOLEAN : Save(ok)

\* The stream ends - the agent leaves, an error was returned, or Stop cuts it, which
\* also cancels a callback - and the deferred MarkAgentOffline is carried out.
HandlerEnds(a) ==
    /\ ~Ended /\ handler[a] \in {"recv", "callback", "exit"}
    /\ handler' = [handler EXCEPT ![a] = "none"]
    /\ MarkAgentOffline(a)
    /\ UNCHANGED <<mainVars, clock, requests, unserved>>

\* What else is saved meanwhile, of webhooks and notifications.
OtherSave ==
    /\ ~Ended
    /\ UNCHANGED <<mainVars, clock, requests, handler, unserved, online, held>>
    /\ \E ok \in BOOLEAN : Save(ok)

-----------------------------------------------------------------------------
(* main. *)

GoOn(s) ==
    /\ stage' = s
    /\ since' = clock
    /\ UNCHANGED <<cause, clock, requests, agentVars>>

\* A signal arrives, or a server fails.
Leave ==
    /\ stage = "running"
    /\ stage' = "http"
    /\ cause' \in {"signal", "failure"}
    /\ UNCHANGED <<since, slowest, clock, requests, agentVars>>

TimeIsUp(s, w) == stage = s /\ clock = since + w

HttpStopped_alwaysWaits_bug == TimeIsUp("http", HttpWait)

\* httpServer.Shutdown returns.
HttpStopped == stage = "http" /\ (requests = {} \/ TimeIsUp("http", HttpWait))

StopHttp ==
    /\ HttpStopped
    /\ slowest' = IF requests = {} THEN slowest ELSE clock
    /\ GoOn("graceful")

\* GracefulStop returns when every handler has returned.
GrpcStopped == \A a \in Agent : handler[a] = "none"

StopGrpc ==
    /\ stage \in {"graceful", "forced"}
    /\ GrpcStopped
    /\ GoOn("exited")
    /\ UNCHANGED slowest

GraceIsUp_onSignal_bug == cause = "signal" /\ TimeIsUp("graceful", GraceWait)

GraceIsUp == TimeIsUp("graceful", GraceWait)

\* Stop cuts the streams; GracefulStop is still waited for.
ForceStop ==
    /\ GraceIsUp
    /\ GoOn("forced")
    /\ UNCHANGED slowest

ForceIsUp_noWait_bug == stage = "forced"

ForceIsUp == TimeIsUp("forced", ForceWait)

\* main returns although a handler is still at work.
GiveUp ==
    /\ ForceIsUp
    /\ GoOn("exited")
    /\ UNCHANGED slowest

-----------------------------------------------------------------------------
(* The world around it. *)

\* systemd kills a process that has not stopped in time.
Kill ==
    /\ cause = "signal" /\ ~Ended /\ clock = StopSec
    /\ GoOn("killed")
    /\ UNCHANGED slowest

\* Time passes, unless something has to happen now.
Tick ==
    /\ stage \in {"http", "graceful", "forced"}
    /\ ~HttpStopped
    /\ ~TimeIsUp("graceful", GraceWait) /\ ~TimeIsUp("forced", ForceWait)
    /\ ~(cause = "signal" /\ clock = StopSec)
    /\ TimeIsUp("forced", EndTime) => GrpcStopped
    /\ clock' = clock + 1
    /\ UNCHANGED <<mainVars, requests, agentVars>>

Main == StopHttp \/ StopGrpc \/ ForceStop \/ GiveUp

Next ==
    \/ Leave \/ Main \/ Kill \/ Tick
    \/ \E r \in Request : Accept(r) \/ Answer(r)
    \/ \E a \in Agent : \/ Hello(a) \/ FirstTask(a) \/ HelloFails(a)
                        \/ SendTask(a) \/ Progress(a) \/ TaskEnds(a)
                        \/ CallbackReturns(a) \/ HandlerEnds(a)
    \/ OtherSave

Spec == Init /\ [][Next]_vars

\* main goes on when it can, time passes, systemd keeps its word, and a handler
\* whose stream was cut returns.
Fairness ==
    /\ WF_vars(Main) /\ WF_vars(Kill) /\ WF_vars(Tick)
    /\ \A a \in Agent : WF_vars(stage = "forced" /\ (HelloFails(a) \/ HandlerEnds(a)))

FairSpec == Spec /\ Fairness

-----------------------------------------------------------------------------

\* main ends, whatever requests, streams and callbacks are under way; agents keep
\* their streams open for ever if nobody cuts them.
Stops == stage # "running" ~> Ended

\* systemd has to kill the process only when an HTTP request took most of the time;
\* streams, tasks and callbacks alone never use up what systemd allows.
KilledOnlyBySlowRequest ==
    stage = "killed" => slowest + GraceWait + ForceWait >= StopSec

\* A request that is cut off by the end of the process had been given HttpWait.
RequestsGetTheirTime ==
    stage = "exited" /\ requests # {} => slowest = HttpWait

\* What a limit cuts short has used up its time: systemd kills only after a slow
\* request, and a request is cut only when its whole time has passed.
LimitsAreFair == KilledOnlyBySlowRequest /\ RequestsGetTheirTime

\* A process that ends by itself leaves no agent online and no task with an agent in
\* memory, tasks handed out while it was stopping included, nor in the file unless the
\* last save failed.  Agents are exempted while they are as the file of an earlier
\* process left them, and after a hello whose handler returned before the defer: such
\* an agent stays online with its task.
ExitFreesTasks ==
    stage = "exited" =>
       \A a \in Agent \ unserved :
          /\ ~online[a] /\ ~held[a]
          /\ unsaved \/ ~(disk.online[a] \/ disk.held[a])
=============================================================================
