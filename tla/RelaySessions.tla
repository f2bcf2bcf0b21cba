--------------------------- MODULE RelaySessions ----------------------------
(***************************************************************************)
(* Relay and agents over their streams.  On the relay's side one handler   *)
(* per stream (GRPCServer.Connect), which reads messages in order and      *)
(* calls the store between reads; on the agent's side the session loop     *)
(* (runOnce), and the goroutine that works on a task (handleTask), which   *)
(* outlives the session it was started in.                                 *)
(*                                                                         *)
(* A save may fail after memory was changed: most handlers then end with   *)
(* their stream.  A relay crash loses the streams, the position of each    *)
(* handler, and what was not saved.                                        *)
(***************************************************************************)
EXTENDS Store, Sequences

CONSTANTS
    StreamsPerAgent, \* handlers the relay may be running for one agent.  1: it
                     \* notices the end of a stream before the agent's next
                     \* hello; 2: an old stream may linger (half-open TCP
                     \* connection, no keepalive is configured)
    CallbackTask,    \* tasks with callback_enabled and a callback_url
    MaxDrops,        \* bound: lost connections in a behaviour
    MaxCrashes,      \* bound: relay crashes in a behaviour
    MaxSaveFails,    \* bound: failed saves in a behaviour
    MaxFaults        \* bound: all of these together

ASSUME SessionsAssumption ==
    /\ StreamsPerAgent \in Nat \ {0}
    /\ CallbackTask \subseteq Task
    /\ {MaxDrops, MaxCrashes, MaxSaveFails, MaxFaults} \subseteq Nat

Stream == Agent \X (1..StreamsPerAgent)
AgentOf(s) == s[1]

\* Messages of an agent: a heartbeat or a report about a task.
HeartbeatMsg == [kind |-> "heartbeat"]
Progress(t, st) == [kind |-> "progress", task |-> t, status |-> st]
AgentMsg == {HeartbeatMsg} \cup [kind : {"progress"}, task : Task, status : Reported]

VARIABLES
    mem,       \* Store.state
    callback,  \* Task.CallbackStatus
    disk,      \* both, as they are in the file
    saveFails,
    pc,        \* where the handler of a stream is
    reported,  \* the task whose DONE report a handler is serving
    conn,      \* the connection of a stream as its agent sees it
    up,        \* messages on their way to the relay
    down,      \* tasks on their way to the agent
    work,      \* what handleTask of the agent's current session is doing
    orphans,   \* tasks that handleTask of an ended session still works on
    busy,      \* Agent.busy, one flag for all sessions of an agent
    drops, crashes

storeVars == <<mem, callback, disk, saveFails>>
relayVars == <<pc, reported>>
netVars == <<conn, up, down>>
agentVars == <<work, orphans, busy>>
faultVars == <<drops, crashes>>
vars == <<storeVars, relayVars, netVars, agentVars, faultVars>>

\* There may be one more fault.
Faulty == drops + crashes + saveFails < MaxFaults

Idle == [task |-> NoTask, step |-> "idle"]

TypeOK ==
    /\ mem \in StoreState
    /\ callback \in [Task -> {"none", "failed", "success"}]
    /\ disk.store \in StoreState
    /\ disk.callback \in [Task -> {"none", "failed", "success"}]
    /\ saveFails \in 0..MaxSaveFails
    /\ pc \in [Stream -> {"none", "hello", "first", "recv", "callback", "assign", "exit"}]
    /\ reported \in [Stream -> Task \cup {NoTask}]
    /\ conn \in [Stream -> {"up", "down"}]
    /\ up \in [Stream -> Seq(AgentMsg)]
    /\ down \in [Stream -> Seq(Task)]
    /\ work \in [Agent -> {Idle} \cup [task : Task, step : {"pulling", "pushing"}]]
    /\ orphans \in [Agent -> SUBSET Task]
    /\ busy \in [Agent -> BOOLEAN]
    /\ drops \in 0..MaxDrops
    /\ crashes \in 0..MaxCrashes

Init ==
    /\ mem = EmptyStore
    /\ callback = [t \in Task |-> "none"]
    /\ disk = [store |-> mem, callback |-> callback]
    /\ saveFails = 0
    /\ pc = [s \in Stream |-> "none"]
    /\ reported = [s \in Stream |-> NoTask]
    /\ conn = [s \in Stream |-> "down"]
    /\ up = [s \in Stream |-> <<>>]
    /\ down = [s \in Stream |-> <<>>]
    /\ work = [a \in Agent |-> Idle]
    /\ orphans = [a \in Agent |-> {}]
    /\ busy = [a \in Agent |-> FALSE]
    /\ drops = 0
    /\ crashes = 0

-----------------------------------------------------------------------------
(* The relay: webhooks, and the handler of a stream. *)

Goto(s, l) == pc' = [pc EXCEPT ![s] = l]

\* saveLocked, at the end of each call of the store.
Saved ==
    /\ disk' = [store |-> mem', callback |-> callback']
    /\ UNCHANGED saveFails

SaveFails ==
    /\ saveFails < MaxSaveFails /\ Faulty
    /\ saveFails' = saveFails + 1
    /\ UNCHANGED disk

\* The handler reads no further: what has not been read is lost.
StopReading(s) == up' = [up EXCEPT ![s] = <<>>]

\* A webhook adds tasks; how it gets there is in Intake.
Submit == \E ts \in SUBSET Task :
    /\ ts # {}
    /\ \A t \in ts : ~Exists(mem, t)
    /\ mem' = AddTasks(mem, ts)
    /\ UNCHANGED <<callback, relayVars, netVars, agentVars, faultVars>>
    /\ Saved \/ SaveFails

\* The hello was received: the agent is registered.
Hello(s) ==
    /\ pc[s] = "hello"
    /\ mem' = UpsertAgent(mem, AgentOf(s))
    /\ UNCHANGED <<callback, reported, conn, down, agentVars, faultVars>>
    /\ \/ Saved /\ Goto(s, "first") /\ UNCHANGED up
       \/ SaveFails /\ Goto(s, "none") /\ StopReading(s)

\* The stream ended before its hello, or before the ack: Connect returns before
\* the deferred MarkAgentOffline is registered.
HelloFails(s) ==
    /\ pc[s] \in {"hello", "first"}
    /\ conn[s] = "down"
    /\ StopReading(s)
    /\ Goto(s, "none")
    /\ UNCHANGED <<storeVars, reported, conn, down, agentVars, faultVars>>

\* maybeSendTask finds nothing for the agent.
NothingToSend(s) ==
    /\ pc[s] \in {"first", "assign"}
    /\ Choices(mem, AgentOf(s)) = {}
    /\ Goto(s, "recv")
    /\ UNCHANGED <<storeVars, reported, netVars, agentVars, faultVars>>

\* maybeSendTask assigns a task and writes it to the stream.  On a stream that
\* ended the write may be taken all the same.
SendTask(s) ==
    /\ pc[s] \in {"first", "assign"}
    /\ \E t \in Choices(mem, AgentOf(s)) :
          /\ mem' = AssignTo(mem, AgentOf(s), t)
          /\ down' = [down EXCEPT ![s] =
                IF conn[s] = "up" THEN Append(@, t) ELSE @]
    /\ Goto(s, "recv")
    /\ UNCHANGED <<callback, reported, conn, up, agentVars, faultVars>>
    /\ Saved

\* The task was assigned, and then it is not saved, or not written to the stream.
\* The first time this returns before the defer, so the agent keeps the task it was
\* never sent.
SendTaskFails(s) ==
    /\ pc[s] \in {"first", "assign"}
    /\ \E t \in Choices(mem, AgentOf(s)) : mem' = AssignTo(mem, AgentOf(s), t)
    /\ StopReading(s)
    /\ Goto(s, IF pc[s] = "first" THEN "none" ELSE "exit")
    /\ UNCHANGED <<callback, reported, conn, down, agentVars, faultVars>>
    /\ SaveFails \/ (conn[s] = "down" /\ Saved)

RecvHeartbeat(s) ==
    /\ pc[s] = "recv"
    /\ up[s] # <<>> /\ Head(up[s]) = HeartbeatMsg
    /\ mem' = MarkHeartbeat(mem, AgentOf(s))
    /\ UNCHANGED <<callback, reported, conn, down, agentVars, faultVars>>
    /\ \/ Saved /\ Goto(s, "assign") /\ up' = [up EXCEPT ![s] = Tail(@)]
       \/ SaveFails /\ Goto(s, "exit") /\ StopReading(s)

PostsCallback_anyEnd_bug(m) == isFinalStatus(m.status) /\ m.task \in CallbackTask

PostsCallback(m) == m.status = "DONE" /\ m.task \in CallbackTask

\* A report is stored; for a DONE report of a task with a callback the handler
\* then posts the callback, before it reads on.  When the save fails memory has the
\* report, nobody is told of it, and the stream ends.
RecvProgress(s) ==
    /\ pc[s] = "recv"
    /\ up[s] # <<>> /\ Head(up[s]).kind = "progress"
    /\ UNCHANGED <<callback, conn, down, agentVars, faultVars>>
    /\ LET m == Head(up[s])
           posts == PostsCallback(m)
       IN  /\ mem' = UpdateTaskProgress(mem, AgentOf(s), m.task, m.status)
           /\ \/ /\ Saved
                 /\ up' = [up EXCEPT ![s] = Tail(@)]
                 /\ Goto(s, IF posts THEN "callback" ELSE "assign")
                 /\ reported' = [reported EXCEPT ![s] = IF posts THEN m.task ELSE NoTask]
              \/ /\ SaveFails
                 /\ StopReading(s)
                 /\ Goto(s, "exit")
                 /\ UNCHANGED reported

CallbackReturns_ifConnected_bug(s) ==
    /\ pc[s] = "callback"
    /\ \E r \in {"failed", "success"} :
          callback' = IF conn[s] = "up" THEN [callback EXCEPT ![reported[s]] = r]
                      ELSE callback
    /\ reported' = [reported EXCEPT ![s] = NoTask]
    /\ Goto(s, "assign")
    /\ UNCHANGED <<mem, netVars, agentVars, faultVars>>
    /\ Saved \/ SaveFails

\* TriggerCallback returned (15 s at most, or the stream has ended, which cancels it)
\* and its result is stored.
CallbackReturns(s) ==
    /\ pc[s] = "callback"
    /\ \E r \in {"failed", "success"} :
          callback' = [callback EXCEPT ![reported[s]] = r]
    /\ reported' = [reported EXCEPT ![s] = NoTask]
    /\ Goto(s, "assign")
    /\ UNCHANGED <<mem, netVars, agentVars, faultVars>>
    /\ Saved \/ SaveFails

\* Recv fails once the stream has ended, before or after messages were read that
\* had arrived.
RecvFails(s) ==
    /\ pc[s] = "recv"
    /\ conn[s] = "down"
    /\ StopReading(s)
    /\ Goto(s, "exit")
    /\ UNCHANGED <<storeVars, reported, conn, down, agentVars, faultVars>>

\* The deferred MarkAgentOffline, by agent id.
Exit(s) ==
    /\ pc[s] = "exit"
    /\ mem' = MarkAgentOffline(mem, AgentOf(s))
    /\ Goto(s, "none")
    /\ UNCHANGED <<callback, reported, netVars, agentVars, faultVars>>
    /\ Saved \/ SaveFails

HandlerStep(s) ==
    \/ Hello(s) \/ HelloFails(s)
    \/ NothingToSend(s) \/ SendTask(s) \/ SendTaskFails(s)
    \/ RecvHeartbeat(s) \/ RecvProgress(s) \/ CallbackReturns(s)
    \/ RecvFails(s) \/ Exit(s)

\* The relay process dies and is started again on its file: no handler is left,
\* and nobody is marked offline.
Crash ==
    /\ crashes < MaxCrashes /\ Faulty
    /\ crashes' = crashes + 1
    /\ mem' = disk.store
    /\ callback' = disk.callback
    /\ pc' = [s \in Stream |-> "none"]
    /\ reported' = [s \in Stream |-> NoTask]
    /\ up' = [s \in Stream |-> <<>>]
    /\ down' = [s \in Stream |-> <<>>]
    /\ UNCHANGED <<disk, saveFails, conn, agentVars, drops>>

-----------------------------------------------------------------------------
(* The agent. *)

Live(a) == {s \in Stream : AgentOf(s) = a /\ conn[s] = "up"}

\* runOnce opens a stream and sends the hello.
Dial(a) ==
    /\ Live(a) = {}
    /\ \E s \in Stream :
          /\ AgentOf(s) = a /\ pc[s] = "none"
          /\ Goto(s, "hello")
          /\ conn' = [conn EXCEPT ![s] = "up"]
          /\ up' = [up EXCEPT ![s] = <<>>]
          /\ down' = [down EXCEPT ![s] = <<>>]
    /\ UNCHANGED <<storeVars, reported, agentVars, faultVars>>

Leave_idleToo_bug(a, s) ==
    /\ conn' = [conn EXCEPT ![s] = "down"]
    /\ down' = [down EXCEPT ![s] = <<>>]
    /\ work' = [work EXCEPT ![a] = Idle]
    /\ orphans' = [orphans EXCEPT ![a] = @ \cup {work[a].task}]
    /\ UNCHANGED <<storeVars, relayVars, up, busy>>

\* runOnce returns and closes the connection; a handleTask that was running goes
\* on by itself.  Bound: one such handleTask per task.
Leave(a, s) ==
    /\ work[a].task \notin orphans[a]
    /\ conn' = [conn EXCEPT ![s] = "down"]
    /\ down' = [down EXCEPT ![s] = <<>>]
    /\ work' = [work EXCEPT ![a] = Idle]
    /\ orphans' = [orphans EXCEPT ![a] = @ \cup ({work[a].task} \ {NoTask})]
    /\ UNCHANGED <<storeVars, relayVars, up, busy>>

\* The connection breaks under the agent.
Drop(a) == \E s \in Live(a) :
    /\ drops < MaxDrops /\ Faulty
    /\ drops' = drops + 1
    /\ Leave(a, s)
    /\ UNCHANGED crashes

\* The relay's end of the stream is gone, so Recv fails.
NoticeEnd(a) == \E s \in Live(a) :
    /\ pc[s] = "none"
    /\ Leave(a, s)
    /\ UNCHANGED faultVars

\* The session is older than max_session_age (30 minutes unless configured, so
\* the relay has answered its hello) and the agent is not busy.  This is looked at
\* after each heartbeat; that heartbeat is the SendHeartbeat before this step.
Rotate(a) == \E s \in Live(a) :
    /\ pc[s] \notin {"hello", "first"}
    /\ ~busy[a]
    /\ Leave(a, s)
    /\ UNCHANGED faultVars

\* Bound: one heartbeat on its way at a time.
SendHeartbeat(a) == \E s \in Live(a) :
    /\ \A i \in DOMAIN up[s] : up[s][i] # HeartbeatMsg
    /\ up' = [up EXCEPT ![s] = Append(@, HeartbeatMsg)]
    /\ UNCHANGED <<storeVars, relayVars, conn, down, agentVars, faultVars>>

\* handleTask starts: busy, and PULLING is reported.
StartTask(a) == \E s \in Live(a) :
    /\ work[a] = Idle
    /\ down[s] # <<>>
    /\ down' = [down EXCEPT ![s] = Tail(@)]
    /\ up' = [up EXCEPT ![s] = Append(@, Progress(Head(down[s]), "PULLING"))]
    /\ work' = [work EXCEPT ![a] = [task |-> Head(down[s]), step |-> "pulling"]]
    /\ busy' = [busy EXCEPT ![a] = TRUE]
    /\ UNCHANGED <<storeVars, relayVars, conn, orphans, faultVars>>

\* The image was pulled and has tags to push.
Pulled(a) == \E s \in Live(a) :
    /\ work[a].step = "pulling"
    /\ up' = [up EXCEPT ![s] = Append(@, Progress(work[a].task, "PUSHING"))]
    /\ work' = [work EXCEPT ![a].step = "pushing"]
    /\ UNCHANGED <<storeVars, relayVars, conn, down, orphans, busy, faultVars>>

\* handleTask returns with its last report: every tag was pushed, or a login,
\* the pull, a tag or a push failed.
EndTask(a) == \E s \in Live(a), st \in {"DONE", "FAILED"} :
    /\ work[a] # Idle
    /\ st = "DONE" => work[a].step = "pushing"
    /\ up' = [up EXCEPT ![s] = Append(@, Progress(work[a].task, st))]
    /\ work' = [work EXCEPT ![a] = Idle]
    /\ busy' = [busy EXCEPT ![a] = FALSE]
    /\ UNCHANGED <<storeVars, relayVars, conn, down, orphans, faultVars>>

\* The handleTask of an ended session fails to report and returns.
OrphanEnds(a) == \E t \in orphans[a] :
    /\ orphans' = [orphans EXCEPT ![a] = @ \ {t}]
    /\ busy' = [busy EXCEPT ![a] = FALSE]
    /\ UNCHANGED <<storeVars, relayVars, netVars, work, faultVars>>

WorkStep(a) == Pulled(a) \/ EndTask(a)

AgentStep(a) ==
    \/ Dial(a) \/ Drop(a) \/ NoticeEnd(a) \/ Rotate(a) \/ SendHeartbeat(a)
    \/ StartTask(a) \/ WorkStep(a) \/ OrphanEnds(a)

Next ==
    \/ Submit
    \/ Crash
    \/ \E s \in Stream : HandlerStep(s)
    \/ \E a \in Agent : AgentStep(a)

Spec == Init /\ [][Next]_vars
(* Fairness: handlers and goroutines that can go on do; an agent redials, sends *)
(* heartbeats and rotates old sessions for ever.                                *)
Fairness ==
    /\ \A s \in Stream : WF_vars(HandlerStep(s))
    /\ \A a \in Agent :
          /\ WF_vars(Dial(a))
          /\ WF_vars(NoticeEnd(a))
          /\ WF_vars(Rotate(a))
          /\ WF_vars(SendHeartbeat(a))
          /\ WF_vars(StartTask(a))
          /\ WF_vars(WorkStep(a))
          /\ WF_vars(OrphanEnds(a))

\* Stream s is closed by a rotation.
Rotates(s) == /\ conn[s] = "up" /\ conn'[s] = "down"
              /\ pc[s] # "none" /\ drops' = drops

\* A session lasts 30 minutes, a message some milliseconds: sooner or later no
\* rotation falls into the time a message of that session is under way.
MessagesOutrunRotations == <>[][\A s \in Stream :
    Rotates(s) => pc[s] = "recv" /\ up[s] = <<>> /\ down[s] = <<>>]_vars

\* Tasks may take longer than a session lasts.
FairSpec == Spec /\ Fairness /\ MessagesOutrunRotations

\* A task under way never sees the end of a session's time: tasks are short.
TasksOutrunRotations == <>[][\A s \in Stream :
    Rotates(s) => work[AgentOf(s)] = Idle]_vars

ShortTaskSpec == FairSpec /\ TasksOutrunRotations

-----------------------------------------------------------------------------
(* Properties that hold when an old stream ends before the next hello,     *)
(* which the code does not ensure: with StreamsPerAgent = 2 they fail.     *)

InProgress == {"ASSIGNED", "PULLING", "PUSHING"}

PhaseOf == [ABSENT |-> "absent", PENDING |-> "waiting", ASSIGNED |-> "assigned",
            PULLING |-> "pulling", PUSHING |-> "pushing", DONE |-> "done",
            FAILED |-> "failed", CALLBACK_PENDING |-> "failed"]

Queue == INSTANCE TaskQueue WITH
    phase <- [t \in Task |-> PhaseOf[mem.status[t]]],
    claimant <- [t \in Task |->
        IF mem.status[t] \in InProgress THEN mem.assignee[t] ELSE NoAgent]

\* Handlers and agents together do what TaskQueue promises: no message that was
\* lost, left over from an earlier session or sent before a crash makes a task
\* skip a step, go back from its end, or be claimed by an agent that has another.
ImplementsQueue == Queue!Spec

\* Streams that both ends still use.
Attached(s) == conn[s] = "up" /\ pc[s] \notin {"none", "exit"}

WorksOn(a, t) == work[a].task = t /\ \E s \in Live(a) : Attached(s)

\* The copies of task t whose reports can reach the store.
Copies(t) == {c \in Stream \X (1..Cardinality(Task)) :
                 /\ Attached(c[1])
                 /\ c[2] \in DOMAIN down[c[1]] /\ down[c[1]][c[2]] = t}
             \cup {a \in Agent : WorksOn(a, t)}

\* A task in progress is held by its assignee: when this agent's stream ends it is
\* requeued, so nothing strands a task between the agents.
NothingStranded == \A t \in Task :
    mem.status[t] \in InProgress =>
        mem.assignee[t] \in Agent /\ Holds(mem, mem.assignee[t], t)

\* A task is under way in at most one place - one queue of assignments or one
\* handleTask that can report - and only at the agent that holds it, so a report
\* that arrives is about a task that its sender holds.
SentOnce == \A t \in Task :
    /\ Cardinality(Copies(t)) <= 1
    /\ \A a \in Agent : WorksOn(a, t) => Holds(mem, a, t)
    /\ \A s \in Stream : (Attached(s) /\ \E i \in DOMAIN down[s] : down[s][i] = t)
                            => Holds(mem, AgentOf(s), t)

\* An agent whose handler is reading from it is shown online by /api/v1/agents.
ServedIsOnline == \A s \in Stream :
    pc[s] \in {"first", "recv", "callback", "assign"} => mem.link[AgentOf(s)] = "online"

\* A task that was synchronised stays so: nothing requeues or redoes it, and its
\* callback result belongs to a task that is done.
DoneIsFinal == [][\A t \in Task : mem.status[t] = "DONE" => mem'.status[t] = "DONE"]_vars

\* A callback result is only ever recorded for a task that is shown as done.
CallbackMeansDone == \A t \in Task : callback[t] # "none" => mem.status[t] = "DONE"

\* What the read API shows of agents and tasks together is so.
ShownIsSo == ServedIsOnline /\ CallbackMeansDone

-----------------------------------------------------------------------------
(* Liveness, and what long sessions need. *)

\* A task that was queued and saved ends, although connections are lost, saves fail,
\* the relay crashes between any two steps, and an agent may keep a task it was never
\* sent.
EveryTaskEnds == \A t \in Task :
    mem.status[t] = "PENDING" /\ Exists(disk.store, t) ~> isFinalStatus(mem.status[t])

\* A callback that is enabled has a result for every task that is done, although
\* streams end while it waits; only a crash of the relay, or a report that could not
\* be saved, leaves a task without one for good.
CallbackHasResult == \A t \in CallbackTask :
    mem.status[t] = "DONE" ~> callback[t] # "none" \/ crashes + saveFails > 0
=============================================================================
