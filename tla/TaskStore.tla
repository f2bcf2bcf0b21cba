----------------------------- MODULE TaskStore ------------------------------
(***************************************************************************)
(* The store on its own, called by anyone in any order: the handlers of    *)
(* several streams of the same agent, webhooks, and reports about tasks    *)
(* that were requeued meanwhile.  mem is Store.state, disk the JSON file.  *)
(* A save may fail after memory was changed; a restart loads the file.     *)
(***************************************************************************)
EXTENDS Store

CONSTANT SaveMayFail  \* whether saveLocked can return an error

ASSUME TaskStoreAssumption == SaveMayFail \in BOOLEAN

VARIABLES mem, disk
vars == <<mem, disk>>

saveLocked_inPlace_bug(s) == disk' = s \/ (SaveMayFail /\ disk' = EmptyStore)

\* Store.saveLocked: the file is replaced by a rename, so it is the old one or
\* the new one; memory is not rolled back when the write fails.
saveLocked(s) == disk' = s \/ (SaveMayFail /\ disk' = disk)

Apply(s) == mem' = s /\ saveLocked(s)

Init == mem = EmptyStore /\ disk = EmptyStore

Add == \E ts \in SUBSET Task :
    /\ ts # {}
    /\ \A t \in ts : ~Exists(mem, t)
    /\ Apply(AddTasks(mem, ts))

Upsert(a) == Apply(UpsertAgent(mem, a))

Heartbeat(a) == Known(mem, a) /\ Apply(MarkHeartbeat(mem, a))

Offline(a) == Known(mem, a) /\ Apply(MarkAgentOffline(mem, a))

Assign(a) == \E t \in Choices(mem, a) : Apply(AssignTo(mem, a, t))

Progress(a) == \E t \in Task, st \in Reported :
    /\ Exists(mem, t)
    /\ Apply(UpdateTaskProgress(mem, a, t, st))

\* The process ends at any moment; NewStore loads the file.
Restart == mem' = disk /\ UNCHANGED disk

Next ==
    \/ Add
    \/ Restart
    \/ \E a \in Agent :
          \/ Upsert(a)
          \/ Heartbeat(a)
          \/ Offline(a)
          \/ Assign(a)
          \/ Progress(a)

Spec == Init /\ [][Next]_vars

-----------------------------------------------------------------------------

\* Memory and the file are tables of tasks and agents.
TypeOK == mem \in StoreState /\ disk \in StoreState

HeldRight(s) == \A a \in Agent, t \in Task :
    Holds(s, a, t) => /\ s.assignee[t] = a
                      /\ Exists(s, t)
                      /\ Matches(t, a)

PendingFree(s) == \A a \in Agent, t \in Task :
    s.status[t] = "PENDING" => ~Holds(s, a, t)

AssignedHeld(s) == \A t \in Task :
    s.status[t] = "ASSIGNED" => s.assignee[t] \in Agent /\ Holds(s, s.assignee[t], t)

\* However calls, failed saves and restarts interleave, the task an agent holds
\* (Agent.CurrentTaskID) is one that exists, that was routed to its site and a
\* channel it subscribes to, and that names this agent and so no other as its
\* assignee: a requeue can free the task of no second agent.
HolderIsAssignee == HeldRight(mem) /\ HeldRight(disk)

\* A task waiting for dispatch is held by nobody: AssignNextTask never gives out
\* a task that some agent still holds.
PendingIsFree == PendingFree(mem) /\ PendingFree(disk)

\* A task that was given out and not yet reported on is held by its assignee, so
\* the end of that agent's stream requeues it: it cannot be lost between
\* AssignNextTask and the first report.
AssignedIsHeld == AssignedHeld(mem) /\ AssignedHeld(disk)

\* A task that once reached the file is never forgotten, neither by a failed save
\* nor by a restart.
TasksAreDurable == [][\A t \in Task :
    Exists(disk, t) => Exists(disk', t) /\ Exists(mem', t)]_vars

\* A task leaves an agent that holds it only by a final report of this agent, by
\* the end of its stream (the task waits again), or by a restart.
LeavesHolderProperly == [][\A a \in Agent, t \in Task :
    (Holds(mem, a, t) /\ ~Holds(mem', a, t)) =>
        \/ isFinalStatus(mem'.status[t])
        \/ mem'.status[t] = "PENDING" /\ mem'.link[a] = "offline"
        \/ mem' = disk]_vars
=============================================================================
