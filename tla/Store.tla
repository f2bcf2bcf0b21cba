------------------------------- MODULE Store --------------------------------
(***************************************************************************)
(* The relay's task and agent tables (internal/relay/store.go) and the     *)
(* operations on them, as operators from a state to the next one.  Every   *)
(* operation of the code runs under Store.mu, so each is one atomic change *)
(* of this state; saving it to disk is left to the modules that hold the   *)
(* state in variables (TaskStore, RelaySessions, Intake).  A definition    *)
(* whose name ends in _bug is a mistake the next definition does not make; *)
(* it is used only to see that a property notices it.                      *)
(*                                                                         *)
(* Left out: what only the read-only API shows (Message, Attempts,         *)
(* UpdatedAt, LastSeenAt, Version, target refs).  The callback result of a *)
(* task is kept in RelaySessions, notification jobs in NotifyQueue.        *)
(***************************************************************************)
EXTENDS Naturals, FiniteSets

CONSTANTS
    Task,        \* ids of the tasks webhooks may create (buildTaskID: always fresh)
    Agent,       \* agent ids
    Site, Channel,
    TaskSite,    \* site_name of a task
    TaskChannel, \* channel of a task
    CreatedAt,   \* creation time of a task, taken before AddTasks; ties are possible
    AgentSite,     \* site_name an agent sends in its hello
    AgentChannels, \* channels an agent sends in its hello; {} subscribes to all
    NoAgent, NoTask

\* "*" in an agent's channel list subscribes to every channel.
AnyChannel == "*"

ASSUME StoreAssumption ==
    /\ TaskSite \in [Task -> Site]
    /\ TaskChannel \in [Task -> Channel]
    /\ CreatedAt \in [Task -> Nat]
    /\ AgentSite \in [Agent -> Site]
    /\ AgentChannels \in [Agent -> SUBSET (Channel \cup {AnyChannel})]
    /\ NoAgent \notin Agent
    /\ NoTask \notin Task

-----------------------------------------------------------------------------

Status == {"ABSENT", "PENDING", "ASSIGNED", "PULLING", "PUSHING", "DONE",
           "FAILED", "CALLBACK_PENDING"}

\* The statuses an agent reports (handleTask sends no other).
Reported == {"PULLING", "PUSHING", "DONE", "FAILED"}

isFinalStatus(st) == st \in {"DONE", "FAILED", "CALLBACK_PENDING"}

\* State.Tasks and State.Agents.  "ABSENT" is a task, "unknown" an agent, that
\* the map does not hold.
StoreState ==
    [status   : [Task -> Status],
     assignee : [Task -> Agent \cup {NoAgent}],
     link     : [Agent -> {"unknown", "online", "offline"}],
     current  : [Agent -> Task \cup {NoTask}]]

EmptyStore ==
    [status   |-> [t \in Task |-> "ABSENT"],
     assignee |-> [t \in Task |-> NoAgent],
     link     |-> [a \in Agent |-> "unknown"],
     current  |-> [a \in Agent |-> NoTask]]

Exists(s, t) == s.status[t] # "ABSENT"
Known(s, a) == s.link[a] # "unknown"
Holds(s, a, t) == s.current[a] = t

-----------------------------------------------------------------------------
(* Dispatch: which task an agent is given. *)

channelAllowed(c, channels) ==
    \/ channels = {}
    \/ AnyChannel \in channels
    \/ c \in channels

Matches(t, a) ==
    /\ TaskSite[t] = AgentSite[a]
    /\ channelAllowed(TaskChannel[t], AgentChannels[a])

Assignable_anyOpenTask_bug(s, a) ==
    {t \in Task : Exists(s, t) /\ ~isFinalStatus(s.status[t]) /\ Matches(t, a)}

Assignable(s, a) == {t \in Task : s.status[t] = "PENDING" /\ Matches(t, a)}

\* Tasks of equal age are met in the order of a Go map: any of them.
Oldest(ts) == {t \in ts : \A u \in ts : CreatedAt[t] <= CreatedAt[u]}

Choices_busyAgent_bug(s, a) ==
    IF Known(s, a) THEN Oldest(Assignable(s, a)) ELSE {}

\* What AssignNextTask may choose for agent a; empty when it returns nil.
Choices(s, a) ==
    IF Known(s, a) /\ s.current[a] = NoTask THEN Oldest(Assignable(s, a)) ELSE {}

-----------------------------------------------------------------------------
(* The operations. *)

AddTasks(s, ts) ==
    [s EXCEPT !.status = [t \in Task |-> IF t \in ts THEN "PENDING" ELSE s.status[t]]]

\* The current task of an agent that is already known is kept.
UpsertAgent(s, a) == [s EXCEPT !.link[a] = "online"]

MarkHeartbeat(s, a) == IF Known(s, a) THEN [s EXCEPT !.link[a] = "online"] ELSE s

Requeue_assignedOnly_bug(s, t) ==
    IF t \in Task /\ s.status[t] = "ASSIGNED"
    THEN [s EXCEPT !.status[t] = "PENDING", !.assignee[t] = NoAgent]
    ELSE s

\* The task the agent holds is requeued whatever its status is.
Requeue(s, t) ==
    IF t \in Task /\ Exists(s, t)
    THEN [s EXCEPT !.status[t] = "PENDING", !.assignee[t] = NoAgent]
    ELSE s

MarkAgentOffline_keepsTask_bug(s, a) ==
    IF Known(s, a) THEN [Requeue(s, s.current[a]) EXCEPT !.link[a] = "offline"] ELSE s

MarkAgentOffline(s, a) ==
    IF Known(s, a)
    THEN [Requeue(s, s.current[a]) EXCEPT !.link[a] = "offline", !.current[a] = NoTask]
    ELSE s

AssignTo_swapped_bug(s, a, t) ==
    [s EXCEPT !.status[t] = "ASSIGNED", !.assignee[t] = t,
              !.current[a] = t, !.link[a] = "online"]

AssignTo(s, a, t) ==
    [s EXCEPT !.status[t] = "ASSIGNED", !.assignee[t] = a,
              !.current[a] = t, !.link[a] = "online"]

UpdateTaskProgress_freesEarly_bug(s, a, t, st) ==
    [s EXCEPT !.status[t] = st,
              !.link[a] = IF Known(s, a) THEN "online" ELSE @,
              !.current[a] = IF Known(s, a) /\ @ = t THEN NoTask ELSE @]

\* Neither the assignee nor the previous status of the task is looked at.
UpdateTaskProgress(s, a, t, st) ==
    [s EXCEPT !.status[t] = st,
              !.link[a] = IF Known(s, a) THEN "online" ELSE @,
              !.current[a] = IF Known(s, a) /\ isFinalStatus(st) /\ @ = t THEN NoTask ELSE @]
=============================================================================
