-------------------------- MODULE TaskStoreProofs ---------------------------
(***************************************************************************)
(* The invariants of TaskStore for every set of tasks and agents, every    *)
(* routing of them, and with saves that may fail.                          *)
(*                                                                         *)
(* A save or a restart copies one table over the other, so the invariant   *)
(* is one predicate, Good, kept by each operation on a table and stated    *)
(* for memory and for the file; what relates the two is DiskBehind.        *)
(***************************************************************************)
EXTENDS TaskStore, TLAPS

Good(s) == /\ s \in StoreState
           /\ HeldRight(s)
           /\ PendingFree(s)
           /\ AssignedHeld(s)

DiskBehind == \A t \in Task : Exists(disk, t) => Exists(mem, t)

IInv == Good(mem) /\ Good(disk) /\ DiskBehind

-----------------------------------------------------------------------------
(* Each operation keeps a good table good and forgets no task. *)

\* Two agents never hold the same task of a good table, because the task names
\* its one assignee (Task.AssignedAgentID, set with Agent.CurrentTaskID).
LEMMA OneHolder ==
    ASSUME NEW s, HeldRight(s), NEW a \in Agent, NEW b \in Agent, NEW t \in Task,
           Holds(s, a, t), Holds(s, b, t)
    PROVE  a = b
BY DEF HeldRight

\* The empty tables of NewStore are good.
LEMMA EmptyGood == Good(EmptyStore)
BY StoreAssumption
   DEF Good, EmptyStore, StoreState, Status, HeldRight, PendingFree, AssignedHeld, Holds

\* Inserting new tasks keeps the tables good (AddTasks).
LEMMA AddTasksGood ==
    ASSUME NEW s, Good(s), NEW ts \in SUBSET Task, \A t \in ts : ~Exists(s, t)
    PROVE  /\ Good(AddTasks(s, ts))
           /\ \A t \in Task : Exists(s, t) => Exists(AddTasks(s, ts), t)
<1> DEFINE n == AddTasks(s, ts)
<1>1. n \in StoreState
  BY DEF Good, AddTasks, StoreState, Status
<1>2. \A t \in Task : n.status[t] = IF t \in ts THEN "PENDING" ELSE s.status[t]
  BY DEF Good, AddTasks, StoreState
<1>3. n.assignee = s.assignee /\ n.current = s.current
  BY DEF Good, AddTasks, StoreState
<1>4. HeldRight(n)
  BY <1>2, <1>3 DEF Good, HeldRight, Holds, Exists
<1>5. PendingFree(n)
  \* a new task was absent, so by HeldRight nobody holds it
  BY <1>2, <1>3 DEF Good, HeldRight, PendingFree, Holds, Exists
<1>6. AssignedHeld(n)
  BY <1>2, <1>3 DEF Good, AssignedHeld, Holds
<1> QED
  BY <1>1, <1>2, <1>4, <1>5, <1>6 DEF Good, Exists

\* Registering an agent or hearing its heartbeat touches only its link, and so
\* keeps the tables good (UpsertAgent, MarkHeartbeat).
LEMMA OnlineGood ==
    ASSUME NEW s, Good(s), NEW a \in Agent
    PROVE  /\ Good([s EXCEPT !.link[a] = "online"])
           /\ \A t \in Task : Exists([s EXCEPT !.link[a] = "online"], t) <=> Exists(s, t)
<1> DEFINE n == [s EXCEPT !.link[a] = "online"]
<1>1. n \in StoreState
  BY DEF Good, StoreState
<1>2. n.status = s.status /\ n.assignee = s.assignee /\ n.current = s.current
  BY DEF Good, StoreState
<1> QED
  BY <1>1, <1>2 DEF Good, HeldRight, PendingFree, AssignedHeld, Holds, Exists

\* The end of a stream requeues the agent's task and keeps the tables good
\* (MarkAgentOffline): nobody else held that task.
LEMMA MarkAgentOfflineGood ==
    ASSUME NEW s, Good(s), NEW a \in Agent, Known(s, a)
    PROVE  /\ Good(MarkAgentOffline(s, a))
           /\ \A t \in Task : Exists(s, t) => Exists(MarkAgentOffline(s, a), t)
<1> DEFINE n == MarkAgentOffline(s, a)
<1> USE DEF Good
<1>1. CASE s.current[a] = NoTask
  <2> DEFINE m == [s EXCEPT !.link[a] = "offline", !.current[a] = NoTask]
  <2>1. n = m
    BY <1>1, StoreAssumption DEF MarkAgentOffline, Requeue
  <2>2. n \in StoreState /\ n.status = s.status /\ n.assignee = s.assignee
    <3>1. m \in StoreState /\ m.status = s.status /\ m.assignee = s.assignee
      BY DEF StoreState
    <3> HIDE DEF m, n
    <3> QED
      BY <2>1, <3>1
  <2>3. n.current = s.current
    BY <2>1, <1>1 DEF StoreState
  <2> QED
    BY <2>2, <2>3 DEF HeldRight, PendingFree, AssignedHeld, Holds, Exists
<1>2. CASE s.current[a] # NoTask
  <2> DEFINE u == s.current[a]
  <2>1. u \in Task /\ Exists(s, u)
    BY <1>2 DEF StoreState, HeldRight, Holds
  <2>2. n = [s EXCEPT !.status[u] = "PENDING", !.assignee[u] = NoAgent,
                      !.link[a] = "offline", !.current[a] = NoTask]
    BY <2>1 DEF MarkAgentOffline, Requeue
  <2>3. n \in StoreState
    <3> DEFINE m == [s EXCEPT !.status[u] = "PENDING", !.assignee[u] = NoAgent,
                              !.link[a] = "offline", !.current[a] = NoTask]
    <3>1. m \in StoreState
      BY <2>1 DEF StoreState, Status
    <3> HIDE DEF m, n
    <3> QED
      BY <2>2, <3>1 DEF m
  <2>4. /\ \A t \in Task : n.status[t] = IF t = u THEN "PENDING" ELSE s.status[t]
        /\ \A t \in Task : n.assignee[t] = IF t = u THEN NoAgent ELSE s.assignee[t]
        /\ \A b \in Agent : n.current[b] = IF b = a THEN NoTask ELSE s.current[b]
    BY <2>1, <2>2 DEF StoreState
  <2>5. \A b \in Agent : n.current[b] # u
    BY <2>1, <2>4, OneHolder, StoreAssumption DEF Holds
  <2>6. HeldRight(n)
    BY <2>4, <2>5, StoreAssumption DEF HeldRight, Holds, Exists
  <2>7. PendingFree(n)
    BY <2>4, <2>5, StoreAssumption DEF PendingFree, Holds
  <2>8. AssignedHeld(n)
    \* an assigned task other than u has another holder than a
    BY <2>1, <2>4 DEF AssignedHeld, HeldRight, Holds
  <2> QED
    BY <2>3, <2>4, <2>6, <2>7, <2>8 DEF Exists
<1> QED
  BY <1>1, <1>2

\* Giving an idle agent a task chosen by AssignNextTask keeps the tables good.
LEMMA AssignGood ==
    ASSUME NEW s, Good(s), NEW a \in Agent, NEW t \in Choices(s, a)
    PROVE  /\ Good(AssignTo(s, a, t))
           /\ \A u \in Task : Exists(s, u) => Exists(AssignTo(s, a, t), u)
<1> DEFINE n == AssignTo(s, a, t)
<1> USE DEF Good
<1>1. /\ t \in Task /\ s.status[t] = "PENDING" /\ Matches(t, a)
      /\ s.current[a] = NoTask
  BY DEF Choices, Oldest, Assignable
<1>2. n \in StoreState
  BY <1>1 DEF AssignTo, StoreState, Status
<1>3. /\ \A u \in Task : n.status[u] = IF u = t THEN "ASSIGNED" ELSE s.status[u]
      /\ \A u \in Task : n.assignee[u] = IF u = t THEN a ELSE s.assignee[u]
      /\ \A b \in Agent : n.current[b] = IF b = a THEN t ELSE s.current[b]
  BY <1>1 DEF AssignTo, StoreState
<1>4. HeldRight(n)
  \* the chosen task was pending, so nobody held it before
  BY <1>1, <1>3 DEF HeldRight, PendingFree, Holds, Exists
<1>5. PendingFree(n)
  BY <1>1, <1>3 DEF PendingFree, Holds
<1>6. AssignedHeld(n)
  BY <1>1, <1>3, StoreAssumption DEF AssignedHeld, Holds
<1> QED
  BY <1>1, <1>2, <1>3, <1>4, <1>5, <1>6 DEF Exists

\* A report about any task that exists, by any agent, keeps the tables good: no
\* report makes a task PENDING or ASSIGNED, and only a final one frees an agent.
LEMMA UpdateTaskProgressGood ==
    ASSUME NEW s, Good(s), NEW a \in Agent, NEW t \in Task, Exists(s, t),
           NEW st \in Reported
    PROVE  /\ Good(UpdateTaskProgress(s, a, t, st))
           /\ \A u \in Task : Exists(s, u) => Exists(UpdateTaskProgress(s, a, t, st), u)
<1> DEFINE n == UpdateTaskProgress(s, a, t, st)
<1> USE DEF Good
<1>1. n \in StoreState
  BY DEF UpdateTaskProgress, StoreState, Status, Reported
<1>2. /\ \A u \in Task : n.status[u] = IF u = t THEN st ELSE s.status[u]
      /\ n.assignee = s.assignee
      /\ \A b \in Agent : b # a => n.current[b] = s.current[b]
      /\ n.current[a] = s.current[a] \/ (s.current[a] = t /\ n.current[a] = NoTask)
  BY DEF UpdateTaskProgress, StoreState
<1>3. st \notin {"ABSENT", "PENDING", "ASSIGNED"}
  BY DEF Reported
<1>4. HeldRight(n)
  BY <1>2, <1>3, StoreAssumption DEF HeldRight, Holds, Exists
<1>5. PendingFree(n)
  BY <1>2, <1>3, StoreAssumption DEF PendingFree, Holds
<1>6. AssignedHeld(n)
  BY <1>2, <1>3 DEF AssignedHeld, Holds
<1> QED
  BY <1>1, <1>2, <1>3, <1>4, <1>5, <1>6 DEF Exists

-----------------------------------------------------------------------------
(* The invariant of the specification. *)

\* A change of memory that keeps it good and forgets no task keeps the invariant,
\* whether its save succeeds or not.
LEMMA ApplyKeeps ==
    ASSUME IInv, NEW s, Good(s), \A t \in Task : Exists(mem, t) => Exists(s, t), Apply(s)
    PROVE  IInv'
BY DEF IInv, DiskBehind, Apply, saveLocked, Good, Exists, HeldRight, PendingFree,
       AssignedHeld, Holds

\* The invariant holds of the empty tables.
LEMMA InitIInv == Init => IInv
BY EmptyGood DEF Init, IInv, DiskBehind

\* Every call of the store, a failed save and a restart keep the invariant.
LEMMA NextIInv == IInv /\ [Next]_vars => IInv'
<1> SUFFICES ASSUME IInv, [Next]_vars PROVE IInv'
  OBVIOUS
<1>0. Good(mem)
  BY DEF IInv
<1>1. CASE Add
  BY <1>0, <1>1, AddTasksGood, ApplyKeeps DEF Add
<1>2. CASE Restart
  BY <1>2 DEF Restart, IInv, DiskBehind, Good, Exists, HeldRight, PendingFree,
              AssignedHeld, Holds
<1>3. ASSUME NEW a \in Agent, Upsert(a) PROVE IInv'
  BY <1>0, <1>3, OnlineGood, ApplyKeeps DEF Upsert, UpsertAgent
<1>4. ASSUME NEW a \in Agent, Heartbeat(a) PROVE IInv'
  BY <1>0, <1>4, OnlineGood, ApplyKeeps DEF Heartbeat, MarkHeartbeat
<1>5. ASSUME NEW a \in Agent, Offline(a) PROVE IInv'
  BY <1>0, <1>5, MarkAgentOfflineGood, ApplyKeeps DEF Offline
<1>6. ASSUME NEW a \in Agent, Assign(a) PROVE IInv'
  BY <1>0, <1>6, AssignGood, ApplyKeeps DEF Assign
<1>7. ASSUME NEW a \in Agent, Progress(a) PROVE IInv'
  BY <1>0, <1>7, UpdateTaskProgressGood, ApplyKeeps DEF Progress
<1>8. CASE UNCHANGED vars
  BY <1>8 DEF vars, IInv, DiskBehind, Good, Exists, HeldRight, PendingFree,
              AssignedHeld, Holds
<1> QED
  BY <1>1, <1>2, <1>3, <1>4, <1>5, <1>6, <1>7, <1>8 DEF Next

\* The strengthened invariant holds in every reachable state.
THEOREM Invariance == Spec => []IInv
BY InitIInv, NextIInv, PTL DEF Spec

\* Memory and file always hold well-formed tables.
THEOREM TypeCorrect == Spec => []TypeOK
<1>1. IInv => TypeOK
  BY DEF IInv, Good, TypeOK
<1> QED
  BY <1>1, Invariance, PTL

\* The task an agent holds names this agent, exists and was routed to it, in
\* memory and in the file, for any number of agents, streams and restarts.
THEOREM HolderCorrect == Spec => []HolderIsAssignee
<1>1. IInv => HolderIsAssignee
  BY DEF IInv, Good, HolderIsAssignee
<1> QED
  BY <1>1, Invariance, PTL

\* A task that waits for dispatch is held by no agent.
THEOREM PendingCorrect == Spec => []PendingIsFree
<1>1. IInv => PendingIsFree
  BY DEF IInv, Good, PendingIsFree
<1> QED
  BY <1>1, Invariance, PTL

\* A task that was given out and not reported on is held by its assignee.
THEOREM AssignedCorrect == Spec => []AssignedIsHeld
<1>1. IInv => AssignedIsHeld
  BY DEF IInv, Good, AssignedIsHeld
<1> QED
  BY <1>1, Invariance, PTL
-----------------------------------------------------------------------------
(* What a step may not do. *)

Durable == \A t \in Task : Exists(disk, t) => Exists(disk', t) /\ Exists(mem', t)

\* A change that forgets no task of memory loses none of the file either, even
\* when its save fails.
LEMMA ApplyDurable ==
    ASSUME IInv, NEW s, \A t \in Task : Exists(mem, t) => Exists(s, t), Apply(s)
    PROVE  Durable
BY DEF IInv, DiskBehind, Apply, saveLocked, Durable, Exists

\* A task that reached the file stays in the file and in memory.
THEOREM TasksStay == Spec => TasksAreDurable
<1>1. IInv /\ [Next]_vars => [Durable]_vars
  <2> SUFFICES ASSUME IInv, Next PROVE Durable
    OBVIOUS
  <2>0. Good(mem)
    BY DEF IInv
  <2>1. CASE Add
    BY <2>0, <2>1, AddTasksGood, ApplyDurable DEF Add
  <2>2. CASE Restart
    BY <2>2 DEF Restart, Durable, Exists
  <2>3. ASSUME NEW a \in Agent, Upsert(a) PROVE Durable
    BY <2>0, <2>3, OnlineGood, ApplyDurable DEF Upsert, UpsertAgent
  <2>4. ASSUME NEW a \in Agent, Heartbeat(a) PROVE Durable
    BY <2>0, <2>4, OnlineGood, ApplyDurable DEF Heartbeat, MarkHeartbeat
  <2>5. ASSUME NEW a \in Agent, Offline(a) PROVE Durable
    BY <2>0, <2>5, MarkAgentOfflineGood, ApplyDurable DEF Offline
  <2>6. ASSUME NEW a \in Agent, Assign(a) PROVE Durable
    BY <2>0, <2>6, AssignGood, ApplyDurable DEF Assign
  <2>7. ASSUME NEW a \in Agent, Progress(a) PROVE Durable
    BY <2>0, <2>7, UpdateTaskProgressGood, ApplyDurable DEF Progress
  <2> QED
    BY <2>1, <2>2, <2>3, <2>4, <2>5, <2>6, <2>7 DEF Next
<1> QED
  BY <1>1, Invariance, PTL DEF Spec, TasksAreDurable, Durable

FreedProperly(a, t) ==
    \/ isFinalStatus(mem'.status[t])
    \/ mem'.status[t] = "PENDING" /\ mem'.link[a] = "offline"
    \/ mem' = disk

\* An agent loses the task it holds only by its own final report, by the end of
\* its stream, which requeues the task, or by a restart.
THEOREM HolderKept == Spec => LeavesHolderProperly
<1> DEFINE Kept == \A a \in Agent, t \in Task :
               (Holds(mem, a, t) /\ ~Holds(mem', a, t)) => FreedProperly(a, t)
<1>1. IInv /\ [Next]_vars => [Kept]_vars
  <2> SUFFICES ASSUME IInv, Next, NEW a \in Agent, NEW t \in Task,
                      Holds(mem, a, t), ~Holds(mem', a, t)
               PROVE  FreedProperly(a, t)
    OBVIOUS
  <2>0. mem \in StoreState /\ HeldRight(mem) /\ t # NoTask
    BY StoreAssumption DEF IInv, Good
  <2>1. CASE Add
    BY <2>0, <2>1 DEF Add, Apply, AddTasks, Holds, StoreState
  <2>2. CASE Restart
    BY <2>2 DEF Restart, FreedProperly
  <2>3. ASSUME NEW b \in Agent, Upsert(b) PROVE FALSE
    BY <2>0, <2>3 DEF Upsert, Apply, UpsertAgent, Holds, StoreState
  <2>4. ASSUME NEW b \in Agent, Heartbeat(b) PROVE FALSE
    BY <2>0, <2>4 DEF Heartbeat, Apply, MarkHeartbeat, Holds, StoreState
  <2>5. ASSUME NEW b \in Agent, Offline(b) PROVE FreedProperly(a, t)
    <3>1. Known(mem, b) /\ mem' = MarkAgentOffline(mem, b)
      BY <2>5 DEF Offline, Apply
    <3>2. b = a
      BY <2>0, <3>1 DEF MarkAgentOffline, Requeue, Holds, StoreState
    <3>3. Exists(mem, t) /\ mem.current[a] = t
      BY <2>0 DEF HeldRight, Holds
    <3>4. mem' = [mem EXCEPT !.status[t] = "PENDING", !.assignee[t] = NoAgent,
                             !.link[a] = "offline", !.current[a] = NoTask]
      BY <3>1, <3>2, <3>3 DEF MarkAgentOffline, Requeue
    <3> QED
      BY <2>0, <3>4 DEF FreedProperly, StoreState
  <2>6. ASSUME NEW b \in Agent, Assign(b) PROVE FALSE
    \* only an agent that holds nothing is given a task
    <3>1. PICK u \in Choices(mem, b) : mem' = AssignTo(mem, b, u)
      BY <2>6 DEF Assign, Apply
    <3>2. mem.current[b] = NoTask
      BY <3>1 DEF Choices
    <3> QED
      BY <2>0, <3>1, <3>2 DEF AssignTo, Holds, StoreState
  <2>7. ASSUME NEW b \in Agent, Progress(b) PROVE FreedProperly(a, t)
    <3>1. PICK u \in Task, st \in Reported : mem' = UpdateTaskProgress(mem, b, u, st)
      BY <2>7 DEF Progress, Apply
    <3>2. b = a /\ u = t /\ isFinalStatus(st)
      BY <2>0, <3>1 DEF UpdateTaskProgress, Holds, StoreState
    <3>3. mem'.status[t] = st
      BY <2>0, <3>1, <3>2 DEF UpdateTaskProgress, StoreState
    <3> QED
      BY <3>2, <3>3 DEF FreedProperly
  <2> QED
    BY <2>1, <2>2, <2>3, <2>4, <2>5, <2>6, <2>7 DEF Next
<1> QED
  BY <1>1, Invariance, PTL DEF Spec, LeavesHolderProperly, FreedProperly
=============================================================================
