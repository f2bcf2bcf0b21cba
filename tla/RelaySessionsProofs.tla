------------------------ MODULE RelaySessionsProofs -------------------------
(***************************************************************************)
(* What RelaySessions keeps for every set of tasks and agents and every    *)
(* number of lost connections, crashes and failed saves, when a stream     *)
(* ends before the next hello of its agent (StreamsPerAgent = 1).          *)
(*                                                                         *)
(* The handler stores a report without looking at the status of the task,  *)
(* so what makes the store right is the content of the streams: Session    *)
(* relates the task the agent holds in the store, the reports on their way *)
(* about it, and what the agent is doing.                                  *)
(***************************************************************************)
EXTENDS RelaySessions, SequenceTheorems, FiniteSetTheorems, TLAPS

-----------------------------------------------------------------------------
(* Messages under way: the reports among them, in the order in which the   *)
(* statuses of a task follow each other.                                   *)

Rank == [ASSIGNED |-> 0, PULLING |-> 1, PUSHING |-> 2, DONE |-> 3, FAILED |-> 3]

IsReport(m) == m.kind = "progress"

Reports(q) == {q[i].status : i \in {k \in 1..Len(q) : IsReport(q[k])}}

About(q, t) == \A i \in 1..Len(q) : IsReport(q[i]) => q[i].task = t

InOrder(q) == \A i, j \in 1..Len(q) :
    i < j /\ IsReport(q[i]) /\ IsReport(q[j]) => Rank[q[i].status] < Rank[q[j].status]

\* What messages are made of.
LEMMA MsgTypes ==
    /\ HeartbeatMsg \in AgentMsg /\ ~IsReport(HeartbeatMsg)
    /\ \A t \in Task, st \in Reported :
          /\ Progress(t, st) \in AgentMsg /\ IsReport(Progress(t, st))
          /\ Progress(t, st).task = t /\ Progress(t, st).status = st
    /\ \A m \in AgentMsg : /\ IsReport(m) => m.task \in Task /\ m.status \in Reported
                           /\ ~IsReport(m) => m = HeartbeatMsg
BY DEF HeartbeatMsg, AgentMsg, IsReport, Progress

\* A stream that starts is empty.
LEMMA EmptyReports ==
    ASSUME NEW t PROVE Reports(<<>>) = {} /\ About(<<>>, t) /\ InOrder(<<>>)
BY DEF Reports, About, InOrder

\* The statuses reported on a stream are those an agent reports.
LEMMA ReportsTyped == ASSUME NEW q \in Seq(AgentMsg) PROVE Reports(q) \subseteq Reported
BY MsgTypes DEF Reports

\* Without reports messages are about every task.
LEMMA NoReports == ASSUME NEW q, Reports(q) = {} PROVE \A u : About(q, u)
<1> SUFFICES ASSUME NEW i \in 1..Len(q), IsReport(q[i]) PROVE FALSE
  BY DEF About
<1>1. q[i].status \in Reports(q)
  BY DEF Reports
<1> QED
  BY <1>1

\* A heartbeat is sent.
LEMMA AppendHeartbeat ==
    ASSUME NEW q \in Seq(AgentMsg), NEW t, About(q, t), InOrder(q)
    PROVE  LET n == Append(q, HeartbeatMsg)
           IN  n \in Seq(AgentMsg) /\ Reports(n) = Reports(q) /\ About(n, t) /\ InOrder(n)
<1> DEFINE n == Append(q, HeartbeatMsg)
<1>1. /\ n \in Seq(AgentMsg) /\ Len(n) = Len(q) + 1 /\ Len(q) \in Nat
      /\ \A i \in 1..Len(q) : n[i] = q[i]
      /\ n[Len(n)] = HeartbeatMsg
  BY MsgTypes, AppendProperties
<1> HIDE DEF n
<1>2. \A i \in 1..Len(n) : IsReport(n[i]) => i \in 1..Len(q)
  BY <1>1, MsgTypes
<1>3. Reports(n) = Reports(q)
  BY <1>1, <1>2 DEF Reports
<1>4. About(n, t) /\ InOrder(n)
  BY <1>1, <1>2 DEF About, InOrder
<1> QED
  BY <1>1, <1>3, <1>4 DEF n

\* A report that is later than all under way is sent.
LEMMA AppendProgress ==
    ASSUME NEW q \in Seq(AgentMsg), NEW t \in Task, About(q, t), InOrder(q),
           NEW st \in Reported, \A r \in Reports(q) : Rank[r] < Rank[st]
    PROVE  LET n == Append(q, Progress(t, st))
           IN  /\ n \in Seq(AgentMsg) /\ Reports(n) = Reports(q) \cup {st}
               /\ About(n, t) /\ InOrder(n)
<1> DEFINE m == Progress(t, st)
           n == Append(q, m)
<1>0. m \in AgentMsg /\ IsReport(m) /\ m.task = t /\ m.status = st
  BY MsgTypes
<1> HIDE DEF m
<1>1. /\ n \in Seq(AgentMsg) /\ Len(n) = Len(q) + 1 /\ Len(q) \in Nat
      /\ \A i \in 1..Len(q) : n[i] = q[i]
      /\ n[Len(n)] = m
  BY <1>0, AppendProperties
<1> HIDE DEF n
<1>2. \A i \in 1..Len(n) : i \in 1..Len(q) \/ i = Len(n)
  BY <1>1
<1>3. Reports(n) = Reports(q) \cup {st}
  BY <1>0, <1>1, <1>2 DEF Reports
<1>4. About(n, t)
  BY <1>0, <1>1, <1>2 DEF About
<1>5. InOrder(n)
  <2> SUFFICES ASSUME NEW i \in 1..Len(n), NEW j \in 1..Len(n), i < j,
                      IsReport(n[i]), IsReport(n[j])
               PROVE  Rank[n[i].status] < Rank[n[j].status]
    BY DEF InOrder
  <2>1. i \in 1..Len(q)
    BY <1>1, <1>2
  <2>2. CASE j \in 1..Len(q)
    BY <1>1, <2>1, <2>2 DEF InOrder
  <2>3. CASE j = Len(n)
    <3>1. n[i].status \in Reports(q)
      BY <1>1, <2>1 DEF Reports
    <3> QED
      BY <1>0, <1>1, <2>3, <3>1
  <2> QED
    BY <1>2, <2>2, <2>3
<1> QED
  BY <1>1, <1>3, <1>4, <1>5 DEF m, n

\* A message is read: the reports that are left are all later than one that was read.
LEMMA ReadHead ==
    ASSUME NEW q \in Seq(AgentMsg), NEW t, About(q, t), InOrder(q), q # <<>>
    PROVE  /\ Head(q) \in AgentMsg /\ Tail(q) \in Seq(AgentMsg)
           /\ About(Tail(q), t) /\ InOrder(Tail(q))
           /\ Head(q) = HeartbeatMsg => Reports(Tail(q)) = Reports(q)
           /\ IsReport(Head(q)) =>
                 /\ Head(q).task = t
                 /\ Reports(q) = Reports(Tail(q)) \cup {Head(q).status}
                 /\ \A r \in Reports(Tail(q)) : Rank[Head(q).status] < Rank[r]
<1> DEFINE n == Tail(q)
<1>1. /\ n \in Seq(AgentMsg) /\ Len(n) = Len(q) - 1 /\ Len(q) \in Nat \ {0}
      /\ Head(q) = q[1] /\ Head(q) \in AgentMsg
      /\ \A i \in 1..Len(n) : n[i] = q[i + 1]
  BY HeadTailProperties, EmptySeq, LenProperties
<1> HIDE DEF n
<1>2. \A i \in 1..Len(q) : i = 1 \/ i - 1 \in 1..Len(n)
  BY <1>1
<1>3. \A i \in 1..Len(n) : i + 1 \in 1..Len(q)
  BY <1>1
<1>4. About(n, t)
  BY <1>1, <1>3 DEF About
<1>5. InOrder(n)
  <2> SUFFICES ASSUME NEW i \in 1..Len(n), NEW j \in 1..Len(n), i < j,
                      IsReport(n[i]), IsReport(n[j])
               PROVE  Rank[n[i].status] < Rank[n[j].status]
    BY DEF InOrder
  <2>1. n[i] = q[i + 1] /\ n[j] = q[j + 1] /\ i + 1 < j + 1
    BY <1>1
  <2> QED
    BY <1>3, <2>1 DEF InOrder
<1>6. \A r \in Reports(n) : \E k \in 1..Len(q) : 1 < k /\ IsReport(q[k]) /\ q[k].status = r
  <2> SUFFICES ASSUME NEW i \in 1..Len(n), IsReport(n[i])
               PROVE  \E k \in 1..Len(q) : 1 < k /\ IsReport(q[k]) /\ q[k].status = n[i].status
    BY DEF Reports
  <2>1. n[i] = q[i + 1] /\ i + 1 \in 1..Len(q) /\ 1 < i + 1
    BY <1>1, <1>3
  <2> QED
    BY <2>1
<1>7. \A k \in 1..Len(q) : 1 < k /\ IsReport(q[k]) => q[k].status \in Reports(n)
  <2> SUFFICES ASSUME NEW k \in 1..Len(q), 1 < k, IsReport(q[k])
               PROVE  q[k].status \in Reports(n)
    OBVIOUS
  <2>1. k - 1 \in 1..Len(n) /\ n[k - 1] = q[k]
    BY <1>1, <1>2
  <2> QED
    BY <2>1 DEF Reports
<1>8. Reports(n) \subseteq Reports(q)
  BY <1>6 DEF Reports
<1>9. ASSUME NEW r \in Reports(q)
      PROVE  r \in Reports(n) \/ (IsReport(Head(q)) /\ r = Head(q).status)
  <2>1. PICK k \in 1..Len(q) : IsReport(q[k]) /\ q[k].status = r
    BY DEF Reports
  <2>2. CASE k = 1
    BY <1>1, <2>1, <2>2
  <2>3. CASE k # 1
    BY <1>1, <1>7, <2>1, <2>3
  <2> QED
    BY <2>2, <2>3
<1>10. ASSUME Head(q) = HeartbeatMsg PROVE Reports(n) = Reports(q)
  BY <1>8, <1>9, <1>10, MsgTypes
<1>11. ASSUME IsReport(Head(q))
       PROVE  /\ Head(q).task = t
              /\ Reports(q) = Reports(n) \cup {Head(q).status}
              /\ \A r \in Reports(n) : Rank[Head(q).status] < Rank[r]
  <2>1. 1 \in 1..Len(q) /\ IsReport(q[1])
    BY <1>1, <1>11
  <2>2. Head(q).task = t
    BY <1>1, <2>1 DEF About
  <2>3. Head(q).status \in Reports(q)
    BY <1>1, <2>1 DEF Reports
  <2>4. \A r \in Reports(n) : Rank[q[1].status] < Rank[r]
    BY <1>6, <2>1 DEF InOrder
  <2> QED
    BY <1>1, <1>8, <1>9, <2>2, <2>3, <2>4
<1> QED
  BY <1>1, <1>4, <1>5, <1>10, <1>11 DEF n
-----------------------------------------------------------------------------
(* The inductive invariant. *)

\* Reports rs of a task with status st are those that may still come, none twice
\* and none without the one before it.
Follows(st, rs) ==
    /\ rs # {} => st \in InProgress
    /\ \A r \in rs : Rank[st] < Rank[r]
    /\ "PUSHING" \in rs => st = "PULLING" \/ "PULLING" \in rs
    /\ "DONE" \in rs => st = "PUSHING" \/ "PUSHING" \in rs
    /\ "FAILED" \in rs => st \in {"PULLING", "PUSHING"} \/ "PULLING" \in rs

\* A stream whose agent holds task t, with status st, in the store: q on its way to
\* the relay, d on its way to the agent, and w what the agent is doing.
Session(t, st, q, d, w) ==
    /\ About(q, t) /\ InOrder(q) /\ Follows(st, Reports(q))
    /\ \/ d = <<>>
       \/ d = <<t>> /\ st = "ASSIGNED" /\ Reports(q) = {} /\ w = Idle
    /\ \/ w = Idle
       \/ /\ w = [task |-> t, step |-> "pulling"]
          /\ Reports(q) \subseteq {"PULLING"}
          /\ st = "PULLING" \/ "PULLING" \in Reports(q)
       \/ /\ w = [task |-> t, step |-> "pushing"]
          /\ Reports(q) \subseteq {"PULLING", "PUSHING"}
          /\ st = "PUSHING" \/ "PUSHING" \in Reports(q)

\* Tasks in progress and the agents that hold them name each other.
Matched(s) ==
    /\ \A a \in Agent, t \in Task :
          Holds(s, a, t) => s.status[t] \in InProgress /\ s.assignee[t] = a
    /\ \A t \in Task : s.status[t] \in InProgress =>
          s.assignee[t] \in Agent /\ Holds(s, s.assignee[t], t)

ResultsOfDone(s, results) == \A t \in Task : results[t] # "none" => s.status[t] = "DONE"

Tables == /\ Matched(mem) /\ ResultsOfDone(mem, callback)
          /\ Matched(disk.store) /\ ResultsOfDone(disk.store, disk.callback)

Held(s) == mem.current[AgentOf(s)]

\* A handler that reads from its agent has it online, and posts callbacks of tasks
\* that are done; on a connection that ended nothing is on its way to the agent or
\* worked on; and an open stream is a session.
StreamRight(s) ==
    /\ pc[s] \in {"first", "recv", "callback", "assign"} => mem.link[AgentOf(s)] = "online"
    /\ pc[s] = "callback" => reported[s] \in Task /\ mem.status[reported[s]] = "DONE"
    /\ conn[s] = "down" => down[s] = <<>> /\ work[AgentOf(s)] = Idle
    /\ pc[s] \notin {"none", "exit"} =>
          Session(Held(s), mem.status[Held(s)], up[s], down[s], work[AgentOf(s)])

IInv == TypeOK /\ Tables /\ \A s \in Stream : StreamRight(s)

-----------------------------------------------------------------------------
(* One message, one assignment, or one step of handleTask at a time.       *)

\* The order of the statuses.
LEMMA Ranks == /\ Rank["ASSIGNED"] = 0 /\ Rank["PULLING"] = 1 /\ Rank["PUSHING"] = 2
               /\ Rank["DONE"] = 3 /\ Rank["FAILED"] = 3
BY DEF Rank

\* Idle is no task.
LEMMA IdleIsNoTask ==
    /\ Idle.task = NoTask /\ Idle.step = "idle"
    /\ \A t \in Task, k \in {"pulling", "pushing"} : [task |-> t, step |-> k] # Idle
BY StoreAssumption DEF Idle

\* What Pulled makes of the record of handleTask.
LEMMA WorkOn ==
    ASSUME NEW w \in [task : Task, step : {"pulling", "pushing"}]
    PROVE  [w EXCEPT !.step = "pushing"] = [task |-> w.task, step |-> "pushing"]
<1> DEFINE v == [w EXCEPT !.step = "pushing"]
<1>1. v \in [task : Task, step : {"pulling", "pushing"}]
  OBVIOUS
<1>2. v.task = w.task /\ v.step = "pushing"
  OBVIOUS
<1> HIDE DEF v
<1> QED
  BY <1>1, <1>2 DEF v

\* A session that starts, for whatever task the agent holds since an earlier one.
LEMMA SessionStarts == \A t, st : Session(t, st, <<>>, <<>>, Idle)
BY EmptyReports DEF Session, Follows

\* The connection ends under the session: what was sent may still arrive.
LEMMA SessionLeft ==
    ASSUME NEW t, NEW st, NEW q, NEW d, NEW w, Session(t, st, q, d, w)
    PROVE  Session(t, st, q, <<>>, Idle)
BY DEF Session

\* A heartbeat is sent (SendHeartbeat).
LEMMA SessionHeartbeat ==
    ASSUME NEW t, NEW st, NEW q \in Seq(AgentMsg), NEW d, NEW w, Session(t, st, q, d, w)
    PROVE  Session(t, st, Append(q, HeartbeatMsg), d, w)
BY AppendHeartbeat DEF Session

\* The agent starts the task on its way to it and reports PULLING (StartTask).
LEMMA SessionStartsTask ==
    ASSUME NEW t, NEW st, NEW q \in Seq(AgentMsg), NEW d \in Seq(Task), d # <<>>,
           Session(t, st, q, d, Idle)
    PROVE  /\ t \in Task /\ Head(d) = t /\ Tail(d) = <<>>
           /\ Session(t, st, Append(q, Progress(t, "PULLING")), <<>>,
                      [task |-> t, step |-> "pulling"])
<1>1. d = <<t>> /\ st = "ASSIGNED" /\ Reports(q) = {} /\ About(q, t) /\ InOrder(q)
  BY DEF Session
<1>2. t \in Task /\ Head(d) = t /\ Tail(d) = <<>>
  BY <1>1
<1> DEFINE n == Append(q, Progress(t, "PULLING"))
<1>3. Reports(n) = {"PULLING"} /\ About(n, t) /\ InOrder(n)
  BY <1>1, <1>2, AppendProgress DEF Reported
<1> HIDE DEF n
<1>4. Follows(st, Reports(n))
  BY <1>1, <1>3, Ranks DEF Follows, InProgress
<1> QED
  BY <1>2, <1>3, <1>4 DEF Session, n

\* The agent has pulled its image and reports PUSHING (Pulled).
LEMMA SessionPulled ==
    ASSUME NEW t \in Task, NEW st, NEW q \in Seq(AgentMsg), NEW d, NEW w,
           Session(t, st, q, d, w), w = [task |-> t, step |-> "pulling"]
    PROVE  Session(t, st, Append(q, Progress(t, "PUSHING")), d, [task |-> t, step |-> "pushing"])
<1>1. /\ Reports(q) \subseteq {"PULLING"} /\ About(q, t) /\ InOrder(q)
      /\ st = "PULLING" \/ "PULLING" \in Reports(q)
      /\ Follows(st, Reports(q))
      /\ d = <<>>
  BY IdleIsNoTask DEF Session
<1> DEFINE n == Append(q, Progress(t, "PUSHING"))
<1>2. Reports(n) = Reports(q) \cup {"PUSHING"} /\ About(n, t) /\ InOrder(n)
  BY <1>1, AppendProgress, Ranks DEF Reported
<1> HIDE DEF n
<1>3. Follows(st, Reports(n))
  BY <1>1, <1>2, Ranks DEF Follows, InProgress
<1> QED
  BY <1>1, <1>2, <1>3 DEF Session, n

\* The agent sends its last report about a task (EndTask).
LEMMA SessionEndsTask ==
    ASSUME NEW t \in Task, NEW st, NEW q \in Seq(AgentMsg), NEW d, NEW w,
           Session(t, st, q, d, w), NEW k \in {"pulling", "pushing"},
           w = [task |-> t, step |-> k],
           NEW e \in {"DONE", "FAILED"}, e = "DONE" => k = "pushing"
    PROVE  Session(t, st, Append(q, Progress(t, e)), d, Idle)
<1>1. /\ About(q, t) /\ InOrder(q) /\ Follows(st, Reports(q)) /\ d = <<>>
      /\ \/ /\ k = "pulling" /\ Reports(q) \subseteq {"PULLING"}
            /\ st = "PULLING" \/ "PULLING" \in Reports(q)
         \/ /\ k = "pushing" /\ Reports(q) \subseteq {"PULLING", "PUSHING"}
            /\ st = "PUSHING" \/ "PUSHING" \in Reports(q)
  BY IdleIsNoTask DEF Session
<1> DEFINE n == Append(q, Progress(t, e))
<1>2. Reports(n) = Reports(q) \cup {e} /\ About(n, t) /\ InOrder(n)
  BY <1>1, AppendProgress, Ranks DEF Reported
<1> HIDE DEF n
<1>3. Follows(st, Reports(n))
  BY <1>1, <1>2, Ranks DEF Follows, InProgress
<1> QED
  BY <1>1, <1>2, <1>3 DEF Session, n

\* The relay reads a heartbeat (RecvHeartbeat).
LEMMA SessionReadsHeartbeat ==
    ASSUME NEW t, NEW st, NEW q \in Seq(AgentMsg), NEW d, NEW w, Session(t, st, q, d, w),
           q # <<>>, Head(q) = HeartbeatMsg
    PROVE  Session(t, st, Tail(q), d, w)
BY ReadHead DEF Session

\* A report that the relay reads is about the task its sender holds, and is a step
\* that may follow the status this task has.
LEMMA ReportIsNext ==
    ASSUME NEW t, NEW st, NEW q \in Seq(AgentMsg), NEW d, NEW w, Session(t, st, q, d, w),
           q # <<>>, IsReport(Head(q))
    PROVE  /\ t \in Task /\ Head(q).task = t
           /\ Head(q).status \in Reported /\ Rank[st] < Rank[Head(q).status]
           /\ Head(q).status = "PUSHING" => st = "PULLING"
           /\ Head(q).status = "DONE" => st = "PUSHING"
           /\ Head(q).status = "FAILED" => st \in {"PULLING", "PUSHING"}
<1> DEFINE r == Head(q).status
<1>1. /\ Head(q) \in AgentMsg /\ Head(q).task = t /\ r \in Reported /\ t \in Task
      /\ Reports(q) = Reports(Tail(q)) \cup {r}
      /\ \A x \in Reports(Tail(q)) : Rank[r] < Rank[x]
      /\ Follows(st, Reports(q))
  BY ReadHead, MsgTypes DEF Session
<1> HIDE DEF r
<1> QED
  BY <1>1, Ranks DEF Follows, InProgress, Reported, r

\* After a report was stored the rest of the session follows its status
\* (RecvProgress, when the task goes on).
LEMMA SessionReadsReport ==
    ASSUME NEW t, NEW st, NEW q \in Seq(AgentMsg), NEW d, NEW w, Session(t, st, q, d, w),
           q # <<>>, IsReport(Head(q)), ~isFinalStatus(Head(q).status)
    PROVE  Session(t, Head(q).status, Tail(q), d, w)
<1> DEFINE r == Head(q).status
           n == Tail(q)
<1>1. /\ r \in Reported /\ t \in Task
      /\ Reports(q) = Reports(n) \cup {r} /\ About(n, t) /\ InOrder(n)
      /\ \A x \in Reports(n) : Rank[r] < Rank[x]
      /\ Follows(st, Reports(q))
  BY ReadHead, MsgTypes DEF Session
<1> HIDE DEF r, n
<1>2. r \in {"PULLING", "PUSHING"}
  BY <1>1 DEF Reported, isFinalStatus, r
<1>3. Follows(r, Reports(n))
  BY <1>1, <1>2, Ranks DEF Follows, InProgress
<1>4. d = <<>>
  BY <1>1 DEF Session
<1>5. \/ w = Idle
      \/ /\ w = [task |-> t, step |-> "pulling"] /\ Reports(n) \subseteq {"PULLING"}
         /\ r = "PULLING" \/ "PULLING" \in Reports(n)
      \/ /\ w = [task |-> t, step |-> "pushing"]
         /\ Reports(n) \subseteq {"PULLING", "PUSHING"}
         /\ r = "PUSHING" \/ "PUSHING" \in Reports(n)
  <2>1. CASE w = [task |-> t, step |-> "pulling"]
    BY <1>1, <2>1, IdleIsNoTask, Ranks DEF Session
  <2>2. CASE w = [task |-> t, step |-> "pushing"]
    <3>1. /\ Reports(q) \subseteq {"PULLING", "PUSHING"}
          /\ st = "PUSHING" \/ "PUSHING" \in Reports(q)
      BY <1>1, <2>2, IdleIsNoTask DEF Session
    <3>2. st = "PUSHING" => FALSE
      BY <1>1, <1>2, <3>1, Ranks DEF Follows, InProgress
    <3> QED
      BY <1>1, <2>2, <3>1, <3>2
  <2> QED
    BY <2>1, <2>2 DEF Session
<1> QED
  BY <1>1, <1>3, <1>4, <1>5 DEF Session, r, n

\* After a final report nothing of the session is about any task (RecvProgress,
\* when the task ends).
LEMMA SessionReadsEnd ==
    ASSUME NEW t, NEW st, NEW q \in Seq(AgentMsg), NEW d, NEW w, Session(t, st, q, d, w),
           q # <<>>, IsReport(Head(q)), isFinalStatus(Head(q).status)
    PROVE  \A u, su : Session(u, su, Tail(q), d, w)
<1> DEFINE r == Head(q).status
           n == Tail(q)
<1>1. /\ r \in Reported /\ t \in Task /\ n \in Seq(AgentMsg)
      /\ Reports(q) = Reports(n) \cup {r} /\ About(n, t) /\ InOrder(n)
      /\ \A x \in Reports(n) : Rank[r] < Rank[x]
  BY ReadHead, MsgTypes DEF Session
<1> HIDE DEF r, n
<1>2. r \in {"DONE", "FAILED"}
  BY <1>1 DEF Reported, isFinalStatus, r
<1>3. Reports(n) \subseteq Reported
  BY <1>1, ReportsTyped
<1>4. Reports(n) = {}
  BY <1>1, <1>2, <1>3, Ranks DEF Reported
<1>5. d = <<>> /\ w = Idle
  BY <1>1, <1>2 DEF Session
<1>6. \A u : About(n, u)
  BY <1>4, NoReports
<1> QED
  BY <1>1, <1>4, <1>5, <1>6 DEF Session, Follows, n

\* While the agent holds nothing its session is about no task, so it fits whatever
\* task the relay assigns next (SendTask, SendTaskFails).
LEMMA SessionOfNothing ==
    ASSUME NEW st, NEW q \in Seq(AgentMsg), NEW d \in Seq(Task),
           NEW w \in {Idle} \cup [task : Task, step : {"pulling", "pushing"}],
           Session(NoTask, st, q, d, w)
    PROVE  /\ Reports(q) = {} /\ d = <<>> /\ w = Idle
           /\ \A u, su : Session(u, su, q, <<>>, Idle)
           /\ \A u \in Task : Session(u, "ASSIGNED", q, <<u>>, Idle)
<1>1. Reports(q) = {}
  <2> SUFFICES ASSUME NEW i \in 1..Len(q), IsReport(q[i]) PROVE FALSE
    BY DEF Reports
  <2>1. q[i] \in AgentMsg /\ q[i].task = NoTask
    BY ElementOfSeq DEF Session, About
  <2> QED
    BY <2>1, MsgTypes, StoreAssumption
<1>2. d = <<>>
  <2> SUFFICES ASSUME d = <<NoTask>> PROVE FALSE
    BY DEF Session
  <2>1. d[1] \in Task /\ d[1] = NoTask
    BY ElementOfSeq
  <2> QED
    BY <2>1, StoreAssumption
<1>3. w = Idle
  <2> SUFFICES ASSUME w # Idle PROVE FALSE
    OBVIOUS
  <2>1. w.task \in Task
    OBVIOUS
  <2>2. w.task = NoTask
    BY DEF Session
  <2> QED
    BY <2>1, <2>2, StoreAssumption
<1>4. \A u : About(q, u)
  BY <1>1, NoReports
<1> QED
  BY <1>1, <1>2, <1>3, <1>4 DEF Session, Follows

-----------------------------------------------------------------------------
(* Types, for any number of streams per agent. *)

\* Each operation of the store yields tables.
LEMMA TablesTyped ==
    ASSUME NEW s \in StoreState
    PROVE  /\ \A ts \in SUBSET Task : AddTasks(s, ts) \in StoreState
           /\ \A a \in Agent : /\ UpsertAgent(s, a) \in StoreState
                               /\ MarkHeartbeat(s, a) \in StoreState
                               /\ MarkAgentOffline(s, a) \in StoreState
           /\ \A a \in Agent, t \in Task : AssignTo(s, a, t) \in StoreState
           /\ \A a \in Agent, t \in Task, st \in Reported :
                 UpdateTaskProgress(s, a, t, st) \in StoreState
<1>1. \A ts \in SUBSET Task : AddTasks(s, ts) \in StoreState
  BY DEF AddTasks, StoreState, Status
<1>2. \A a \in Agent : UpsertAgent(s, a) \in StoreState /\ MarkHeartbeat(s, a) \in StoreState
  BY DEF UpsertAgent, MarkHeartbeat, StoreState
<1>3. ASSUME NEW a \in Agent PROVE MarkAgentOffline(s, a) \in StoreState
  <2> DEFINE r == Requeue(s, s.current[a])
  <2>1. r \in StoreState
    BY DEF Requeue, StoreState, Status
  <2> HIDE DEF r
  <2>2. [r EXCEPT !.link[a] = "offline", !.current[a] = NoTask] \in StoreState
    BY <2>1 DEF StoreState
  <2> QED
    BY <2>2 DEF MarkAgentOffline, r
<1>4. \A a \in Agent, t \in Task : AssignTo(s, a, t) \in StoreState
  BY ZenonT(40) DEF AssignTo, StoreState, Status
<1>5. ASSUME NEW a \in Agent, NEW t \in Task, NEW st \in Reported
      PROVE  UpdateTaskProgress(s, a, t, st) \in StoreState
  BY DEF UpdateTaskProgress, StoreState, Status, Reported
<1> QED
  BY <1>1, <1>2, <1>3, <1>4, <1>5

\* The tasks AssignNextTask may choose.
LEMMA ChoicesTyped ==
    ASSUME NEW s, NEW a, NEW t \in Choices(s, a)
    PROVE  t \in Task /\ s.status[t] = "PENDING" /\ s.current[a] = NoTask
BY DEF Choices, Oldest, Assignable

\* A step of a handler keeps the types.
LEMMA TypeHandler ==
    ASSUME TypeOK, NEW s \in Stream, HandlerStep(s) PROVE TypeOK'
<1> USE DEF TypeOK
<1>1. AgentOf(s) \in Agent
  BY DEF Stream, AgentOf
<1>2. \A m \in {"none", "hello", "first", "recv", "callback", "assign", "exit"} :
         [pc EXCEPT ![s] = m]
            \in [Stream -> {"none", "hello", "first", "recv", "callback", "assign", "exit"}]
  OBVIOUS
<1>3. /\ up[s] \in Seq(AgentMsg)
      /\ [up EXCEPT ![s] = <<>>] \in [Stream -> Seq(AgentMsg)]
      /\ up[s] # <<>> => [up EXCEPT ![s] = Tail(@)] \in [Stream -> Seq(AgentMsg)]
  <2>1. up[s] \in Seq(AgentMsg) /\ <<>> \in Seq(AgentMsg)
    BY EmptySeq
  <2>2. up[s] # <<>> => Tail(up[s]) \in Seq(AgentMsg)
    BY <2>1, HeadTailProperties
  <2> QED
    BY <2>1, <2>2
<1>4. /\ Saved /\ mem' \in StoreState /\ callback' \in [Task -> {"none", "failed", "success"}]
            => disk'.store \in StoreState /\ saveFails' \in 0..MaxSaveFails
                  /\ disk'.callback \in [Task -> {"none", "failed", "success"}]
      /\ SaveFails => disk' = disk /\ saveFails' \in 0..MaxSaveFails
  BY SessionsAssumption DEF Saved, SaveFails
<1>5. CASE Hello(s)
  BY <1>1, <1>2, <1>3, <1>4, <1>5, TablesTyped
     DEF Hello, Goto, StopReading, agentVars, faultVars
<1>6. CASE HelloFails(s)
  BY <1>2, <1>3, <1>6 DEF HelloFails, Goto, StopReading, storeVars, agentVars, faultVars
<1>7. CASE NothingToSend(s)
  BY <1>2, <1>7 DEF NothingToSend, Goto, storeVars, netVars, agentVars, faultVars
<1>8. CASE SendTask(s)
  <2>1. PICK t \in Choices(mem, AgentOf(s)) :
           /\ mem' = AssignTo(mem, AgentOf(s), t)
           /\ down' = [down EXCEPT ![s] = IF conn[s] = "up" THEN Append(@, t) ELSE @]
    BY <1>8 DEF SendTask
  <2>2. t \in Task
    BY ChoicesTyped
  <2>3. Append(down[s], t) \in Seq(Task)
    BY <2>2, AppendProperties
  <2>4. mem' \in StoreState /\ down' \in [Stream -> Seq(Task)]
    BY <1>1, <2>1, <2>2, <2>3, TablesTyped
  <2> QED
    BY <1>2, <1>4, <1>8, <2>4 DEF SendTask, Goto, agentVars, faultVars
<1>9. CASE SendTaskFails(s)
  <2>1. PICK t \in Choices(mem, AgentOf(s)) : mem' = AssignTo(mem, AgentOf(s), t)
    BY <1>9 DEF SendTaskFails
  <2>2. mem' \in StoreState
    BY <1>1, <2>1, ChoicesTyped, TablesTyped
  <2> QED
    BY <1>2, <1>3, <1>4, <1>9, <2>2
       DEF SendTaskFails, Goto, StopReading, agentVars, faultVars
<1>10. CASE RecvHeartbeat(s)
  BY <1>1, <1>2, <1>3, <1>4, <1>10, TablesTyped
     DEF RecvHeartbeat, Goto, StopReading, agentVars, faultVars
<1>11. CASE RecvProgress(s)
  <2>1. /\ Head(up[s]) \in AgentMsg /\ IsReport(Head(up[s]))
        /\ Head(up[s]).task \in Task /\ Head(up[s]).status \in Reported
    BY <1>3, <1>11, HeadTailProperties, MsgTypes DEF RecvProgress, IsReport
  <2>2. mem' \in StoreState
    BY <1>1, <1>11, <2>1, TablesTyped DEF RecvProgress
  <2>3. reported' \in [Stream -> Task \cup {NoTask}]
    BY <1>11, <2>1 DEF RecvProgress
  <2> QED
    BY ZenonT(40), <1>2, <1>3, <1>4, <1>11, <2>2, <2>3
       DEF RecvProgress, Goto, StopReading, agentVars, faultVars
<1>12. CASE CallbackReturns(s)
  <2>1. callback' \in [Task -> {"none", "failed", "success"}]
    BY <1>12 DEF CallbackReturns
  <2> QED
    BY <1>2, <1>4, <1>12, <2>1 DEF CallbackReturns, Goto, netVars, agentVars, faultVars
<1>13. CASE RecvFails(s)
  BY <1>2, <1>3, <1>13 DEF RecvFails, Goto, StopReading, storeVars, agentVars, faultVars
<1>14. CASE Exit(s)
  BY <1>1, <1>2, <1>4, <1>14, TablesTyped DEF Exit, Goto, netVars, agentVars, faultVars
<1> QED
  BY <1>5, <1>6, <1>7, <1>8, <1>9, <1>10, <1>11, <1>12, <1>13, <1>14 DEF HandlerStep

\* A step of an agent keeps the types.
LEMMA TypeAgent ==
    ASSUME TypeOK, NEW a \in Agent, AgentStep(a) PROVE TypeOK'
<1> USE DEF TypeOK
<1>1. \A s \in Live(a) : s \in Stream /\ AgentOf(s) = a
  BY DEF Live
<1>2. /\ \A s \in Stream : up[s] \in Seq(AgentMsg) /\ down[s] \in Seq(Task)
      /\ <<>> \in Seq(AgentMsg) /\ <<>> \in Seq(Task)
  BY EmptySeq
<1>3. \A s \in Stream, m \in AgentMsg :
         [up EXCEPT ![s] = Append(@, m)] \in [Stream -> Seq(AgentMsg)]
  BY <1>2, AppendProperties
<1>4. ASSUME NEW s \in Stream, Leave(a, s)
      PROVE  /\ conn' \in [Stream -> {"up", "down"}] /\ down' \in [Stream -> Seq(Task)]
             /\ work' \in [Agent -> {Idle} \cup [task : Task, step : {"pulling", "pushing"}]]
             /\ orphans' \in [Agent -> SUBSET Task]
  <2>1. work[a].task \in Task \cup {NoTask}
    BY IdleIsNoTask
  <2> QED
    BY <1>2, <1>4, <2>1 DEF Leave
<1>5. CASE Dial(a)
  BY <1>2, <1>5 DEF Dial, Goto, storeVars, agentVars, faultVars
<1>6. CASE Drop(a)
  <2>1. PICK s \in Live(a) : drops < MaxDrops /\ drops' = drops + 1 /\ Leave(a, s)
                             /\ UNCHANGED crashes
    BY <1>6 DEF Drop
  <2>2. drops' \in 0..MaxDrops
    BY <2>1, SessionsAssumption
  <2> QED
    BY <1>1, <1>4, <2>1, <2>2 DEF Leave, storeVars, relayVars
<1>7. CASE NoticeEnd(a)
  <2>1. PICK s \in Live(a) : Leave(a, s) /\ UNCHANGED faultVars
    BY <1>7 DEF NoticeEnd
  <2> QED
    BY <1>1, <1>4, <2>1 DEF Leave, storeVars, relayVars, faultVars
<1>8. CASE Rotate(a)
  <2>1. PICK s \in Live(a) : Leave(a, s) /\ UNCHANGED faultVars
    BY <1>8 DEF Rotate
  <2> QED
    BY <1>1, <1>4, <2>1 DEF Leave, storeVars, relayVars, faultVars
<1>9. CASE SendHeartbeat(a)
  BY <1>1, <1>3, <1>9, MsgTypes
     DEF SendHeartbeat, storeVars, relayVars, agentVars, faultVars
<1>10. CASE StartTask(a)
  <2>1. PICK s \in Live(a) :
           /\ down[s] # <<>>
           /\ down' = [down EXCEPT ![s] = Tail(@)]
           /\ up' = [up EXCEPT ![s] = Append(@, Progress(Head(down[s]), "PULLING"))]
           /\ work' = [work EXCEPT ![a] = [task |-> Head(down[s]), step |-> "pulling"]]
    BY <1>10 DEF StartTask
  <2>2. Head(down[s]) \in Task /\ Tail(down[s]) \in Seq(Task)
    BY <1>1, <1>2, <2>1, HeadTailProperties
  <2>3. up' \in [Stream -> Seq(AgentMsg)]
    BY <1>1, <1>3, <2>1, <2>2, MsgTypes DEF Reported
  <2> QED
    BY SMTT(30), <1>10, <2>1, <2>2, <2>3 DEF StartTask, storeVars, relayVars, faultVars
<1>11. CASE Pulled(a)
  <2>1. work[a] \in [task : Task, step : {"pulling", "pushing"}]
    BY <1>11, IdleIsNoTask DEF Pulled
  <2>2. up' \in [Stream -> Seq(AgentMsg)]
    BY <1>1, <1>3, <1>11, <2>1, MsgTypes DEF Pulled, Reported
  <2>3. [work[a] EXCEPT !.step = "pushing"] = [task |-> work[a].task, step |-> "pushing"]
    BY <2>1, WorkOn
  <2>4. work' = [work EXCEPT ![a] = [task |-> work[a].task, step |-> "pushing"]]
    BY <1>11, <2>3 DEF Pulled
  <2> QED
    BY ZenonT(40), <1>11, <2>1, <2>2, <2>4 DEF Pulled, storeVars, relayVars, faultVars
<1>12. CASE EndTask(a)
  <2>1. work[a] # Idle /\ work[a] \in [task : Task, step : {"pulling", "pushing"}]
    BY <1>12 DEF EndTask
  <2>2. up' \in [Stream -> Seq(AgentMsg)]
    BY <1>1, <1>3, <1>12, <2>1, MsgTypes DEF EndTask, Reported
  <2> QED
    BY <1>12, <2>2 DEF EndTask, storeVars, relayVars, faultVars
<1>13. CASE OrphanEnds(a)
  BY <1>13 DEF OrphanEnds, storeVars, relayVars, netVars, faultVars
<1> QED
  BY <1>5, <1>6, <1>7, <1>8, <1>9, <1>10, <1>11, <1>12, <1>13 DEF AgentStep, WorkStep

\* Every step keeps the types.
LEMMA TypeStep == TypeOK /\ [Next]_vars => TypeOK'
<1> SUFFICES ASSUME TypeOK, [Next]_vars PROVE TypeOK'
  OBVIOUS
<1>1. CASE Submit
  BY <1>1, TablesTyped, SessionsAssumption
     DEF TypeOK, Submit, Saved, SaveFails, relayVars, netVars, agentVars, faultVars
<1>2. CASE Crash
  <2>1. <<>> \in Seq(AgentMsg) /\ <<>> \in Seq(Task) /\ crashes' \in 0..MaxCrashes
    BY <1>2, EmptySeq, SessionsAssumption DEF Crash, TypeOK
  <2> QED
    BY <1>2, <2>1 DEF TypeOK, Crash, agentVars
<1>3. CASE \E s \in Stream : HandlerStep(s)
  BY <1>3, TypeHandler
<1>4. CASE \E a \in Agent : AgentStep(a)
  BY <1>4, TypeAgent
<1>5. CASE UNCHANGED vars
  BY <1>5 DEF TypeOK, vars, storeVars, relayVars, netVars, agentVars, faultVars
<1> QED
  BY <1>1, <1>2, <1>3, <1>4, <1>5 DEF Next

\* The variables have their types, however many streams an agent may have.
LEMMA TypeInit == Init => TypeOK
<1>1. <<>> \in Seq(AgentMsg) /\ <<>> \in Seq(Task)
  BY EmptySeq
<1> QED
  BY <1>1, SessionsAssumption
     DEF Init, TypeOK, EmptyStore, StoreState, Status

\* Handlers, agents, streams and tables keep to their types in every behaviour.
THEOREM TypeCorrect == Spec => []TypeOK
BY TypeInit, TypeStep, PTL DEF Spec

-----------------------------------------------------------------------------
(* What an operation of the store on behalf of one agent leaves alone.     *)

\* s becomes n by an operation for agent a: the tables stay matched, the entries of
\* the other agents are as they were, and a task whose status changes was free or
\* held by a.
Touches(s, n, a) ==
    /\ n \in StoreState /\ Matched(n)
    /\ \A b \in Agent \ {a} : n.current[b] = s.current[b] /\ n.link[b] = s.link[b]
    /\ \A t \in Task : n.status[t] # s.status[t] =>
          s.status[t] \in {"ABSENT", "PENDING"} \/ (a \in Agent /\ Holds(s, a, t))

\* The empty tables are matched.
LEMMA EmptyMatched == Matched(EmptyStore)
BY StoreAssumption DEF Matched, EmptyStore, Holds, InProgress

\* An operation that does nothing.
LEMMA NothingTouched == ASSUME NEW s \in StoreState, Matched(s), NEW a PROVE Touches(s, s, a)
BY DEF Touches

\* New tasks concern no agent (AddTasks).
LEMMA AddTasksTouches ==
    ASSUME NEW s \in StoreState, Matched(s),
           NEW ts \in SUBSET Task, \A t \in ts : ~Exists(s, t)
    PROVE  Touches(s, AddTasks(s, ts), NoAgent)
<1> DEFINE n == AddTasks(s, ts)
<1>1. n \in StoreState
  BY TablesTyped
<1>2. /\ \A t \in Task : n.status[t] = IF t \in ts THEN "PENDING" ELSE s.status[t]
      /\ n.assignee = s.assignee /\ n.current = s.current /\ n.link = s.link
  BY DEF AddTasks, StoreState
<1> HIDE DEF n
<1>3. \A t \in ts : s.status[t] = "ABSENT"
  BY DEF Exists
<1>4. Matched(n)
  BY <1>2, <1>3 DEF Matched, Holds, InProgress
<1> QED
  BY <1>1, <1>2, <1>3, <1>4 DEF Touches, n

\* An agent is registered or heard of (UpsertAgent, MarkHeartbeat).
LEMMA OnlineTouches ==
    ASSUME NEW s \in StoreState, Matched(s), NEW a \in Agent,
           NEW n \in {UpsertAgent(s, a), MarkHeartbeat(s, a)}
    PROVE  /\ Touches(s, n, a)
           /\ n.status = s.status /\ n.current = s.current
           /\ n = UpsertAgent(s, a) => n.link[a] = "online"
           /\ s.link[a] = "online" => n.link[a] = "online"
<1>1. n \in StoreState
  BY TablesTyped
<1>2. /\ n.status = s.status /\ n.current = s.current /\ n.assignee = s.assignee
      /\ \A b \in Agent \ {a} : n.link[b] = s.link[b]
      /\ n = UpsertAgent(s, a) => n.link[a] = "online"
      /\ s.link[a] = "online" => n.link[a] = "online"
  BY DEF UpsertAgent, MarkHeartbeat, StoreState
<1>3. Matched(n)
  BY <1>2 DEF Matched, Holds
<1> QED
  BY <1>1, <1>2, <1>3 DEF Touches

\* The end of a stream (MarkAgentOffline).
LEMMA OfflineTouches ==
    ASSUME NEW s \in StoreState, Matched(s), NEW a \in Agent
    PROVE  /\ Touches(s, MarkAgentOffline(s, a), a)
           /\ \A t \in Task : MarkAgentOffline(s, a).status[t] =
                 IF Known(s, a) /\ Holds(s, a, t) THEN "PENDING" ELSE s.status[t]
           /\ \A t \in Task : MarkAgentOffline(s, a).assignee[t] =
                 IF Known(s, a) /\ Holds(s, a, t) THEN NoAgent ELSE s.assignee[t]
<1> DEFINE n == MarkAgentOffline(s, a)
<1>1. n \in StoreState
  BY TablesTyped
<1>2. CASE Known(s, a) /\ s.current[a] # NoTask
  <2> DEFINE u == s.current[a]
  <2>1. u \in Task /\ s.status[u] \in InProgress /\ s.assignee[u] = a
    BY <1>2 DEF StoreState, Matched, Holds
  <2>2. n = [s EXCEPT !.status[u] = "PENDING", !.assignee[u] = NoAgent,
                      !.link[a] = "offline", !.current[a] = NoTask]
    BY <1>2, <2>1 DEF MarkAgentOffline, Requeue, Exists, InProgress
  <2>3. /\ \A t \in Task : n.status[t] = IF t = u THEN "PENDING" ELSE s.status[t]
        /\ \A t \in Task : n.assignee[t] = IF t = u THEN NoAgent ELSE s.assignee[t]
        /\ \A b \in Agent : n.current[b] = IF b = a THEN NoTask ELSE s.current[b]
        /\ \A b \in Agent \ {a} : n.link[b] = s.link[b]
    BY <2>1, <2>2 DEF StoreState
  <2> HIDE DEF n
  <2>4. \A b \in Agent : n.current[b] # u
    BY <2>1, <2>3, StoreAssumption DEF Matched, Holds
  <2>5. Matched(n)
    BY <2>1, <2>3, <2>4, StoreAssumption DEF Matched, Holds, InProgress
  <2> QED
    BY <1>1, <1>2, <2>1, <2>3, <2>5 DEF Touches, Holds, n
<1>3. CASE Known(s, a) /\ s.current[a] = NoTask
  <2>1. n = [s EXCEPT !.link[a] = "offline", !.current[a] = NoTask]
    BY <1>3, StoreAssumption DEF MarkAgentOffline, Requeue
  <2>2. /\ n.status = s.status /\ n.assignee = s.assignee
        /\ n.current = s.current
        /\ \A b \in Agent \ {a} : n.link[b] = s.link[b]
    BY <1>3, <2>1 DEF StoreState
  <2> HIDE DEF n
  <2>3. Matched(n)
    BY <2>2 DEF Matched, Holds
  <2>4. \A t \in Task : ~Holds(s, a, t)
    BY <1>3, StoreAssumption DEF Holds
  <2> QED
    BY <1>1, <2>2, <2>3, <2>4 DEF Touches, n
<1>4. CASE ~Known(s, a)
  BY <1>4, NothingTouched DEF MarkAgentOffline
<1> QED
  BY <1>2, <1>3, <1>4

\* A task is given to an agent (AssignNextTask).
LEMMA AssignTouches ==
    ASSUME NEW s \in StoreState, Matched(s), NEW a \in Agent, NEW t \in Choices(s, a)
    PROVE  LET n == AssignTo(s, a, t)
           IN  /\ Touches(s, n, a)
               /\ n.current[a] = t /\ n.link[a] = "online"
               /\ \A u \in Task : n.status[u] = IF u = t THEN "ASSIGNED" ELSE s.status[u]
               /\ \A u \in Task : n.assignee[u] = IF u = t THEN a ELSE s.assignee[u]
<1> DEFINE n == AssignTo(s, a, t)
<1>1. t \in Task /\ s.status[t] = "PENDING" /\ s.current[a] = NoTask
  BY ChoicesTyped
<1>2. n \in StoreState
  BY <1>1, TablesTyped
<1>3. /\ \A u \in Task : n.status[u] = IF u = t THEN "ASSIGNED" ELSE s.status[u]
      /\ \A u \in Task : n.assignee[u] = IF u = t THEN a ELSE s.assignee[u]
      /\ \A b \in Agent : n.current[b] = IF b = a THEN t ELSE s.current[b]
      /\ \A b \in Agent : n.link[b] = IF b = a THEN "online" ELSE s.link[b]
  BY <1>1 DEF AssignTo, StoreState
<1> HIDE DEF n
<1>4. \A b \in Agent : s.current[b] # t
  BY <1>1 DEF Matched, Holds, InProgress
<1>5. \A u \in Task : s.status[u] \in InProgress => s.assignee[u] # a
  BY <1>1, StoreAssumption DEF Matched, Holds
<1>6. Matched(n)
  BY <1>1, <1>3, <1>4, <1>5 DEF Matched, Holds, InProgress
<1> QED
  BY <1>1, <1>2, <1>3, <1>6 DEF Touches, n

\* A report of the agent that holds the task is stored (UpdateTaskProgress).
LEMMA ReportTouches ==
    ASSUME NEW s \in StoreState, Matched(s), NEW a \in Agent, NEW t \in Task,
           Holds(s, a, t), s.link[a] = "online", NEW st \in Reported
    PROVE  LET n == UpdateTaskProgress(s, a, t, st)
           IN  /\ Touches(s, n, a)
               /\ n.current[a] = IF isFinalStatus(st) THEN NoTask ELSE t
               /\ n.link[a] = "online"
               /\ n.assignee = s.assignee
               /\ \A u \in Task : n.status[u] = IF u = t THEN st ELSE s.status[u]
<1> DEFINE n == UpdateTaskProgress(s, a, t, st)
<1>1. n \in StoreState
  BY TablesTyped
<1>2. /\ \A u \in Task : n.status[u] = IF u = t THEN st ELSE s.status[u]
      /\ n.assignee = s.assignee
      /\ \A b \in Agent : n.current[b] = IF b = a /\ isFinalStatus(st) THEN NoTask
                                         ELSE s.current[b]
      /\ \A b \in Agent : n.link[b] = s.link[b]
  BY DEF UpdateTaskProgress, StoreState, Holds, Known
<1> HIDE DEF n
<1>3. s.assignee[t] = a /\ s.status[t] \in InProgress
  BY DEF Matched
<1>4. isFinalStatus(st) \/ st \in InProgress
  BY DEF Reported, isFinalStatus, InProgress
<1>5. isFinalStatus(st) => st \notin InProgress
  BY DEF isFinalStatus, InProgress
<1>6. Matched(n)
  BY <1>2, <1>3, <1>4, <1>5, StoreAssumption DEF Matched, Holds
<1> QED
  BY <1>1, <1>2, <1>6 DEF Touches, Holds, n

\* The task another agent holds keeps its status.
LEMMA OthersUntouched ==
    ASSUME NEW s, Matched(s), NEW n, NEW a, Touches(s, n, a), NEW b \in Agent \ {a}
    PROVE  /\ n.current[b] = s.current[b] /\ n.link[b] = s.link[b]
           /\ s.current[b] \in Task => n.status[s.current[b]] = s.status[s.current[b]]
BY DEF Touches, Matched, Holds, InProgress

\* A task that is done stays so, and so callback results stay those of such tasks.
LEMMA DoneUntouched ==
    ASSUME NEW s, Matched(s), NEW n, NEW a, Touches(s, n, a)
    PROVE  /\ \A t \in Task : s.status[t] = "DONE" => n.status[t] = "DONE"
           /\ \A results : ResultsOfDone(s, results) => ResultsOfDone(n, results)
BY DEF Touches, Matched, InProgress, ResultsOfDone

-----------------------------------------------------------------------------
(* The steps of a handler.                                                 *)

\* With one stream per agent a stream is its agent.
LEMMA OneStream ==
    ASSUME StreamsPerAgent = 1
    PROVE  \A s, r \in Stream : AgentOf(s) \in Agent /\ (AgentOf(s) = AgentOf(r) => s = r)
BY DEF Stream, AgentOf

\* What a step for one agent leaves alone keeps the streams of the others right.
LEMMA OtherStreams ==
    ASSUME IInv, NEW a, Touches(mem, mem', a),
           NEW r \in Stream, AgentOf(r) \in Agent \ {a},
           pc'[r] = pc[r], reported'[r] = reported[r], conn'[r] = conn[r],
           up'[r] = up[r], down'[r] = down[r], work'[AgentOf(r)] = work[AgentOf(r)]
    PROVE  StreamRight(r)'
<1> DEFINE b == AgentOf(r)
<1>1. /\ mem'.current[b] = mem.current[b] /\ mem'.link[b] = mem.link[b]
      /\ mem.current[b] \in Task => mem'.status[mem.current[b]] = mem.status[mem.current[b]]
      /\ \A t \in Task : mem.status[t] = "DONE" => mem'.status[t] = "DONE"
  BY OthersUntouched, DoneUntouched DEF IInv, Tables
<1>2. ASSUME pc[r] \notin {"none", "exit"}
      PROVE  Session(mem.current[b], mem'.status[mem.current[b]], up[r], down[r], work[b])
  <2>1. Session(mem.current[b], mem.status[mem.current[b]], up[r], down[r], work[b])
    BY <1>2 DEF IInv, StreamRight, Held
  <2>2. CASE mem.current[b] \in Task
    BY <1>1, <2>1, <2>2
  <2>3. CASE mem.current[b] \notin Task
    <3>1. mem.current[b] = NoTask
      BY <2>3 DEF IInv, TypeOK, StoreState
    <3>2. /\ up[r] \in Seq(AgentMsg) /\ down[r] \in Seq(Task)
          /\ work[b] \in {Idle} \cup [task : Task, step : {"pulling", "pushing"}]
      BY DEF IInv, TypeOK
    <3>3. Session(NoTask, mem'.status[NoTask], up[r], <<>>, Idle)
          /\ down[r] = <<>> /\ work[b] = Idle
      BY ZenonT(40), <2>1, <3>1, <3>2, SessionOfNothing
    <3> QED
      BY <3>1, <3>3
  <2> QED
    BY <2>2, <2>3
<1> QED
  BY <1>1, <1>2 DEF IInv, StreamRight, Held

\* What is saved is what memory holds.
LEMMA TablesKept ==
    ASSUME Tables, NEW a, Touches(mem, mem', a), ResultsOfDone(mem', callback'),
           Saved \/ disk' = disk
    PROVE  Tables'
BY DEF Tables, Touches, Saved

\* A handler touches its own stream only.
LEMMA HandlerTouches ==
    ASSUME TypeOK, NEW s \in Stream, HandlerStep(s)
    PROVE  /\ Saved \/ disk' = disk
           /\ conn' = conn /\ work' = work
           /\ \A r \in Stream \ {s} :
                 /\ pc'[r] = pc[r] /\ reported'[r] = reported[r]
                 /\ up'[r] = up[r] /\ down'[r] = down[r]
<1> USE DEF TypeOK, Goto, StopReading, SaveFails, storeVars, netVars, agentVars
<1>1. CASE Hello(s) \/ HelloFails(s) \/ NothingToSend(s)
  BY <1>1 DEF Hello, HelloFails, NothingToSend
<1>2. CASE SendTask(s) \/ SendTaskFails(s)
  BY <1>2 DEF SendTask, SendTaskFails
<1>3. CASE RecvHeartbeat(s) \/ CallbackReturns(s) \/ RecvFails(s) \/ Exit(s)
  BY <1>3 DEF RecvHeartbeat, CallbackReturns, RecvFails, Exit
<1>4. CASE RecvProgress(s)
  BY <1>4 DEF RecvProgress
<1> QED
  BY <1>1, <1>2, <1>3, <1>4 DEF HandlerStep

\* The agent is registered, or the stream ends before that.
LEMMA HelloRight ==
    ASSUME IInv, NEW s \in Stream, AgentOf(s) \in Agent, Hello(s) \/ HelloFails(s)
    PROVE  /\ Touches(mem, mem', AgentOf(s)) /\ callback' = callback
           /\ StreamRight(s)'
<1> DEFINE a == AgentOf(s)
<1>0. mem \in StoreState /\ Matched(mem) /\ StreamRight(s) /\ TypeOK
  BY DEF IInv, Tables, TypeOK
<1>1. CASE Hello(s)
  <2>1. /\ Touches(mem, mem', a) /\ mem'.status = mem.status
        /\ mem'.current = mem.current /\ mem'.link[a] = "online"
    BY <1>0, <1>1, OnlineTouches DEF Hello
  <2>2. (pc'[s] = "first" /\ up' = up) \/ pc'[s] = "none"
    BY <1>0, <1>1 DEF Hello, Goto, TypeOK
  <2>3. callback' = callback /\ pc[s] = "hello" /\ conn' = conn /\ down' = down /\ work' = work
    BY <1>1 DEF Hello, agentVars
  <2> QED
    BY <1>0, <2>1, <2>2, <2>3 DEF StreamRight, Held
<1>2. CASE HelloFails(s)
  <2>1. /\ mem' = mem /\ callback' = callback /\ pc'[s] = "none"
        /\ conn' = conn /\ down' = down /\ work' = work
    BY <1>0, <1>2 DEF HelloFails, storeVars, agentVars, Goto, TypeOK
  <2> QED
    BY <1>0, <2>1, NothingTouched DEF StreamRight
<1> QED
  BY <1>1, <1>2

\* A task is assigned and written to the stream, or one of these fails, or there is
\* none to assign.
LEMMA SendRight ==
    ASSUME IInv, NEW s \in Stream, AgentOf(s) \in Agent,
           NothingToSend(s) \/ SendTask(s) \/ SendTaskFails(s)
    PROVE  /\ Touches(mem, mem', AgentOf(s)) /\ callback' = callback
           /\ StreamRight(s)'
<1> DEFINE a == AgentOf(s)
<1>0. mem \in StoreState /\ Matched(mem) /\ StreamRight(s) /\ TypeOK
  BY DEF IInv, Tables, TypeOK
<1>1. CASE NothingToSend(s)
  <2>1. /\ mem' = mem /\ callback' = callback /\ pc'[s] = "recv"
        /\ pc[s] \in {"first", "assign"}
        /\ conn' = conn /\ up' = up /\ down' = down /\ work' = work
    BY <1>0, <1>1 DEF NothingToSend, storeVars, netVars, agentVars, Goto, TypeOK
  <2> QED
    BY <1>0, <2>1, NothingTouched DEF StreamRight, Held
<1>2. CASE SendTask(s)
  <2>1. PICK t \in Choices(mem, a) :
           /\ mem' = AssignTo(mem, a, t)
           /\ down' = [down EXCEPT ![s] = IF conn[s] = "up" THEN Append(@, t) ELSE @]
    BY <1>2 DEF SendTask
  <2>2. /\ pc[s] \in {"first", "assign"} /\ pc'[s] = "recv"
        /\ callback' = callback /\ conn' = conn /\ up' = up /\ work' = work
    BY <1>0, <1>2 DEF SendTask, Goto, agentVars, TypeOK
  <2>3. t \in Task /\ mem.current[a] = NoTask
    BY ChoicesTyped
  <2>4. /\ Touches(mem, mem', a) /\ mem'.current[a] = t
        /\ mem'.link[a] = "online" /\ mem'.status[t] = "ASSIGNED"
    BY <1>0, <2>1, <2>3, AssignTouches
  <2>5. /\ up[s] \in Seq(AgentMsg) /\ down[s] \in Seq(Task)
        /\ work[a] \in {Idle} \cup [task : Task, step : {"pulling", "pushing"}]
        /\ Session(NoTask, mem.status[NoTask], up[s], down[s], work[a])
    BY <1>0, <2>2, <2>3 DEF StreamRight, Held, TypeOK
  <2>6. /\ down[s] = <<>> /\ work[a] = Idle
        /\ Session(t, "ASSIGNED", up[s], <<>>, Idle)
        /\ Session(t, "ASSIGNED", up[s], <<t>>, Idle)
    <3> DEFINE st == mem.status[NoTask]
               q == up[s]
               d == down[s]
               w == work[a]
    <3>1. /\ q \in Seq(AgentMsg) /\ d \in Seq(Task) /\ Session(NoTask, st, q, d, w)
          /\ w \in {Idle} \cup [task : Task, step : {"pulling", "pushing"}]
      BY <2>5
    <3> HIDE DEF st, q, d, w
    <3>2. /\ d = <<>> /\ w = Idle
          /\ \A u, su : Session(u, su, q, <<>>, Idle)
          /\ \A u \in Task : Session(u, "ASSIGNED", q, <<u>>, Idle)
      BY <3>1, SessionOfNothing
    <3> QED
      BY <2>3, <3>2 DEF q, d, w
  <2>7. down'[s] = IF conn[s] = "up" THEN <<t>> ELSE <<>>
    BY <1>0, <2>1, <2>6 DEF TypeOK
  <2>8. Session(Held(s)', mem'.status[Held(s)'], up'[s], down'[s], work'[a])
    BY <2>2, <2>4, <2>6, <2>7 DEF Held
  <2> QED
    BY <2>2, <2>4, <2>6, <2>7, <2>8 DEF StreamRight
<1>3. CASE SendTaskFails(s)
  <2>1. PICK t \in Choices(mem, a) : mem' = AssignTo(mem, a, t)
    BY <1>3 DEF SendTaskFails
  <2>2. Touches(mem, mem', a)
    BY <1>0, <2>1, AssignTouches
  <2>3. /\ pc'[s] \in {"none", "exit"} /\ callback' = callback
        /\ conn' = conn /\ down' = down /\ work' = work
    BY <1>0, <1>3 DEF SendTaskFails, Goto, agentVars, TypeOK
  <2> QED
    BY <1>0, <2>2, <2>3 DEF StreamRight
<1> QED
  BY <1>1, <1>2, <1>3

\* A heartbeat is read, a callback has its result, or the stream ends.
LEMMA OtherHandlerRight ==
    ASSUME IInv, NEW s \in Stream, AgentOf(s) \in Agent,
           RecvHeartbeat(s) \/ CallbackReturns(s) \/ RecvFails(s) \/ Exit(s)
    PROVE  /\ Touches(mem, mem', AgentOf(s)) /\ ResultsOfDone(mem', callback')
           /\ StreamRight(s)'
<1> DEFINE a == AgentOf(s)
<1>0. /\ mem \in StoreState /\ Matched(mem) /\ StreamRight(s) /\ TypeOK
      /\ ResultsOfDone(mem, callback)
  BY DEF IInv, Tables, TypeOK
<1>1. CASE RecvHeartbeat(s)
  <2>1. /\ Touches(mem, mem', a) /\ mem'.status = mem.status
        /\ mem'.current = mem.current /\ (mem.link[a] = "online" => mem'.link[a] = "online")
    BY <1>0, <1>1, OnlineTouches DEF RecvHeartbeat
  <2>2. /\ (pc'[s] = "assign" /\ up'[s] = Tail(up[s])) \/ pc'[s] = "exit"
        /\ callback' = callback /\ pc[s] = "recv"
        /\ conn' = conn /\ down' = down /\ work' = work
        /\ up[s] \in Seq(AgentMsg) /\ up[s] # <<>> /\ Head(up[s]) = HeartbeatMsg
    BY <1>0, <1>1 DEF RecvHeartbeat, Goto, agentVars, TypeOK
  <2>3. Session(Held(s), mem.status[Held(s)], Tail(up[s]), down[s], work[a])
    BY <1>0, <2>2, SessionReadsHeartbeat DEF StreamRight
  <2> QED
    BY <1>0, <2>1, <2>2, <2>3, DoneUntouched DEF StreamRight, Held
<1>2. CASE CallbackReturns(s)
  <2>1. /\ mem' = mem /\ pc'[s] = "assign" /\ pc[s] = "callback"
        /\ conn' = conn /\ up' = up /\ down' = down /\ work' = work
    BY <1>0, <1>2 DEF CallbackReturns, netVars, agentVars, Goto, TypeOK
  <2>2. PICK res \in {"failed", "success"} : callback' = [callback EXCEPT ![reported[s]] = res]
    BY <1>2 DEF CallbackReturns
  <2>3. mem.status[reported[s]] = "DONE"
    BY <1>0, <2>1 DEF StreamRight
  <2>4. ResultsOfDone(mem', callback')
    BY <1>0, <2>1, <2>2, <2>3 DEF ResultsOfDone, TypeOK
  <2> QED
    BY <1>0, <2>1, <2>4, NothingTouched DEF StreamRight, Held
<1>3. CASE RecvFails(s)
  <2>1. /\ mem' = mem /\ callback' = callback /\ pc'[s] = "exit"
        /\ conn' = conn /\ down' = down /\ work' = work
    BY <1>0, <1>3 DEF RecvFails, storeVars, agentVars, Goto, TypeOK
  <2> QED
    BY <1>0, <2>1, NothingTouched DEF StreamRight
<1>4. CASE Exit(s)
  <2>1. Touches(mem, mem', a)
    BY <1>0, <1>4, OfflineTouches DEF Exit
  <2>2. /\ pc'[s] = "none" /\ callback' = callback
        /\ conn' = conn /\ down' = down /\ work' = work
    BY <1>0, <1>4 DEF Exit, netVars, agentVars, Goto, TypeOK
  <2> QED
    BY <1>0, <2>1, <2>2, DoneUntouched DEF StreamRight
<1> QED
  BY <1>1, <1>2, <1>3, <1>4

\* A report is read and stored: it is the next one of the task its sender holds.
LEMMA ReportRight ==
    ASSUME IInv, NEW s \in Stream, AgentOf(s) \in Agent, RecvProgress(s)
    PROVE  /\ Touches(mem, mem', AgentOf(s)) /\ callback' = callback
           /\ StreamRight(s)'
<1> DEFINE a == AgentOf(s)
           t == Held(s)
           m == Head(up[s])
<1>0. mem \in StoreState /\ Matched(mem) /\ StreamRight(s) /\ TypeOK
  BY DEF IInv, Tables, TypeOK
<1>1. /\ pc[s] = "recv" /\ mem' = UpdateTaskProgress(mem, a, m.task, m.status)
      /\ up[s] # <<>> /\ IsReport(m) /\ up[s] \in Seq(AgentMsg)
      /\ callback' = callback /\ conn' = conn /\ down' = down /\ work' = work
  BY <1>0 DEF RecvProgress, IsReport, agentVars, TypeOK
<1>2. /\ mem.link[a] = "online"
      /\ Session(t, mem.status[t], up[s], down[s], work[a])
  BY <1>0, <1>1 DEF StreamRight
<1>3. t \in Task /\ m.task = t /\ m.status \in Reported
  <2> DEFINE st == mem.status[t]
             q == up[s]
             d == down[s]
             w == work[a]
  <2>1. q \in Seq(AgentMsg) /\ q # <<>> /\ IsReport(Head(q)) /\ Session(t, st, q, d, w)
    BY <1>1, <1>2
  <2> HIDE DEF t, st, q, d, w
  <2> QED
    BY <2>1, ReportIsNext DEF q
<1>4. /\ Touches(mem, mem', a) /\ mem'.link[a] = "online"
      /\ mem'.current[a] = IF isFinalStatus(m.status) THEN NoTask ELSE t
      /\ mem'.status[t] = m.status
  BY SMTT(30), <1>0, <1>1, <1>2, <1>3, ReportTouches DEF Held, Holds
<1>5. \/ pc'[s] = "exit"
      \/ pc'[s] = "assign" /\ up'[s] = Tail(up[s])
      \/ /\ pc'[s] = "callback" /\ up'[s] = Tail(up[s])
         /\ reported'[s] = t /\ m.status = "DONE"
  BY <1>0, <1>3 DEF RecvProgress, PostsCallback, Goto, TypeOK
<1>6. Session(Held(s)', mem'.status[Held(s)'], Tail(up[s]), down'[s], work'[a])
  <2>1. CASE isFinalStatus(m.status)
    BY <1>1, <1>2, <2>1, SessionReadsEnd
  <2>2. CASE ~isFinalStatus(m.status)
    BY <1>1, <1>2, <1>4, <2>2, SessionReadsReport DEF Held
  <2> QED
    BY <2>1, <2>2
<1> QED
  BY <1>0, <1>1, <1>3, <1>4, <1>5, <1>6 DEF StreamRight

\* A step of a handler keeps the invariant.
LEMMA HandlerKeeps ==
    ASSUME StreamsPerAgent = 1, IInv, NEW s \in Stream, HandlerStep(s), TypeOK'
    PROVE  IInv'
<1>1. AgentOf(s) \in Agent /\ Tables /\ TypeOK
  BY OneStream DEF IInv
<1>2. /\ Touches(mem, mem', AgentOf(s)) /\ ResultsOfDone(mem', callback')
      /\ StreamRight(s)'
  <2>1. CASE callback' = callback /\ Touches(mem, mem', AgentOf(s)) /\ StreamRight(s)'
    BY <1>1, <2>1, DoneUntouched DEF Tables
  <2> QED
    BY <1>1, <2>1, HelloRight, SendRight, OtherHandlerRight, ReportRight DEF HandlerStep
<1>3. Tables'
  BY <1>1, <1>2, TablesKept, HandlerTouches
<1>4. ASSUME NEW r \in Stream, r # s PROVE StreamRight(r)'
  <2>1. AgentOf(r) \in Agent \ {AgentOf(s)}
    BY <1>4, OneStream
  <2> QED
    BY <1>1, <1>2, <1>4, <2>1, HandlerTouches, OtherStreams
<1> QED
  BY <1>2, <1>3, <1>4 DEF IInv

-----------------------------------------------------------------------------
(* The steps of an agent, of a webhook, and a crash.                       *)

\* An agent whose connection is up may only have the task its session is about.
LEMMA LiveSession ==
    ASSUME IInv, NEW s \in Stream, work[AgentOf(s)] # Idle, pc[s] \notin {"none", "exit"}
    PROVE  /\ work[AgentOf(s)].task = Held(s) /\ Held(s) \in Task
           /\ work[AgentOf(s)] = [task |-> Held(s), step |-> work[AgentOf(s)].step]
<1>1. Session(Held(s), mem.status[Held(s)], up[s], down[s], work[AgentOf(s)])
  BY DEF IInv, StreamRight
<1>2. work[AgentOf(s)].task = Held(s)
      /\ work[AgentOf(s)] = [task |-> Held(s), step |-> work[AgentOf(s)].step]
  BY <1>1 DEF Session
<1>3. AgentOf(s) \in Agent
  BY DEF Stream, AgentOf
<1>4. work[AgentOf(s)].task \in Task
  BY <1>3 DEF IInv, TypeOK
<1> QED
  BY <1>2, <1>4

\* The connection of an agent ends.
LEMMA LeaveRight ==
    ASSUME IInv, NEW s \in Stream, AgentOf(s) \in Agent, Leave(AgentOf(s), s)
    PROVE  StreamRight(s)'
<1>1. /\ mem' = mem /\ pc' = pc /\ reported' = reported /\ up' = up
      /\ conn'[s] = "down" /\ down'[s] = <<>> /\ work'[AgentOf(s)] = Idle
  BY DEF Leave, storeVars, relayVars, IInv, TypeOK
<1>2. StreamRight(s)
  BY DEF IInv
<1> QED
  BY <1>1, <1>2, SessionLeft DEF StreamRight, Held

\* A step of an agent keeps the invariant.
LEMMA AgentKeeps ==
    ASSUME StreamsPerAgent = 1, IInv, NEW a \in Agent, AgentStep(a), TypeOK'
    PROVE  IInv'
<1>0. TypeOK /\ \A s \in Stream : StreamRight(s)
  BY DEF IInv
<1> SUFFICES ASSUME NEW s \in Stream, AgentOf(s) = a PROVE IInv'
  <2> DEFINE s == <<a, 1>>
  <2>1. s \in Stream /\ AgentOf(s) = a
    BY DEF Stream, AgentOf
  <2> QED
    BY <2>1
<1>1. \A r \in Live(a) : r = s /\ conn[s] = "up"
  BY OneStream DEF Live
<1>2. mem' = mem /\ callback' = callback /\ disk' = disk /\ reported' = reported
  BY DEF AgentStep, Dial, Drop, NoticeEnd, Rotate, SendHeartbeat, StartTask, WorkStep, Pulled,
         EndTask, OrphanEnds, Leave, storeVars, relayVars
<1>3. ASSUME NEW r \in Stream, r # s
      PROVE  /\ pc'[r] = pc[r] /\ conn'[r] = conn[r] /\ up'[r] = up[r] /\ down'[r] = down[r]
             /\ work'[AgentOf(r)] = work[AgentOf(r)]
  <2>0. AgentOf(r) # a /\ AgentOf(r) \in Agent
    BY <1>3, OneStream
  <2> USE DEF TypeOK, storeVars, relayVars, netVars, agentVars
  <2>1. CASE Dial(a)
    <3>1. PICK x \in Stream :
             /\ AgentOf(x) = a /\ Goto(x, "hello")
             /\ conn' = [conn EXCEPT ![x] = "up"]
             /\ up' = [up EXCEPT ![x] = <<>>]
             /\ down' = [down EXCEPT ![x] = <<>>]
      BY <2>1 DEF Dial
    <3> QED
      BY <1>0, <1>3, <2>0, <2>1, <3>1 DEF Goto, Dial
  <2>2. CASE Drop(a) \/ NoticeEnd(a) \/ Rotate(a)
    BY <1>0, <1>1, <1>3, <2>0, <2>2 DEF Drop, NoticeEnd, Rotate, Leave
  <2>3. CASE SendHeartbeat(a) \/ StartTask(a)
    BY <1>0, <1>1, <1>3, <2>0, <2>3 DEF SendHeartbeat, StartTask
  <2>4. CASE Pulled(a) \/ EndTask(a)
    BY <1>0, <1>1, <1>3, <2>0, <2>4 DEF Pulled, EndTask
  <2>5. CASE OrphanEnds(a)
    BY <2>5 DEF OrphanEnds
  <2> QED
    BY <2>1, <2>2, <2>3, <2>4, <2>5 DEF AgentStep, WorkStep
<1>4. StreamRight(s)'
  <2> DEFINE w == work[a]
  <2>1. CASE Dial(a)
    <3>1. Live(a) = {}
      BY <2>1 DEF Dial
    <3>2. conn[s] = "down"
      BY <1>0, <3>1 DEF Live, TypeOK
    <3>3. PICK x \in Stream :
             /\ AgentOf(x) = a /\ Goto(x, "hello")
             /\ conn' = [conn EXCEPT ![x] = "up"]
             /\ up' = [up EXCEPT ![x] = <<>>]
             /\ down' = [down EXCEPT ![x] = <<>>]
      BY <2>1 DEF Dial
    <3>4. x = s
      BY <3>3, OneStream
    <3>5. /\ pc'[s] = "hello" /\ conn'[s] = "up" /\ up'[s] = <<>> /\ down'[s] = <<>>
          /\ work' = work
      BY <1>0, <2>1, <3>3, <3>4 DEF Dial, Goto, TypeOK, agentVars
    <3>6. w = Idle
      BY <1>0, <3>2 DEF StreamRight
    <3> QED
      BY <3>5, <3>6, SessionStarts DEF StreamRight
  <2>2. CASE Drop(a) \/ NoticeEnd(a) \/ Rotate(a)
    BY <1>1, <2>2, LeaveRight DEF Drop, NoticeEnd, Rotate
  <2>3. CASE SendHeartbeat(a)
    <3>1. /\ up'[s] = Append(up[s], HeartbeatMsg) /\ up[s] \in Seq(AgentMsg)
          /\ pc' = pc /\ conn' = conn /\ down' = down /\ work' = work
      BY <1>0, <1>1, <2>3 DEF SendHeartbeat, relayVars, agentVars, TypeOK
    <3> QED
      BY <1>0, <1>2, <3>1, SessionHeartbeat DEF StreamRight, Held
  <2>4. CASE StartTask(a)
    <3>1. /\ conn[s] = "up" /\ w = Idle /\ down[s] # <<>>
          /\ pc' = pc /\ conn' = conn
          /\ up'[s] = Append(up[s], Progress(Head(down[s]), "PULLING"))
          /\ down'[s] = Tail(down[s])
          /\ work'[a] = [task |-> Head(down[s]), step |-> "pulling"]
          /\ up[s] \in Seq(AgentMsg) /\ down[s] \in Seq(Task)
      BY SMTT(30), <1>0, <1>1, <2>4 DEF StartTask, relayVars, TypeOK
    <3>2. CASE pc[s] \notin {"none", "exit"}
      <4> DEFINE t == Held(s)
                 st == mem.status[t]
                 q == up[s]
                 d == down[s]
      <4>1. Session(t, st, q, d, Idle)
        BY <1>0, <3>1, <3>2 DEF StreamRight
      <4>2. q \in Seq(AgentMsg) /\ d \in Seq(Task) /\ d # <<>>
        BY <3>1
      <4> HIDE DEF t, st, q, d
      <4>3. /\ Head(d) = t /\ Tail(d) = <<>>
            /\ Session(t, st, Append(q, Progress(t, "PULLING")), <<>>,
                       [task |-> t, step |-> "pulling"])
        BY <4>1, <4>2, SessionStartsTask
      <4>4. Session(Held(s)', mem'.status[Held(s)'], up'[s], down'[s], work'[a])
        BY <1>2, <3>1, <4>3 DEF t, st, q, d, Held
      <4> QED
        BY <1>0, <1>2, <3>1, <4>4 DEF StreamRight
    <3>3. CASE pc[s] \in {"none", "exit"}
      BY <1>0, <3>1, <3>3 DEF StreamRight
    <3> QED
      BY <3>2, <3>3
  <2>5. CASE Pulled(a)
    <3>1. /\ conn[s] = "up" /\ w.step = "pulling"
          /\ pc' = pc /\ conn' = conn /\ down' = down
          /\ up'[s] = Append(up[s], Progress(w.task, "PUSHING"))
          /\ work'[a] = [w EXCEPT !.step = "pushing"]
          /\ up[s] \in Seq(AgentMsg)
      BY <1>0, <1>1, <2>5 DEF Pulled, relayVars, TypeOK
    <3>2. CASE pc[s] \notin {"none", "exit"}
      <4> DEFINE t == Held(s)
                 st == mem.status[t]
                 q == up[s]
                 d == down[s]
      <4>1. /\ w # Idle /\ w \in [task : Task, step : {"pulling", "pushing"}]
            /\ work'[a] = [task |-> w.task, step |-> "pushing"]
        BY <1>0, <3>1, IdleIsNoTask, WorkOn DEF TypeOK
      <4>2. w.task = t /\ t \in Task /\ w = [task |-> t, step |-> "pulling"]
        BY <3>1, <3>2, <4>1, LiveSession
      <4>3. Session(t, st, q, d, w) /\ q \in Seq(AgentMsg)
        BY <1>0, <3>1, <3>2 DEF StreamRight
      <4> HIDE DEF t, st, q, d, w
      <4>4. Session(t, st, Append(q, Progress(t, "PUSHING")), d,
                    [task |-> t, step |-> "pushing"])
        BY <4>2, <4>3, SessionPulled
      <4> USE DEF w
      <4>5. Session(Held(s)', mem'.status[Held(s)'], up'[s], down'[s], work'[a])
        BY <1>2, <3>1, <4>1, <4>2, <4>4 DEF t, st, q, d, Held
      <4> QED
        BY <1>0, <1>2, <3>1, <4>5 DEF StreamRight
    <3>3. CASE pc[s] \in {"none", "exit"}
      BY <1>0, <3>1, <3>3 DEF StreamRight
    <3> QED
      BY <3>2, <3>3
  <2>6. CASE EndTask(a)
    <3>1. PICK e \in {"DONE", "FAILED"} :
             /\ w # Idle /\ (e = "DONE" => w.step = "pushing")
             /\ up'[s] = Append(up[s], Progress(w.task, e))
      BY <1>0, <1>1, <2>6 DEF EndTask, TypeOK
    <3>2. /\ conn[s] = "up" /\ pc' = pc /\ conn' = conn /\ down' = down
          /\ work'[a] = Idle /\ up[s] \in Seq(AgentMsg)
      BY <1>0, <1>1, <2>6 DEF EndTask, relayVars, TypeOK
    <3>3. CASE pc[s] \notin {"none", "exit"}
      <4> DEFINE t == Held(s)
                 st == mem.status[t]
                 q == up[s]
                 d == down[s]
                 k == w.step
      <4>1. k \in {"pulling", "pushing"}
        BY <1>0, <3>1 DEF TypeOK
      <4>2. w.task = t /\ t \in Task /\ w = [task |-> t, step |-> k]
        BY <3>1, <3>3, LiveSession
      <4>3. Session(t, st, q, d, w) /\ q \in Seq(AgentMsg)
        BY <1>0, <3>2, <3>3 DEF StreamRight
      <4>4. e = "DONE" => k = "pushing"
        BY <3>1
      <4> HIDE DEF t, st, q, d, k, w
      <4>5. Session(t, st, Append(q, Progress(t, e)), d, Idle)
        BY <4>1, <4>2, <4>3, <4>4, SessionEndsTask
      <4> USE DEF w
      <4>6. Session(Held(s)', mem'.status[Held(s)'], up'[s], down'[s], work'[a])
        BY <1>2, <3>1, <3>2, <4>2, <4>5 DEF t, st, q, d, Held
      <4> QED
        BY <1>0, <1>2, <3>2, <4>6 DEF StreamRight
    <3>4. CASE pc[s] \in {"none", "exit"}
      BY <1>0, <3>2, <3>4 DEF StreamRight
    <3> QED
      BY <3>3, <3>4
  <2>7. CASE OrphanEnds(a)
    <3>1. pc' = pc /\ conn' = conn /\ up' = up /\ down' = down /\ work' = work
      BY <2>7 DEF OrphanEnds, relayVars, netVars
    <3> QED
      BY <1>0, <1>2, <3>1 DEF StreamRight, Held
  <2> QED
    BY <2>1, <2>2, <2>3, <2>4, <2>5, <2>6, <2>7 DEF AgentStep, WorkStep
<1>5. Touches(mem, mem', a)
  BY <1>0, <1>2, NothingTouched DEF IInv, Tables, TypeOK
<1>6. \A r \in Stream : StreamRight(r)'
  BY <1>2, <1>3, <1>4, <1>5, OneStream, OtherStreams
<1> QED
  BY <1>2, <1>6 DEF IInv, Tables

\* New tasks keep the invariant.
LEMMA SubmitKeeps == ASSUME StreamsPerAgent = 1, IInv, Submit, TypeOK' PROVE IInv'
<1>1. mem \in StoreState /\ Tables
  BY DEF IInv, TypeOK
<1>2. PICK ts \in SUBSET Task :
         /\ \A t \in ts : ~Exists(mem, t)
         /\ mem' = AddTasks(mem, ts)
         /\ UNCHANGED <<callback, relayVars, netVars, agentVars, faultVars>>
         /\ Saved \/ SaveFails
  BY DEF Submit
<1>3. Touches(mem, mem', NoAgent)
  BY <1>1, <1>2, AddTasksTouches DEF Tables
<1>4. Tables'
  BY <1>1, <1>2, <1>3, TablesKept, DoneUntouched DEF Tables, SaveFails
<1>5. \A r \in Stream : StreamRight(r)'
  BY <1>2, <1>3, OneStream, OtherStreams, StoreAssumption DEF relayVars, netVars, agentVars
<1> QED
  BY <1>4, <1>5 DEF IInv

\* A crash keeps the invariant: what was saved is right too.
LEMMA CrashKeeps == ASSUME IInv, Crash, TypeOK' PROVE IInv'
<1>1. Tables'
  BY DEF IInv, Crash, Tables
<1>2. ASSUME NEW s \in Stream PROVE StreamRight(s)'
  BY DEF IInv, Crash, StreamRight, agentVars
<1> QED
  BY <1>1, <1>2 DEF IInv

\* The invariant holds at first.
LEMMA InitIInv == Init => IInv
<1> SUFFICES ASSUME Init PROVE IInv
  OBVIOUS
<1>1. TypeOK
  BY TypeInit
<1>2. Tables
  BY EmptyMatched DEF Init, Tables, ResultsOfDone
<1>3. ASSUME NEW s \in Stream PROVE StreamRight(s)
  BY DEF Init, StreamRight, Stream, AgentOf
<1> QED
  BY <1>1, <1>2, <1>3 DEF IInv

\* Every step keeps the invariant.
LEMMA StepIInv == ASSUME StreamsPerAgent = 1, IInv, [Next]_vars PROVE IInv'
<1>1. TypeOK'
  BY TypeStep DEF IInv
<1>2. CASE UNCHANGED vars
  BY <1>1, <1>2 DEF IInv, Tables, StreamRight, Held, vars, storeVars, relayVars, netVars, agentVars
<1> QED
  BY <1>1, <1>2, SubmitKeeps, CrashKeeps, HandlerKeeps, AgentKeeps DEF Next

-----------------------------------------------------------------------------
(* The safety properties. *)

\* The invariant, for every behaviour in which a stream ends before the next hello
\* of its agent.
THEOREM Invariance == ASSUME StreamsPerAgent = 1 PROVE Spec => []IInv
<1>1. Init => IInv
  BY InitIInv
<1>2. IInv /\ [Next]_vars => IInv'
  BY StepIInv
<1> QED
  BY <1>1, <1>2, PTL DEF Spec

\* A task that is assigned, pulling or pushing is held by its assignee, whatever
\* messages, connections and saves are lost and whenever the relay crashes: the end
\* of that agent's stream requeues it.  With one stream per agent: the relay notices
\* the end of a stream before the next hello, which the code does not ensure.
THEOREM NoTaskIsStranded == ASSUME StreamsPerAgent = 1 PROVE Spec => []NothingStranded
<1>1. IInv => NothingStranded
  BY DEF IInv, Tables, Matched, NothingStranded
<1> QED
  BY <1>1, Invariance, PTL

\* Agents that are served are shown online, and callback results only for tasks that
\* are shown done.  With one stream per agent, which the code does not ensure.
THEOREM ApiShowsWhatIsSo == ASSUME StreamsPerAgent = 1 PROVE Spec => []ShownIsSo
<1>1. IInv => ShownIsSo
  BY DEF IInv, Tables, ResultsOfDone, StreamRight, ShownIsSo, ServedIsOnline, CallbackMeansDone
<1> QED
  BY <1>1, Invariance, PTL

\* What is on its way to an agent over a stream in use, or worked on there, is the one
\* task this agent holds.
LEMMA UnderWay ==
    ASSUME StreamsPerAgent = 1, IInv, NEW t \in Task
    PROVE  /\ \A s \in Stream : \A i : Attached(s) /\ i \in DOMAIN down[s] /\ down[s][i] = t =>
                 Holds(mem, AgentOf(s), t) /\ i = 1 /\ work[AgentOf(s)] = Idle
           /\ \A a \in Agent : WorksOn(a, t) => Holds(mem, a, t)
<1>1. ASSUME NEW s \in Stream, NEW i, Attached(s), i \in DOMAIN down[s], down[s][i] = t
      PROVE  Holds(mem, AgentOf(s), t) /\ i = 1 /\ work[AgentOf(s)] = Idle
  <2>1. Session(Held(s), mem.status[Held(s)], up[s], down[s], work[AgentOf(s)])
    BY <1>1 DEF IInv, StreamRight, Attached
  <2>2. CASE down[s] = <<>>
    BY <1>1, <2>2
  <2>3. CASE down[s] = <<Held(s)>> /\ work[AgentOf(s)] = Idle
    BY <1>1, <2>3 DEF Held, Holds
  <2> QED
    BY <2>1, <2>2, <2>3 DEF Session
<1>2. ASSUME NEW a \in Agent, WorksOn(a, t) PROVE Holds(mem, a, t)
  <2>1. PICK s \in Stream : AgentOf(s) = a /\ Attached(s)
    BY <1>2 DEF WorksOn, Live
  <2>2. work[a] # Idle
    BY <1>2, IdleIsNoTask, StoreAssumption DEF WorksOn
  <2> QED
    BY <1>2, <2>1, <2>2, LiveSession DEF WorksOn, Attached, Held, Holds
<1> QED
  BY <1>1, <1>2

\* A task is under way in at most one place, at the agent that holds it.  With one
\* stream per agent, which the code does not ensure.
THEOREM TasksAreSentOnce == ASSUME StreamsPerAgent = 1 PROVE Spec => []SentOnce
<1>1. ASSUME IInv PROVE SentOnce
  <2> SUFFICES ASSUME NEW t \in Task PROVE Cardinality(Copies(t)) <= 1
    BY <1>1, UnderWay DEF SentOnce
  <2>1. ASSUME NEW a \in Agent, NEW b \in Agent, Holds(mem, a, t), Holds(mem, b, t)
        PROVE  a = b
    BY <1>1, <2>1 DEF IInv, Tables, Matched
  <2> DEFINE Sent == {c \in Stream \X (1..Cardinality(Task)) :
                        /\ Attached(c[1])
                        /\ c[2] \in DOMAIN down[c[1]] /\ down[c[1]][c[2]] = t}
             Worked == {a \in Agent : WorksOn(a, t)}
  <2>2. \A c \in Sent : /\ c = <<c[1], 1>> /\ c[1] \in Stream
                        /\ Holds(mem, AgentOf(c[1]), t) /\ work[AgentOf(c[1])] = Idle
    BY <1>1, UnderWay
  <2>3. \A a \in Worked : Holds(mem, a, t) /\ work[a].task = t
    BY <1>1, UnderWay DEF WorksOn
  <2>4. \A c, e \in Sent : c = e
    BY <2>1, <2>2, OneStream
  <2>5. \A a, b \in Worked : a = b
    BY <2>1, <2>3
  <2>6. \A c \in Sent, a \in Worked : FALSE
    BY <2>1, <2>2, <2>3, OneStream, IdleIsNoTask, StoreAssumption
  <2>7. Copies(t) = Sent \cup Worked
    BY DEF Copies
  <2> HIDE DEF Sent, Worked
  <2>8. CASE Copies(t) = {}
    BY <2>8, FS_EmptySet
  <2>9. ASSUME NEW c \in Copies(t) PROVE Cardinality(Copies(t)) <= 1
    <3>1. Copies(t) = {c}
      BY <2>4, <2>5, <2>6, <2>7, <2>9
    <3> QED
      BY <3>1, FS_Singleton
  <2> QED
    BY <2>8, <2>9
<1> QED
  BY <1>1, Invariance, PTL

-----------------------------------------------------------------------------
(* The refinement of TaskQueue.                                            *)
(*                                                                         *)
(* One hypothesis is left: no crash while memory holds what a failed save  *)
(* did not write.  The report whose save failed was read from the stream,  *)
(* so after such a crash the task is back where the file has it, a step    *)
(* TaskQueue does not allow.  Without failed saves, or without crashes, or *)
(* with at most one fault in a behaviour, there is no such crash.          *)

\* What TaskQueue sees of the tables.
PhaseAt(s) == [t \in Task |-> PhaseOf[s.status[t]]]
ClaimantAt(s) == [t \in Task |->
    IF s.status[t] \in InProgress THEN s.assignee[t] ELSE NoAgent]

\* The phases of the statuses.
LEMMA Phases ==
    /\ PhaseOf["ABSENT"] = "absent" /\ PhaseOf["PENDING"] = "waiting"
    /\ PhaseOf["ASSIGNED"] = "assigned" /\ PhaseOf["PULLING"] = "pulling"
    /\ PhaseOf["PUSHING"] = "pushing" /\ PhaseOf["DONE"] = "done"
    /\ PhaseOf["FAILED"] = "failed"
BY DEF PhaseOf

\* The empty tables are TaskQueue's initial state.
LEMMA RefineInit == Init => Queue!Init
BY Phases DEF Init, Queue!Init, EmptyStore, InProgress

\* A step after which every task has the status and the assignee it had.
LEMMA RefineStutter ==
    ASSUME TypeOK, TypeOK', \A t \in Task : mem'.status[t] = mem.status[t],
           \A t \in Task : mem.status[t] \in InProgress => mem'.assignee[t] = mem.assignee[t]
    PROVE  UNCHANGED Queue!vars
BY DEF Queue!vars

\* New tasks wait (Submit).
LEMMA RefineSubmit == ASSUME TypeOK, Submit PROVE Queue!Next
<1>1. PICK ts \in SUBSET Task :
         (\A t \in ts : ~Exists(mem, t)) /\ mem' = AddTasks(mem, ts)
  BY DEF Submit
<1>2. /\ \A t \in Task : mem'.status[t] = IF t \in ts THEN "PENDING" ELSE mem.status[t]
      /\ \A t \in Task : mem'.assignee[t] = mem.assignee[t]
      /\ \A t \in ts : mem.status[t] = "ABSENT"
  BY <1>1 DEF AddTasks, TypeOK, StoreState, Exists
<1>3. Queue!Submit(ts)
  BY <1>2, Phases DEF Queue!Submit, InProgress
<1> QED
  BY <1>3 DEF Queue!Next

\* An agent claims the task it is assigned (SendTask, SendTaskFails).
LEMMA RefineAssign ==
    ASSUME IInv, NEW a \in Agent, NEW t \in Choices(mem, a), mem' = AssignTo(mem, a, t)
    PROVE  Queue!Next
<1>1. mem \in StoreState /\ Matched(mem)
  BY DEF IInv, Tables, TypeOK
<1>2. t \in Task /\ mem.status[t] = "PENDING" /\ mem.current[a] = NoTask
  BY ChoicesTyped
<1>3. /\ \A u \in Task : mem'.status[u] = IF u = t THEN "ASSIGNED" ELSE mem.status[u]
      /\ \A u \in Task : mem'.assignee[u] = IF u = t THEN a ELSE mem.assignee[u]
  BY <1>1, AssignTouches
<1>4. \A u \in Task : mem.status[u] \in InProgress => mem.assignee[u] # a
  BY <1>1, <1>2, StoreAssumption DEF Matched, Holds
<1>5. Queue!Claim(t, a)
  BY ZenonT(40), <1>2, <1>3, <1>4, Phases, StoreAssumption DEF Queue!Claim, InProgress
<1> QED
  BY <1>2, <1>5 DEF Queue!Next

\* A report of the holder is an advance or the end of the task (RecvProgress).
LEMMA RefineReport ==
    ASSUME IInv, NEW s \in Stream, AgentOf(s) \in Agent, RecvProgress(s)
    PROVE  Queue!Next
<1> DEFINE a == AgentOf(s)
           t == Held(s)
           m == Head(up[s])
<1>1. /\ mem \in StoreState /\ Matched(mem) /\ StreamRight(s)
      /\ pc[s] = "recv" /\ mem' = UpdateTaskProgress(mem, a, m.task, m.status)
      /\ up[s] # <<>> /\ IsReport(m) /\ up[s] \in Seq(AgentMsg)
  BY DEF RecvProgress, IsReport, IInv, Tables, TypeOK
<1>2. /\ t \in Task /\ m.task = t /\ m.status \in Reported
      /\ Rank[mem.status[t]] < Rank[m.status]
      /\ m.status = "PUSHING" => mem.status[t] = "PULLING"
      /\ m.status = "DONE" => mem.status[t] = "PUSHING"
      /\ m.status = "FAILED" => mem.status[t] \in {"PULLING", "PUSHING"}
  <2> DEFINE st == mem.status[t]
             q == up[s]
             d == down[s]
             w == work[a]
  <2>1. q \in Seq(AgentMsg) /\ q # <<>> /\ IsReport(Head(q)) /\ Session(t, st, q, d, w)
    BY <1>1 DEF StreamRight
  <2> HIDE DEF t, st, q, d, w
  <2>2. /\ t \in Task /\ Head(q).task = t /\ Head(q).status \in Reported
        /\ Rank[st] < Rank[Head(q).status]
        /\ Head(q).status = "PUSHING" => st = "PULLING"
        /\ Head(q).status = "DONE" => st = "PUSHING"
        /\ Head(q).status = "FAILED" => st \in {"PULLING", "PUSHING"}
    BY <2>1, ReportIsNext
  <2> QED
    BY <2>2 DEF q, st
<1> HIDE DEF m
<1>3. mem.status[t] \in InProgress
  BY <1>1, <1>2 DEF Matched, Held, Holds
<1>4. mem.link[a] = "online" /\ Holds(mem, a, t)
  BY <1>1 DEF StreamRight, Held, Holds
<1>5. /\ \A u \in Task : mem'.status[u] = IF u = t THEN m.status ELSE mem.status[u]
      /\ \A u \in Task : mem'.assignee[u] = mem.assignee[u]
  BY <1>1, <1>2, <1>4, ReportTouches
<1> HIDE DEF t
<1>6. PICK u \in Task, st \in Reported : u = t /\ st = m.status
  BY <1>2
<1>7. /\ \A v \in Task : mem'.status[v] = IF v = u THEN st ELSE mem.status[v]
      /\ \A v \in Task : mem'.assignee[v] = mem.assignee[v]
      /\ \/ mem.status[u] = "ASSIGNED" /\ st = "PULLING"
         \/ mem.status[u] = "PULLING" /\ st = "PUSHING"
         \/ mem.status[u] = "PUSHING" /\ st = "DONE"
         \/ mem.status[u] \in {"PULLING", "PUSHING"} /\ st = "FAILED"
  BY <1>2, <1>3, <1>5, <1>6, Ranks DEF InProgress, Reported
<1>8. /\ PhaseAt(mem)' = [PhaseAt(mem) EXCEPT ![u] = PhaseOf[st]]
      /\ PhaseAt(mem)[u] = PhaseOf[mem.status[u]]
  BY <1>7 DEF PhaseAt
<1>9. CASE st \in {"PULLING", "PUSHING"}
  <2>1. ClaimantAt(mem)' = ClaimantAt(mem)
    BY <1>7, <1>9 DEF ClaimantAt, InProgress
  <2>2. \/ /\ PhaseAt(mem)[u] = "assigned"
           /\ PhaseAt(mem)' = [PhaseAt(mem) EXCEPT ![u] = "pulling"]
        \/ /\ PhaseAt(mem)[u] = "pulling"
           /\ PhaseAt(mem)' = [PhaseAt(mem) EXCEPT ![u] = "pushing"]
    BY ZenonT(40), <1>7, <1>8, <1>9, Phases
  <2>3. Queue!Advance(u)
    BY <2>1, <2>2 DEF Queue!Advance, PhaseAt, ClaimantAt
  <2> QED
    BY <2>3 DEF Queue!Next
<1>10. CASE st \in {"DONE", "FAILED"}
  <2>1. ClaimantAt(mem)' = [ClaimantAt(mem) EXCEPT ![u] = NoAgent]
    BY <1>7, <1>10 DEF ClaimantAt, InProgress
  <2>2. \/ /\ PhaseAt(mem)[u] = "pushing"
           /\ PhaseAt(mem)' = [PhaseAt(mem) EXCEPT ![u] = "done"]
        \/ /\ PhaseAt(mem)[u] \in {"pulling", "pushing"}
           /\ PhaseAt(mem)' = [PhaseAt(mem) EXCEPT ![u] = "failed"]
    BY ZenonT(40), <1>7, <1>8, <1>10, Phases
  <2>3. Queue!Finish(u)
    BY <2>1, <2>2 DEF Queue!Finish, PhaseAt, ClaimantAt
  <2> QED
    BY <2>3 DEF Queue!Next
<1> QED
  BY <1>6, <1>9, <1>10 DEF Reported

\* The end of a stream releases the task its agent holds, if any (Exit).
LEMMA RefineExit ==
    ASSUME IInv, NEW a \in Agent, mem' = MarkAgentOffline(mem, a)
    PROVE  Queue!Next \/ UNCHANGED Queue!vars
<1>1. mem \in StoreState /\ Matched(mem)
  BY DEF IInv, Tables, TypeOK
<1>2. /\ \A t \in Task : mem'.status[t] =
            IF Known(mem, a) /\ Holds(mem, a, t) THEN "PENDING" ELSE mem.status[t]
      /\ \A t \in Task : mem'.assignee[t] =
            IF Known(mem, a) /\ Holds(mem, a, t) THEN NoAgent ELSE mem.assignee[t]
  BY <1>1, OfflineTouches
<1>3. ASSUME NEW t \in Task, Known(mem, a), Holds(mem, a, t) PROVE Queue!Next
  <2>1. mem.status[t] \in InProgress
    BY <1>1, <1>3 DEF Matched
  <2>2. /\ \A u \in Task : mem'.status[u] = IF u = t THEN "PENDING" ELSE mem.status[u]
        /\ \A u \in Task : mem'.assignee[u] = IF u = t THEN NoAgent ELSE mem.assignee[u]
    BY <1>2, <1>3 DEF Holds
  <2>3. Queue!Release(t)
    BY <2>1, <2>2, Phases DEF Queue!Release, Queue!Claimed, InProgress
  <2> QED
    BY <2>3 DEF Queue!Next
<1>4. CASE \A t \in Task : ~(Known(mem, a) /\ Holds(mem, a, t))
  BY <1>2, <1>4 DEF Queue!vars
<1> QED
  BY <1>3, <1>4

\* Every step but a crash that loses what was not saved is a step of TaskQueue.
LEMMA RefineStep ==
    ASSUME StreamsPerAgent = 1, IInv, [Next]_vars, Crash => disk.store = mem
    PROVE  Queue!Next \/ UNCHANGED Queue!vars
<1>1. CASE mem' = mem
  BY <1>1 DEF Queue!vars
<1>2. CASE Submit
  BY <1>2, RefineSubmit DEF IInv
<1>3. CASE Crash
  BY <1>1, <1>3 DEF Crash
<1>4. CASE UNCHANGED vars
  BY <1>1, <1>4 DEF vars, storeVars
<1>5. CASE \E a \in Agent : AgentStep(a)
  BY <1>1, <1>5
     DEF AgentStep, Dial, Drop, NoticeEnd, Rotate, SendHeartbeat, StartTask, WorkStep, Pulled,
         EndTask, OrphanEnds, Leave, storeVars
<1>6. ASSUME NEW s \in Stream, HandlerStep(s) PROVE Queue!Next \/ UNCHANGED Queue!vars
  <2>1. AgentOf(s) \in Agent /\ mem \in StoreState /\ Matched(mem)
    BY OneStream DEF IInv, Tables, TypeOK
  <2>2. CASE Hello(s) \/ RecvHeartbeat(s)
    <3>1. mem'.status = mem.status /\ mem'.assignee = mem.assignee
      BY <2>1, <2>2 DEF Hello, RecvHeartbeat, UpsertAgent, MarkHeartbeat, StoreState
    <3> QED
      BY <3>1 DEF Queue!vars
  <2>3. CASE HelloFails(s) \/ NothingToSend(s) \/ CallbackReturns(s) \/ RecvFails(s)
    BY <1>1, <2>3 DEF HelloFails, NothingToSend, CallbackReturns, RecvFails, storeVars
  <2>4. CASE SendTask(s) \/ SendTaskFails(s)
    BY <2>1, <2>4, RefineAssign DEF SendTask, SendTaskFails
  <2>5. CASE RecvProgress(s)
    BY <2>1, <2>5, RefineReport
  <2>6. CASE Exit(s)
    BY <2>1, <2>6, RefineExit DEF Exit
  <2> QED
    BY <1>6, <2>2, <2>3, <2>4, <2>5, <2>6 DEF HandlerStep
<1> QED
  BY <1>2, <1>3, <1>4, <1>5, <1>6 DEF Next

\* While no save has failed the file holds what memory holds.
FileIsMemory == saveFails = 0 => disk = [store |-> mem, callback |-> callback]

\* A save writes all of memory, and a crash before any save failed loses nothing.
LEMMA FileIsMemoryStep == TypeOK /\ FileIsMemory /\ [Next]_vars => FileIsMemory'
<1> SUFFICES ASSUME TypeOK, FileIsMemory, [Next]_vars PROVE FileIsMemory'
  OBVIOUS
<1>1. saveFails \in Nat
  BY SessionsAssumption DEF TypeOK
<1>2. CASE Saved
  BY <1>2 DEF Saved, FileIsMemory
<1>3. CASE SaveFails
  BY <1>1, <1>3 DEF SaveFails, FileIsMemory
<1>4. CASE UNCHANGED storeVars
  BY <1>4 DEF storeVars, FileIsMemory
<1>5. CASE Crash
  BY <1>5 DEF Crash, FileIsMemory
<1>6. ASSUME NEW s \in Stream, HandlerStep(s) PROVE Saved \/ SaveFails \/ UNCHANGED storeVars
  BY <1>6 DEF HandlerStep, Hello, HelloFails, NothingToSend, SendTask, SendTaskFails,
              RecvHeartbeat, RecvProgress, CallbackReturns, RecvFails, Exit
<1>7. ASSUME NEW a \in Agent, AgentStep(a) PROVE UNCHANGED storeVars
  BY <1>7 DEF AgentStep, Dial, Drop, NoticeEnd, Rotate, SendHeartbeat, StartTask, WorkStep,
              Pulled, EndTask, OrphanEnds, Leave
<1>8. ASSUME Submit PROVE Saved \/ SaveFails
  BY <1>8 DEF Submit
<1>9. ASSUME UNCHANGED vars PROVE UNCHANGED storeVars
  BY <1>9 DEF vars
<1> QED
  BY <1>2, <1>3, <1>4, <1>5, <1>6, <1>7, <1>8, <1>9 DEF Next

\* Handlers and agents together do what TaskQueue promises, as long as no crash finds
\* in memory what a failed save did not write.
THEOREM QueueUnlessCrashLoses ==
    ASSUME StreamsPerAgent = 1
    PROVE  Spec /\ [][Crash => disk.store = mem]_vars => ImplementsQueue
<1>1. IInv /\ [Next]_vars /\ [Crash => disk.store = mem]_vars => [Queue!Next]_(Queue!vars)
  <2> SUFFICES ASSUME IInv, [Next]_vars, [Crash => disk.store = mem]_vars
               PROVE  Queue!Next \/ UNCHANGED Queue!vars
    OBVIOUS
  <2>1. CASE UNCHANGED vars
    BY <2>1 DEF vars, storeVars, Queue!vars
  <2>2. CASE Crash => disk.store = mem
    BY <2>2, RefineStep
  <2> QED
    BY <2>1, <2>2
<1> QED
  BY <1>1, RefineInit, Invariance, PTL DEF Spec, ImplementsQueue, Queue!Spec

\* When saves do not fail, or the relay does not crash, or at most one thing goes
\* wrong, no crash loses what was not saved.
LEMMA NoCrashLoses ==
    ASSUME MaxSaveFails = 0 \/ MaxCrashes = 0 \/ MaxFaults <= 1
    PROVE  Spec => [][Crash => disk.store = mem]_vars
<1>1. TypeOK /\ FileIsMemory => (Crash => disk.store = mem)
  <2> SUFFICES ASSUME TypeOK, FileIsMemory, Crash PROVE disk.store = mem
    OBVIOUS
  <2>1. saveFails \in 0..MaxSaveFails /\ crashes \in 0..MaxCrashes /\ drops \in 0..MaxDrops
        /\ crashes < MaxCrashes /\ drops + crashes + saveFails < MaxFaults
    BY DEF Crash, Faulty, TypeOK
  <2>2. saveFails = 0
    BY <2>1, SessionsAssumption
  <2> QED
    BY <2>2 DEF FileIsMemory
<1>2. Init => FileIsMemory
  BY DEF Init, FileIsMemory
<1> QED
  BY <1>1, <1>2, FileIsMemoryStep, TypeCorrect, PTL DEF Spec

\* RelaySessions implements TaskQueue when not both a save fails and the relay crashes:
\* lost connections, half-read streams and tasks that were assigned but never sent make
\* no task skip a step, leave its end, or be claimed by an agent that has another.
THEOREM ImplementsTaskQueue ==
    ASSUME StreamsPerAgent = 1, MaxSaveFails = 0 \/ MaxCrashes = 0 \/ MaxFaults <= 1
    PROVE  Spec => ImplementsQueue
BY QueueUnlessCrashLoses, NoCrashLoses, PTL

\* In TaskQueue a task that is done stays so.
LEMMA QueueKeepsDone ==
    ASSUME TypeOK, TypeOK', Queue!Next \/ UNCHANGED Queue!vars, NEW t \in Task,
           mem.status[t] = "DONE"
    PROVE  mem'.status[t] = "DONE"
<1>1. \A st \in Status : PhaseOf[st] = "done" => st = "DONE"
  BY DEF Status, PhaseOf
<1>2. PhaseAt(mem)[t] = "done"
  BY Phases DEF PhaseAt
<1>3. PhaseAt(mem)'[t] = "done"
  <2>1. CASE UNCHANGED Queue!vars
    BY <1>2, <2>1 DEF Queue!vars, PhaseAt
  <2>2. ASSUME NEW ts \in SUBSET Task, Queue!Submit(ts) PROVE PhaseAt(mem)'[t] = "done"
    BY <1>2, <2>2 DEF Queue!Submit, PhaseAt
  <2>3. ASSUME NEW u \in Task, NEW a \in Agent, Queue!Claim(u, a)
        PROVE  PhaseAt(mem)'[t] = "done"
    BY <1>2, <2>3 DEF Queue!Claim, PhaseAt
  <2>4. ASSUME NEW u \in Task, Queue!Advance(u) \/ Queue!Finish(u) \/ Queue!Release(u)
        PROVE  PhaseAt(mem)'[t] = "done"
    BY <1>2, <2>4 DEF Queue!Advance, Queue!Finish, Queue!Release, Queue!Claimed, PhaseAt
  <2> QED
    BY <2>1, <2>2, <2>3, <2>4 DEF Queue!Next
<1>4. mem'.status[t] \in Status
  BY DEF TypeOK, StoreState
<1> QED
  BY <1>1, <1>3, <1>4 DEF PhaseAt

\* A synchronised task is never done again or taken back - which two streams of one
\* agent can do (run done_regresses).
THEOREM DoneStaysDone ==
    ASSUME StreamsPerAgent = 1, MaxSaveFails = 0 \/ MaxCrashes = 0 \/ MaxFaults <= 1
    PROVE  Spec => DoneIsFinal
<1>1. TypeOK /\ TypeOK' /\ [Queue!Next]_(Queue!vars) =>
         [\A t \in Task : mem.status[t] = "DONE" => mem'.status[t] = "DONE"]_vars
  BY QueueKeepsDone
<1> QED
  BY <1>1, TypeCorrect, ImplementsTaskQueue, PTL
     DEF ImplementsQueue, Queue!Spec, DoneIsFinal
=============================================================================
