---------------------------- MODULE IntakeProofs ----------------------------
(***************************************************************************)
(* The promises of a webhook's answer, for any number of requests, bodies  *)
(* and routes, with failing saves and crashes.                             *)
(*                                                                         *)
(* The file is always behind memory (Behind).  Whatever memory holds was   *)
(* added by a request that is known (Own) and is in the file as a whole,   *)
(* unless that request was answered with an error (Backed).  Two requests  *)
(* add tasks of the same body only if the second was past its check when   *)
(* the first added its tasks (BuiltMet), and then they met (ServedMet).    *)
(***************************************************************************)
EXTENDS Intake, TLAPS

Typed ==
    /\ mem \in [tasks : SUBSET AllTasks, jobs : SUBSET AllTasks]
    /\ disk \in [tasks : SUBSET AllTasks, jobs : SUBSET AllTasks]
    /\ body \in [Request -> Body \cup {"none"}]
    /\ via \in [Request -> Webhook \cup {"none"}]
    /\ step \in [Request -> {"none", "lost"} \cup Waiting \cup Answer]
    /\ todo \in [Request -> SUBSET AllTasks]
    /\ met \subseteq SUBSET Request

HasBody == \A r \in Request :
    step[r] # "none" => body[r] \in Body /\ via[r] \in Webhook

Behind == disk.tasks \subseteq mem.tasks

Own == \A t \in mem.tasks :
    /\ t.request \in Request
    /\ t \in TasksOf(t.request)
    /\ step[t.request] \in {"stored", "queued", "failed", "lost"}

Stored == \A r \in Request :
    step[r] \in {"stored", "queued"} => TasksOf(r) \subseteq disk.tasks

Backed == \A t \in mem.tasks :
    step[t.request] = "failed" \/ TasksOf(t.request) \subseteq disk.tasks

\* The first half of DuplicateIsDurable, where the earlier request is one that was
\* begun.
DuplicateBacked == \A r \in Request :
    (step[r] = "duplicate" /\ ~\E q \in Request : step[q] = "failed" /\ body[q] = body[r])
        => \E q \in Request : /\ step[q] # "none"
                              /\ body[q] = body[r]
                              /\ TasksOf(q) # {}
                              /\ TasksOf(q) \subseteq disk.tasks

ServedMet == \A r, q \in Request : r # q /\ Served(r) /\ Served(q) => {r, q} \in met

BuiltMet == \A r \in Request, t \in mem.tasks :
    step[r] = "built" /\ t.event = body[r] => {r, t.request} \in met

Told == \A r \in Request : step[r] = "stored" =>
    {t \in TasksOf(r) : SiteOf(t) \in Announced} \subseteq mem.jobs \cup todo[r]

IInv == /\ Typed /\ HasBody /\ Behind /\ Own /\ Stored /\ Backed
        /\ DuplicateBacked /\ ServedMet /\ BuiltMet /\ OnceUnlessMet /\ Told

-----------------------------------------------------------------------------

\* A task names the request and the body it was built from, and its key tells it
\* from the other tasks of that request (buildTaskID).
LEMMA TasksNamed ==
    ASSUME NEW r \in Request, NEW w \in Webhook, NEW b \in Body
    PROVE  /\ Tasks(r, w, b) \subseteq AllTasks
           /\ \A t \in Tasks(r, w, b) : t.request = r /\ t.event = b
           /\ \A t, u \in Tasks(r, w, b) : t.key = u.key => t = u
<1>1. Tasks(r, w, b) \subseteq AllTasks
  <2> DEFINE S == {Tasks(q, v, c) : q \in Request, v \in Webhook, c \in Body}
  <2>1. Tasks(r, w, b) \in S
    OBVIOUS
  <2> HIDE DEF S
  <2>2. \A x \in S : x \subseteq UNION S
    OBVIOUS
  <2>3. AllTasks = UNION S
    BY DEF AllTasks, S
  <2> QED
    BY <2>1, <2>2, <2>3
<1>2. \A t \in Tasks(r, w, b) : t.request = r /\ t.event = b
  BY DEF Tasks
<1>3. \A t, u \in Tasks(r, w, b) : t.key = u.key => t = u
  BY DEF Tasks
<1> QED
  BY <1>1, <1>2, <1>3

\* Two requests of one body that came through one webhook build tasks of the same
\* keys.
LEMMA SameKeys ==
    ASSUME NEW r, NEW q, body[q] = body[r], via[q] = via[r]
    PROVE  \A t \in TasksOf(r) : \E u \in TasksOf(q) : u.key = t.key /\ u.event = body[r]
<1> DEFINE keys == buildTasks(via[r], PayloadOf[body[r]])
<1> HIDE DEF keys
<1>1. /\ TasksOf(r) = {[event |-> body[r], key |-> k, request |-> r] : k \in keys}
      /\ TasksOf(q) = {[event |-> body[r], key |-> k, request |-> q] : k \in keys}
  BY DEF TasksOf, Tasks, keys
<1> SUFFICES ASSUME NEW k \in keys
             PROVE  \E u \in TasksOf(q) : u.key = k /\ u.event = body[r]
  BY <1>1
<1>2. [event |-> body[r], key |-> k, request |-> q] \in TasksOf(q)
  BY <1>1
<1> QED
  BY <1>2

\* The empty store of a new relay satisfies the invariant.
LEMMA InitIInv == Init => IInv
BY DEF Init, IInv, EmptyTables, Typed, HasBody, Behind, Own, Stored, Backed,
       DuplicateBacked, ServedMet, BuiltMet, OnceUnlessMet, Told, Served,
       Waiting, Answer

\* A request that arrives meets those that are being served.
LEMMA ArriveIInv ==
    ASSUME IInv, NEW r \in Request, Arrive(r)
    PROVE  IInv'
<1> USE DEF IInv, Arrive, Goto, tables, request
<1>1. /\ \A q \in Request \ {r} : step'[q] = step[q] /\ body'[q] = body[q] /\ via'[q] = via[q]
      /\ step[r] = "none" /\ step'[r] = "received" /\ body'[r] \in Body /\ via'[r] \in Webhook
      /\ mem' = mem /\ disk' = disk /\ todo' = todo
  BY DEF Typed
<1>2. Typed' /\ HasBody'
  <2>1. met' \subseteq SUBSET Request
    BY DEF Typed
  <2> QED
    BY <1>1, <2>1 DEF Typed, HasBody, Waiting
<1>3. Behind' /\ Own' /\ Stored' /\ Backed'
  BY <1>1 DEF Behind, Own, Stored, Backed, TasksOf
<1>4. DuplicateBacked'
  BY <1>1 DEF DuplicateBacked, TasksOf
<1>5. ServedMet'
  BY <1>1 DEF ServedMet, Served, Waiting
<1>6. BuiltMet' /\ OnceUnlessMet' /\ Told'
  BY <1>1 DEF BuiltMet, OnceUnlessMet, Told, Twice, TasksOf
<1> QED
  BY <1>2, <1>3, <1>4, <1>5, <1>6

\* A request that is turned away changes neither memory nor the file.
LEMMA RefuseIInv ==
    ASSUME IInv, NEW r \in Request, Refuse(r)
    PROVE  IInv'
<1> USE DEF IInv, request
<1>1. /\ \A q \in Request \ {r} : step'[q] = step[q]
      /\ step[r] = "received" /\ step'[r] = "rejected"
      /\ mem' = mem /\ disk' = disk /\ todo' = todo /\ request' = request /\ met' = met
  BY DEF Refuse, Goto, Typed, tables
<1>2. Typed'
  BY <1>1 DEF Typed, Answer, Refuse, Goto
<1>3. HasBody' /\ Behind' /\ Own' /\ Stored' /\ Backed'
  BY <1>1 DEF HasBody, Behind, Own, Stored, Backed, TasksOf
<1>4. DuplicateBacked'
  BY <1>1 DEF DuplicateBacked, TasksOf
<1>5. ServedMet' /\ BuiltMet' /\ OnceUnlessMet' /\ Told'
  BY <1>1 DEF ServedMet, Served, Waiting, BuiltMet, OnceUnlessMet, Told, Twice, TasksOf
<1> QED
  BY <1>2, <1>3, <1>4, <1>5

\* A request that finds no event may go on to build its tasks; one that finds it
\* is a duplicate of a request whose tasks memory holds.
LEMMA CheckEventIInv ==
    ASSUME IInv, NEW r \in Request, CheckEvent(r)
    PROVE  IInv'
<1> USE DEF IInv, request
<1>1. /\ \A q \in Request \ {r} : step'[q] = step[q]
      /\ step[r] = "received"
      /\ step'[r] \in {"duplicate", "rejected", "ignored", "built"}
      /\ step'[r] = "duplicate" => \E t \in mem.tasks : t.event = body[r]
      /\ step'[r] = "built" => ~\E t \in mem.tasks : t.event = body[r]
      /\ mem' = mem /\ disk' = disk /\ todo' = todo /\ request' = request /\ met' = met
  BY DEF CheckEvent, Goto, EventExists, Typed, tables
<1>2. Typed'
  BY <1>1 DEF Typed, Answer, Waiting, CheckEvent, Goto
<1>3. HasBody' /\ Behind' /\ Own' /\ Stored' /\ Backed'
  BY <1>1 DEF HasBody, Behind, Own, Stored, Backed, TasksOf
<1>4. DuplicateBacked'
  <2> SUFFICES ASSUME NEW q \in Request, step'[q] = "duplicate",
                      ~\E p \in Request : step'[p] = "failed" /\ body'[p] = body'[q]
               PROVE  \E p \in Request : /\ step'[p] # "none" /\ body'[p] = body'[q]
                                         /\ TasksOf(p)' # {}
                                         /\ TasksOf(p)' \subseteq disk'.tasks
    BY DEF DuplicateBacked
  <2>1. CASE q # r
    BY <2>1, <1>1 DEF DuplicateBacked, TasksOf
  <2>2. CASE q = r
    <3>1. PICK t \in mem.tasks : t.event = body[r]
      BY <2>2, <1>1
    <3>2. t.request \in Request /\ step[t.request] # "none" /\ t \in TasksOf(t.request)
      BY DEF Own
    <3>3. body[t.request] = body[r]
      BY <3>1, <3>2, TasksNamed DEF HasBody, TasksOf
    <3>4. TasksOf(t.request) \subseteq disk.tasks
      BY <3>1, <3>2, <3>3, <2>2, <1>1 DEF Backed
    <3> QED
      BY <3>2, <3>3, <3>4, <2>2, <1>1 DEF TasksOf
  <2> QED
    BY <2>1, <2>2
<1>5. ServedMet'
  BY <1>1 DEF ServedMet, Served, Waiting
<1>6. BuiltMet' /\ OnceUnlessMet' /\ Told'
  BY <1>1 DEF BuiltMet, OnceUnlessMet, Told, Twice, TasksOf
<1> QED
  BY <1>2, <1>3, <1>4, <1>5, <1>6

\* Adding the tasks of a request: all of them reach memory at once, and the file
\* too unless the request is answered with an error.
LEMMA AddTasksIInv ==
    ASSUME IInv, NEW r \in Request, AddTasks(r)
    PROVE  IInv'
<1> USE DEF IInv, request
<1> DEFINE ts == TasksOf(r)
<1>1. step[r] = "built" /\ body[r] \in Body /\ via[r] \in Webhook
  BY DEF AddTasks, HasBody
<1>2. /\ ts \subseteq AllTasks
      /\ \A t \in ts : t.request = r /\ t.event = body[r]
      /\ \A t, u \in ts : t.key = u.key => t = u
  BY <1>1, TasksNamed DEF TasksOf
<1> HIDE DEF ts
<1>3. /\ mem'.tasks = mem.tasks \cup ts
      /\ mem'.jobs = mem.jobs
      /\ request' = request /\ met' = met
      /\ \A q \in Request \ {r} : step'[q] = step[q] /\ todo'[q] = todo[q]
      /\ \/ disk' = mem' /\ step'[r] = "stored" /\ todo'[r] = ts
         \/ disk' = disk /\ step'[r] = "failed"
  BY DEF AddTasks, Added, Goto, Typed, ts
<1>4. \A q \in Request : TasksOf(q)' = TasksOf(q)
  BY <1>3 DEF TasksOf
<1>5. Typed'
  <2>1. mem' \in [tasks : SUBSET AllTasks, jobs : SUBSET AllTasks]
    BY <1>2 DEF AddTasks, Added, Typed, ts
  <2> QED
    BY <2>1, <1>2 DEF AddTasks, Goto, Typed, Waiting, Answer, ts
<1>6. HasBody' /\ Behind'
  BY <1>1, <1>3 DEF HasBody, Behind
<1>7. Own'
  BY <1>2, <1>3, <1>4 DEF Own, ts
<1>8. Stored' /\ Backed'
  <2>1. disk.tasks \subseteq disk'.tasks
    BY <1>3 DEF Behind
  <2>2. \A t \in mem.tasks : t.request \in Request /\ t.request # r
    BY <1>1 DEF Own
  <2>3. step'[r] = "stored" => ts \subseteq disk'.tasks
    BY <1>3
  <2>4. Stored'
    <3> SUFFICES ASSUME NEW q \in Request, step'[q] \in {"stored", "queued"}
                 PROVE  TasksOf(q) \subseteq disk'.tasks
      BY <1>4 DEF Stored
    <3>1. CASE q = r
      BY <3>1, <2>3, <1>3 DEF ts
    <3>2. CASE q # r
      BY <3>2, <2>1, <1>3 DEF Stored
    <3> QED
      BY <3>1, <3>2
  <2>5. Backed'
    <3> SUFFICES ASSUME NEW t \in mem'.tasks, step'[t.request] # "failed"
                 PROVE  TasksOf(t.request)' \subseteq disk'.tasks
      BY DEF Backed
    <3>1. CASE t \in mem.tasks
      <4>1. TasksOf(t.request) \subseteq disk.tasks
        BY <3>1, <2>2, <1>3 DEF Backed
      <4> QED
        BY <3>1, <4>1, <2>1, <2>2, <1>4
    <3>2. CASE t \in ts
      <4>1. t.request = r /\ step'[r] = "stored"
        BY <3>2, <1>2, <1>3
      <4>2. TasksOf(r)' = ts
        BY <1>4 DEF ts
      <4> QED
        BY <4>1, <4>2, <2>3
    <3> QED
      BY <3>1, <3>2, <1>3
  <2> QED
    BY <2>4, <2>5
<1>9. DuplicateBacked'
  <2>1. disk.tasks \subseteq disk'.tasks
    BY <1>3 DEF Behind
  <2> QED
    BY <1>1, <1>3, <1>4, <2>1 DEF DuplicateBacked
<1>10. ServedMet'
  BY <1>1, <1>3 DEF ServedMet, Served, Waiting
<1>11. BuiltMet'
  \* another request that is past its check is being served together with this one
  BY <1>1, <1>2, <1>3 DEF BuiltMet, ServedMet, Served, Waiting
<1>12. OnceUnlessMet'
  <2> SUFFICES ASSUME NEW t \in mem'.tasks, NEW u \in mem'.tasks, Twice(t, u)
               PROVE  {t.request, u.request} \in met
    BY <1>3 DEF OnceUnlessMet
  <2>1. CASE t \in mem.tasks /\ u \in mem.tasks
    BY <2>1 DEF OnceUnlessMet
  <2>2. CASE t \in ts /\ u \in ts
    BY <2>2, <1>2 DEF Twice
  <2>3. CASE t \in ts /\ u \in mem.tasks
    BY <2>3, <1>1, <1>2 DEF Twice, BuiltMet
  <2>4. CASE t \in mem.tasks /\ u \in ts
    <3>1. {u.request, t.request} \in met
      BY <2>4, <1>1, <1>2 DEF Twice, BuiltMet
    <3>2. {u.request, t.request} = {t.request, u.request}
      OBVIOUS
    <3> QED
      BY <3>1, <3>2
  <2> QED
    BY <1>3, <2>1, <2>2, <2>3, <2>4
<1>13. Told'
  BY <1>1, <1>3, <1>4 DEF Told, ts
<1> QED
  BY <1>5, <1>6, <1>7, <1>8, <1>9, <1>10, <1>11, <1>12, <1>13

\* Queueing the notification of a task changes no task; the file may be replaced
\* by memory.
LEMMA AnnounceIInv ==
    ASSUME IInv, NEW r \in Request, Announce(r)
    PROVE  IInv'
<1> USE DEF IInv, request
<1>1. PICK t \in todo[r] :
        /\ mem'.tasks = mem.tasks
        /\ mem.jobs \subseteq mem'.jobs
        /\ SiteOf(t) \in Announced => t \in mem'.jobs
        /\ disk' \in {mem', disk}
        /\ todo'[r] = todo[r] \ {t}
        /\ \A q \in Request \ {r} : todo'[q] = todo[q]
        /\ request' = request /\ step' = step /\ met' = met
  BY DEF Announce, Typed, tables
<1>2. \A q \in Request : TasksOf(q)' = TasksOf(q)
  BY <1>1 DEF TasksOf
<1>3. Typed'
  <2>1. mem' \in [tasks : SUBSET AllTasks, jobs : SUBSET AllTasks]
    BY DEF Announce, Typed, tables
  <2> QED
    BY <2>1, <1>1 DEF Announce, Typed, tables
<1>4. disk.tasks \subseteq disk'.tasks /\ disk'.tasks \subseteq mem'.tasks
  BY <1>1 DEF Behind
<1>5. HasBody' /\ Behind' /\ Own' /\ Stored' /\ Backed'
  BY <1>1, <1>2, <1>4 DEF HasBody, Behind, Own, Stored, Backed
<1>6. DuplicateBacked'
  BY <1>1, <1>2, <1>4 DEF DuplicateBacked
<1>7. ServedMet' /\ BuiltMet' /\ OnceUnlessMet'
  BY <1>1 DEF ServedMet, Served, BuiltMet, OnceUnlessMet, Twice
<1>8. Told'
  BY <1>1, <1>2 DEF Told
<1> QED
  BY <1>3, <1>5, <1>6, <1>7, <1>8

\* Answering a request changes neither memory nor the file.
LEMMA AcknowledgeIInv ==
    ASSUME IInv, NEW r \in Request, Acknowledge(r)
    PROVE  IInv'
<1> USE DEF IInv, request
<1>1. /\ \A q \in Request \ {r} : step'[q] = step[q]
      /\ step[r] = "stored" /\ step'[r] = "queued"
      /\ mem' = mem /\ disk' = disk /\ todo' = todo /\ request' = request /\ met' = met
  BY DEF Acknowledge, Goto, Typed, tables
<1>2. Typed'
  BY <1>1 DEF Typed, Answer, Acknowledge, Goto
<1>3. HasBody' /\ Behind' /\ Own' /\ Stored' /\ Backed'
  BY <1>1 DEF HasBody, Behind, Own, Stored, Backed, TasksOf
<1>4. DuplicateBacked'
  BY <1>1 DEF DuplicateBacked, TasksOf
<1>5. ServedMet' /\ BuiltMet' /\ OnceUnlessMet' /\ Told'
  BY <1>1 DEF ServedMet, Served, Waiting, BuiltMet, OnceUnlessMet, Told, Twice, TasksOf
<1> QED
  BY <1>2, <1>3, <1>4, <1>5

\* A save of another operation brings the file up to memory.
LEMMA OtherSaveIInv ==
    ASSUME IInv, OtherSave
    PROVE  IInv'
<1> USE DEF IInv, OtherSave, request
<1>1. Typed' /\ HasBody' /\ Behind' /\ Own'
  BY DEF Typed, HasBody, Behind, Own, TasksOf
<1>2. Stored' /\ Backed'
  BY DEF Behind, Stored, Backed, TasksOf
<1>3. DuplicateBacked'
  BY DEF Behind, DuplicateBacked, TasksOf
<1>4. ServedMet' /\ BuiltMet' /\ OnceUnlessMet' /\ Told'
  BY DEF ServedMet, Served, BuiltMet, OnceUnlessMet, Told, Twice, TasksOf
<1> QED
  BY <1>1, <1>2, <1>3, <1>4

\* A crash forgets what is not in the file and the requests that were served.
LEMMA CrashIInv ==
    ASSUME IInv, Crash
    PROVE  IInv'
<1> USE DEF IInv, request
<1>1. /\ mem' = disk /\ disk' = disk /\ request' = request /\ met' = met
      /\ \A r \in Request : step'[r] = IF Served(r) THEN "lost" ELSE step[r]
  BY DEF Crash
<1>2. disk.tasks \subseteq mem.tasks
  BY DEF Behind
<1>3. Typed' /\ HasBody' /\ Behind'
  <2>1. step' \in [Request -> {"none", "lost"} \cup Waiting \cup Answer]
    BY DEF Crash, Typed
  <2>2. todo' \in [Request -> SUBSET AllTasks]
    BY DEF Crash
  <2> QED
    BY <1>1, <2>1, <2>2 DEF Typed, HasBody, Behind, Served, Waiting
<1>4. Own' /\ Stored' /\ Backed'
  BY <1>1, <1>2 DEF Own, Stored, Backed, TasksOf, Served, Waiting
<1>5. DuplicateBacked'
  BY <1>1 DEF DuplicateBacked, TasksOf, Served, Waiting
<1>6. ServedMet' /\ BuiltMet' /\ OnceUnlessMet' /\ Told'
  BY <1>1, <1>2 DEF ServedMet, Served, Waiting, BuiltMet, OnceUnlessMet, Told, Twice
<1> QED
  BY <1>3, <1>4, <1>5, <1>6

\* Every step of every request keeps the invariant.
LEMMA NextIInv == IInv /\ [Next]_vars => IInv'
<1> SUFFICES ASSUME IInv, [Next]_vars
             PROVE  IInv'
  OBVIOUS
<1>1. ASSUME NEW r \in Request, Arrive(r) PROVE IInv'
  BY <1>1, ArriveIInv
<1>2. ASSUME NEW r \in Request, Refuse(r) PROVE IInv'
  BY <1>2, RefuseIInv
<1>3. ASSUME NEW r \in Request, CheckEvent(r) PROVE IInv'
  BY <1>3, CheckEventIInv
<1>4. ASSUME NEW r \in Request, AddTasks(r) PROVE IInv'
  BY <1>4, AddTasksIInv
<1>5. ASSUME NEW r \in Request, Announce(r) PROVE IInv'
  BY <1>5, AnnounceIInv
<1>6. ASSUME NEW r \in Request, Acknowledge(r) PROVE IInv'
  BY <1>6, AcknowledgeIInv
<1>7. CASE UNCHANGED vars
  BY <1>7 DEF vars, tables, request, IInv, Typed, HasBody, Behind, Own, Stored, Backed,
     DuplicateBacked, ServedMet, Served, BuiltMet, OnceUnlessMet, Told, Twice, TasksOf
<1> QED
  BY <1>1, <1>2, <1>3, <1>4, <1>5, <1>6, <1>7, OtherSaveIInv, CrashIInv DEF Next

-----------------------------------------------------------------------------

\* The inductive invariant of the intake holds in every state (HandleWebhook with
\* concurrent requests, failing saves and crashes).
THEOREM Invariance == Spec => []IInv
BY InitIInv, NextIInv, PTL DEF Spec

\* Memory, file and requests keep their types.
THEOREM TypeCorrect == Spec => []TypeOK
<1>1. IInv => TypeOK
  BY DEF IInv, Typed, TypeOK
<1> QED
  BY <1>1, Invariance, PTL

\* A webhook answered "queued" is never lost.
THEOREM AckedCorrect == Spec => []AckedIsDurable
<1>1. IInv => AckedIsDurable
  BY DEF IInv, Stored, Behind, AckedIsDurable
<1> QED
  BY <1>1, Invariance, PTL

\* A request answered "duplicate" stands for an earlier one of the same body, whose
\* tasks, at least one, are in the file; unless a request of the body was answered
\* with an error.  They have the keys of its own tasks when all requests of the body
\* came through one webhook; the code looks for the body alone.
THEOREM DuplicateCorrect == Spec => []DuplicateIsDurable
<1>1. IInv => DuplicateIsDurable
  <2> SUFFICES ASSUME IInv, NEW r \in Request, step[r] = "duplicate",
                      ~\E q \in Request : step[q] = "failed" /\ body[q] = body[r]
               PROVE  /\ \E q \in Request : /\ body[q] = body[r]
                                            /\ TasksOf(q) # {}
                                            /\ TasksOf(q) \subseteq disk.tasks
                      /\ (\A q \in Request : body[q] = body[r] => via[q] = via[r]) =>
                           {t.key : t \in TasksOf(r)} \subseteq KeysInFile(body[r])
    BY DEF DuplicateIsDurable
  <2>1. PICK q \in Request : /\ body[q] = body[r]
                             /\ TasksOf(q) # {}
                             /\ TasksOf(q) \subseteq disk.tasks
    BY DEF IInv, DuplicateBacked
  <2>2. ASSUME via[q] = via[r]
        PROVE  {t.key : t \in TasksOf(r)} \subseteq KeysInFile(body[r])
    <3> SUFFICES ASSUME NEW t \in TasksOf(r)
                 PROVE  t.key \in KeysInFile(body[r])
      OBVIOUS
    <3>1. PICK u \in TasksOf(q) : u.key = t.key /\ u.event = body[r]
      BY <2>1, <2>2, SameKeys
    <3> QED
      BY <2>1, <3>1 DEF KeysInFile
  <2> QED
    BY <2>1, <2>2
<1> QED
  BY <1>1, Invariance, PTL

\* Only requests that were served at the same time queue a body twice.
THEOREM OnceCorrect == Spec => []OnceUnlessMet
<1>1. IInv => OnceUnlessMet
  BY DEF IInv
<1> QED
  BY <1>1, Invariance, PTL

\* A webhook is answered "queued" only after the notification of each of its
\* tasks was handed to the queue.
THEOREM AnnouncedCorrect == Spec => AnnouncedDespiteErrors
<1> DEFINE Answered == \A r \in Request :
              (step[r] # "queued" /\ step'[r] = "queued") =>
                  {t \in TasksOf(r) : SiteOf(t) \in Announced} \subseteq mem.jobs
<1>1. IInv /\ [Next]_vars => [Answered]_vars
  <2> SUFFICES ASSUME IInv, Next, NEW r \in Request,
                      step[r] # "queued", step'[r] = "queued"
               PROVE  {t \in TasksOf(r) : SiteOf(t) \in Announced} \subseteq mem.jobs
    OBVIOUS
  <2>1. Acknowledge(r)
    BY DEF IInv, Typed, Next, Arrive, Refuse, CheckEvent, AddTasks, Announce, Acknowledge,
       OtherSave, Crash, Goto, Served, Waiting
  <2> QED
    BY <2>1 DEF IInv, Told, Acknowledge
<1>2. Spec => [][Answered]_vars
  BY <1>1, Invariance, PTL DEF Spec
<1> QED
  BY <1>2 DEF AnnouncedDespiteErrors
=============================================================================
