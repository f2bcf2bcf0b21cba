------------------------------- MODULE Intake -------------------------------
(***************************************************************************)
(* Webhook requests (Service.HandleWebhook), each served by a goroutine of *)
(* the HTTP server.  A request looks for its event, builds tasks, adds     *)
(* them and queues a notification for each, in separate calls of the       *)
(* store; saves may fail, and the relay may crash between any two steps.   *)
(*                                                                         *)
(* The store is reduced to its tasks and to the "queued" notifications of  *)
(* them; both are in the one file that every save replaces.                *)
(***************************************************************************)
EXTENDS Routing

CONSTANTS
    Body,      \* request bodies; the event id of a body is its hash
    PayloadOf, \* what the body says
    Kind,      \* "push", "other" event types, or "invalid" (no JSON, or no repository)
    Announced, \* sites with a notification channel for queued tasks
    Request    \* bound: requests in a behaviour

ASSUME IntakeAssumption ==
    /\ PayloadOf \in [Body -> Payload]
    /\ Kind \in [Body -> {"push", "other", "invalid"}]
    /\ Announced \subseteq Site

VARIABLES
    mem,   \* Store.state
    disk,  \* the file
    body,  \* the body of a request
    via,   \* the webhook at whose path it arrived
    step,  \* where a request is, or how it was answered
    todo,  \* tasks of a request that still have to be announced
    met    \* history: pairs of requests that were served at the same time

tables == <<mem, disk>>
request == <<body, via>>
vars == <<tables, request, step, todo, met>>

Waiting == {"received", "built", "stored"}
Answer == {"duplicate", "rejected", "ignored", "failed", "queued"}

\* Tasks get fresh ids, so the same key built by two requests is two tasks.
Tasks(r, w, b) ==
    {[event |-> b, key |-> k, request |-> r] : k \in buildTasks(w, PayloadOf[b])}
AllTasks == UNION {Tasks(r, w, b) : r \in Request, w \in Webhook, b \in Body}
TasksOf(r) == Tasks(r, via[r], body[r])

Served(r) == step[r] \in Waiting

TypeOK ==
    /\ {mem, disk} \subseteq [tasks : SUBSET AllTasks, jobs : SUBSET AllTasks]
    /\ body \in [Request -> Body \cup {"none"}]
    /\ via \in [Request -> Webhook \cup {"none"}]
    /\ step \in [Request -> {"none", "lost"} \cup Waiting \cup Answer]
    /\ todo \in [Request -> SUBSET AllTasks]
    /\ met \subseteq SUBSET Request

EmptyTables == [tasks |-> {}, jobs |-> {}]

Init ==
    /\ mem = EmptyTables
    /\ disk = EmptyTables
    /\ body = [r \in Request |-> "none"]
    /\ via = [r \in Request |-> "none"]
    /\ step = [r \in Request |-> "none"]
    /\ todo = [r \in Request |-> {}]
    /\ met = {}

-----------------------------------------------------------------------------

Goto(r, l) == step' = [step EXCEPT ![r] = l]

Arrive(r) ==
    /\ step[r] = "none"
    /\ \E b \in Body, w \in Webhook :
          body' = [body EXCEPT ![r] = b] /\ via' = [via EXCEPT ![r] = w]
    /\ Goto(r, "received")
    /\ met' = met \cup {{r, q} : q \in {x \in Request : Served(x)}}
    /\ UNCHANGED <<tables, todo>>

\* Turned away before the event is looked for: no webhook at the path, not a POST,
\* a wrong Authorization header, or a body that cannot be read.
Refuse(r) ==
    /\ step[r] = "received"
    /\ Goto(r, "rejected")
    /\ UNCHANGED <<tables, request, todo, met>>

EventExists_never_bug(b) == FALSE

EventExists(b) == \E t \in mem.tasks : t.event = b

\* The event is looked up in memory, by the body alone: the webhook does not count.
\* Nothing keeps another request from doing the same before this one adds its tasks.
CheckEvent(r) ==
    /\ step[r] = "received"
    /\ LET b == body[r]
       IN  Goto(r, IF EventExists(b) THEN "duplicate"
                   ELSE IF Kind[b] = "invalid" THEN "rejected"
                   ELSE IF Kind[b] = "other" \/ TasksOf(r) = {} THEN "ignored"
                   ELSE "built")
    /\ UNCHANGED <<tables, request, todo, met>>

Added_sameId_bug(r) ==
    [mem EXCEPT !.tasks = @ \cup {[event |-> t.event, key |-> t.key] : t \in TasksOf(r)}]

Added(r) == [mem EXCEPT !.tasks = @ \cup TasksOf(r)]

AddTasks_ignoresError_bug(r) ==
    /\ step[r] = "built"
    /\ mem' = Added(r)
    /\ disk' \in {mem', disk}
    /\ Goto(r, "stored")
    /\ todo' = [todo EXCEPT ![r] = TasksOf(r)]
    /\ UNCHANGED <<request, met>>

AddTasks_savesLater_bug(r) ==
    /\ step[r] = "built"
    /\ mem' = Added(r)
    /\ IF TasksOf(r) \subseteq mem.tasks
       THEN disk' = mem /\ Goto(r, "stored") /\ todo' = [todo EXCEPT ![r] = TasksOf(r)]
       ELSE UNCHANGED <<disk, step, todo>>
    /\ UNCHANGED <<request, met>>

\* When the save fails the request is answered with an error, and memory keeps
\* the tasks.
AddTasks(r) ==
    /\ step[r] = "built"
    /\ mem' = Added(r)
    /\ \/ /\ disk' = mem'
          /\ Goto(r, "stored")
          /\ todo' = [todo EXCEPT ![r] = TasksOf(r)]
       \/ /\ disk' = disk
          /\ Goto(r, "failed")
          /\ UNCHANGED todo
    /\ UNCHANGED <<request, met>>

SiteOf(t) == t.key[1]

Announce_stopsAtError_bug(r) == \E t \in todo[r] :
    IF SiteOf(t) \in Announced
    THEN /\ mem' = [mem EXCEPT !.jobs = @ \cup {t}]
         /\ \/ disk' = mem' /\ todo' = [todo EXCEPT ![r] = @ \ {t}]
            \/ disk' = disk /\ todo' = [todo EXCEPT ![r] = {}]
         /\ UNCHANGED <<request, step, met>>
    ELSE /\ todo' = [todo EXCEPT ![r] = @ \ {t}]
         /\ UNCHANGED <<tables, request, step, met>>

\* notifyTaskEvent for the next task; an error is logged and forgotten.
Announce(r) == \E t \in todo[r] :
    /\ IF SiteOf(t) \in Announced
       THEN mem' = [mem EXCEPT !.jobs = @ \cup {t}] /\ disk' \in {mem', disk}
       ELSE UNCHANGED tables
    /\ todo' = [todo EXCEPT ![r] = @ \ {t}]
    /\ UNCHANGED <<request, step, met>>

Acknowledge(r) ==
    /\ step[r] = "stored" /\ todo[r] = {}
    /\ Goto(r, "queued")
    /\ UNCHANGED <<tables, request, todo, met>>

\* Any other operation of the store saves all of memory.
OtherSave ==
    /\ disk' = mem
    /\ UNCHANGED <<mem, request, step, todo, met>>

\* The relay dies and is started again on its file.
Crash ==
    /\ mem' = disk
    /\ step' = [r \in Request |-> IF Served(r) THEN "lost" ELSE step[r]]
    /\ todo' = [r \in Request |-> {}]
    /\ UNCHANGED <<disk, request, met>>

Next ==
    \/ OtherSave
    \/ Crash
    \/ \E r \in Request :
          \/ Arrive(r)
          \/ Refuse(r)
          \/ CheckEvent(r)
          \/ AddTasks(r)
          \/ Announce(r)
          \/ Acknowledge(r)

Spec == Init /\ [][Next]_vars

-----------------------------------------------------------------------------

\* A webhook that was answered "queued" is never lost: all its tasks are in the
\* file and in memory from then on, whatever fails or crashes later.
AckedIsDurable == \A r \in Request :
    step[r] = "queued" => TasksOf(r) \subseteq disk.tasks \cap mem.tasks

KeysInFile(b) == {t.key : t \in {u \in disk.tasks : u.event = b}}

\* What the answer "duplicate" stands for: unless a request of the same body was
\* answered with an error, an earlier one built at least one task, and put all of
\* its tasks into the file at once.  These are the tasks of the duplicate itself if
\* all requests of the body came through its webhook; through another webhook other
\* routes may apply, and tasks of those are never built.
DuplicateIsDurable == \A r \in Request :
    LET same == {q \in Request : body[q] = body[r]}
    IN  (step[r] = "duplicate" /\ ~\E q \in same : step[q] = "failed") =>
            /\ \E q \in same : TasksOf(q) # {} /\ TasksOf(q) \subseteq disk.tasks
            /\ (\A q \in same : via[q] = via[r]) =>
                  {t.key : t \in TasksOf(r)} \subseteq KeysInFile(body[r])

Twice(t, u) == t # u /\ t.event = u.event /\ t.key = u.key

\* A body is queued once, with failed saves, crashes and retries, as long as its
\* requests are not served at the same time.
OnceUnlessMet == \A t, u \in mem.tasks :
    Twice(t, u) => {t.request, u.request} \in met

\* When a webhook is answered "queued", the notification of each of its tasks was
\* handed to the queue, although saving some of them failed.
AnnouncedDespiteErrors == [][\A r \in Request :
    (step[r] # "queued" /\ step'[r] = "queued") =>
        {t \in TasksOf(r) : SiteOf(t) \in Announced} \subseteq mem.jobs]_vars
=============================================================================
