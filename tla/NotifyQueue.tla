---------------------------- MODULE NotifyQueue -----------------------------
(***************************************************************************)
(* Notifications: handlers queue jobs (Service.notifyTaskEvent), and one   *)
(* dispatcher sends them with a pause per robot (notifications.go).  Jobs, *)
(* receipts and pauses are in the store; each of its methods is one step.  *)
(*                                                                         *)
(* Times are relative: how long a job still waits, how long a robot still  *)
(* pauses; Tick lets one unit of time pass.  A save may fail after memory  *)
(* was changed; a restart begins with what the file holds.                 *)
(***************************************************************************)
EXTENDS Naturals, Sequences, FiniteSets, SequencesExt, FiniteSetsExt

CONSTANTS
    Item,          \* a task and an event of it
    Robot,         \* notification channels of a site
    KeyOf,         \* robot_key of a channel: the robot it really reaches
    Wants,         \* robots that subscribe to an item (MatchingChannels)
    Handler,       \* webhook and stream handlers that notify
    ListLimit,     \* how many due jobs a pass looks at; 100 in the code
    MinInterval,   \* pause of a robot after a message, in units of time
    RetryInterval, \* pause after an error
    LimitedInterval, \* pause after the robot said it was called too often
    SendTime,      \* bound: units of time a request may take (its timeout)
    MaxAttempts,   \* 0: no limit
    RepeatWhileQueued, \* whether an event may be notified again (the task was
                   \* requeued and redone) before its first jobs have settled
    MaxFaults,     \* bound: crashes and lost answers in a behaviour
    SavesFail,     \* whether saves may fail
    NoJob

Job == {j \in Item \X Robot : j[2] \in Wants[j[1]]}
RobotOf(j) == j[2]

ASSUME NotifyAssumption ==
    /\ IsFiniteSet(Robot) /\ Robot = DOMAIN KeyOf
    /\ "none" \notin Item
    /\ Wants \in [Item -> SUBSET Robot]
    /\ {ListLimit, MinInterval, RetryInterval, LimitedInterval} \subseteq Nat \ {0}
    /\ {SendTime, MaxAttempts, MaxFaults} \subseteq Nat
    /\ {RepeatWhileQueued, SavesFail} \subseteq BOOLEAN
    /\ NoJob \notin Job

VARIABLES
    queue,     \* jobs that are pending or retrying, by NextAttemptAt
    wait,      \* time to NextAttemptAt
    attempts,  \* NotificationJob.Attempts
    failed,    \* jobs that failed for good
    receipts,  \* Task.NotifiedEvents
    pause,     \* time to NextAllowedAt of a robot
    disk,      \* all of these, as they are in the file
    enabled,   \* robots the configuration holds and enables
    call,      \* where a handler is in notifyTaskEvent
    batch,     \* jobs the dispatcher still has to look at in this pass
    sending,   \* the job being sent
    answered,  \* whether the robot took the message of sending
    elapsed,   \* time since that request was begun
    faults,
    sent,      \* history: messages of a job the robot took
    since,     \* history: time since the last such request to a robot was begun
    owed       \* history: robots this pass found ready and has not served yet

tableVars == <<queue, wait, attempts, failed, receipts, pause>>
storeVars == <<tableVars, disk>>
dispatchVars == <<batch, sending, answered, elapsed>>
historyVars == <<sent, since, owed>>
vars == <<storeVars, enabled, call, dispatchVars, faults, historyVars>>

Longest == Max({MinInterval, RetryInterval, LimitedInterval})

\* A handler's call: the robots still to be checked, the robot whose receipt was
\* found missing, and the jobs to be queued.
NoCall == [item |-> "none", todo |-> {}, unsent |-> {}, picked |-> {}]
Call == [item : Item, todo : SUBSET Robot, unsent : SUBSET Robot, picked : SUBSET Job]

Tables == [queue : Seq(Job), wait : [Job -> 0..Longest], attempts : [Job -> Nat],
           failed : SUBSET Job, receipts : SUBSET Job, pause : [Robot -> 0..Longest]]

memory == [queue |-> queue, wait |-> wait, attempts |-> attempts,
           failed |-> failed, receipts |-> receipts, pause |-> pause]

TypeOK ==
    /\ memory \in Tables /\ IsInjective(queue)
    /\ disk \in Tables /\ IsInjective(disk.queue)
    /\ enabled \in SUBSET Robot
    /\ call \in [Handler -> Call \cup {NoCall}]
    /\ batch \in Seq(Job)
    /\ sending \in Job \cup {NoJob}
    /\ answered \in BOOLEAN
    /\ elapsed \in 0..SendTime
    /\ faults \in 0..MaxFaults
    /\ sent \in [Job -> Nat]
    /\ since \in [Robot -> 0..MinInterval]
    /\ owed \in SUBSET Robot

Init ==
    /\ queue = <<>>
    /\ wait = [j \in Job |-> 0]
    /\ attempts = [j \in Job |-> 0]
    /\ failed = {}
    /\ receipts = {}
    /\ pause = [r \in Robot |-> 0]
    /\ disk = memory
    /\ enabled = Robot
    /\ call = [h \in Handler |-> NoCall]
    /\ batch = <<>>
    /\ sending = NoJob
    /\ answered = FALSE
    /\ elapsed = 0
    /\ faults = 0
    /\ sent = [j \in Job |-> 0]
    /\ since = [r \in Robot |-> MinInterval]
    /\ owed = {}

-----------------------------------------------------------------------------

\* saveLocked, at the end of each call that changes the tables.
Saved == disk' = memory'

\* Bound: one change at a time is missing from the file.  A save that fails after
\* the last restart would make no difference.
SaveFails ==
    /\ SavesFail
    /\ disk = memory
    /\ faults < MaxFaults
    /\ UNCHANGED disk

Save == Saved \/ SaveFails

\* Other calls of the store save these tables too, heartbeats among them.
OtherSave ==
    /\ disk # memory
    /\ UNCHANGED <<tableVars, enabled, call, dispatchVars, faults, historyVars>>
    /\ Saved

-----------------------------------------------------------------------------
(* Handlers: Service.notifyTaskEvent.  The receipt, the queued job and the *)
(* insertion are three separate calls of the store.                        *)

Queued(j) == j \in ToSet(queue)

JobsOf(i) == {j \in Job : j[1] = i}

Begin(h) == \E i \in Item :
    /\ call[h] = NoCall
    /\ Wants[i] \cap enabled # {}
    /\ RepeatWhileQueued \/ /\ \A g \in Handler : call[g].item # i
                            /\ \A j \in JobsOf(i) : ~Queued(j)
    /\ call' = [call EXCEPT ![h] =
          [item |-> i, todo |-> Wants[i] \cap enabled, unsent |-> {}, picked |-> {}]]
    /\ UNCHANGED <<storeVars, enabled, dispatchVars, faults, historyVars>>

HasTaskEventNotification_never_bug(j) == FALSE

HasTaskEventNotification(j) == j \in receipts

\* HasTaskEventNotification of the next channel.
CheckReceipt(h) ==
    /\ call[h].unsent = {}
    /\ call[h].todo # {}
    /\ LET r == CHOOSE x \in call[h].todo : TRUE IN
          call' = [call EXCEPT ![h].todo = @ \ {r},
                               ![h].unsent = IF HasTaskEventNotification(<<call[h].item, r>>)
                                             THEN {} ELSE {r}]
    /\ UNCHANGED <<storeVars, enabled, dispatchVars, faults, historyVars>>

\* HasPendingNotificationJob of that channel.
CheckQueued(h) ==
    /\ \E r \in call[h].unsent :
          LET j == <<call[h].item, r>>
          IN  call' = [call EXCEPT ![h].unsent = {},
                                   ![h].picked = IF Queued(j) THEN @ ELSE @ \cup {j}]
    /\ UNCHANGED <<storeVars, enabled, dispatchVars, faults, historyVars>>

\* How many jobs of q, which is sorted by wait, are due within w.
DueWithin(q, w) == Cardinality({k \in DOMAIN q : wait[q[k]] <= w})

\* A job that is due after w is put behind every job due no later.
InsertByWait(q, j, w) == InsertAt(q, DueWithin(q, w) + 1, j)

\* EnqueueNotificationJobs: a job that is queued is left alone, one that failed
\* starts again, and the others are new.
Enqueue(h) ==
    /\ call[h] # NoCall
    /\ call[h].todo = {} /\ call[h].unsent = {}
    /\ LET new == {j \in call[h].picked : ~Queued(j)}
           n == DueWithin(queue, 0)
       IN  /\ queue' = SubSeq(queue, 1, n) \o SetToSeq(new) \o SubSeq(queue, n + 1, Len(queue))
           /\ wait' = [j \in Job |-> IF j \in new THEN 0 ELSE wait[j]]
           /\ attempts' = [j \in Job |-> IF j \in new THEN 0 ELSE attempts[j]]
           /\ failed' = failed \ new
    /\ call' = [call EXCEPT ![h] = NoCall]
    /\ UNCHANGED <<receipts, pause, enabled, dispatchVars, faults, historyVars>>
    /\ Save

-----------------------------------------------------------------------------
(* The dispatcher. *)

Idle == batch = <<>> /\ sending = NoJob

Due == SubSeq(queue, 1, DueWithin(queue, 0))

ListDue_first_bug == SubSeq(Due, 1, 1)

\* ListDueNotificationJobs.
ListDue == SubSeq(Due, 1, Min({ListLimit, Len(Due)}))

StartPass ==
    /\ Idle
    /\ Due # <<>>
    /\ batch' = ListDue
    /\ owed' = {r \in enabled : pause[r] = 0 /\
                  \E k \in DOMAIN Due : k <= ListLimit /\ RobotOf(Due[k]) = r}
    /\ UNCHANGED <<storeVars, enabled, call, sending, answered, elapsed, faults, sent, since>>

Unqueue(j) == RemoveAt(queue, CHOOSE k \in DOMAIN queue : queue[k] = j)

\* MarkNotificationJobFailed.
MarkFailed(j) ==
    /\ queue' = Unqueue(j)
    /\ attempts' = [attempts EXCEPT ![j] = @ + 1]
    /\ failed' = failed \cup {j}
    /\ UNCHANGED <<wait, receipts, pause>>

\* The channel is no longer configured or enabled.
RobotGone ==
    /\ sending = NoJob /\ batch # <<>>
    /\ RobotOf(Head(batch)) \notin enabled
    /\ MarkFailed(Head(batch))
    /\ batch' = Tail(batch)
    /\ UNCHANGED <<enabled, call, sending, answered, elapsed, faults, historyVars>>
    /\ Save

\* The channel pauses; the job stays due.
SkipPaused ==
    /\ sending = NoJob /\ batch # <<>>
    /\ RobotOf(Head(batch)) \in enabled
    /\ pause[RobotOf(Head(batch))] > 0
    /\ batch' = Tail(batch)
    /\ UNCHANGED <<storeVars, enabled, call, sending, answered, elapsed, faults, historyVars>>

SendJob ==
    /\ sending = NoJob /\ batch # <<>>
    /\ RobotOf(Head(batch)) \in enabled
    /\ pause[RobotOf(Head(batch))] = 0
    /\ sending' = Head(batch)
    /\ batch' = Tail(batch)
    /\ answered' = FALSE
    /\ elapsed' = 0
    /\ owed' = owed \ {RobotOf(Head(batch))}
    /\ UNCHANGED <<storeVars, enabled, call, faults, sent, since>>

\* The robot takes the message.
RobotTakes ==
    /\ sending # NoJob /\ ~answered
    /\ answered' = TRUE
    /\ sent' = [sent EXCEPT ![sending] = @ + 1]
    /\ since' = [since EXCEPT ![RobotOf(sending)] = Min({elapsed, MinInterval})]
    /\ UNCHANGED <<storeVars, enabled, call, batch, sending, elapsed, faults, owed>>

EndSend == sending' = NoJob /\ answered' = FALSE /\ elapsed' = 0 /\ UNCHANGED batch

MarkDelivered_noPause_bug(j) ==
    /\ queue' = Unqueue(j)
    /\ attempts' = [attempts EXCEPT ![j] = 0]
    /\ receipts' = receipts \cup {j}
    /\ UNCHANGED pause

\* MarkNotificationJobDelivered.  The pause counts from before the request.
MarkDelivered(j) ==
    /\ queue' = Unqueue(j)
    /\ attempts' = [attempts EXCEPT ![j] = 0]
    /\ receipts' = receipts \cup {j}
    /\ pause' = [pause EXCEPT ![RobotOf(j)] = MinInterval - Min({elapsed, MinInterval})]

Delivered ==
    /\ sending # NoJob /\ answered
    /\ MarkDelivered(sending)
    /\ EndSend
    /\ UNCHANGED <<wait, failed, enabled, call, faults, historyVars>>
    /\ Save

exceededMaxAttempts_late_bug(n) == MaxAttempts > 0 /\ n > MaxAttempts

exceededMaxAttempts(n) == MaxAttempts > 0 /\ n >= MaxAttempts

Reschedule_uncounted_bug(j, d) ==
    /\ queue' = InsertByWait(Unqueue(j), j, d)
    /\ wait' = [wait EXCEPT ![j] = d]
    /\ pause' = [pause EXCEPT ![RobotOf(j)] = Max({@, d})]
    /\ UNCHANGED <<attempts, failed, receipts>>

Reschedule_twice_bug(j, d) ==
    /\ queue' = InsertByWait(queue, j, d)
    /\ wait' = [wait EXCEPT ![j] = d]
    /\ attempts' = [attempts EXCEPT ![j] = @ + 1]
    /\ pause' = [pause EXCEPT ![RobotOf(j)] = Max({@, d})]
    /\ UNCHANGED <<failed, receipts>>

\* RescheduleNotificationJob: the job and its robot wait for d.
Reschedule(j, d) ==
    /\ queue' = InsertByWait(Unqueue(j), j, d)
    /\ wait' = [wait EXCEPT ![j] = d]
    /\ attempts' = [attempts EXCEPT ![j] = @ + 1]
    /\ pause' = [pause EXCEPT ![RobotOf(j)] = Max({@, d})]
    /\ UNCHANGED <<failed, receipts>>

\* handleNotificationFailure of an error that may be retried after d.
RetryOrGiveUp(j, d) ==
    IF exceededMaxAttempts(attempts[j] + 1) THEN MarkFailed(j) ELSE Reschedule(j, d)

\* An error, or the answer that messages came too fast; both mean that the robot
\* did not take the message.
SendFails ==
    /\ sending # NoJob /\ ~answered
    /\ \E d \in {RetryInterval, LimitedInterval} : RetryOrGiveUp(sending, d)
    /\ EndSend
    /\ UNCHANGED <<enabled, call, faults, historyVars>>
    /\ Save

\* The robot refuses the message, which is not retried.
SendRejected ==
    /\ sending # NoJob /\ ~answered
    /\ MarkFailed(sending)
    /\ EndSend
    /\ UNCHANGED <<enabled, call, faults, historyVars>>
    /\ Save

\* The robot took the message and the request failed all the same (a timeout).
AnswerLost ==
    /\ faults < MaxFaults
    /\ faults' = faults + 1
    /\ sending # NoJob /\ answered
    /\ RetryOrGiveUp(sending, RetryInterval)
    /\ EndSend
    /\ UNCHANGED <<enabled, call, historyVars>>
    /\ Save

Dispatch ==
    \/ StartPass \/ RobotGone \/ SkipPaused \/ SendJob \/ RobotTakes
    \/ Delivered \/ SendFails \/ SendRejected \/ AnswerLost

-----------------------------------------------------------------------------

\* The relay dies and is started again, maybe with another configuration: calls
\* and the pass are gone, jobs, receipts and pauses come from the file.
Restart ==
    /\ faults < MaxFaults
    /\ faults' = faults + 1
    /\ enabled' \in SUBSET Robot
    /\ call' = [h \in Handler |-> NoCall]
    /\ batch' = <<>>
    /\ sending' = NoJob
    /\ answered' = FALSE
    /\ elapsed' = 0
    /\ owed' = {}
    /\ queue' = disk.queue /\ wait' = disk.wait /\ attempts' = disk.attempts
    /\ failed' = disk.failed /\ receipts' = disk.receipts /\ pause' = disk.pause
    /\ UNCHANGED <<disk, sent, since>>

Less(n) == IF n = 0 THEN 0 ELSE n - 1
Later(times) == [x \in DOMAIN times |-> Less(times[x])]

Tick ==
    /\ sending # NoJob => elapsed < SendTime
    /\ wait' = Later(wait)
    /\ pause' = Later(pause)
    /\ disk' = [disk EXCEPT !.wait = Later(@), !.pause = Later(@)]
    /\ since' = [r \in Robot |-> Min({since[r] + 1, MinInterval})]
    /\ elapsed' = IF sending = NoJob THEN 0 ELSE elapsed + 1
    /\ UNCHANGED <<queue, attempts, failed, receipts, enabled, call, batch, sending,
                   answered, faults, sent, owed>>

HandlerStep(h) == Begin(h) \/ CheckReceipt(h) \/ CheckQueued(h) \/ Enqueue(h)

Next ==
    \/ Tick
    \/ Restart
    \/ OtherSave
    \/ Dispatch
    \/ \E h \in Handler : HandlerStep(h)

\* Time passes, the ticker wakes the dispatcher every second, and a request ends.
Fairness == WF_vars(Tick) /\ WF_vars(Dispatch)

Spec == Init /\ [][Next]_vars
FairSpec == Spec /\ Fairness

-----------------------------------------------------------------------------

\* A message reaches its robot once, however often its event is notified again and
\* whatever saves fail, except that a crash or a lost answer between the robot and
\* the saved receipt may repeat it: one more message for each.
SentOncePerFault == \A j \in Job : sent[j] <= 1 + faults

\* A message that has its receipt has no job any more that could send it again.
ReceiptEndsJob == \A j \in receipts : ~Queued(j)

\* Requests that a robot takes are begun at least min_interval apart, whatever the
\* job, the number of passes and the time the requests took; only a fault breaks
\* the pause.
Paced == [][\A r \in Robot :
    (faults = 0 /\ sending = NoJob /\ sending' # NoJob /\ RobotOf(sending') = r)
        => since[r] >= MinInterval]_vars

\* min_interval is the least time between two messages to one robot, through
\* whichever of its channels they are sent.
RobotPaced == [][\A r, q \in Robot :
    (faults = 0 /\ sending = NoJob /\ sending' # NoJob /\ RobotOf(sending') = r
     /\ KeyOf[q] = KeyOf[r])
        => since[q] >= MinInterval]_vars

\* A job in the queue still has attempts: the last one allowed is made, and the
\* job is given up with it.
QueuedHasAttempts == MaxAttempts > 0 => \A j \in ToSet(queue) : attempts[j] < MaxAttempts

\* What is in the queue is neither delivered nor out of attempts, so a pass may send it.
QueuedIsUnfinished == ReceiptEndsJob /\ QueuedHasAttempts

\* Robots do not hold each other up within a pass: when it ends, each robot that had
\* no pause when it began, and a job among the ListLimit jobs due longest, was sent
\* something.  As many due jobs of robots that pause do hold the others up.
ReadyRobotsServed == Idle => owed = {}

\* With a limit of attempts each job is delivered or given up in the end, while others of
\* the same robot fail, are limited, and are queued again.  Without one, which is the
\* default, a robot that keeps failing is asked for ever.
JobsSettle == \A j \in Job : MaxAttempts > 0 /\ Queued(j) ~> ~Queued(j)
=============================================================================
