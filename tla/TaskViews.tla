----------------------------- MODULE TaskViews ------------------------------
(***************************************************************************)
(* Who looks at a task, and when: the store changes tasks in place under   *)
(* its lock, the readers behind the HTTP API copy them under the read lock *)
(* and encode the copy after it, and HandleWebhook goes on reading the     *)
(* tasks it gave to AddTasks without any lock (store.go, http.go,          *)
(* service.go).                                                            *)
(*                                                                         *)
(* A field is one word of memory and holds the number of the write it      *)
(* comes from; message is a string, which is two words.  notified is the   *)
(* map NotifiedEvents, changed in place.  Of the other maps and slices of  *)
(* a task none is changed in place, and the table of the tasks itself is   *)
(* touched under the lock only.                                            *)
(***************************************************************************)
EXTENDS Naturals, Sequences, FiniteSets, SequencesExt

CONSTANTS
    Task,
    Writer,     \* stream handlers and the dispatcher
    Reader,     \* HTTP requests
    MaxWrites,  \* bound: changes in a behaviour
    Nobody

ASSUME ViewsAssumption == MaxWrites \in Nat /\ Nobody \notin Writer

Words == <<"status", "message data", "message length">>
Map == <<"notified">>
Field == ToSet(Words) \cup ToSet(Map)
Values == [Field -> 0..MaxWrites]
Tables == UNION {[ts -> Values] : ts \in SUBSET Task}

VARIABLES
    task,      \* the tasks in the table, as they are in memory
    lock,      \* the writer that holds the lock
    writes,    \* number of changes begun
    writing,   \* the task a writer changes, and the fields it has still to write
    reading,   \* what a request has copied of the tasks it shows, and has not
    unread,    \* what HandleWebhook has still to read of a task
    past       \* history: the table after each change

vars == <<task, lock, writes, writing, reading, unread, past>>

NotWriting == [on |-> {}, todo |-> <<>>]
\* since is where in past the request has begun.
NotReading == [phase |-> "idle", todo |-> {}, got |-> <<>>, since |-> 0]

New == [f \in Field |-> 0]

\* What toTaskEvent reads of a task.
Announced == Words

TypeOK ==
    /\ task \in Tables
    /\ lock \in Writer \cup {Nobody}
    /\ writes \in 0..MaxWrites
    /\ writing \in [Writer -> [on : SUBSET Task, todo : Seq(Field)]]
    /\ \A w \in Writer : writing[w].on # {} => lock = w
    /\ reading \in [Reader -> [phase : {"idle", "copy", "encode"},
                               todo : SUBSET (Task \X Field),
                               got : Tables,
                               since : Nat]]
    /\ \A r \in Reader : reading[r].todo \subseteq (DOMAIN task) \X Field
    /\ unread \in [Task -> Seq(Field)]
    /\ past \in Seq(Tables)

Init ==
    /\ task = <<>>
    /\ lock = Nobody
    /\ writes = 0
    /\ writing = [w \in Writer |-> NotWriting]
    /\ reading = [r \in Reader |-> NotReading]
    /\ unread = [t \in Task |-> <<>>]
    /\ past = <<task>>

-----------------------------------------------------------------------------
(* The lock.                                                               *)

Free_readersOnly_bug == \A r \in Reader : reading[r].phase # "copy"

Free == lock = Nobody /\ \A r \in Reader : reading[r].phase # "copy"

\* AddTasks: the pointers HandleWebhook holds are put in the table.
Publish(ts) ==
    /\ Free
    /\ ts # {} /\ ts \cap DOMAIN task = {}
    /\ task' = [t \in DOMAIN task \cup ts |-> IF t \in ts THEN New ELSE task[t]]
    /\ past' = Append(past, task')
    /\ unread' = [t \in Task |-> IF t \in ts THEN Announced ELSE unread[t]]
    /\ UNCHANGED <<lock, writes, writing, reading>>

\* A call of the store changes the words of a task, as a report or an assignment
\* does, or the map, as the receipt of a notification does.
Lock_shared_bug(w) ==
    /\ lock = Nobody
    /\ writes < MaxWrites
    /\ lock' = w
    /\ writes' = writes + 1
    /\ \E t \in DOMAIN task, todo \in {Words, Map} :
          /\ todo = Map => Free
          /\ writing' = [writing EXCEPT ![w] = [on |-> {t}, todo |-> todo]]
    /\ UNCHANGED <<task, reading, unread, past>>

Lock(w) ==
    /\ Free
    /\ writes < MaxWrites
    /\ lock' = w
    /\ writes' = writes + 1
    /\ \E t \in DOMAIN task, todo \in {Words, Map} :
          writing' = [writing EXCEPT ![w] = [on |-> {t}, todo |-> todo]]
    /\ UNCHANGED <<task, reading, unread, past>>

Write(w) == \E t \in writing[w].on :
    /\ writing[w].todo # <<>>
    /\ task' = [task EXCEPT ![t][Head(writing[w].todo)] = writes]
    /\ writing' = [writing EXCEPT ![w].todo = Tail(@)]
    /\ UNCHANGED <<lock, writes, reading, unread, past>>

Unlock(w) ==
    /\ lock = w
    /\ writing[w].todo = <<>>
    /\ lock' = Nobody
    /\ writing' = [writing EXCEPT ![w] = NotWriting]
    /\ past' = Append(past, task)
    /\ UNCHANGED <<task, writes, reading, unread>>

-----------------------------------------------------------------------------
(* Requests.                                                               *)

\* GetTask or ListTasks: what the request will show.
RLock(r) ==
    /\ lock = Nobody
    /\ reading[r].phase = "idle"
    /\ \E ts \in {DOMAIN task} \cup {{t} : t \in DOMAIN task} :
          reading' = [reading EXCEPT ![r] =
              [phase |-> "copy",
               todo |-> ts \X Field,
               got |-> [t \in ts |-> New],
               since |-> Len(past)]]
    /\ UNCHANGED <<task, lock, writes, writing, unread, past>>

\* Take a word, or clone a map.  The tasks come in the order of a Go map, which is any.
Take(r) ==
    \E x \in reading[r].todo :
        reading' = [reading EXCEPT ![r].todo = @ \ {x},
                                   ![r].got[x[1]][x[2]] = task[x[1]][x[2]]]

Copy(r) ==
    /\ reading[r].phase = "copy"
    /\ Take(r)
    /\ UNCHANGED <<task, lock, writes, writing, unread, past>>

AllCopied_shallow_bug(todo) == \A x \in todo : x[2] = "notified"

\* The words are copied with the struct and the map is cloned before the read lock
\* is given back, of all tasks: the copy shares nothing that changes.
AllCopied(todo) == todo = {}

RUnlock(r) ==
    /\ reading[r].phase = "copy"
    /\ AllCopied(reading[r].todo)
    /\ reading' = [reading EXCEPT ![r].phase = "encode"]
    /\ UNCHANGED <<task, lock, writes, writing, unread, past>>

\* The encoder reads what was not copied, and answers.
Encode(r) ==
    /\ reading[r].phase = "encode"
    /\ \/ Take(r)
       \/ reading[r].todo = {} /\ reading' = [reading EXCEPT ![r] = NotReading]
    /\ UNCHANGED <<task, lock, writes, writing, unread, past>>

\* HandleWebhook after AddTasks: toTaskEvent reads the task itself, without the lock.
ReadForPayload(t) ==
    /\ unread[t] # <<>>
    /\ unread' = [unread EXCEPT ![t] = Tail(@)]
    /\ UNCHANGED <<task, lock, writes, writing, reading, past>>

Next ==
    \/ \E ts \in SUBSET Task : Publish(ts)
    \/ \E w \in Writer : Lock(w) \/ Write(w) \/ Unlock(w)
    \/ \E r \in Reader : RLock(r) \/ Copy(r) \/ RUnlock(r) \/ Encode(r)
    \/ \E t \in Task : ReadForPayload(t)

Spec == Init /\ [][Next]_vars

-----------------------------------------------------------------------------

\* What a request answers is the table as it was at one moment while the request was
\* served, all of it or of one task: no half of a report, and no task from before a
\* change next to one from after it (ListTasks, GetTask).
AnswersAreOneMoment ==
    \A r \in Reader : LET got == reading[r].got IN
        reading[r].phase = "encode" /\ reading[r].todo = {} =>
            \E i \in reading[r].since..Len(past) :
                /\ DOMAIN got \subseteq DOMAIN past[i]
                /\ got = [t \in DOMAIN got |-> past[i][t]]

\* Nobody reads the map of a task while it is changed, which ends the process in Go
\* (cloneTimeMap, toTaskEvent).
NobodyReadsAChangingMap ==
    \A w \in Writer : \A t \in writing[w].on : writing[w].todo = Map =>
        /\ \A r \in Reader : <<t, "notified">> \notin reading[r].todo
        /\ "notified" \notin ToSet(unread[t])
=============================================================================
