-------------------------- MODULE TaskViewsProofs ---------------------------
(***************************************************************************)
(* A request is answered with the table as it was at one moment, for every *)
(* number of tasks, writers, requests and changes.                         *)
(*                                                                         *)
(* AnswersAreOneMoment speaks of an answer that is complete.  It follows   *)
(* from what holds while the copy is made: nobody has the lock, so what    *)
(* was copied is still what the table holds, and the table is the last one *)
(* of past.                                                                *)
(***************************************************************************)
EXTENDS TaskViews, TLAPS

\* A writer with a task has the lock, and then nobody copies; without a lock the table
\* is as the last change left it.
LockInv ==
    /\ \A w \in Writer : /\ writing[w].on \subseteq DOMAIN task
                         /\ writing[w].on = {} => writing[w].todo = <<>>
    /\ \A w \in Writer : lock = w => \A r \in Reader : reading[r].phase # "copy"
    /\ Len(past) > 0
    /\ lock = Nobody => task = past[Len(past)]
    /\ \A t \in Task : "notified" \notin ToSet(unread[t])

\* Whatever is not left to do was copied, and is as it was.
CopyInv(r) ==
    reading[r].phase = "copy" =>
        /\ reading[r].since \in 0..Len(past)
        /\ DOMAIN reading[r].got \subseteq DOMAIN task
        /\ \A t \in DOMAIN reading[r].got, f \in Field :
              <<t, f>> \in reading[r].todo \/ reading[r].got[t][f] = task[t][f]

\* An answer is the table of one moment.
AnswerInv(r) ==
    reading[r].phase = "encode" =>
        \E i \in reading[r].since..Len(past) :
            /\ i \in DOMAIN past
            /\ DOMAIN reading[r].got \subseteq DOMAIN past[i]
            /\ reading[r].got = [t \in DOMAIN reading[r].got |-> past[i][t]]

ReadInv == \A r \in Reader :
    /\ reading[r].phase # "copy" => reading[r].todo = {}
    /\ reading[r].todo \subseteq (DOMAIN reading[r].got) \X Field
    /\ CopyInv(r) /\ AnswerInv(r)

IInv == TypeOK /\ LockInv /\ ReadInv

-----------------------------------------------------------------------------
(* Tables, and the two kinds of changes. *)

\* The fields of a task.
LEMMA Fields ==
    /\ Words \in Seq(Field) /\ Map \in Seq(Field) /\ Announced \in Seq(Field)
    /\ Words # <<>> /\ Map # <<>> /\ Words # Map
    /\ "notified" \notin ToSet(Words)
    /\ "notified" \in Field
  <1>1. DOMAIN Words = 1..3 /\ DOMAIN Map = 1..1 BY DEF Words, Map
  <1>2. ToSet(Words) = {Words[1], Words[2], Words[3]} /\ ToSet(Map) = {Map[1]}
    BY <1>1 DEF ToSet
  <1>3. \A i \in 1..3 : Words[i] \in Field BY <1>2 DEF Field
  <1>4. Map[1] \in Field /\ Map[1] = "notified" BY <1>2 DEF Field, Map
  <1>5. /\ Words[1] = "status" /\ Words[2] = "message data" /\ Words[3] = "message length"
    BY DEF Words
  <1>6. Words \in Seq(Field) /\ Announced \in Seq(Field)
    <2>1. \A a, b, c \in Field : <<a, b, c>> \in Seq(Field) OBVIOUS
    <2>2. Words = <<Words[1], Words[2], Words[3]>> BY DEF Words
    <2>3. Words[1] \in Field /\ Words[2] \in Field /\ Words[3] \in Field BY <1>3
    <2>4. <<Words[1], Words[2], Words[3]>> \in Seq(Field) BY <2>1, <2>3
    <2>5. Words \in Seq(Field) BY <2>2, <2>4
    <2> QED BY <2>5 DEF Announced
  <1>7. Map \in Seq(Field) BY <1>4 DEF Map
  <1>8. Words # <<>> /\ Map # <<>> /\ Words # Map BY DEF Words, Map
  <1>9. "notified" \notin ToSet(Words) BY <1>2, <1>5
  <1> QED BY <1>4, <1>6, <1>7, <1>8, <1>9

\* A table is a function from some of the tasks.
LEMMA TableType ==
    ASSUME NEW T
    PROVE  T \in Tables <=> /\ DOMAIN T \subseteq Task
                            /\ T \in [DOMAIN T -> Values]
  BY DEF Tables

\* A function from tasks to values is a table.
LEMMA MakeTable ==
    ASSUME NEW D \in SUBSET Task, NEW T \in [D -> Values]
    PROVE  T \in Tables
  BY DEF Tables

\* A new task has no writes in it.
LEMMA NewType == New \in Values
  BY ViewsAssumption DEF New, Values

\* A field of a task in a table may be given any number.
LEMMA SetField ==
    ASSUME NEW T \in Tables, NEW t \in DOMAIN T, NEW f \in Field, NEW n \in 0..MaxWrites
    PROVE  /\ [T EXCEPT ![t][f] = n] \in Tables
           /\ DOMAIN [T EXCEPT ![t][f] = n] = DOMAIN T
           /\ \A u \in DOMAIN T, g \in Field :
                 [T EXCEPT ![t][f] = n][u][g] = IF u = t /\ g = f THEN n ELSE T[u][g]
  <1> DEFINE row == [T[t] EXCEPT ![f] = n]
  <1>1. DOMAIN T \subseteq Task /\ T \in [DOMAIN T -> Values] BY TableType
  <1>2. T[t] \in [Field -> 0..MaxWrites] BY <1>1 DEF Values
  <1>3. row \in Values BY <1>2 DEF Values
  <1>4. \A g \in Field : row[g] = IF g = f THEN n ELSE T[t][g] BY <1>2
  <1>5. [T EXCEPT ![t][f] = n] = [T EXCEPT ![t] = row] BY <1>1
  <1> HIDE DEF row
  <1>6. [T EXCEPT ![t] = row] \in [DOMAIN T -> Values] BY <1>1, <1>3
  <1>7. [T EXCEPT ![t] = row] \in Tables BY <1>1, <1>6, MakeTable
  <1>8. \A u \in DOMAIN T : [T EXCEPT ![t] = row][u] = IF u = t THEN row ELSE T[u] BY <1>1
  <1>9. \A u \in DOMAIN T, g \in Field :
           [T EXCEPT ![t] = row][u][g] = IF u = t /\ g = f THEN n ELSE T[u][g]
    BY <1>4, <1>8
  <1>10. DOMAIN [T EXCEPT ![t] = row] = DOMAIN T BY <1>6
  <1> QED BY <1>5, <1>7, <1>9, <1>10

\* Two tables with the same tasks and the same fields are one.
LEMMA SameTable ==
    ASSUME NEW T \in Tables, NEW U \in Tables, DOMAIN T \subseteq DOMAIN U,
           \A t \in DOMAIN T, f \in Field : T[t][f] = U[t][f]
    PROVE  T = [t \in DOMAIN T |-> U[t]]
  <1>1. T \in [DOMAIN T -> Values] /\ U \in [DOMAIN U -> Values] BY TableType
  <1>2. ASSUME NEW t \in DOMAIN T PROVE T[t] = U[t]
    <2>1. T[t] \in [Field -> 0..MaxWrites] /\ U[t] \in [Field -> 0..MaxWrites]
      BY <1>1 DEF Values
    <2>2. \A f \in Field : T[t][f] = U[t][f] OBVIOUS
    <2>3. T[t] = [f \in Field |-> T[t][f]] /\ U[t] = [f \in Field |-> U[t][f]] BY <2>1
    <2>4. [f \in Field |-> T[t][f]] = [f \in Field |-> U[t][f]] BY <2>2
    <2> QED BY <2>3, <2>4
  <1> QED BY <1>1, <1>2

\* What a change adds to the past.
LEMMA MorePast ==
    ASSUME NEW P \in Seq(Tables), NEW T \in Tables
    PROVE  /\ Append(P, T) \in Seq(Tables)
           /\ Len(P) \in Nat /\ Len(Append(P, T)) = Len(P) + 1
           /\ Append(P, T)[Len(P) + 1] = T
           /\ \A i \in DOMAIN P : i \in DOMAIN Append(P, T) /\ Append(P, T)[i] = P[i]
  OBVIOUS

-----------------------------------------------------------------------------
(* Types. *)

\* The types hold at first.
LEMMA TypeInit == Init => TypeOK
  <1> SUFFICES ASSUME Init PROVE TypeOK
    OBVIOUS
  <1>1. <<>> \in Tables
    <2>1. DOMAIN <<>> = {} OBVIOUS
    <2>2. <<>> \in [{} -> Values] OBVIOUS
    <2> QED BY <2>1, <2>2, MakeTable
  <1>2. task \in Tables /\ past \in Seq(Tables) BY <1>1 DEF Init
  <1>3. <<>> \in Seq(Field) OBVIOUS
  <1>4. reading \in [Reader -> [phase : {"idle", "copy", "encode"},
                               todo : SUBSET (Task \X Field), got : Tables, since : Nat]]
    BY <1>1 DEF Init, NotReading
  <1>5. writing \in [Writer -> [on : SUBSET Task, todo : Seq(Field)]]
    BY <1>3 DEF Init, NotWriting
  <1>6. unread \in [Task -> Seq(Field)] BY <1>3 DEF Init
  <1>7. /\ \A w \in Writer : writing[w].on = {}
        /\ \A r \in Reader : reading[r].todo = {}
    BY DEF Init, NotWriting, NotReading
  <1> QED BY <1>2, <1>4, <1>5, <1>6, <1>7, ViewsAssumption DEF Init, TypeOK

\* The invariant holds at first.
LEMMA InvInit == Init => IInv
  <1> SUFFICES ASSUME Init PROVE LockInv /\ ReadInv
    BY TypeInit DEF IInv
  <1>1. LockInv
    <2>1. Len(past) = 1 /\ past[1] = task BY DEF Init
    <2>2. ToSet(<<>>) = {} BY DEF ToSet
    <2> QED BY <2>1, <2>2, ViewsAssumption DEF Init, LockInv, NotWriting, NotReading
  <1>2. ReadInv BY DEF Init, ReadInv, CopyInv, AnswerInv, NotReading
  <1> QED BY <1>1, <1>2

-----------------------------------------------------------------------------
(* Steps that leave the requests alone. *)

\* What no step of a writer disturbs: what a request that is not copying has.
LEMMA PastOnly ==
    ASSUME IInv, NEW T \in Tables, past' = Append(past, T), reading' = reading,
           \A r \in Reader : reading[r].phase # "copy"
    PROVE  ReadInv'
  <1> SUFFICES ASSUME NEW r \in Reader
               PROVE  /\ reading[r].todo = {}
                      /\ AnswerInv(r)'
    BY DEF IInv, ReadInv, CopyInv
  <1>1. reading[r].todo = {} /\ AnswerInv(r) BY DEF IInv, ReadInv
  <1>2. /\ Len(past) \in Nat /\ Len(past') = Len(past) + 1
        /\ \A i \in DOMAIN past : i \in DOMAIN past' /\ past'[i] = past[i]
    BY MorePast DEF IInv, TypeOK
  <1>3. reading[r].since \in Nat BY DEF IInv, TypeOK
  <1>4. AnswerInv(r)'
    <2>1. CASE reading[r].phase # "encode" BY <2>1 DEF AnswerInv
    <2>2. CASE reading[r].phase = "encode"
      <3>1. PICK i \in reading[r].since..Len(past) :
               /\ i \in DOMAIN past
               /\ DOMAIN reading[r].got \subseteq DOMAIN past[i]
               /\ reading[r].got = [t \in DOMAIN reading[r].got |-> past[i][t]]
        BY <1>1, <2>2 DEF AnswerInv
      <3>2. i \in reading[r].since..Len(past') BY <1>2, <1>3
      <3> QED BY <1>2, <3>1, <3>2 DEF AnswerInv
    <2> QED BY <2>1, <2>2
  <1> QED BY <1>1, <1>4

\* Only the one with the lock is writing.
LEMMA OneWriter ==
    ASSUME IInv
    PROVE  /\ \A w \in Writer : lock # w => writing[w].on = {} /\ writing[w].todo = <<>>
           /\ lock # Nobody => \A r \in Reader : reading[r].phase # "copy"
           /\ \A r \in Reader : reading[r].phase = "copy" => lock = Nobody
  BY DEF IInv, TypeOK, LockInv

\* AddTasks.
LEMMA PublishInv == \A ts \in SUBSET Task : IInv /\ Publish(ts) => IInv'
  <1> SUFFICES ASSUME NEW ts \in SUBSET Task, IInv, Publish(ts) PROVE IInv'
    OBVIOUS
  <1>0. TypeOK /\ LockInv /\ ReadInv BY DEF IInv
  <1>1. /\ lock = Nobody /\ \A r \in Reader : reading[r].phase # "copy"
        /\ task' = [t \in DOMAIN task \cup ts |-> IF t \in ts THEN New ELSE task[t]]
        /\ past' = Append(past, task')
        /\ unread' = [t \in Task |-> IF t \in ts THEN Announced ELSE unread[t]]
        /\ UNCHANGED <<lock, writes, writing, reading>>
    BY DEF Publish, Free
  <1>2. DOMAIN task \subseteq Task /\ task \in [DOMAIN task -> Values] /\ past \in Seq(Tables)
    BY <1>0, TableType DEF TypeOK
  <1>3. task' \in Tables
    <2>1. task' \in [DOMAIN task \cup ts -> Values] BY <1>1, <1>2, NewType
    <2>2. DOMAIN task \cup ts \in SUBSET Task BY <1>2
    <2> QED BY <2>1, <2>2, MakeTable
  <1>4. DOMAIN task \subseteq DOMAIN task' BY <1>1
  <1>5. /\ past' \in Seq(Tables) /\ Len(past) \in Nat /\ Len(past') = Len(past) + 1
        /\ past'[Len(past')] = task'
    BY <1>1, <1>2, <1>3, MorePast
  <1>6. unread' \in [Task -> Seq(Field)] BY <1>0, <1>1, Fields DEF TypeOK
  <1>7. TypeOK' BY <1>0, <1>1, <1>3, <1>4, <1>5, <1>6 DEF TypeOK
  <1>8. LockInv'
    <2>1. \A t \in Task : "notified" \notin ToSet(unread'[t])
      BY <1>0, <1>1, Fields DEF LockInv, Announced
    <2>2. \A w \in Writer : /\ writing'[w].on \subseteq DOMAIN task'
                            /\ writing'[w].on = {} => writing'[w].todo = <<>>
      BY <1>0, <1>1, <1>4 DEF LockInv
    <2>3. \A w \in Writer : lock' # w BY <1>1, ViewsAssumption
    <2>4. Len(past') > 0 BY <1>5
    <2> QED BY <1>5, <2>1, <2>2, <2>3, <2>4 DEF LockInv
  <1>9. ReadInv' BY <1>1, <1>3, PastOnly
  <1> QED BY <1>7, <1>8, <1>9 DEF IInv

\* A call of the store begins to change a task.
LEMMA LockInvStep == \A w \in Writer : IInv /\ Lock(w) => IInv'
  <1> SUFFICES ASSUME NEW w \in Writer, IInv, Lock(w) PROVE IInv'
    OBVIOUS
  <1>0. TypeOK /\ LockInv /\ ReadInv BY DEF IInv
  <1>1. /\ lock = Nobody /\ \A r \in Reader : reading[r].phase # "copy"
        /\ writes < MaxWrites /\ lock' = w /\ writes' = writes + 1
        /\ UNCHANGED <<task, reading, unread, past>>
    BY DEF Lock, Free
  <1>2. PICK t \in DOMAIN task, todo \in {Words, Map} :
           writing' = [writing EXCEPT ![w] = [on |-> {t}, todo |-> todo]]
    BY DEF Lock
  <1>3. t \in Task /\ todo \in Seq(Field) BY <1>0, TableType, Fields DEF TypeOK
  <1>4. /\ writing \in [Writer -> [on : SUBSET Task, todo : Seq(Field)]]
        /\ writing' \in [Writer -> [on : SUBSET Task, todo : Seq(Field)]]
    BY <1>0, <1>2, <1>3 DEF TypeOK
  <1>5. writes' \in 0..MaxWrites BY <1>0, <1>1, ViewsAssumption DEF TypeOK
  <1>6. \A v \in Writer : writing'[v] = IF v = w THEN [on |-> {t}, todo |-> todo] ELSE writing[v]
    BY <1>2, <1>4
  <1>7. \A v \in Writer : v # w => writing[v].on = {} /\ writing[v].todo = <<>>
    BY <1>1, OneWriter, ViewsAssumption
  <1>8. TypeOK' BY <1>0, <1>1, <1>4, <1>5, <1>6, <1>7 DEF TypeOK
  <1>9. LockInv'
    <2>1. \A v \in Writer : /\ writing'[v].on \subseteq DOMAIN task
                            /\ writing'[v].on = {} => writing'[v].todo = <<>>
      BY <1>6, <1>7
    <2>2. lock' # Nobody BY <1>1, ViewsAssumption
    <2> QED BY <1>0, <1>1, <2>1, <2>2 DEF LockInv
  <1>10. ReadInv' BY <1>0, <1>1 DEF ReadInv, CopyInv, AnswerInv
  <1> QED BY <1>8, <1>9, <1>10 DEF IInv

\* A field of a task is written.
LEMMA WriteInv == \A w \in Writer : IInv /\ Write(w) => IInv'
  <1> SUFFICES ASSUME NEW w \in Writer, IInv, Write(w) PROVE IInv'
    OBVIOUS
  <1>0. TypeOK /\ LockInv /\ ReadInv BY DEF IInv
  <1>1. PICK t \in writing[w].on :
           /\ writing[w].todo # <<>>
           /\ task' = [task EXCEPT ![t][Head(writing[w].todo)] = writes]
           /\ writing' = [writing EXCEPT ![w].todo = Tail(@)]
           /\ UNCHANGED <<lock, writes, reading, unread, past>>
    BY DEF Write
  <1>2. /\ writing \in [Writer -> [on : SUBSET Task, todo : Seq(Field)]]
        /\ writing[w].todo \in Seq(Field) /\ writes \in 0..MaxWrites /\ task \in Tables
    BY <1>0 DEF TypeOK
  <1>3. Head(writing[w].todo) \in Field /\ Tail(writing[w].todo) \in Seq(Field)
    BY <1>1, <1>2
  <1>4. t \in DOMAIN task BY <1>0 DEF LockInv
  <1>5. task' \in Tables /\ DOMAIN task' = DOMAIN task BY <1>1, <1>2, <1>3, <1>4, SetField
  <1>6. writing' = [writing EXCEPT ![w] = [writing[w] EXCEPT !.todo = Tail(writing[w].todo)]]
    BY <1>1, <1>2
  <1>7. /\ writing' \in [Writer -> [on : SUBSET Task, todo : Seq(Field)]]
        /\ \A v \in Writer : writing'[v].on = writing[v].on
        /\ \A v \in Writer : v # w => writing'[v].todo = writing[v].todo
    BY <1>2, <1>3, <1>6
  <1>8. lock = w /\ lock # Nobody BY <1>0, <1>1, ViewsAssumption DEF TypeOK
  <1>9. \A r \in Reader : reading[r].phase # "copy" BY <1>8, OneWriter
  <1>10. TypeOK' BY <1>0, <1>1, <1>5, <1>7 DEF TypeOK
  <1>11. LockInv' BY <1>0, <1>1, <1>5, <1>7, <1>8 DEF LockInv
  <1>12. ReadInv' BY <1>0, <1>1, <1>9 DEF ReadInv, CopyInv, AnswerInv
  <1> QED BY <1>10, <1>11, <1>12 DEF IInv

\* A call of the store ends.
LEMMA UnlockInv == \A w \in Writer : IInv /\ Unlock(w) => IInv'
  <1> SUFFICES ASSUME NEW w \in Writer, IInv, Unlock(w) PROVE IInv'
    OBVIOUS
  <1>0. TypeOK /\ LockInv /\ ReadInv BY DEF IInv
  <1>1. /\ lock = w /\ lock' = Nobody /\ past' = Append(past, task)
        /\ writing' = [writing EXCEPT ![w] = NotWriting]
        /\ UNCHANGED <<task, writes, reading, unread>>
    BY DEF Unlock
  <1>2. /\ writing \in [Writer -> [on : SUBSET Task, todo : Seq(Field)]]
        /\ past \in Seq(Tables) /\ task \in Tables
    BY <1>0 DEF TypeOK
  <1>3. NotWriting \in [on : SUBSET Task, todo : Seq(Field)]
    BY DEF NotWriting
  <1>4. /\ writing' \in [Writer -> [on : SUBSET Task, todo : Seq(Field)]]
        /\ \A v \in Writer : writing'[v] = IF v = w THEN NotWriting ELSE writing[v]
    BY <1>1, <1>2, <1>3
  <1>5. \A v \in Writer : writing'[v].on = {} /\ writing'[v].todo = <<>>
    BY <1>1, <1>4, OneWriter DEF NotWriting
  <1>6. /\ past' \in Seq(Tables) /\ Len(past) \in Nat /\ Len(past') = Len(past) + 1
        /\ past'[Len(past')] = task
    BY <1>1, <1>2, MorePast
  <1>7. \A r \in Reader : reading[r].phase # "copy"
    BY <1>1, OneWriter, ViewsAssumption
  <1>8. TypeOK' BY <1>0, <1>1, <1>4, <1>5, <1>6 DEF TypeOK
  <1>9. LockInv'
    <2>1. Len(past') > 0 BY <1>6
    <2>2. \A v \in Writer : lock' # v BY <1>1, ViewsAssumption
    <2> QED BY <1>0, <1>1, <1>5, <1>6, <2>1, <2>2 DEF LockInv
  <1>10. ReadInv' BY <1>1, <1>2, <1>7, PastOnly
  <1> QED BY <1>8, <1>9, <1>10 DEF IInv

-----------------------------------------------------------------------------
(* Steps of a request. *)

\* What a request that moves on has to leave in order.
LEMMA ReaderStep ==
    ASSUME IInv, NEW r \in Reader, NEW rec,
           reading' = [reading EXCEPT ![r] = rec],
           UNCHANGED <<task, lock, writes, writing, unread, past>>,
           rec \in [phase : {"idle", "copy", "encode"}, todo : SUBSET (Task \X Field),
                    got : Tables, since : Nat],
           rec.todo \subseteq (DOMAIN rec.got) \X Field,
           rec.todo \subseteq (DOMAIN task) \X Field,
           rec.phase # "copy" => rec.todo = {},
           rec.phase = "copy" => /\ lock = Nobody
                                 /\ rec.since \in 0..Len(past)
                                 /\ DOMAIN rec.got \subseteq DOMAIN task
                                 /\ \A t \in DOMAIN rec.got, f \in Field :
                                       <<t, f>> \in rec.todo \/ rec.got[t][f] = task[t][f],
           rec.phase = "encode" =>
              \E i \in rec.since..Len(past) :
                 /\ i \in DOMAIN past
                 /\ DOMAIN rec.got \subseteq DOMAIN past[i]
                 /\ rec.got = [t \in DOMAIN rec.got |-> past[i][t]]
    PROVE  IInv'
  <1>0. TypeOK /\ LockInv /\ ReadInv BY DEF IInv
  <1>1. reading \in [Reader -> [phase : {"idle", "copy", "encode"},
                               todo : SUBSET (Task \X Field), got : Tables, since : Nat]]
    BY <1>0 DEF TypeOK
  <1>2. /\ reading' \in [Reader -> [phase : {"idle", "copy", "encode"},
                                   todo : SUBSET (Task \X Field), got : Tables, since : Nat]]
        /\ \A s \in Reader : reading'[s] = IF s = r THEN rec ELSE reading[s]
    BY <1>1
  <1>3. TypeOK' BY <1>0, <1>2 DEF TypeOK
  <1>4. LockInv'
    <2>1. \A w \in Writer : lock = w => \A s \in Reader : reading'[s].phase # "copy"
      BY <1>0, <1>2, ViewsAssumption DEF LockInv
    <2> QED BY <1>0, <2>1 DEF LockInv
  <1>5. ReadInv'
    <2> SUFFICES ASSUME NEW s \in Reader
                 PROVE  /\ reading'[s].phase # "copy" => reading'[s].todo = {}
                        /\ reading'[s].todo \subseteq (DOMAIN reading'[s].got) \X Field
                        /\ CopyInv(s)' /\ AnswerInv(s)'
      BY DEF ReadInv
    <2>1. CASE s = r
      <3>1. reading'[s] = rec BY <1>2, <2>1
      <3> QED BY <3>1 DEF CopyInv, AnswerInv
    <2>2. CASE s # r
      <3>1. reading'[s] = reading[s] BY <1>2, <2>2
      <3>2. /\ reading[s].phase # "copy" => reading[s].todo = {}
            /\ reading[s].todo \subseteq (DOMAIN reading[s].got) \X Field
            /\ CopyInv(s) /\ AnswerInv(s)
        BY <1>0 DEF ReadInv
      <3> QED BY <3>1, <3>2 DEF CopyInv, AnswerInv
    <2> QED BY <2>1, <2>2
  <1> QED BY <1>3, <1>4, <1>5 DEF IInv

\* GetTask or ListTasks begins.
LEMMA RLockInv == \A r \in Reader : IInv /\ RLock(r) => IInv'
  <1> SUFFICES ASSUME NEW r \in Reader, IInv, RLock(r) PROVE IInv'
    OBVIOUS
  <1>0. /\ task \in Tables /\ DOMAIN task \subseteq Task /\ past \in Seq(Tables)
        /\ lock = Nobody /\ UNCHANGED <<task, lock, writes, writing, unread, past>>
    BY TableType DEF IInv, TypeOK, RLock
  <1>1. PICK ts \in SUBSET DOMAIN task :
           reading' = [reading EXCEPT ![r] =
              [phase |-> "copy", todo |-> ts \X Field, got |-> [t \in ts |-> New],
               since |-> Len(past)]]
    BY DEF RLock
  <1>2. [t \in ts |-> New] \in Tables
    <2>1. ts \in SUBSET Task /\ [t \in ts |-> New] \in [ts -> Values] BY <1>0, NewType
    <2> QED BY <2>1, MakeTable
  <1>3. Len(past) \in Nat BY <1>0
  <1> DEFINE rec == [phase |-> "copy", todo |-> ts \X Field, got |-> [t \in ts |-> New],
                     since |-> Len(past)]
  <1>4. /\ rec.phase = "copy" /\ rec.todo = ts \X Field /\ DOMAIN rec.got = ts
        /\ rec.since = Len(past)
    OBVIOUS
  <1>5. rec \in [phase : {"idle", "copy", "encode"}, todo : SUBSET (Task \X Field),
                 got : Tables, since : Nat]
    <2>1. ts \X Field \subseteq Task \X Field BY <1>0
    <2> QED BY <1>2, <1>3, <2>1
  <1>6. rec.todo \subseteq (DOMAIN task) \X Field BY <1>4
  <1>7. reading' = [reading EXCEPT ![r] = rec] BY <1>1
  <1> HIDE DEF rec
  <1>8. \A t \in DOMAIN rec.got, f \in Field : <<t, f>> \in rec.todo BY <1>4
  <1>9. rec.since \in 0..Len(past) BY <1>3, <1>4
  <1> QED BY <1>0, <1>4, <1>5, <1>6, <1>7, <1>8, <1>9, ReaderStep

\* A word is taken, or a map is cloned.
LEMMA CopyStepInv == \A r \in Reader : IInv /\ Copy(r) => IInv'
  <1> SUFFICES ASSUME NEW r \in Reader, IInv, Copy(r) PROVE IInv'
    OBVIOUS
  <1>0. /\ UNCHANGED <<task, lock, writes, writing, unread, past>>
        /\ reading[r].phase = "copy" /\ Take(r)
    BY DEF Copy
  <1>1. PICK x \in reading[r].todo :
           reading' = [reading EXCEPT ![r].todo = @ \ {x},
                                      ![r].got[x[1]][x[2]] = task[x[1]][x[2]]]
    BY <1>0 DEF Take
  <1>2. /\ reading \in [Reader -> [phase : {"idle", "copy", "encode"},
                                  todo : SUBSET (Task \X Field), got : Tables, since : Nat]]
        /\ task \in Tables
        /\ reading[r].todo \subseteq (DOMAIN task) \X Field
        /\ reading[r].todo \subseteq (DOMAIN reading[r].got) \X Field
        /\ CopyInv(r) /\ lock = Nobody
    BY <1>0, OneWriter DEF IInv, TypeOK, ReadInv
  <1>3. PICK t \in DOMAIN reading[r].got, f \in Field : x = <<t, f>>
    BY <1>1, <1>2
  <1>4. t \in DOMAIN task BY <1>1, <1>2, <1>3
  <1>5. task[t][f] \in 0..MaxWrites
    <2>1. task \in [DOMAIN task -> Values] BY <1>2, TableType
    <2>2. task[t] \in [Field -> 0..MaxWrites] BY <1>4, <2>1 DEF Values
    <2> QED BY <2>2
  <1> DEFINE got == [reading[r].got EXCEPT ![t][f] = task[t][f]]
             rec == [reading[r] EXCEPT !.todo = @ \ {x}, !.got = got]
  <1>6. reading[r].got \in Tables /\ reading[r].todo \in SUBSET (Task \X Field)
        /\ reading[r].since \in Nat
    BY <1>2
  <1>7. /\ got \in Tables /\ DOMAIN got = DOMAIN reading[r].got
        /\ \A u \in DOMAIN reading[r].got, g \in Field :
              got[u][g] = IF u = t /\ g = f THEN task[t][f] ELSE reading[r].got[u][g]
    BY <1>5, <1>6, SetField
  <1>8. reading' = [reading EXCEPT ![r] = rec]
    BY <1>1, <1>2, <1>3
  <1> HIDE DEF got
  <1>9. /\ rec \in [phase : {"idle", "copy", "encode"}, todo : SUBSET (Task \X Field),
                   got : Tables, since : Nat]
        /\ rec.phase = "copy" /\ rec.todo = reading[r].todo \ {x} /\ rec.got = got
        /\ rec.since = reading[r].since
    BY ZenonT(40), <1>0, <1>2, <1>6, <1>7
  <1> HIDE DEF rec
  <1>10. rec.since \in 0..Len(past) /\ DOMAIN rec.got \subseteq DOMAIN task
    BY <1>0, <1>2, <1>7, <1>9 DEF CopyInv
  <1>11. ASSUME NEW u \in DOMAIN rec.got, NEW g \in Field
         PROVE  <<u, g>> \in rec.todo \/ rec.got[u][g] = task[u][g]
    <2>1. u \in DOMAIN reading[r].got BY <1>7, <1>9
    <2>2. <<u, g>> \in reading[r].todo \/ reading[r].got[u][g] = task[u][g]
      BY <1>0, <1>2, <2>1 DEF CopyInv
    <2>3. CASE u = t /\ g = f BY <1>7, <1>9, <2>1, <2>3
    <2>4. CASE ~(u = t /\ g = f)
      <3>1. <<u, g>> # x BY <1>3, <2>4
      <3>2. rec.got[u][g] = reading[r].got[u][g] BY <1>7, <1>9, <2>1, <2>4
      <3> QED BY <1>9, <2>2, <3>1, <3>2
    <2> QED BY <2>3, <2>4
  <1>12. /\ rec.todo \subseteq (DOMAIN rec.got) \X Field
         /\ rec.todo \subseteq (DOMAIN task) \X Field
    BY <1>2, <1>7, <1>9
  <1>13. rec.phase = "copy" /\ rec.phase # "encode" BY <1>9
  <1> QED BY <1>0, <1>2, <1>8, <1>9, <1>10, <1>11, <1>12, <1>13, ReaderStep

\* The read lock is given back.
LEMMA RUnlockInv == \A r \in Reader : IInv /\ RUnlock(r) => IInv'
  <1> SUFFICES ASSUME NEW r \in Reader, IInv, RUnlock(r) PROVE IInv'
    OBVIOUS
  <1>0. /\ UNCHANGED <<task, lock, writes, writing, unread, past>>
        /\ reading[r].phase = "copy" /\ reading[r].todo = {}
        /\ reading' = [reading EXCEPT ![r].phase = "encode"]
    BY DEF RUnlock, AllCopied
  <1>1. /\ reading \in [Reader -> [phase : {"idle", "copy", "encode"},
                                  todo : SUBSET (Task \X Field), got : Tables, since : Nat]]
        /\ task \in Tables /\ past \in Seq(Tables)
        /\ CopyInv(r) /\ lock = Nobody
        /\ task = past[Len(past)] /\ Len(past) > 0
    BY <1>0, OneWriter DEF IInv, TypeOK, ReadInv, LockInv
  <1> DEFINE rec == [reading[r] EXCEPT !.phase = "encode"]
  <1>2. reading' = [reading EXCEPT ![r] = rec] BY <1>0, <1>1
  <1>3. /\ rec \in [phase : {"idle", "copy", "encode"}, todo : SUBSET (Task \X Field),
                   got : Tables, since : Nat]
        /\ rec.phase = "encode" /\ rec.todo = {} /\ rec.got = reading[r].got
        /\ rec.since = reading[r].since
    BY <1>0, <1>1
  <1> HIDE DEF rec
  <1>4. /\ rec.since \in 0..Len(past) /\ DOMAIN rec.got \subseteq DOMAIN task
        /\ \A t \in DOMAIN rec.got, f \in Field : rec.got[t][f] = task[t][f]
    BY <1>0, <1>1, <1>3 DEF CopyInv
  <1>5. rec.got \in Tables BY <1>3
  <1>6. rec.got = [t \in DOMAIN rec.got |-> task[t]] BY <1>1, <1>4, <1>5, SameTable
  <1>7. Len(past) \in rec.since..Len(past) /\ Len(past) \in DOMAIN past
    BY <1>1, <1>4
  <1>8. \E i \in rec.since..Len(past) :
           /\ i \in DOMAIN past
           /\ DOMAIN rec.got \subseteq DOMAIN past[i]
           /\ rec.got = [t \in DOMAIN rec.got |-> past[i][t]]
    BY <1>1, <1>4, <1>6, <1>7
  <1>9. /\ rec.todo \subseteq (DOMAIN rec.got) \X Field
        /\ rec.todo \subseteq (DOMAIN task) \X Field
        /\ rec.phase # "copy"
    BY <1>3
  <1> QED BY <1>0, <1>2, <1>3, <1>8, <1>9, ReaderStep

\* The answer is encoded.
LEMMA EncodeInv == \A r \in Reader : IInv /\ Encode(r) => IInv'
  <1> SUFFICES ASSUME NEW r \in Reader, IInv, Encode(r) PROVE IInv'
    OBVIOUS
  <1>0. UNCHANGED <<task, lock, writes, writing, unread, past>> BY DEF Encode
  <1>1. reading[r].todo = {} BY DEF Encode, IInv, ReadInv
  <1>2. reading' = [reading EXCEPT ![r] = NotReading] BY <1>1 DEF Encode, Take
  <1>3. <<>> \in Tables
    <2>1. <<>> \in [{} -> Values] OBVIOUS
    <2> QED BY <2>1, MakeTable
  <1>4. /\ NotReading \in [phase : {"idle", "copy", "encode"}, todo : SUBSET (Task \X Field),
                          got : Tables, since : Nat]
        /\ NotReading.phase = "idle" /\ NotReading.todo = {}
    BY <1>3 DEF NotReading
  <1>5. /\ NotReading.todo \subseteq (DOMAIN NotReading.got) \X Field
        /\ NotReading.todo \subseteq (DOMAIN task) \X Field
        /\ NotReading.phase # "copy" /\ NotReading.phase # "encode"
    BY <1>4
  <1> QED BY <1>0, <1>2, <1>4, <1>5, ReaderStep

-----------------------------------------------------------------------------
(* HandleWebhook, and the whole. *)

\* toTaskEvent reads on.
LEMMA PayloadInv == \A t \in Task : IInv /\ ReadForPayload(t) => IInv'
  <1> SUFFICES ASSUME NEW t \in Task, IInv, ReadForPayload(t) PROVE IInv'
    OBVIOUS
  <1>0. TypeOK /\ LockInv /\ ReadInv BY DEF IInv
  <1>1. /\ unread[t] # <<>> /\ unread' = [unread EXCEPT ![t] = Tail(@)]
        /\ UNCHANGED <<task, lock, writes, writing, reading, past>>
    BY DEF ReadForPayload
  <1>2. unread \in [Task -> Seq(Field)] BY <1>0 DEF TypeOK
  <1>3. Tail(unread[t]) \in Seq(Field) BY <1>1, <1>2
  <1>4. unread' \in [Task -> Seq(Field)]
        /\ \A u \in Task : unread'[u] = IF u = t THEN Tail(unread[t]) ELSE unread[u]
    BY <1>1, <1>2, <1>3
  <1>5. ToSet(Tail(unread[t])) \subseteq ToSet(unread[t])
    <2>1. PICK s \in Seq(Field) : s = unread[t] BY <1>2
    <2>2. s # <<>> BY <1>1, <2>1
    <2>3. \A i \in DOMAIN Tail(s) : i + 1 \in DOMAIN s /\ Tail(s)[i] = s[i + 1]
      BY <2>2
    <2>4. ToSet(Tail(s)) \subseteq ToSet(s) BY <2>3 DEF ToSet
    <2> QED BY <2>1, <2>4
  <1>6. TypeOK' BY <1>0, <1>1, <1>4 DEF TypeOK
  <1>7. LockInv' BY <1>0, <1>1, <1>4, <1>5 DEF LockInv
  <1>8. ReadInv' BY <1>0, <1>1 DEF ReadInv, CopyInv, AnswerInv
  <1> QED BY <1>6, <1>7, <1>8 DEF IInv

\* Every step keeps the invariant.
LEMMA InvNext == IInv /\ [Next]_vars => IInv'
  <1>1. IInv /\ UNCHANGED vars => IInv'
    <2> SUFFICES ASSUME IInv, UNCHANGED vars PROVE IInv'
      OBVIOUS
    <2>0. UNCHANGED <<task, lock, writes, writing, reading, unread, past>> BY DEF vars
    <2>1. TypeOK' BY <2>0 DEF IInv, TypeOK
    <2>2. LockInv' BY <2>0 DEF IInv, LockInv
    <2>3. ReadInv' BY <2>0 DEF IInv, ReadInv, CopyInv, AnswerInv
    <2> QED BY <2>1, <2>2, <2>3 DEF IInv
  <1> QED BY <1>1, PublishInv, LockInvStep, WriteInv, UnlockInv, RLockInv, CopyStepInv,
             RUnlockInv, EncodeInv, PayloadInv DEF Next

\* The inductive invariant always holds.
THEOREM Invariance == Spec => []IInv
  BY InvInit, InvNext, PTL DEF Spec

\* The table, the lock and the requests keep their types, and only the writer that has
\* the lock writes (store.go).
THEOREM TypeCorrect == Spec => []TypeOK
  <1>1. IInv => TypeOK BY DEF IInv
  <1> QED BY <1>1, Invariance, PTL

\* Every answer of the HTTP API is the table of one moment while the request was served
\* (ListTasks, GetTask).
THEOREM AnswersAreConsistent == Spec => []AnswersAreOneMoment
  <1>1. IInv => AnswersAreOneMoment
    BY DEF IInv, ReadInv, AnswerInv, AnswersAreOneMoment
  <1> QED BY <1>1, Invariance, PTL

\* No map is read while it is changed (cloneTimeMap, toTaskEvent).
THEOREM MapsAreReadSafely == Spec => []NobodyReadsAChangingMap
  <1>1. ASSUME IInv, NEW w \in Writer, NEW t \in writing[w].on, writing[w].todo = Map
        PROVE  /\ \A r \in Reader : <<t, "notified">> \notin reading[r].todo
               /\ "notified" \notin ToSet(unread[t])
    <2>1. lock = w /\ lock # Nobody BY <1>1, ViewsAssumption DEF IInv, TypeOK
    <2>2. \A r \in Reader : reading[r].todo = {}
      BY <1>1, <2>1, OneWriter DEF IInv, ReadInv
    <2>3. t \in Task BY <1>1 DEF IInv, TypeOK
    <2> QED BY <1>1, <2>2, <2>3 DEF IInv, LockInv
  <1>2. IInv => NobodyReadsAChangingMap BY <1>1 DEF NobodyReadsAChangingMap
  <1> QED BY <1>2, Invariance, PTL
=============================================================================
