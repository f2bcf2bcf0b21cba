-------------------------- MODULE ImageSyncProofs ---------------------------
(***************************************************************************)
(* What handleTask does with the machine and with the registry, for every  *)
(* number of agents, workers, tasks, tags, registries and lost streams.    *)
(*                                                                         *)
(* The properties of ImageSync say what another worker of the machine may  *)
(* spoil; so the invariant says of each worker what it has the machine in  *)
(* the state it left it in, or whose task it met.  It has five parts:      *)
(*   WorkersInv   what a worker is at;                                     *)
(*   MetInv       met and together record every two workers at work;       *)
(*   HostInv      accounts, images and tags of the machine, per worker;    *)
(*   RelayInv     what the relay knows of a task, and the order of tasks;  *)
(*   PushInv      what the tags in the registry name.                      *)
(***************************************************************************)
EXTENDS ImageSync, TLAPS

\* Steps before the first tag.
Early == {"start", "sourceLogin", "targetLogin", "pull", "announce"}

WorkerInv(w) ==
    /\ pc[w] = "idle" <=> job[w] = NoTask
    /\ pc[w] = "idle" => stream[w] = "closed" /\ met[w] = {}
    /\ pc[w] \in Early => next[w] = 1
    /\ pc[w] = "clean" => /\ CleanupLocalImages[Host(w)]
                          /\ next[w] \in 1..(Len(Refs[job[w]]) + 1)

WorkersInv == TypeOK /\ \A w \in Worker : WorkerInv(w)

MetInv ==
    /\ \A v, w \in Active : v # w =>
          /\ {job[v], job[w]} \in together
          /\ HostOf[v] = HostOf[w] => job[v] \in met[w]
    /\ \A w \in Active : \A x \in met[w] : {job[w], x} \in together

\* The image pulled is there until the last tag is pushed.
ImageKept(w) ==
    (\/ pc[w] \in {"announce", "tag", "push"}
     \/ pc[w] = "targetLogin" /\ shouldDelayTargetLogin(w)) =>
        \/ Image(w) \in images[Host(w)]
        \/ CleanupLocalImages[Host(w)] /\ \E u \in met[w] : DigestOf[u] = Image(w)

\* The tag about to be pushed names the image, or what a worker met made of it.
TagKept(w) ==
    pc[w] = "push" =>
        \/ local[Host(w)][RefAt(w)] = Image(w)
        \/ \E u \in met[w] : /\ RefAt(w) \in ToSet(Refs[u])
                             /\ local[Host(w)][RefAt(w)] \in {DigestOf[u], NoDigest}

\* From the login to the source registry to the pull.
SourceKept(w) ==
    (/\ SourceUser[Host(w)] # NoUser
     /\ \/ pc[w] = "pull"
        \/ pc[w] = "targetLogin" /\ ~shouldDelayTargetLogin(w)) =>
        \/ account[Host(w)][Source(w)] = SourceUser[Host(w)]
        \/ \E u \in met[w] : TargetRegistry[u] = Source(w)

\* From the login to the target registry to the last push.
TargetKept(w) ==
    (/\ TargetUser[Host(w)] # NoUser
     /\ \/ pc[w] \in {"announce", "tag", "push"}
        \/ pc[w] = "pull" /\ ~shouldDelayTargetLogin(w)) =>
        \/ account[Host(w)][Target(w)] = TargetUser[Host(w)]
        \/ \E u \in met[w] : SourceRegistry[u] = Target(w)

\* What the cleanup has removed so far, but for the removals that failed.
Cleaned(w) ==
    (met[w] = {} /\ CleanupLocalImages[Host(w)]) =>
        /\ pc[w] = "clean" => \A i \in DOMAIN Refs[job[w]] :
              (i < next[w] /\ local[Host(w)][Refs[job[w]][i]] # NoDigest) => i \in kept[w]
        /\ pc[w] = "done" =>
              /\ Image(w) \in images[Host(w)] => Len(Refs[job[w]]) + 1 \in kept[w]
              /\ \A i \in DOMAIN Refs[job[w]] :
                    local[Host(w)][Refs[job[w]][i]] # NoDigest => i \in kept[w]

HostInvOf(w) == ImageKept(w) /\ TagKept(w) /\ SourceKept(w) /\ TargetKept(w) /\ Cleaned(w)

HostInv == \A w \in Active : HostInvOf(w)

\* A task that is out is with a worker whose stream is up, and with no other such.
Held ==
    /\ \A t \in Task : task[t] = "out" => \E w \in Active : stream[w] = "up" /\ job[w] = t
    /\ \A w \in Active : stream[w] = "up" => task[job[w]] = "out"
    /\ \A v, w \in Active :
          (v # w /\ stream[v] = "up" /\ stream[w] = "up") => job[v] # job[w]

\* Tasks are created in the order of their age.
InOrder == \A t, u \in Task : (task[t] = "new" /\ task[u] # "new") => Age[u] < Age[t]

\* Once a task has been handed out, older ones that did not meet it, and cannot have
\* been passed by, are over.
Over == \A u, v \in Task :
    (/\ task[u] \in {"out", "done", "failed"}
     /\ Age[v] < Age[u] /\ {u, v} \notin together /\ ~PassesBy(u, v)) =>
        /\ task[v] \in {"done", "failed"}
        /\ \A w \in Active : job[w] # v

RelayInv == Held /\ InOrder /\ Over

\* Tag r of u names what was pushed for u or for a task that may have overtaken it.
Fresh(u, r) == \E v \in Task : /\ Age[v] >= Age[u] \/ {u, v} \in together \/ PassesBy(u, v)
                               /\ r \in ToSet(Refs[v])
                               /\ PushedFor(v, r)

\* The tags a worker has pushed.
PushInvOf(w) == \A i \in DOMAIN Refs[job[w]] :
    (\/ pc[w] \in {"tag", "push"} /\ i < next[w]
     \/ pc[w] \in {"clean", "done"}) => Fresh(job[w], Refs[job[w]][i])

PushInv ==
    /\ \A w \in Active : PushInvOf(w)
    /\ NewestStays

IInv == WorkersInv /\ MetInv /\ HostInv /\ RelayInv /\ PushInv

-----------------------------------------------------------------------------
(* Functions of two arguments, sequences. *)

\* An assignment to one place of a table changes that place only.
LEMMA Nested ==
    ASSUME NEW A, NEW B, NEW C, NEW f \in [A -> [B -> C]],
           NEW a \in A, NEW b \in B, NEW c \in C
    PROVE  /\ [f EXCEPT ![a][b] = c] \in [A -> [B -> C]]
           /\ \A i \in A, j \in B :
                 [f EXCEPT ![a][b] = c][i][j] = IF i = a /\ j = b THEN c ELSE f[i][j]
  <1> DEFINE row == [f[a] EXCEPT ![b] = c]
  <1>1. f[a] \in [B -> C] OBVIOUS
  <1>2. row \in [B -> C] BY <1>1
  <1>3. [f EXCEPT ![a][b] = c] = [f EXCEPT ![a] = row] OBVIOUS
  <1>4. \A j \in B : row[j] = IF j = b THEN c ELSE f[a][j] BY <1>1
  <1> HIDE DEF row
  <1>5. [f EXCEPT ![a] = row] \in [A -> [B -> C]] BY <1>2
  <1>6. \A i \in A : [f EXCEPT ![a] = row][i] = IF i = a THEN row ELSE f[i] OBVIOUS
  <1> QED BY <1>3, <1>4, <1>5, <1>6

\* The members of a sequence are its elements.
LEMMA Members ==
    ASSUME NEW s, NEW r
    PROVE  r \in ToSet(s) <=> \E i \in DOMAIN s : s[i] = r
  BY DEF ToSet

-----------------------------------------------------------------------------
(* One step of handleTask: what it leaves alone. *)

\* The worker goes on with its task.
Stays(w) ==
    /\ job' = job /\ stream' = stream /\ met' = met
    /\ pc'[w] # "idle"

\* The worker is free again.
Frees(w) ==
    /\ job'[w] = NoTask /\ pc'[w] = "idle" /\ next'[w] = 1
    /\ stream'[w] = "closed" /\ met'[w] = {}

\* A step of handleTask concerns one worker that has a task.
LEMMA Frame ==
    ASSUME TypeOK, NEW w \in Worker, handleTask(w)
    PROVE  /\ pc[w] # "idle"
           /\ lost' = lost /\ together' = together
           /\ \A v \in Worker : v # w =>
                 /\ job'[v] = job[v] /\ pc'[v] = pc[v] /\ next'[v] = next[v]
                 /\ stream'[v] = stream[v] /\ met'[v] = met[v] /\ kept'[v] = kept[v]
           /\ Stays(w) \/ Frees(w)
           /\ task' = task \/ Report(w)
  <1> USE DEF TypeOK, Steps, Stays, Frees, Goto, Return, Fails
  <1>1. CASE Start(w) BY <1>1 DEF Start, hostVars
  <1>2. CASE SourceLogin(w) BY <1>2 DEF SourceLogin, AfterSourceLogin
  <1>3. CASE TargetLogin(w) BY <1>3 DEF TargetLogin
  <1>4. CASE Pull(w) BY <1>4 DEF Pull, AfterPull
  <1>5. CASE Announce(w) BY <1>5 DEF Announce
  <1>6. CASE Tag(w) BY <1>6 DEF Tag
  <1>7. CASE Push(w)
    <2>1. /\ pc[w] = "push" /\ UNCHANGED <<task, job, stream, kept, met, lost, together>>
      BY <1>7 DEF Push
    <2>2. \E n : next' = [next EXCEPT ![w] = n] \/ next' = next
      BY <1>7 DEF Push
    <2>3. \E l \in {"tag", "clean", "done", "failed"} : Goto(w, l)
      BY <1>7 DEF Push
    <2> QED BY <2>1, <2>2, <2>3
  <1>8. CASE Clean(w) BY <1>8 DEF Clean
  <1>9. CASE Report(w) BY <1>9 DEF Report
  <1> QED BY <1>1, <1>2, <1>3, <1>4, <1>5, <1>6, <1>7, <1>8, <1>9 DEF handleTask

\* Type correctness of the initial state.
LEMMA WorkersInit == Init => WorkersInv
  BY SyncAssumption DEF Init, WorkersInv, WorkerInv, TypeOK, Steps, Contents, Early

\* A worker with a task has one, and the tags of a task are references.
LEMMA HasTask ==
    ASSUME WorkersInv, NEW w \in Worker, pc[w] # "idle"
    PROVE  /\ job[w] \in Task
           /\ Refs[job[w]] \in Seq(Ref)
           /\ Len(Refs[job[w]]) \in Nat
           /\ DOMAIN Refs[job[w]] = 1..Len(Refs[job[w]])
           /\ \A i \in DOMAIN Refs[job[w]] : Refs[job[w]][i] \in Ref
           /\ Host(w) \in Agent /\ Source(w) \in Registry /\ Target(w) \in Registry
           /\ Image(w) \in Digest /\ Image(w) # NoDigest
  <1>1. job[w] \in Task BY DEF WorkersInv, WorkerInv, TypeOK
  <1> QED BY <1>1, SyncAssumption DEF Host, Source, Target, Image

\* What a step of handleTask may do to the machine and to what all share.
LEMMA Effects ==
    ASSUME NEW w \in Worker, handleTask(w)
    PROVE  /\ \/ account' = account
              \/ /\ pc[w] = "sourceLogin" /\ SourceUser[Host(w)] # NoUser
                 /\ account' = [account EXCEPT ![Host(w)][Source(w)] = SourceUser[Host(w)]]
              \/ /\ pc[w] = "targetLogin" /\ TargetUser[Host(w)] # NoUser
                 /\ account' = [account EXCEPT ![Host(w)][Target(w)] = TargetUser[Host(w)]]
           /\ \/ images' = images
              \/ /\ pc[w] = "pull"
                 /\ images' = [images EXCEPT ![Host(w)] = @ \cup {Image(w)}]
              \/ /\ pc[w] = "clean"
                 /\ images' = [images EXCEPT ![Host(w)] = @ \ {Image(w)}]
           /\ \/ local' = local
              \/ /\ pc[w] = "tag"
                 /\ local' = [local EXCEPT ![Host(w)][RefAt(w)] = Image(w)]
              \/ /\ pc[w] = "clean" /\ next[w] \in DOMAIN Refs[job[w]]
                 /\ local' = [local EXCEPT ![Host(w)][RefAt(w)] = NoDigest]
           /\ \/ remote' = remote
              \/ /\ pc[w] = "push" /\ local[Host(w)][RefAt(w)] # NoDigest
                 /\ remote' = [remote EXCEPT ![RefAt(w)] = local[Host(w)][RefAt(w)]]
           /\ \/ task' = task
              \/ /\ pc[w] \in {"done", "failed"} /\ stream[w] = "up" /\ Return(w)
                 /\ task' = [task EXCEPT ![job[w]] = pc[w]]
  <1> USE DEF Fails, hostVars
  <1>1. CASE Start(w) BY <1>1 DEF Start
  <1>2. CASE SourceLogin(w) BY <1>2 DEF SourceLogin, login
  <1>3. CASE TargetLogin(w) BY <1>3 DEF TargetLogin, login
  <1>4. CASE Pull(w) BY <1>4 DEF Pull
  <1>5. CASE Announce(w) BY <1>5 DEF Announce
  <1>6. CASE Tag(w) BY <1>6 DEF Tag, Retag
  <1>7. CASE Push(w) BY <1>7 DEF Push
  <1>8. CASE Clean(w) BY <1>8 DEF Clean, ImageRm
  <1>9. CASE Report(w) BY <1>9 DEF Report
  <1> QED BY <1>1, <1>2, <1>3, <1>4, <1>5, <1>6, <1>7, <1>8, <1>9 DEF handleTask

\* handleTask keeps what a worker is at within bounds.
LEMMA WorkerTypes ==
    ASSUME WorkersInv, NEW w \in Worker, handleTask(w)
    PROVE  /\ job' \in [Worker -> Task \cup {NoTask}]
           /\ pc' \in [Worker -> Steps]
           /\ next' \in [Worker -> Nat \ {0}]
           /\ stream' \in [Worker -> {"up", "lost", "closed"}]
           /\ met' \in [Worker -> SUBSET Task]
           /\ kept' \in [Worker -> SUBSET (Nat \ {0})]
  <1>0. TypeOK /\ pc[w] # "idle" BY Frame DEF WorkersInv
  <1>1. /\ job \in [Worker -> Task \cup {NoTask}] /\ pc \in [Worker -> Steps]
        /\ next \in [Worker -> Nat \ {0}] /\ stream \in [Worker -> {"up", "lost", "closed"}]
        /\ met \in [Worker -> SUBSET Task]
        /\ kept \in [Worker -> SUBSET (Nat \ {0})]
    BY <1>0 DEF TypeOK
  <1>2. \E l \in Steps : Goto(w, l) \/ (Return(w) /\ l = "idle")
    BY DEF handleTask, Start, SourceLogin, TargetLogin, Pull, Announce, Tag, Push, Clean,
           Report, Fails, Steps, AfterSourceLogin, AfterPull
  <1>3. pc' \in [Worker -> Steps] BY <1>1, <1>2 DEF Goto, Return
  <1>4. Return(w) \/ UNCHANGED <<job, stream, met>>
    BY DEF handleTask, Start, SourceLogin, TargetLogin, Pull, Announce, Tag, Push, Clean,
           Report, Fails
  <1>5. \E n \in Nat \ {0} : next' = next \/ next' = [next EXCEPT ![w] = n]
    <2>1. next[w] \in Nat \ {0} /\ 1 \in Nat \ {0} /\ next[w] + 1 \in Nat \ {0} BY <1>1
    <2>2. \/ next' = next \/ next' = [next EXCEPT ![w] = 1]
          \/ next' = [next EXCEPT ![w] = @ + 1]
      BY DEF handleTask, Start, SourceLogin, TargetLogin, Pull, Announce, Tag, Push, Clean,
             Report, Fails, Return
    <2>3. \/ next' = next \/ next' = [next EXCEPT ![w] = 1]
          \/ next' = [next EXCEPT ![w] = next[w] + 1]
      BY <2>2
    <2> QED BY <2>1, <2>3
  <1>6. next' \in [Worker -> Nat \ {0}] BY <1>1, <1>5
  <1>7. kept' \in [Worker -> SUBSET (Nat \ {0})]
    <2>1. \/ kept' = kept \/ kept' = [kept EXCEPT ![w] = {}]
          \/ kept' = [kept EXCEPT ![w] = @ \cup {next[w]}]
      BY DEF handleTask, Start, SourceLogin, TargetLogin, Pull, Announce, Tag, Push, Clean,
             Report, Return
    <2>2. kept[w] \cup {next[w]} \in SUBSET (Nat \ {0}) BY <1>1
    <2>3. \E k \in SUBSET (Nat \ {0}) : kept' = kept \/ kept' = [kept EXCEPT ![w] = k]
      <3>1. \/ kept' = kept \/ kept' = [kept EXCEPT ![w] = {}]
            \/ kept' = [kept EXCEPT ![w] = kept[w] \cup {next[w]}]
        BY <2>1
      <3> QED BY <2>2, <3>1
    <2> QED BY <1>1, <2>3
  <1> QED BY <1>1, <1>3, <1>4, <1>6, <1>7 DEF Return

\* handleTask keeps the tag a worker is at within those of its task.
LEMMA WorkerBounds ==
    ASSUME WorkersInv, NEW w \in Worker, handleTask(w)
    PROVE  /\ pc'[w] \in {"tag", "push"} => next'[w] \in DOMAIN Refs[job'[w]]
           /\ WorkerInv(w)'
  <1>0. WorkerInv(w) /\ TypeOK /\ pc[w] # "idle" BY Frame DEF WorkersInv
  <1>b. /\ job[w] \in Task /\ job[w] # NoTask /\ Len(Refs[job[w]]) \in Nat
        /\ Refs[job[w]] \in Seq(Ref)
        /\ DOMAIN Refs[job[w]] = 1..Len(Refs[job[w]])
        /\ next[w] \in Nat \ {0}
        /\ pc[w] \in {"tag", "push"} => next[w] \in DOMAIN Refs[job[w]]
    BY HasTask, <1>0, SyncAssumption DEF TypeOK
  <1>c. /\ DOMAIN job = Worker /\ DOMAIN pc = Worker /\ DOMAIN next = Worker
        /\ DOMAIN stream = Worker /\ DOMAIN met = Worker
    BY <1>0 DEF TypeOK
  <1>r. CASE Return(w)
    <2>1. /\ job'[w] = NoTask /\ pc'[w] = "idle" /\ stream'[w] = "closed" /\ met'[w] = {}
      BY <1>r, <1>c DEF Return
    <2> QED BY <2>1 DEF WorkerInv, Early
  <1>f. CASE /\ pc'[w] = "failed" /\ UNCHANGED <<job, stream, met>>
    BY <1>f, <1>b, <1>c, <1>0 DEF WorkerInv, Early
  <1>e. CASE /\ pc[w] \in Early /\ pc'[w] \in Early
             /\ UNCHANGED <<job, next, stream, met>>
    BY <1>e, <1>b, <1>0 DEF WorkerInv, Early
  <1>1. CASE Start(w) BY <1>1, <1>r, <1>e, <1>c DEF Start, Goto, Early
  <1>2. CASE SourceLogin(w)
    BY <1>2, <1>f, <1>e, <1>c DEF SourceLogin, AfterSourceLogin, Goto, Early, Fails
  <1>3. CASE TargetLogin(w) BY <1>3, <1>f, <1>e, <1>c DEF TargetLogin, Goto, Early, Fails
  <1>4. CASE Pull(w) BY <1>4, <1>f, <1>e, <1>c DEF Pull, AfterPull, Goto, Early, Fails
  <1>5. CASE Announce(w)
    <2>1. CASE Refs[job[w]] = <<>> BY <2>1, <1>5, <1>f, <1>c DEF Announce, Goto
    <2>2. CASE /\ Refs[job[w]] # <<>> /\ pc'[w] = "tag" /\ pc[w] = "announce"
               /\ UNCHANGED <<job, next, stream, met>>
      <3>1. next[w] = 1 BY <2>2, <1>0 DEF WorkerInv, Early
      <3>2. Len(Refs[job[w]]) # 0 BY <2>2, <1>b
      <3>3. 1 \in DOMAIN Refs[job[w]] BY <3>2, <1>b
      <3> QED BY <2>2, <3>1, <3>3, <1>b, <1>0 DEF WorkerInv, Early
    <2> QED BY <2>1, <2>2, <1>r, <1>5, <1>c DEF Announce, Goto
  <1>6. CASE Tag(w)
    <2>1. CASE pc'[w] = "push" /\ pc[w] = "tag" /\ UNCHANGED <<job, next, stream, met>>
      BY <2>1, <1>b, <1>0 DEF WorkerInv, Early
    <2> QED BY <1>6, <2>1, <1>f, <1>c DEF Tag, Goto, Fails
  <1>7. CASE Push(w)
    <2>1. CASE /\ LastTag(w) /\ next'[w] = 1 /\ UNCHANGED <<job, stream, met>>
               /\ pc'[w] = IF CleanupLocalImages[Host(w)] THEN "clean" ELSE "done"
      BY <2>1, <1>b, <1>0 DEF WorkerInv, Early, Host
    <2>2. CASE /\ ~LastTag(w) /\ next'[w] = next[w] + 1 /\ UNCHANGED <<job, stream, met>>
               /\ pc'[w] = "tag" /\ pc[w] = "push"
      <3>1. next[w] + 1 \in DOMAIN Refs[job[w]] BY <2>2, <1>b DEF LastTag
      <3> QED BY <3>1, <2>2, <1>b, <1>0 DEF WorkerInv, Early
    <2> QED BY <1>7, <2>1, <2>2, <1>f, <1>c DEF Push, Goto, Fails
  <1>8. CASE Clean(w)
    <2>1. /\ pc[w] = "clean" /\ next'[w] = next[w] + 1 /\ UNCHANGED <<job, stream, met>>
          /\ pc'[w] = IF LastClean(w) THEN "done" ELSE "clean"
      BY <1>8, <1>c DEF Clean, Goto
    <2>2. CleanupLocalImages[Host(w)] /\ next[w] \in 1..(Len(Refs[job[w]]) + 1)
      BY <2>1, <1>0 DEF WorkerInv
    <2> QED BY <2>1, <2>2, <1>b, <1>0 DEF WorkerInv, Early, LastClean, Host
  <1>9. CASE Report(w) BY <1>9, <1>r DEF Report
  <1> QED BY <1>1, <1>2, <1>3, <1>4, <1>5, <1>6, <1>7, <1>8, <1>9 DEF handleTask

\* handleTask keeps the types of what all share.
LEMMA SharedTypes ==
    ASSUME WorkersInv, NEW w \in Worker, handleTask(w)
    PROVE  /\ task' \in [Task -> {"new", "waiting", "out", "done", "failed"}]
           /\ account' \in [Agent -> [Registry -> User \cup {NoUser}]]
           /\ images' \in [Agent -> SUBSET Digest]
           /\ local' \in [Agent -> [Ref -> Contents]]
           /\ remote' \in [Ref -> Contents]
  <1>0. TypeOK /\ pc[w] # "idle" BY Frame DEF WorkersInv
  <1>1. /\ job[w] \in Task /\ Host(w) \in Agent /\ Source(w) \in Registry
        /\ Target(w) \in Registry /\ Image(w) \in Digest
        /\ \A i \in DOMAIN Refs[job[w]] : Refs[job[w]][i] \in Ref
    BY HasTask, <1>0
  <1>2. /\ task \in [Task -> {"new", "waiting", "out", "done", "failed"}]
        /\ account \in [Agent -> [Registry -> User \cup {NoUser}]]
        /\ images \in [Agent -> SUBSET Digest]
        /\ local \in [Agent -> [Ref -> Contents]]
        /\ remote \in [Ref -> Contents]
        /\ pc[w] \in {"tag", "push"} => next[w] \in DOMAIN Refs[job[w]]
    BY <1>0 DEF TypeOK
  <1>3. /\ SourceUser[Host(w)] \in User \cup {NoUser}
        /\ TargetUser[Host(w)] \in User \cup {NoUser}
    BY <1>1, SyncAssumption
  <1>4. /\ pc[w] \in {"tag", "push"} => RefAt(w) \in Ref
        /\ next[w] \in DOMAIN Refs[job[w]] => RefAt(w) \in Ref
    BY <1>1, <1>2 DEF RefAt
  <1>5. account' \in [Agent -> [Registry -> User \cup {NoUser}]]
    <2>1. CASE SourceUser[Host(w)] # NoUser
      <3>1. [account EXCEPT ![Host(w)][Source(w)] = SourceUser[Host(w)]]
               \in [Agent -> [Registry -> User \cup {NoUser}]]
        BY <1>1, <1>2, <1>3, Nested
      <3>2. [account EXCEPT ![Host(w)][Target(w)] = TargetUser[Host(w)]]
               \in [Agent -> [Registry -> User \cup {NoUser}]]
        BY <1>1, <1>2, <1>3, Nested
      <3> QED BY <3>1, <3>2, <1>2, Effects
    <2>2. CASE SourceUser[Host(w)] = NoUser
      <3>1. [account EXCEPT ![Host(w)][Target(w)] = TargetUser[Host(w)]]
               \in [Agent -> [Registry -> User \cup {NoUser}]]
        BY <1>1, <1>2, <1>3, Nested
      <3> QED BY <2>2, <3>1, <1>2, Effects
    <2> QED BY <2>1, <2>2
  <1>6. images' \in [Agent -> SUBSET Digest] BY <1>1, <1>2, Effects
  <1>7. local' \in [Agent -> [Ref -> Contents]]
    <2>1. CASE RefAt(w) \in Ref
      <3>1. Image(w) \in Contents /\ NoDigest \in Contents BY <1>1 DEF Contents
      <3>2. \A c \in Contents : [local EXCEPT ![Host(w)][RefAt(w)] = c]
                                   \in [Agent -> [Ref -> Contents]]
        BY <1>1, <1>2, <2>1, Nested
      <3> QED BY <3>1, <3>2, <1>2, Effects
    <2>2. CASE RefAt(w) \notin Ref BY <2>2, <1>2, <1>4, Effects
    <2> QED BY <2>1, <2>2
  <1>8. remote' \in [Ref -> Contents]
    <2>1. CASE pc[w] = "push"
      <3>1. local[Host(w)][RefAt(w)] \in Contents BY <1>1, <1>2, <1>4, <2>1
      <3> QED BY <3>1, <1>2, <1>4, <2>1, Effects
    <2> QED BY <2>1, <1>2, Effects
  <1>9. task' \in [Task -> {"new", "waiting", "out", "done", "failed"}]
    BY <1>1, <1>2, Effects
  <1> QED BY <1>5, <1>6, <1>7, <1>8, <1>9

\* No step makes a worker leave the bounds.
LEMMA WorkersNext == WorkersInv /\ [Next]_vars => WorkersInv'
  <1> SUFFICES ASSUME WorkersInv, [Next]_vars PROVE WorkersInv'
    OBVIOUS
  <1>0. TypeOK /\ \A w \in Worker : WorkerInv(w) BY DEF WorkersInv
  <1>1. CASE \E t \in Task : Create(t)
    BY <1>1, <1>0 DEF WorkersInv, WorkerInv, TypeOK, Create, workVars, hostVars, Host
  <1>2. ASSUME NEW w \in Worker, NEW t \in Task, Assign(w, t) PROVE WorkersInv'
    <2>1. /\ job' = [job EXCEPT ![w] = t] /\ pc' = [pc EXCEPT ![w] = "start"]
          /\ next' = [next EXCEPT ![w] = 1] /\ stream' = [stream EXCEPT ![w] = "up"]
          /\ task' = [task EXCEPT ![t] = "out"] /\ pc[w] = "idle"
          /\ UNCHANGED <<kept, account, images, local, remote, lost>>
      BY <1>2 DEF Assign, hostVars
    <2>2. \A v \in Worker : met'[v] \in SUBSET Task /\ (v # w /\ v \notin Active => met'[v] = met[v])
      <3>1. \A v \in Active : job[v] \in Task BY <1>0 DEF Active, WorkerInv, TypeOK
      <3>2. \A v \in Worker : met[v] \in SUBSET Task BY <1>0 DEF TypeOK
      <3> QED BY <3>1, <3>2, <1>2 DEF Assign
    <2>3. met' \in [Worker -> SUBSET Task]
      <3>1. \E F : met' = [v \in Worker |-> F[v]]
        <4>1. met' = [v \in Worker |-> met'[v]] BY <1>2 DEF Assign
        <4> QED BY <4>1
      <3> QED BY <2>2, <3>1
    <2>4. together' \in SUBSET SUBSET Task
      <3>1. \A v \in Active : job[v] \in Task BY <1>0 DEF Active, WorkerInv, TypeOK
      <3> QED BY <3>1, <1>0, <1>2 DEF Assign, TypeOK
    <2>5. TypeOK'
      <3>1. /\ task' \in [Task -> {"new", "waiting", "out", "done", "failed"}]
            /\ stream' \in [Worker -> {"up", "lost", "closed"}]
        BY <1>0, <2>1 DEF TypeOK
      <3>2. /\ job' \in [Worker -> Task \cup {NoTask}]
            /\ pc' \in [Worker -> Steps]
            /\ next' \in [Worker -> Nat \ {0}]
        BY <1>0, <2>1 DEF TypeOK, Steps
      <3>3. \A v \in Worker : pc'[v] \in {"tag", "push"} => next'[v] \in DOMAIN Refs[job'[v]]
        BY <1>0, <2>1 DEF TypeOK
      <3>4. /\ account' \in [Agent -> [Registry -> User \cup {NoUser}]]
            /\ images' \in [Agent -> SUBSET Digest]
            /\ local' \in [Agent -> [Ref -> Contents]]
            /\ remote' \in [Ref -> Contents]
            /\ lost' \in 0..MaxLost
            /\ kept' \in [Worker -> SUBSET (Nat \ {0})]
        BY <1>0, <2>1 DEF TypeOK
      <3> QED BY <2>3, <2>4, <3>1, <3>2, <3>3, <3>4 DEF TypeOK
    <2>6. ASSUME NEW v \in Worker PROVE WorkerInv(v)'
      <3>1. CASE v = w
        BY <3>1, <2>1, <1>0, SyncAssumption DEF WorkerInv, TypeOK, Early, Host
      <3>2. CASE v # w
        <4>1. /\ job'[v] = job[v] /\ pc'[v] = pc[v] /\ next'[v] = next[v]
              /\ stream'[v] = stream[v]
          BY <3>2, <2>1, <1>0 DEF TypeOK
        <4>2. pc[v] = "idle" => met'[v] = met[v] BY <3>2, <2>2 DEF Active
        <4> QED BY <4>1, <4>2, <1>0 DEF WorkerInv, Host
      <3> QED BY <3>1, <3>2
    <2> QED BY <2>5, <2>6 DEF WorkersInv
  <1>3. ASSUME NEW w \in Worker, Lose(w) \/ Close(w) PROVE WorkersInv'
    <2>1. /\ w \in Active
          /\ \E s \in {"lost", "closed"} : stream' = [stream EXCEPT ![w] = s]
          /\ UNCHANGED <<job, pc, next, kept, met, hostVars, remote, together>>
          /\ lost' = lost \/ (lost < MaxLost /\ lost' = lost + 1)
          /\ task' = task \/ task' = [task EXCEPT ![job[w]] = "waiting"]
      BY <1>3 DEF Lose, Close
    <2>2. TypeOK'
      <3>1. job[w] \in Task /\ pc[w] # "idle" BY <2>1, <1>0 DEF Active, WorkerInv, TypeOK
      <3> QED BY <2>1, <3>1, <1>0, SyncAssumption DEF TypeOK, hostVars
    <2>3. ASSUME NEW v \in Worker PROVE WorkerInv(v)'
      <3>1. pc[v] = "idle" => stream'[v] = stream[v] BY <2>1, <1>0 DEF Active, TypeOK
      <3> QED BY <2>1, <3>1, <1>0 DEF WorkerInv, Host
    <2> QED BY <2>2, <2>3 DEF WorkersInv
  <1>4. ASSUME NEW w \in Worker, handleTask(w) PROVE WorkersInv'
    <2>1. ASSUME NEW v \in Worker
          PROVE  /\ pc'[v] \in {"tag", "push"} => next'[v] \in DOMAIN Refs[job'[v]]
                 /\ WorkerInv(v)'
      <3>1. CASE v = w BY <3>1, <1>4, WorkerBounds
      <3>2. CASE v # w
        <4>1. /\ job'[v] = job[v] /\ pc'[v] = pc[v] /\ next'[v] = next[v]
              /\ stream'[v] = stream[v] /\ met'[v] = met[v]
          BY <3>2, <1>0, <1>4, Frame
        <4> QED BY <4>1, <1>0 DEF WorkerInv, TypeOK, Host
      <3> QED BY <3>1, <3>2
    <2>2. lost' \in 0..MaxLost /\ together' \in SUBSET SUBSET Task
      BY <1>0, <1>4, Frame DEF TypeOK
    <2> QED BY <2>1, <2>2, <1>4, WorkerTypes, SharedTypes DEF WorkersInv, TypeOK
  <1>5. CASE UNCHANGED vars
    BY <1>5, <1>0 DEF WorkersInv, WorkerInv, TypeOK, vars, workVars, hostVars, Host
  <1> QED BY <1>1, <1>2, <1>3, <1>4, <1>5 DEF Next

\* WorkersInv always holds.
LEMMA WorkersAlways == Spec => []WorkersInv
  BY WorkersInit, WorkersNext, PTL DEF Spec

\* Every worker is at a step of handleTask with a task of its own, at one of its tags
\* (handleTask).
THEOREM TypeCorrect == Spec => []TypeOK
  <1>1. WorkersInv => TypeOK BY DEF WorkersInv
  <1> QED BY <1>1, WorkersAlways, PTL

-----------------------------------------------------------------------------
(* Two workers that are at work at the same time are on record. *)

\* Nobody is at work at first.
LEMMA MetInit == Init => MetInv
  BY DEF Init, MetInv, Active

\* What handing out a task does to the records.
LEMMA AssignMet ==
    ASSUME WorkersInv, NEW w \in Worker, NEW t \in Task, Assign(w, t)
    PROVE  /\ Active' = Active \cup {w} /\ w \notin Active
           /\ \A v \in Active : v # w /\ job'[v] = job[v] /\ job[v] \in Task
           /\ job'[w] = t
           /\ \A v \in Active : /\ met[v] \subseteq met'[v]
                                /\ met'[v] \subseteq met[v] \cup {t}
                                /\ {t, job[v]} \in together'
                                /\ HostOf[v] = HostOf[w] => t \in met'[v] /\ job[v] \in met'[w]
           /\ \A x \in met'[w] : \E v \in Active : x = job[v]
           /\ together \subseteq together'
  <1>0. TypeOK /\ \A v \in Worker : WorkerInv(v) BY DEF WorkersInv
  <1>1. /\ pc[w] = "idle" /\ pc' = [pc EXCEPT ![w] = "start"]
        /\ job' = [job EXCEPT ![w] = t]
        /\ together' = together \cup {{t, job[v]} : v \in Active}
    BY DEF Assign
  <1>2. Active' = Active \cup {w} /\ w \notin Active
    BY <1>0, <1>1 DEF Active, TypeOK
  <1>3. \A v \in Active : v # w /\ job'[v] = job[v] /\ job[v] \in Task /\ v \in Worker
    BY <1>0, <1>1 DEF Active, TypeOK, WorkerInv
  <1>4. job'[w] = t BY <1>0, <1>1 DEF TypeOK
  <1>5. met' = [v \in Worker |->
                  IF v = w THEN {job[u] : u \in {x \in Active : HostOf[x] = HostOf[w]}}
                  ELSE IF v \in {x \in Active : HostOf[x] = HostOf[w]} THEN met[v] \cup {t}
                  ELSE met[v]]
    BY DEF Assign
  <1>6. met'[w] = {job[u] : u \in {x \in Active : HostOf[x] = HostOf[w]}} BY <1>5
  <1>7. \A v \in Active : met'[v] = IF HostOf[v] = HostOf[w] THEN met[v] \cup {t} ELSE met[v]
    BY <1>3, <1>5
  <1> QED BY <1>1, <1>2, <1>3, <1>4, <1>6, <1>7

\* handleTask adds nobody, and changes no task of those at work.
LEMMA FrameActive ==
    ASSUME WorkersInv, NEW w \in Worker, handleTask(w)
    PROVE  /\ w \in Active /\ together' = together
           /\ \A v \in Active' : /\ v \in Active
                                 /\ job'[v] = job[v] /\ met'[v] = met[v]
                                 /\ stream'[v] = stream[v]
  <1>1. TypeOK BY DEF WorkersInv
  <1>2. pc[w] # "idle" /\ together' = together /\ (Stays(w) \/ Frees(w)) BY <1>1, Frame
  <1>3. \A v \in Worker : v # w =>
           /\ job'[v] = job[v] /\ pc'[v] = pc[v] /\ stream'[v] = stream[v] /\ met'[v] = met[v]
    BY <1>1, Frame
  <1> QED BY <1>2, <1>3 DEF Active, Stays, Frees

\* No step leaves a meeting out.
LEMMA MetNext == WorkersInv /\ MetInv /\ [Next]_vars => MetInv'
  <1> SUFFICES ASSUME WorkersInv, MetInv, [Next]_vars PROVE MetInv'
    OBVIOUS
  <1>1. ASSUME NEW w \in Worker, NEW t \in Task, Assign(w, t) PROVE MetInv'
    <2>1. /\ Active' = Active \cup {w} /\ w \notin Active
          /\ \A v \in Active : v # w /\ job'[v] = job[v] /\ job[v] \in Task
          /\ job'[w] = t
          /\ \A v \in Active : /\ met[v] \subseteq met'[v]
                               /\ met'[v] \subseteq met[v] \cup {t}
                               /\ {t, job[v]} \in together'
                               /\ HostOf[v] = HostOf[w] => t \in met'[v] /\ job[v] \in met'[w]
          /\ \A x \in met'[w] : \E v \in Active : x = job[v]
          /\ together \subseteq together'
      BY <1>1, AssignMet
    <2>2. ASSUME NEW v \in Active', NEW u \in Active', v # u
          PROVE  /\ {job'[v], job'[u]} \in together'
                 /\ HostOf[v] = HostOf[u] => job'[v] \in met'[u]
      <3>1. CASE v \in Active /\ u \in Active BY <3>1, <2>1, <2>2 DEF MetInv
      <3>2. CASE v = w /\ u \in Active BY <3>2, <2>1
      <3>3. CASE u = w /\ v \in Active
        <4>1. {job'[v], job'[u]} = {t, job[v]} BY <3>3, <2>1
        <4> QED BY <3>3, <4>1, <2>1
      <3> QED BY <3>1, <3>2, <3>3, <2>1, <2>2
    <2>3. ASSUME NEW v \in Active', NEW x \in met'[v] PROVE {job'[v], x} \in together'
      <3>1. CASE v = w BY <3>1, <2>1, <2>3
      <3>2. CASE v \in Active /\ x \in met[v] BY <3>2, <2>1 DEF MetInv
      <3>3. CASE v \in Active /\ x = t
        <4>1. {job'[v], x} = {t, job[v]} BY <3>3, <2>1
        <4> QED BY <3>3, <4>1, <2>1
      <3> QED BY <3>1, <3>2, <3>3, <2>1, <2>3
    <2> QED BY <2>2, <2>3 DEF MetInv
  <1>2. ASSUME NEW w \in Worker, handleTask(w) PROVE MetInv'
    BY <1>2, FrameActive DEF MetInv
  <1>3. CASE UNCHANGED <<job, pc, met, together>> BY <1>3 DEF MetInv, Active
  <1>4. ASSUME NEW t \in Task, Create(t) PROVE UNCHANGED <<job, pc, met, together>>
    BY <1>4 DEF Create, workVars
  <1>5. ASSUME NEW w \in Worker, Lose(w) \/ Close(w)
        PROVE UNCHANGED <<job, pc, met, together>>
    BY <1>5 DEF Lose, Close
  <1>6. CASE UNCHANGED vars BY <1>6, <1>3 DEF vars, workVars
  <1> QED BY <1>1, <1>2, <1>3, <1>4, <1>5, <1>6 DEF Next

\* MetInv always holds.
LEMMA MetAlways == Spec => []MetInv
  BY MetInit, MetNext, WorkersAlways, PTL DEF Spec

-----------------------------------------------------------------------------
(* The machine. *)

\* What a step of handleTask changes on the machines, place by place.
LEMMA HostPoint ==
    ASSUME WorkersInv, NEW w \in Worker, handleTask(w), NEW a \in Agent
    PROVE  /\ \A r \in Registry :
                 \/ account'[a][r] = account[a][r]
                 \/ a = Host(w) /\ r = Source(w) /\ account'[a][r] = SourceUser[a]
                 \/ a = Host(w) /\ r = Target(w) /\ account'[a][r] = TargetUser[a]
           /\ \A d \in images[a] :
                 \/ d \in images'[a]
                 \/ a = Host(w) /\ d = Image(w) /\ pc[w] = "clean"
           /\ \A r \in Ref :
                 \/ local'[a][r] = local[a][r]
                 \/ /\ a = Host(w) /\ r \in ToSet(Refs[job[w]])
                    /\ local'[a][r] \in {Image(w), NoDigest}
  <1>0. TypeOK /\ pc[w] # "idle" BY Frame DEF WorkersInv
  <1>1. /\ job[w] \in Task /\ Host(w) \in Agent /\ Source(w) \in Registry
        /\ Target(w) \in Registry /\ Image(w) \in Digest
        /\ \A i \in DOMAIN Refs[job[w]] : Refs[job[w]][i] \in Ref
    BY HasTask, <1>0
  <1>2. /\ account \in [Agent -> [Registry -> User \cup {NoUser}]]
        /\ images \in [Agent -> SUBSET Digest]
        /\ local \in [Agent -> [Ref -> Contents]]
        /\ pc[w] \in {"tag", "push"} => next[w] \in DOMAIN Refs[job[w]]
    BY <1>0 DEF TypeOK
  <1>3. /\ SourceUser[Host(w)] \in User \cup {NoUser}
        /\ TargetUser[Host(w)] \in User \cup {NoUser}
    BY <1>1, SyncAssumption
  <1>4. \A r \in Registry :
           \/ account'[a][r] = account[a][r]
           \/ a = Host(w) /\ r = Source(w) /\ account'[a][r] = SourceUser[a]
           \/ a = Host(w) /\ r = Target(w) /\ account'[a][r] = TargetUser[a]
    <2>1. \A r \in Registry :
             /\ [account EXCEPT ![Host(w)][Source(w)] = SourceUser[Host(w)]][a][r]
                  = IF a = Host(w) /\ r = Source(w) THEN SourceUser[Host(w)] ELSE account[a][r]
             /\ [account EXCEPT ![Host(w)][Target(w)] = TargetUser[Host(w)]][a][r]
                  = IF a = Host(w) /\ r = Target(w) THEN TargetUser[Host(w)] ELSE account[a][r]
      BY <1>1, <1>2, <1>3, Nested
    <2>2. \/ account' = account
          \/ account' = [account EXCEPT ![Host(w)][Source(w)] = SourceUser[Host(w)]]
          \/ account' = [account EXCEPT ![Host(w)][Target(w)] = TargetUser[Host(w)]]
      BY Effects
    <2> QED BY <2>1, <2>2
  <1>5. \A d \in images[a] :
           d \in images'[a] \/ (a = Host(w) /\ d = Image(w) /\ pc[w] = "clean")
    <2>1. \/ images' = images
          \/ images' = [images EXCEPT ![Host(w)] = images[Host(w)] \cup {Image(w)}]
          \/ /\ pc[w] = "clean"
             /\ images' = [images EXCEPT ![Host(w)] = images[Host(w)] \ {Image(w)}]
      BY Effects
    <2> QED BY <2>1, <1>2
  <1>6. \A r \in Ref :
           \/ local'[a][r] = local[a][r]
           \/ /\ a = Host(w) /\ r \in ToSet(Refs[job[w]])
              /\ local'[a][r] \in {Image(w), NoDigest}
    <2>1. CASE next[w] \in DOMAIN Refs[job[w]]
      <3>1. RefAt(w) \in Ref /\ RefAt(w) \in ToSet(Refs[job[w]])
        BY <2>1, <1>1, Members DEF RefAt
      <3>2. Image(w) \in Contents /\ NoDigest \in Contents BY <1>1 DEF Contents
      <3>3. \A r \in Ref, c \in Contents :
               [local EXCEPT ![Host(w)][RefAt(w)] = c][a][r]
                  = IF a = Host(w) /\ r = RefAt(w) THEN c ELSE local[a][r]
        BY <1>1, <1>2, <3>1, Nested
      <3>4. local' = local \/ \E c \in {Image(w), NoDigest} :
                                 local' = [local EXCEPT ![Host(w)][RefAt(w)] = c]
        BY Effects
      <3> QED BY <3>1, <3>2, <3>3, <3>4
    <2>2. CASE next[w] \notin DOMAIN Refs[job[w]] BY <2>2, <1>2, Effects
    <2> QED BY <2>1, <2>2
  <1> QED BY <1>4, <1>5, <1>6

\* The terms of a worker that keeps its task keep their meaning.
LEMMA SameTerms ==
    ASSUME NEW w, job'[w] = job[w], next'[w] = next[w]
    PROVE  /\ Host(w)' = Host(w) /\ Source(w)' = Source(w) /\ Target(w)' = Target(w)
           /\ Image(w)' = Image(w) /\ RefAt(w)' = RefAt(w)
           /\ shouldDelayTargetLogin(w)' = shouldDelayTargetLogin(w)
  BY DEF Host, Source, Target, Image, RefAt, shouldDelayTargetLogin

\* What a worker relies on is left alone by a step of another one, or spoilt by one it
\* has met.
LEMMA OtherWorker ==
    ASSUME WorkersInv, MetInv, NEW w \in Worker, handleTask(w),
           NEW v \in Active, v # w, HostInvOf(v)
    PROVE  HostInvOf(v)'
  <1>0. TypeOK /\ w \in Active /\ v \in Worker BY FrameActive DEF WorkersInv, Active
  <1>1. /\ job'[v] = job[v] /\ pc'[v] = pc[v] /\ next'[v] = next[v]
        /\ met'[v] = met[v] /\ kept'[v] = kept[v]
    BY <1>0, Frame
  <1>2. /\ Host(v)' = Host(v) /\ Source(v)' = Source(v) /\ Target(v)' = Target(v)
        /\ Image(v)' = Image(v) /\ RefAt(v)' = RefAt(v)
        /\ shouldDelayTargetLogin(v)' = shouldDelayTargetLogin(v)
    BY <1>1, SameTerms
  <1>3. /\ Host(v) \in Agent /\ Source(v) \in Registry /\ Target(v) \in Registry
        /\ job[v] \in Task
        /\ \A i \in DOMAIN Refs[job[v]] : Refs[job[v]][i] \in Ref
    BY <1>0, HasTask DEF Active
  <1>4. pc[v] = "push" => RefAt(v) \in Ref BY <1>0, <1>3 DEF TypeOK, RefAt
  <1>5. Host(v) = Host(w) => job[w] \in met[v] BY <1>0 DEF MetInv, Host
  <1>6. /\ \A r \in Registry :
              \/ account'[Host(v)][r] = account[Host(v)][r]
              \/ Host(v) = Host(w) /\ r = Source(w) /\ account'[Host(v)][r] = SourceUser[Host(v)]
              \/ Host(v) = Host(w) /\ r = Target(w) /\ account'[Host(v)][r] = TargetUser[Host(v)]
        /\ \A d \in images[Host(v)] :
              d \in images'[Host(v)] \/ (Host(v) = Host(w) /\ d = Image(w) /\ pc[w] = "clean")
        /\ \A r \in Ref :
              \/ local'[Host(v)][r] = local[Host(v)][r]
              \/ /\ Host(v) = Host(w) /\ r \in ToSet(Refs[job[w]])
                 /\ local'[Host(v)][r] \in {Image(w), NoDigest}
    BY <1>3, HostPoint
  <1>7. ImageKept(v)'
    <2>1. pc[w] = "clean" => CleanupLocalImages[Host(w)]
      BY <1>0 DEF WorkersInv, WorkerInv
    <2>2. ImageKept(v) BY DEF HostInvOf
    <2> QED BY <1>1, <1>2, <1>5, <1>6, <2>1, <2>2 DEF ImageKept, Image
  <1>8. TagKept(v)'
    <2>1. TagKept(v) BY DEF HostInvOf
    <2>2. CASE local'[Host(v)][RefAt(v)] = local[Host(v)][RefAt(v)]
      BY <1>1, <1>2, <2>1, <2>2 DEF TagKept
    <2>3. CASE /\ Host(v) = Host(w) /\ RefAt(v) \in ToSet(Refs[job[w]])
               /\ local'[Host(v)][RefAt(v)] \in {Image(w), NoDigest}
      BY <1>1, <1>2, <1>5, <2>3 DEF TagKept, Image
    <2>4. pc[v] # "push" => TagKept(v)' BY <1>1 DEF TagKept
    <2> QED BY <1>4, <1>6, <2>2, <2>3, <2>4
  <1>9. SourceKept(v)'
    <2>1. SourceKept(v) BY DEF HostInvOf
    <2> QED BY <1>1, <1>2, <1>3, <1>5, <1>6, <2>1 DEF SourceKept, Target
  <1>10. TargetKept(v)'
    <2>1. TargetKept(v) BY DEF HostInvOf
    <2> QED BY <1>1, <1>2, <1>3, <1>5, <1>6, <2>1 DEF TargetKept, Source
  <1>11. Cleaned(v)'
    <2>1. CASE Host(v) = Host(w) BY <2>1, <1>1, <1>5 DEF Cleaned
    <2>2. CASE Host(v) # Host(w)
      <3>1. /\ \A r \in Ref : local'[Host(v)][r] = local[Host(v)][r]
            /\ images'[Host(v)] = images[Host(v)]
        <4>1. images \in [Agent -> SUBSET Digest] BY <1>0 DEF TypeOK
        <4>2. images'[Host(v)] = images[Host(v)]
          BY <2>2, <1>3, <4>1, Effects
        <4> QED BY <4>2, <2>2, <1>6
      <3>2. Cleaned(v) BY DEF HostInvOf
      <3> QED BY <1>1, <1>2, <1>3, <3>1, <3>2 DEF Cleaned
    <2> QED BY <2>1, <2>2
  <1> QED BY <1>7, <1>8, <1>9, <1>10, <1>11 DEF HostInvOf

\* Nothing is claimed of the machine before the logins and after a failure.
LEMMA NothingClaimed ==
    ASSUME NEW w, pc[w] \in {"start", "sourceLogin", "failed"}
    PROVE  HostInvOf(w)
  BY DEF HostInvOf, ImageKept, TagKept, SourceKept, TargetKept, Cleaned

\* A step of handleTask leaves the machine as the next step needs it.
LEMMA OwnWorker ==
    ASSUME WorkersInv, NEW w \in Worker, handleTask(w), HostInvOf(w), pc'[w] # "idle"
    PROVE  HostInvOf(w)'
  <1>0. TypeOK /\ pc[w] # "idle" /\ WorkerInv(w) BY Frame DEF WorkersInv
  <1>1. job' = job /\ met' = met BY <1>0, Frame DEF Stays, Frees
  <1>2. /\ Host(w)' = Host(w) /\ Source(w)' = Source(w) /\ Target(w)' = Target(w)
        /\ Image(w)' = Image(w)
        /\ shouldDelayTargetLogin(w)' = shouldDelayTargetLogin(w)
    BY <1>1 DEF Host, Source, Target, Image, shouldDelayTargetLogin
  <1>3. /\ Host(w) \in Agent /\ Source(w) \in Registry /\ Target(w) \in Registry
        /\ job[w] \in Task /\ Image(w) \in Digest
        /\ Refs[job[w]] \in Seq(Ref)
        /\ DOMAIN Refs[job[w]] = 1..Len(Refs[job[w]]) /\ Len(Refs[job[w]]) \in Nat
        /\ \A i \in DOMAIN Refs[job[w]] : Refs[job[w]][i] \in Ref
    BY <1>0, HasTask
  <1>4. /\ account \in [Agent -> [Registry -> User \cup {NoUser}]]
        /\ images \in [Agent -> SUBSET Digest]
        /\ local \in [Agent -> [Ref -> Contents]]
        /\ DOMAIN pc = Worker /\ DOMAIN next = Worker /\ DOMAIN kept = Worker
        /\ next[w] \in Nat
        /\ pc[w] \in {"tag", "push"} => next[w] \in DOMAIN Refs[job[w]]
    BY <1>0 DEF TypeOK
  <1>5. /\ SourceUser[Host(w)] \in User \cup {NoUser}
        /\ TargetUser[Host(w)] \in User \cup {NoUser}
    BY <1>3, SyncAssumption
  <1>6. ImageKept(w) /\ TagKept(w) /\ SourceKept(w) /\ TargetKept(w) /\ Cleaned(w)
    BY DEF HostInvOf
  <1>7. (pc' = [pc EXCEPT ![w] = "failed"]) => HostInvOf(w)'
    <2>1. ASSUME pc' = [pc EXCEPT ![w] = "failed"] PROVE pc'[w] = "failed"
      BY <2>1, <1>4
    <2>2. pc'[w] = "failed" => HostInvOf(w)'
      BY DEF HostInvOf, ImageKept, TagKept, SourceKept, TargetKept, Cleaned
    <2> QED BY <2>1, <2>2
  <1>8. CASE Start(w)
    <2>1. pc'[w] = "sourceLogin" BY <1>8, <1>4 DEF Start, Goto, Return
    <2> QED BY <2>1 DEF HostInvOf, ImageKept, TagKept, SourceKept, TargetKept, Cleaned
  <1>9. CASE /\ SourceLogin(w) /\ login(w, Source(w), SourceUser[Host(w)])
             /\ Goto(w, AfterSourceLogin(w))
    <2>1. pc'[w] = IF shouldDelayTargetLogin(w) THEN "pull" ELSE "targetLogin"
      BY <1>9, <1>4 DEF Goto, AfterSourceLogin
    <2>2. SourceUser[Host(w)] # NoUser =>
             account'[Host(w)][Source(w)] = SourceUser[Host(w)]
      BY <1>9, <1>3, <1>4, <1>5, Nested DEF login
    <2> QED BY <2>1, <2>2, <1>2
            DEF HostInvOf, ImageKept, TagKept, SourceKept, TargetKept, Cleaned
  <1>10. CASE /\ TargetLogin(w) /\ login(w, Target(w), TargetUser[Host(w)])
              /\ Goto(w, IF shouldDelayTargetLogin(w) THEN "announce" ELSE "pull")
              /\ UNCHANGED <<images, local>>
    <2>1. /\ pc[w] = "targetLogin"
          /\ pc'[w] = IF shouldDelayTargetLogin(w) THEN "announce" ELSE "pull"
      BY <1>10, <1>4 DEF Goto, TargetLogin
    <2>2. TargetUser[Host(w)] # NoUser => \A r \in Registry :
             account'[Host(w)][r] = IF r = Target(w) THEN TargetUser[Host(w)]
                                    ELSE account[Host(w)][r]
      BY <1>10, <1>3, <1>4, <1>5, Nested DEF login
    <2>3. TargetUser[Host(w)] = NoUser => account' = account BY <1>10 DEF login
    <2>4. ImageKept(w)' BY <2>1, <1>10, <1>1, <1>2, <1>6 DEF ImageKept
    <2>5. SourceKept(w)'
      <3>1. CASE shouldDelayTargetLogin(w) BY <3>1, <2>1, <1>2 DEF SourceKept
      <3>2. CASE ~shouldDelayTargetLogin(w)
        <4>1. Source(w) = Target(w) => SourceUser[Host(w)] = TargetUser[Host(w)]
          BY <3>2 DEF shouldDelayTargetLogin
        <4> QED BY <3>2, <4>1, <2>1, <2>2, <2>3, <1>1, <1>2, <1>3, <1>6 DEF SourceKept
      <3> QED BY <3>1, <3>2
    <2>6. TargetKept(w)' BY <2>2, <1>2, <1>3 DEF TargetKept
    <2> QED BY <2>1, <2>4, <2>5, <2>6 DEF HostInvOf, TagKept, Cleaned
  <1>11. CASE /\ Pull(w) /\ images' = [images EXCEPT ![Host(w)] = @ \cup {Image(w)}]
              /\ Goto(w, AfterPull(w)) /\ UNCHANGED <<account, local>>
    <2>1. /\ pc[w] = "pull"
          /\ pc'[w] = IF shouldDelayTargetLogin(w) THEN "targetLogin" ELSE "announce"
      BY <1>11, <1>4 DEF Goto, Pull, AfterPull
    <2>2. Image(w) \in images'[Host(w)] BY <1>11, <1>3, <1>4
    <2>3. ImageKept(w)' BY <2>2, <1>2 DEF ImageKept
    <2>4. TargetKept(w)' BY <2>1, <1>11, <1>1, <1>2, <1>6 DEF TargetKept
    <2>5. SourceKept(w)' BY <2>1, <1>2 DEF SourceKept
    <2> QED BY <2>1, <2>3, <2>4, <2>5 DEF HostInvOf, TagKept, Cleaned
  <1>12. CASE /\ pc[w] \in {"announce", "push"} /\ pc'[w] = "tag"
              /\ UNCHANGED <<account, images, local>>
    BY <1>12, <1>1, <1>2, <1>6
       DEF HostInvOf, ImageKept, TagKept, SourceKept, TargetKept, Cleaned
  <1>13. CASE Announce(w)
    BY <1>13, <1>12, <1>7, <1>4 DEF Announce, Goto, Return, hostVars
  <1>14. CASE /\ Tag(w) /\ local' = Retag(w) /\ Goto(w, "push") /\ UNCHANGED <<account, images>>
    <2>1. /\ pc[w] = "tag" /\ pc'[w] = "push" /\ next' = next
      BY <1>14, <1>4 DEF Goto, Tag
    <2>2. RefAt(w)' = RefAt(w) /\ RefAt(w) \in Ref BY <2>1, <1>1, <1>3, <1>4 DEF RefAt
    <2>3. local'[Host(w)][RefAt(w)] = Image(w)
      <3>1. Image(w) \in Contents BY <1>3 DEF Contents
      <3> QED BY <1>14, <1>3, <1>4, <2>2, <3>1, Nested DEF Retag
    <2>4. TagKept(w)' BY <2>2, <2>3, <1>2 DEF TagKept
    <2>5. ImageKept(w)' BY <2>1, <1>14, <1>1, <1>2, <1>6 DEF ImageKept
    <2>6. TargetKept(w)' BY <2>1, <1>14, <1>1, <1>2, <1>6 DEF TargetKept
    <2> QED BY <2>1, <2>4, <2>5, <2>6 DEF HostInvOf, SourceKept, Cleaned
  <1>15. CASE Push(w)
    <2>1. /\ pc[w] = "push" /\ UNCHANGED <<account, images, local>>
          /\ \/ pc' = [pc EXCEPT ![w] = "failed"]
             \/ pc'[w] = "tag"
             \/ pc'[w] = "done" /\ ~CleanupLocalImages[Host(w)]
             \/ pc'[w] = "clean" /\ next'[w] = 1
      BY <1>15, <1>4 DEF Push, Goto, Fails, hostVars
    <2>2. CASE pc'[w] = "done" /\ ~CleanupLocalImages[Host(w)]
      BY <2>2, <1>2 DEF HostInvOf, ImageKept, TagKept, SourceKept, TargetKept, Cleaned
    <2>3. CASE pc'[w] = "clean" /\ next'[w] = 1
      <3>1. \A i \in DOMAIN Refs[job'[w]] : ~(i < next'[w]) BY <2>3, <1>1, <1>3
      <3> QED BY <2>3, <3>1
              DEF HostInvOf, ImageKept, TagKept, SourceKept, TargetKept, Cleaned
    <2> QED BY <2>1, <2>2, <2>3, <1>7, <1>12
  <1>16. CASE Clean(w)
    <2>1. /\ pc[w] = "clean" /\ next'[w] = next[w] + 1
          /\ pc'[w] = IF LastClean(w) THEN "done" ELSE "clean"
      BY <1>16, <1>4 DEF Clean, Goto
    <2>2. ASSUME met'[w] = {}, CleanupLocalImages[Host(w)'],
                 NEW i \in DOMAIN Refs[job'[w]], i < next'[w],
                 local'[Host(w)][Refs[job[w]][i]] # NoDigest
          PROVE  i \in kept'[w]
      <3>1. i \in DOMAIN Refs[job[w]] /\ i \in Nat BY <2>2, <1>1, <1>3
      <3>2. Refs[job[w]][i] \in Ref BY <3>1, <1>3
      <3>3. i < next[w] \/ i = next[w]
        <4>1. \A m, n \in Nat : m < n + 1 => (m < n \/ m = n) OBVIOUS
        <4>2. i < next[w] + 1 BY <2>1, <2>2
        <4>3. i \in Nat /\ next[w] \in Nat BY <3>1, <1>4
        <4> QED BY <4>1, <4>2, <4>3
      <3>4. \/ ImageRm(w) /\ kept' = kept
            \/ local' = local /\ kept'[w] = kept[w] \cup {next[w]}
        BY <1>16, <1>4 DEF Clean
      <3>5. kept[w] \subseteq kept'[w] BY <3>4
      <3>6. ASSUME i < next[w], local[Host(w)][Refs[job[w]][i]] # NoDigest
            PROVE  i \in kept[w]
        BY <3>1, <3>6, <2>1, <2>2, <1>1, <1>2, <1>6 DEF Cleaned
      <3>7. CASE local' = local /\ kept'[w] = kept[w] \cup {next[w]}
        BY <3>3, <3>6, <3>7, <2>2
      <3>8. CASE ImageRm(w) /\ next[w] \in DOMAIN Refs[job[w]]
        <4>1. RefAt(w) \in Ref /\ NoDigest \in Contents BY <3>8, <1>3 DEF RefAt, Contents
        <4>2. local' = [local EXCEPT ![Host(w)][RefAt(w)] = NoDigest]
          BY <3>8 DEF ImageRm
        <4>3. \A r \in Ref : local'[Host(w)][r] = IF r = RefAt(w) THEN NoDigest
                                                  ELSE local[Host(w)][r]
          BY <4>1, <4>2, <1>3, <1>4, Nested
        <4>4. i # next[w] BY <2>2, <4>3, <4>1 DEF RefAt
        <4>5. local[Host(w)][Refs[job[w]][i]] # NoDigest BY <4>3, <3>2, <2>2
        <4> QED BY <4>4, <4>5, <3>3, <3>5, <3>6
      <3>9. CASE ImageRm(w) /\ next[w] \notin DOMAIN Refs[job[w]]
        <4>1. local' = local BY <3>9 DEF ImageRm
        <4>2. i < next[w] BY <3>1, <3>3, <3>9
        <4> QED BY <4>1, <4>2, <3>5, <3>6, <2>2
      <3> QED BY <3>4, <3>7, <3>8, <3>9
    <2>3. ASSUME LastClean(w), Image(w) \in images'[Host(w)]
          PROVE  Len(Refs[job[w]]) + 1 \in kept'[w]
      <3>1. next[w] \notin DOMAIN Refs[job[w]] BY <2>3, <1>3 DEF LastClean
      <3>2. CASE images' = [images EXCEPT ![Host(w)] = @ \ {Image(w)}]
        BY <3>2, <2>3, <1>3, <1>4
      <3>3. CASE kept'[w] = kept[w] \cup {next[w]} BY <3>3, <2>3 DEF LastClean
      <3>4. \/ images' = [images EXCEPT ![Host(w)] = @ \ {Image(w)}]
            \/ kept'[w] = kept[w] \cup {next[w]}
        BY <3>1, <1>16, <1>4 DEF Clean, ImageRm
      <3> QED BY <3>2, <3>3, <3>4
    <2>4. ASSUME LastClean(w), NEW i \in DOMAIN Refs[job'[w]] PROVE i < next'[w]
      BY <2>4, <2>1, <1>1, <1>3 DEF LastClean
    <2>5. Cleaned(w)' BY <2>1, <2>2, <2>3, <2>4, <1>1, <1>2 DEF Cleaned
    <2> QED BY <2>1, <2>5 DEF HostInvOf, ImageKept, TagKept, SourceKept, TargetKept
  <1>17. CASE Report(w) BY <1>17, <1>4 DEF Report, Return
  <1>18. CASE SourceLogin(w) BY <1>18, <1>7, <1>9 DEF SourceLogin, Fails, Goto
  <1>19. CASE TargetLogin(w) BY <1>19, <1>7, <1>10 DEF TargetLogin, Fails, Goto
  <1>20. CASE Pull(w) BY <1>20, <1>7, <1>11 DEF Pull, Fails, Goto
  <1>21. CASE Tag(w) BY <1>21, <1>7, <1>14 DEF Tag, Fails, Goto
  <1> QED BY <1>8, <1>13, <1>15, <1>16, <1>17, <1>18, <1>19, <1>20, <1>21 DEF handleTask

\* Nobody is at work at first.
LEMMA HostInit == Init => HostInv
  BY DEF Init, HostInv, Active

\* No step spoils what a worker relies on, other than one of a worker it has met.
LEMMA HostNext == WorkersInv /\ MetInv /\ HostInv /\ [Next]_vars => HostInv'
  <1> SUFFICES ASSUME WorkersInv, MetInv, HostInv, [Next]_vars PROVE HostInv'
    OBVIOUS
  <1>0. TypeOK BY DEF WorkersInv
  <1>1. ASSUME NEW w \in Worker, NEW t \in Task, Assign(w, t) PROVE HostInv'
    <2>1. /\ Active' = Active \cup {w} /\ w \notin Active
          /\ \A v \in Active : v # w /\ job'[v] = job[v]
          /\ \A v \in Active : /\ met[v] \subseteq met'[v]
      BY <1>1, AssignMet
    <2>2. /\ pc' = [pc EXCEPT ![w] = "start"] /\ next' = [next EXCEPT ![w] = 1]
          /\ UNCHANGED <<kept, account, images, local>>
      BY <1>1 DEF Assign, hostVars
    <2>3. HostInvOf(w)'
      <3>1. pc'[w] = "start" BY <1>0, <2>2 DEF TypeOK
      <3> QED BY <3>1 DEF HostInvOf, ImageKept, TagKept, SourceKept, TargetKept, Cleaned
    <2>4. ASSUME NEW v \in Active PROVE HostInvOf(v)'
      <3>1. /\ job'[v] = job[v] /\ pc'[v] = pc[v] /\ next'[v] = next[v]
            /\ met[v] \subseteq met'[v]
        BY <1>0, <2>1, <2>2 DEF TypeOK, Active
      <3>2. /\ Host(v)' = Host(v) /\ Source(v)' = Source(v) /\ Target(v)' = Target(v)
            /\ Image(v)' = Image(v) /\ RefAt(v)' = RefAt(v)
            /\ shouldDelayTargetLogin(v)' = shouldDelayTargetLogin(v)
        BY <3>1, SameTerms
      <3>3. ImageKept(v) /\ TagKept(v) /\ SourceKept(v) /\ TargetKept(v) /\ Cleaned(v)
        BY DEF HostInv, HostInvOf
      <3>4. ImageKept(v)' BY <2>2, <3>1, <3>2, <3>3 DEF ImageKept
      <3>5. TagKept(v)' BY <2>2, <3>1, <3>2, <3>3 DEF TagKept
      <3>6. SourceKept(v)' BY <2>2, <3>1, <3>2, <3>3 DEF SourceKept
      <3>7. TargetKept(v)' BY <2>2, <3>1, <3>2, <3>3 DEF TargetKept
      <3>8. Cleaned(v)' BY <2>2, <3>1, <3>2, <3>3 DEF Cleaned
      <3> QED BY <3>4, <3>5, <3>6, <3>7, <3>8 DEF HostInvOf
    <2> QED BY <2>1, <2>3, <2>4 DEF HostInv
  <1>2. ASSUME NEW w \in Worker, handleTask(w) PROVE HostInv'
    <2>1. w \in Active /\ \A v \in Active' : v \in Active BY <1>2, FrameActive
    <2>2. \A v \in Active : HostInvOf(v) BY DEF HostInv
    <2>3. ASSUME NEW v \in Active' PROVE HostInvOf(v)'
      <3>1. CASE v = w
        <4>1. pc'[w] # "idle" BY <3>1, <2>3 DEF Active
        <4> QED BY <4>1, <1>2, <2>1, <2>2, <3>1, OwnWorker
      <3>2. CASE v # w BY <3>2, <1>2, <2>1, <2>2, OtherWorker
      <3> QED BY <3>1, <3>2
    <2> QED BY <2>3 DEF HostInv
  <1>3. ASSUME UNCHANGED <<job, pc, next, kept, met, account, images, local>> PROVE HostInv'
    <2> SUFFICES ASSUME NEW v \in Active' PROVE HostInvOf(v)'
      BY DEF HostInv
    <2>1. v \in Active BY <1>3 DEF Active
    <2>2. /\ Host(v)' = Host(v) /\ Source(v)' = Source(v) /\ Target(v)' = Target(v)
          /\ Image(v)' = Image(v) /\ RefAt(v)' = RefAt(v)
          /\ shouldDelayTargetLogin(v)' = shouldDelayTargetLogin(v)
      BY <1>3, SameTerms
    <2>3. ImageKept(v) /\ TagKept(v) /\ SourceKept(v) /\ TargetKept(v) /\ Cleaned(v)
      BY <2>1 DEF HostInv, HostInvOf
    <2>4. ImageKept(v)' BY <1>3, <2>2, <2>3 DEF ImageKept
    <2>5. TagKept(v)' BY <1>3, <2>2, <2>3 DEF TagKept
    <2>6. SourceKept(v)' BY <1>3, <2>2, <2>3 DEF SourceKept
    <2>7. TargetKept(v)' BY <1>3, <2>2, <2>3 DEF TargetKept
    <2>8. Cleaned(v)' BY <1>3, <2>2, <2>3 DEF Cleaned
    <2> QED BY <2>4, <2>5, <2>6, <2>7, <2>8 DEF HostInvOf
  <1>4. ASSUME NEW t \in Task, Create(t)
        PROVE  UNCHANGED <<job, pc, next, kept, met, account, images, local>>
    BY <1>4 DEF Create, workVars, hostVars
  <1>5. ASSUME NEW w \in Worker, Lose(w) \/ Close(w)
        PROVE UNCHANGED <<job, pc, next, kept, met, account, images, local>>
    BY <1>5 DEF Lose, Close, hostVars
  <1>6. CASE UNCHANGED vars BY <1>6, <1>3 DEF vars, workVars, hostVars
  <1> QED BY <1>1, <1>2, <1>3, <1>4, <1>5, <1>6 DEF Next

\* HostInv always holds.
LEMMA HostAlways == Spec => []HostInv
  BY HostInit, HostNext, WorkersAlways, MetAlways, PTL DEF Spec

\* The image of a task stays in place, and under its tags, from the pull to the push,
\* unless another worker of the machine has the same image and cleans up, or the same
\* tag (handleTask).
THEOREM TasksKeepTheirImage == Spec => []WorksOnItsImage
  <1>1. ASSUME WorkersInv, HostInv PROVE WorksOnItsImage
    <2>1. ASSUME NEW w \in Worker, pc[w] = "tag"
          PROVE  \/ Image(w) \in images[Host(w)]
                 \/ CleanupLocalImages[Host(w)] /\ \E u \in met[w] : DigestOf[u] = Image(w)
      <3>1. ImageKept(w) BY <1>1, <2>1 DEF HostInv, HostInvOf, Active
      <3> QED BY <2>1, <3>1 DEF ImageKept
    <2>2. ASSUME NEW w \in Worker, pc[w] = "push"
          PROVE  \/ local[Host(w)][RefAt(w)] = Image(w)
                 \/ \E u \in met[w] : ToSet(Refs[u]) \cap ToSet(Refs[job[w]]) # {}
      <3>1. TagKept(w) BY <1>1, <2>2 DEF HostInv, HostInvOf, Active
      <3>2. next[w] \in DOMAIN Refs[job[w]] BY <1>1, <2>2 DEF WorkersInv, TypeOK
      <3>3. RefAt(w) \in ToSet(Refs[job[w]]) BY <3>2, Members DEF RefAt
      <3> QED BY <2>2, <3>1, <3>3 DEF TagKept
    <2> QED BY <2>1, <2>2 DEF WorksOnItsImage, HasItsImage, PushesItsImage
  <1> QED BY <1>1, WorkersAlways, HostAlways, PTL

\* When an agent that cleans up reports DONE, nothing of the task is left on its disk but
\* what docker refused to remove, unless another worker was at work on that machine
\* (handleTask, cleanup_local_images).
THEOREM CleanupIsComplete == Spec => []DoneLeavesNothing
  <1>1. ASSUME WorkersInv, HostInv PROVE DoneLeavesNothing
    <2> SUFFICES ASSUME NEW w \in Worker, pc[w] = "done", CleanupLocalImages[Host(w)],
                        met[w] = {}
                 PROVE  /\ Image(w) \in images[Host(w)] => Len(Refs[job[w]]) + 1 \in kept[w]
                        /\ \A i \in DOMAIN Refs[job[w]] :
                              local[Host(w)][Refs[job[w]][i]] # NoDigest => i \in kept[w]
      BY DEF DoneLeavesNothing
    <2>1. Cleaned(w) BY <1>1 DEF HostInv, HostInvOf, Active
    <2> QED BY <2>1 DEF Cleaned
  <1> QED BY <1>1, WorkersAlways, HostAlways, PTL

\* Each docker command that needs an account runs with the right one, although both
\* registries may be one, unless a worker of the same machine has logged in there with
\* its other account (shouldDelayTargetLogin, handleTask).
THEOREM LoginsAreRight == Spec => UsesItsAccounts
  <1>1. ASSUME WorkersInv, HostInv, [Next]_vars, NEW w \in Worker
        PROVE  PullsAsSource(w) /\ PushesAsTarget(w)
    <2>1. PullsAsSource(w)
      <3>1. pc[w] = "pull" => SourceKept(w) BY <1>1 DEF HostInv, HostInvOf, Active
      <3> QED BY <3>1 DEF PullsAsSource, Leaves, SourceKept
    <2>2. PushesAsTarget(w)
      <3>1. pc[w] = "push" => TargetKept(w) BY <1>1 DEF HostInv, HostInvOf, Active
      <3> QED BY <3>1 DEF PushesAsTarget, Leaves, TargetKept
    <2> QED BY <2>1, <2>2
  <1>2. WorkersInv /\ HostInv /\ [Next]_vars
           => [\A w \in Worker : PullsAsSource(w) /\ PushesAsTarget(w)]_vars
    BY <1>1
  <1> QED BY <1>2, WorkersAlways, HostAlways, PTL DEF Spec, UsesItsAccounts

-----------------------------------------------------------------------------
(* The relay. *)

\* What a step of handleTask means to the relay: nothing, a worker that gives up because
\* its stream has ended, or a last report.
LEMMA RelayEffect ==
    ASSUME WorkersInv, NEW w \in Worker, handleTask(w)
    PROVE  \/ Active' = Active /\ UNCHANGED <<task, job, stream>>
           \/ /\ Active' = Active \ {w}
              /\ \A v \in Active' : job'[v] = job[v] /\ stream'[v] = stream[v]
              /\ \/ stream[w] # "up" /\ task' = task
                 \/ /\ stream[w] = "up" /\ pc[w] \in {"done", "failed"}
                    /\ task' = [task EXCEPT ![job[w]] = pc[w]]
  <1>0. TypeOK /\ pc[w] # "idle" BY Frame DEF WorkersInv
  <1>1. \A v \in Worker : v # w =>
           /\ job'[v] = job[v] /\ pc'[v] = pc[v] /\ stream'[v] = stream[v]
    BY <1>0, Frame
  <1>2. CASE pc'[w] # "idle"
    <2>1. UNCHANGED <<job, stream>> BY <1>0, <1>2, Frame DEF Stays, Frees
    <2>2. Active' = Active BY <1>0, <1>1, <1>2 DEF Active
    <2>3. ~Return(w) BY <1>0, <1>2 DEF Return, TypeOK
    <2>4. task' = task BY <2>3, Effects
    <2> QED BY <2>1, <2>2, <2>4
  <1>3. CASE pc'[w] = "idle"
    <2>1. Active' = Active \ {w} BY <1>0, <1>1, <1>3 DEF Active
    <2>2. \A v \in Active' : job'[v] = job[v] /\ stream'[v] = stream[v]
      BY <2>1, <1>1 DEF Active
    <2>3. DOMAIN pc = Worker BY <1>0 DEF TypeOK
    <2>4. \/ Start(w) /\ SendFails(w)
          \/ Announce(w) /\ SendFails(w)
          \/ Report(w)
      <3>1. CASE \E l \in Steps \ {"idle"} : Goto(w, l)
        <4>1. pc'[w] # "idle" BY <3>1, <2>3 DEF Goto
        <4> QED BY <4>1, <1>3
      <3> USE DEF Steps
      <3>2. CASE Start(w) BY <3>2, <3>1 DEF Start
      <3>3. CASE SourceLogin(w) BY <3>3, <3>1 DEF SourceLogin, AfterSourceLogin, Fails
      <3>4. CASE TargetLogin(w) BY <3>4, <3>1 DEF TargetLogin, Fails
      <3>5. CASE Pull(w) BY <3>5, <3>1 DEF Pull, AfterPull, Fails
      <3>6. CASE Announce(w) BY <3>6, <3>1 DEF Announce
      <3>7. CASE Tag(w) BY <3>7, <3>1 DEF Tag, Fails
      <3>8. CASE Push(w) BY <3>8, <3>1 DEF Push, Fails
      <3>9. CASE Clean(w) BY <3>9, <3>1 DEF Clean
      <3> QED BY <3>2, <3>3, <3>4, <3>5, <3>6, <3>7, <3>8, <3>9 DEF handleTask
    <2>5. \/ stream[w] # "up" /\ task' = task
          \/ /\ stream[w] = "up" /\ pc[w] \in {"done", "failed"}
             /\ task' = [task EXCEPT ![job[w]] = pc[w]]
      BY <2>4 DEF Start, Announce, Report, SendFails
    <2> QED BY <2>1, <2>2, <2>5
  <1> QED BY <1>2, <1>3

\* Nothing is known of any task at first.
LEMMA RelayInit == Init => RelayInv
  BY DEF Init, RelayInv, Held, InOrder, Over, Active

\* The relay loses no task, and hands them out by age.
LEMMA RelayNext == WorkersInv /\ MetInv /\ RelayInv /\ [Next]_vars => RelayInv'
  <1> SUFFICES ASSUME WorkersInv, MetInv, RelayInv, [Next]_vars PROVE RelayInv'
    OBVIOUS
  <1>0. /\ task \in [Task -> {"new", "waiting", "out", "done", "failed"}]
        /\ stream \in [Worker -> {"up", "lost", "closed"}]
        /\ \A w \in Active : w \in Worker /\ job[w] \in Task
    BY DEF WorkersInv, WorkerInv, TypeOK, Active
  <1>1. Held /\ InOrder /\ Over BY DEF RelayInv
  <1>2. ASSUME NEW t \in Task, Create(t) PROVE RelayInv'
    <2>1. /\ task[t] = "new" /\ task' = [task EXCEPT ![t] = "waiting"]
          /\ \A u \in Task : Age[u] < Age[t] => task[u] # "new"
          /\ UNCHANGED <<job, pc, stream, together>>
      BY <1>2 DEF Create, workVars
    <2>2. Active' = Active BY <2>1 DEF Active
    <2>3. Held' BY <2>1, <2>2, <1>0, <1>1 DEF Held
    <2>4. InOrder'
      <3> SUFFICES ASSUME NEW x \in Task, NEW u \in Task, task'[x] = "new", task'[u] # "new"
                   PROVE  Age[u] < Age[x]
        BY DEF InOrder
      <3>1. x # t /\ task[x] = "new" BY <2>1, <1>0
      <3>2. CASE u = t
        <4>1. ~(Age[x] < Age[t]) BY <2>1, <3>1
        <4>2. Age[x] # Age[t] BY <3>1, SyncAssumption DEF IsInjective
        <4>3. Age[x] \in Nat /\ Age[t] \in Nat BY SyncAssumption
        <4> QED BY <3>2, <4>1, <4>2, <4>3
      <3>3. CASE u # t BY <3>1, <3>3, <2>1, <1>0, <1>1 DEF InOrder
      <3> QED BY <3>2, <3>3
    <2>5. Over' BY <2>1, <2>2, <1>0, <1>1 DEF Over, PassesBy
    <2> QED BY <2>3, <2>4, <2>5 DEF RelayInv
  <1>3. ASSUME NEW w \in Worker, NEW t \in Task, Assign(w, t) PROVE RelayInv'
    <2>1. /\ Active' = Active \cup {w} /\ w \notin Active
          /\ \A v \in Active : v # w /\ job'[v] = job[v] /\ {t, job[v]} \in together'
          /\ job'[w] = t
          /\ together \subseteq together'
      BY <1>3, AssignMet
    <2>2. /\ task[t] = "waiting" /\ task' = [task EXCEPT ![t] = "out"]
          /\ t \in Takes[HostOf[w]] /\ HostOf[w] \in Agent
          /\ \A u \in Takes[HostOf[w]] : task[u] = "waiting" => Age[t] <= Age[u]
          /\ stream' = [stream EXCEPT ![w] = "up"]
      BY <1>3, SyncAssumption DEF Assign, AssignNextTask
    <2>3. Held'
      <3>1. \A x \in Task : task'[x] = "out" =>
               \E v \in Active' : stream'[v] = "up" /\ job'[v] = x
        <4> TAKE x \in Task
        <4>1. CASE x = t BY <4>1, <2>1, <2>2, <1>0
        <4>2. CASE x # t
          <5> HAVE task'[x] = "out"
          <5>1. task[x] = "out" BY <4>2, <2>2, <1>0
          <5>2. PICK v \in Active : stream[v] = "up" /\ job[v] = x BY <5>1, <1>1 DEF Held
          <5>3. stream'[v] = "up" /\ job'[v] = x BY <5>2, <2>1, <2>2, <1>0
          <5> QED BY <5>3, <2>1
        <4> QED BY <4>1, <4>2
      <3>2. \A v \in Active' : stream'[v] = "up" => task'[job'[v]] = "out"
        <4> SUFFICES ASSUME NEW v \in Active', stream'[v] = "up"
                     PROVE  task'[job'[v]] = "out"
          OBVIOUS
        <4>1. CASE v = w BY <4>1, <2>1, <2>2, <1>0
        <4>2. CASE v # w
          <5>1. v \in Active /\ stream[v] = "up" /\ job'[v] = job[v]
            BY <4>2, <2>1, <2>2, <1>0
          <5>2. task[job[v]] = "out" BY <5>1, <1>1 DEF Held
          <5> QED BY <5>1, <5>2, <2>2, <1>0
        <4> QED BY <4>1, <4>2
      <3>3. \A v \in Active : stream[v] = "up" => job[v] # t
        BY <2>2, <1>1 DEF Held
      <3>4. ASSUME NEW u \in Active', NEW v \in Active',
                   u # v, stream'[u] = "up", stream'[v] = "up"
            PROVE  job'[u] # job'[v]
        <4>1. \A x \in Active : stream'[x] = stream[x] /\ job'[x] = job[x]
          BY <2>1, <2>2, <1>0
        <4>2. CASE u \in Active /\ v \in Active
          <5>1. job[u] # job[v] BY <4>1, <4>2, <3>4, <1>1 DEF Held
          <5> QED BY <5>1, <4>1, <4>2
        <4>3. CASE u = w /\ v \in Active BY <4>1, <4>3, <3>3, <3>4, <2>1
        <4>4. CASE v = w /\ u \in Active BY <4>1, <4>4, <3>3, <3>4, <2>1
        <4> QED BY <4>2, <4>3, <4>4, <3>4, <2>1
      <3> QED BY <3>1, <3>2, <3>4 DEF Held
    <2>4. InOrder' BY <2>2, <1>0, <1>1 DEF InOrder
    <2>5. Over'
      <3> SUFFICES ASSUME NEW u \in Task, NEW v \in Task,
                          task'[u] \in {"out", "done", "failed"}, Age[v] < Age[u],
                          {u, v} \notin together', ~PassesBy(u, v)
                   PROVE  task'[v] \in {"done", "failed"} /\ \A x \in Active' : job'[x] # v
        BY DEF Over
      <3>1. {u, v} \notin together BY <2>1
      <3>2. CASE u = t
        <4>1. \A x \in Active : job[x] # v
          <5> SUFFICES ASSUME NEW x \in Active, job[x] = v PROVE FALSE
            OBVIOUS
          <5>1. {t, job[x]} \in together' BY <2>1
          <5> QED BY <5>1, <3>2
        <4>2. task[v] # "waiting"
          <5>1. Age[v] \in Nat /\ Age[t] \in Nat BY SyncAssumption
          <5>2. v \in Takes[HostOf[w]] BY <3>2, <2>2 DEF PassesBy
          <5> QED BY <5>1, <5>2, <3>2, <2>2
        <4>3. task[v] # "out" BY <4>1, <1>1 DEF Held
        <4>4. task[v] # "new"
          <5>1. Age[v] \in Nat /\ Age[t] \in Nat BY SyncAssumption
          <5>2. task[v] = "new" => Age[t] < Age[v] BY <2>2, <1>1 DEF InOrder
          <5> QED BY <5>1, <5>2, <3>2
        <4>5. v # t
          <5>1. Age[v] \in Nat BY SyncAssumption
          <5> QED BY <5>1, <3>2
        <4>6. task'[v] = task[v] BY <4>5, <2>2, <1>0
        <4> QED BY <4>1, <4>2, <4>3, <4>4, <4>5, <4>6, <2>1, <1>0
      <3>3. CASE u # t
        <4>1. task[u] \in {"out", "done", "failed"} BY <3>3, <2>2, <1>0
        <4>2. task[v] \in {"done", "failed"} /\ \A x \in Active : job[x] # v
          BY <4>1, <3>1, <1>1 DEF Over
        <4>3. v # t BY <4>2, <2>2
        <4> QED BY <4>2, <4>3, <2>1, <2>2, <1>0
      <3> QED BY <3>2, <3>3
    <2> QED BY <2>3, <2>4, <2>5 DEF RelayInv
  <1>4. ASSUME NEW w \in Worker, Lose(w) PROVE RelayInv'
    <2>1. /\ w \in Active /\ stream[w] = "up"
          /\ stream' = [stream EXCEPT ![w] = "lost"]
          /\ task' = [task EXCEPT ![job[w]] = "waiting"]
          /\ UNCHANGED <<job, pc, together>>
      BY <1>4 DEF Lose
    <2>2. Active' = Active BY <2>1 DEF Active
    <2>3. task[job[w]] = "out" BY <2>1, <1>1 DEF Held
    <2>4. Held'
      <3>1. \A x \in Task : task'[x] = "out" =>
               \E v \in Active' : stream'[v] = "up" /\ job'[v] = x
        <4> TAKE x \in Task
        <4> HAVE task'[x] = "out"
        <4>1. task[x] = "out" /\ x # job[w] BY <2>1, <1>0
        <4>2. PICK v \in Active : stream[v] = "up" /\ job[v] = x BY <4>1, <1>1 DEF Held
        <4>3. v # w /\ stream'[v] = "up" /\ job'[v] = x BY <4>1, <4>2, <2>1, <1>0
        <4> QED BY <4>3, <2>2
      <3>2. \A v \in Active' : stream'[v] = "up" => v # w /\ stream[v] = "up" /\ job'[v] = job[v]
        BY <2>1, <2>2, <1>0
      <3>3. \A v \in Active' : stream'[v] = "up" => task'[job'[v]] = "out"
        BY <3>2, <2>1, <2>2, <1>0, <1>1 DEF Held
      <3>4. ASSUME NEW u \in Active', NEW v \in Active',
                   u # v, stream'[u] = "up", stream'[v] = "up"
            PROVE  job'[u] # job'[v]
        <4>1. u \in Active /\ v \in Active BY <2>2
        <4>2. stream[u] = "up" /\ stream[v] = "up" BY <3>4, <3>2
        <4>3. job[u] # job[v] BY <4>1, <4>2, <3>4, <1>1 DEF Held
        <4> QED BY <4>3, <2>1
      <3> QED BY <3>1, <3>3, <3>4 DEF Held
    <2>5. InOrder' BY <2>1, <2>3, <1>0, <1>1 DEF InOrder
    <2>6. Over' BY <2>1, <2>2, <2>3, <1>0, <1>1 DEF Over
    <2> QED BY <2>4, <2>5, <2>6 DEF RelayInv
  <1>5. ASSUME NEW w \in Worker, Close(w) PROVE RelayInv'
    <2>1. /\ w \in Active /\ stream[w] = "lost"
          /\ stream' = [stream EXCEPT ![w] = "closed"]
          /\ UNCHANGED <<task, job, pc, together>>
      BY <1>5 DEF Close
    <2>2. Active' = Active BY <2>1 DEF Active
    <2>3. \A v \in Active : stream'[v] = "up" <=> stream[v] = "up" BY <2>1, <1>0
    <2>4. Held' BY <2>1, <2>2, <2>3, <1>1 DEF Held
    <2>5. InOrder' /\ Over' BY <2>1, <2>2, <1>1 DEF InOrder, Over
    <2> QED BY <2>4, <2>5 DEF RelayInv
  <1>6. ASSUME NEW w \in Worker, handleTask(w) PROVE RelayInv'
    <2>1. w \in Active /\ together' = together BY <1>6, FrameActive
    <2>2. CASE Active' = Active /\ UNCHANGED <<task, job, stream>>
      BY <2>1, <2>2, <1>1 DEF RelayInv, Held, InOrder, Over
    <2>3. CASE /\ Active' = Active \ {w}
               /\ \A v \in Active' : job'[v] = job[v] /\ stream'[v] = stream[v]
               /\ stream[w] # "up" /\ task' = task
      <3>1. Held' BY <2>1, <2>3, <1>1 DEF Held
      <3>2. InOrder' /\ Over' BY <2>1, <2>3, <1>1 DEF InOrder, Over
      <3> QED BY <3>1, <3>2 DEF RelayInv
    <2>4. CASE /\ Active' = Active \ {w}
               /\ \A v \in Active' : job'[v] = job[v] /\ stream'[v] = stream[v]
               /\ stream[w] = "up" /\ pc[w] \in {"done", "failed"}
               /\ task' = [task EXCEPT ![job[w]] = pc[w]]
      <3>1. task[job[w]] = "out" /\ job[w] \in Task BY <2>1, <2>4, <1>0, <1>1 DEF Held
      <3>2. \A x \in Task : task'[x] = IF x = job[w] THEN pc[w] ELSE task[x]
        BY <2>4, <1>0
      <3>3. Held'
        <4>1. \A x \in Task : task'[x] = "out" =>
                 \E v \in Active' : stream'[v] = "up" /\ job'[v] = x
          <5> TAKE x \in Task
          <5> HAVE task'[x] = "out"
          <5>1. task[x] = "out" /\ x # job[w] BY <2>4, <3>2
          <5>2. PICK v \in Active : stream[v] = "up" /\ job[v] = x BY <5>1, <1>1 DEF Held
          <5>3. v \in Active' BY <5>1, <5>2, <2>4
          <5> QED BY <5>2, <5>3, <2>4
        <4>2. \A v \in Active' : v \in Active /\ v # w BY <2>4
        <4>3. \A v \in Active' : stream'[v] = "up" => task'[job'[v]] = "out"
          BY <4>2, <3>2, <2>1, <2>4, <1>0, <1>1 DEF Held
        <4>4. \A u, v \in Active' :
                 (u # v /\ stream'[u] = "up" /\ stream'[v] = "up") => job'[u] # job'[v]
          BY <4>2, <2>4, <1>1 DEF Held
        <4> QED BY <4>1, <4>3, <4>4 DEF Held
      <3>4. InOrder' BY <3>1, <3>2, <2>4, <1>0, <1>1 DEF InOrder
      <3>5. Over'
        <4> SUFFICES ASSUME NEW u \in Task, NEW v \in Task,
                            task'[u] \in {"out", "done", "failed"}, Age[v] < Age[u],
                            {u, v} \notin together', ~PassesBy(u, v)
                     PROVE  task'[v] \in {"done", "failed"} /\ \A x \in Active' : job'[x] # v
          BY DEF Over
        <4>1. task[u] \in {"out", "done", "failed"} BY <3>1, <3>2
        <4>2. task[v] \in {"done", "failed"} /\ \A x \in Active : job[x] # v
          BY <4>1, <2>1, <1>1 DEF Over
        <4>3. v # job[w] BY <4>2, <3>1
        <4> QED BY <4>2, <4>3, <3>2, <2>4
      <3> QED BY <3>3, <3>4, <3>5 DEF RelayInv
    <2> QED BY <1>6, <2>2, <2>3, <2>4, RelayEffect
  <1>7. CASE UNCHANGED vars
    BY <1>7, <1>1 DEF vars, workVars, RelayInv, Held, InOrder, Over, Active
  <1> QED BY <1>2, <1>3, <1>4, <1>5, <1>6, <1>7 DEF Next

\* RelayInv always holds.
LEMMA RelayAlways == Spec => []RelayInv
  BY RelayInit, RelayNext, WorkersAlways, MetAlways, PTL DEF Spec

-----------------------------------------------------------------------------
(* The registry. *)

\* What a worker pushes is the image of its task, or one that a task it met had put
\* under the same tag.
LEMMA PushedNow ==
    ASSUME WorkersInv, MetInv, HostInv, NEW w \in Worker, pc[w] = "push",
           local[Host(w)][RefAt(w)] # NoDigest
    PROVE  /\ job[w] \in Task /\ w \in Active
           /\ RefAt(w) \in ToSet(Refs[job[w]])
           /\ \E x \in Task : /\ x = job[w] \/ {job[w], x} \in together
                              /\ RefAt(w) \in ToSet(Refs[x])
                              /\ local[Host(w)][RefAt(w)] = DigestOf[x]
  <1>1. w \in Active /\ job[w] \in Task BY HasTask DEF Active
  <1>2. next[w] \in DOMAIN Refs[job[w]] /\ met[w] \in SUBSET Task
    BY DEF WorkersInv, TypeOK
  <1>3. RefAt(w) \in ToSet(Refs[job[w]]) BY <1>2, Members DEF RefAt
  <1>4. TagKept(w) BY <1>1 DEF HostInv, HostInvOf
  <1>5. CASE local[Host(w)][RefAt(w)] = Image(w) BY <1>1, <1>3, <1>5 DEF Image
  <1>6. CASE \E u \in met[w] : /\ RefAt(w) \in ToSet(Refs[u])
                               /\ local[Host(w)][RefAt(w)] \in {DigestOf[u], NoDigest}
    <2>1. PICK u \in met[w] : /\ RefAt(w) \in ToSet(Refs[u])
                              /\ local[Host(w)][RefAt(w)] \in {DigestOf[u], NoDigest}
      BY <1>6
    <2>2. u \in Task /\ {job[w], u} \in together BY <1>1, <1>2 DEF MetInv
    <2> QED BY <1>1, <1>3, <2>1, <2>2
  <1> QED BY <1>4, <1>5, <1>6 DEF TagKept

\* A push leaves each tag as it was, or with what was pushed for the worker's task.
LEMMA PushEffect ==
    ASSUME WorkersInv, MetInv, HostInv, NEW w \in Worker, handleTask(w), NEW r \in Ref
    PROVE  \/ remote'[r] = remote[r]
           \/ /\ r \in ToSet(Refs[job[w]]) /\ job[w] \in Task /\ w \in Active
              /\ \E v \in Task : v = job[w] /\ PushedFor(v, r)'
  <1>0. remote \in [Ref -> Contents] /\ w \in Active /\ together' = together
    BY FrameActive DEF WorkersInv, TypeOK
  <1>1. CASE /\ pc[w] = "push" /\ local[Host(w)][RefAt(w)] # NoDigest
             /\ remote' = [remote EXCEPT ![RefAt(w)] = local[Host(w)][RefAt(w)]]
    <2>1. CASE r = RefAt(w)
      <3>1. remote'[r] = local[Host(w)][RefAt(w)] BY <1>0, <1>1, <2>1
      <3>2. /\ job[w] \in Task /\ RefAt(w) \in ToSet(Refs[job[w]])
            /\ \E x \in Task : /\ x = job[w] \/ {job[w], x} \in together
                               /\ RefAt(w) \in ToSet(Refs[x])
                               /\ local[Host(w)][RefAt(w)] = DigestOf[x]
        BY <1>1, PushedNow
      <3>3. PICK x \in Task : /\ x = job[w] \/ {job[w], x} \in together
                              /\ RefAt(w) \in ToSet(Refs[x])
                              /\ local[Host(w)][RefAt(w)] = DigestOf[x]
        BY <3>2
      <3>4. ASSUME NEW v \in Task, v = job[w] PROVE PushedFor(v, r)'
        BY <3>1, <3>3, <3>4, <2>1, <1>0 DEF PushedFor
      <3> QED BY <3>2, <3>4, <2>1, <1>0
    <2>2. CASE r # RefAt(w) BY <1>0, <1>1, <2>2
    <2> QED BY <2>1, <2>2
  <1> QED BY <1>1, Effects

\* What was pushed for a task that is done, or is being worked on, stays until something
\* as new is pushed, or something that was at work at the same time.
LEMMA FreshStays ==
    ASSUME WorkersInv, MetInv, HostInv, RelayInv, NEW w \in Worker, handleTask(w),
           NEW u \in Task, NEW r \in Ref, Fresh(u, r),
           task[u] = "done" \/ \E v \in Active : job[v] = u
    PROVE  Fresh(u, r)'
  <1>0. together' = together /\ w \in Active BY FrameActive
  <1>1. CASE remote'[r] = remote[r] BY <1>0, <1>1 DEF Fresh, PushedFor
  <1>2. ASSUME r \in ToSet(Refs[job[w]]), NEW v \in Task, v = job[w], PushedFor(v, r)'
        PROVE  Fresh(u, r)'
    <2>1. Age[v] >= Age[u] \/ {u, v} \in together \/ PassesBy(u, v)
      <3>1. CASE task[u] = "done"
        <4>1. Age[v] < Age[u] => {u, v} \in together \/ PassesBy(u, v)
          BY <1>0, <1>2, <3>1 DEF RelayInv, Over
        <4>2. Age[u] \in Nat /\ Age[v] \in Nat BY SyncAssumption
        <4> QED BY <4>1, <4>2
      <3>2. CASE \E x \in Active : job[x] = u
        <4>1. PICK x \in Active : job[x] = u BY <3>2
        <4>2. CASE x = w
          <5>1. Age[u] \in Nat BY SyncAssumption
          <5> QED BY <5>1, <4>1, <4>2, <1>2
        <4>3. CASE x # w BY <4>1, <4>3, <1>0, <1>2 DEF MetInv
        <4> QED BY <4>2, <4>3
      <3> QED BY <3>1, <3>2
    <2> QED BY <2>1, <1>0, <1>2 DEF Fresh
  <1> QED BY <1>1, <1>2, PushEffect

\* A worker that has just pushed a tag leaves it with what was pushed for its task.
LEMMA FreshNow ==
    ASSUME WorkersInv, MetInv, HostInv, NEW w \in Worker, Push(w), pc'[w] # "failed"
    PROVE  \E u \in Task, n \in Nat : /\ u = job[w] /\ n = next[w]
                                      /\ Fresh(u, Refs[u][n])'
  <1>0. /\ remote \in [Ref -> Contents] /\ DOMAIN pc = Worker
        /\ pc[w] = "push" /\ together' = together /\ handleTask(w)
    BY DEF WorkersInv, TypeOK, Push, handleTask
  <1>1. /\ local[Host(w)][RefAt(w)] # NoDigest
        /\ remote' = [remote EXCEPT ![RefAt(w)] = local[Host(w)][RefAt(w)]]
    BY <1>0 DEF Push, Fails, Goto
  <1>2. /\ job[w] \in Task /\ RefAt(w) \in ToSet(Refs[job[w]])
        /\ \E x \in Task : /\ x = job[w] \/ {job[w], x} \in together
                           /\ RefAt(w) \in ToSet(Refs[x])
                           /\ local[Host(w)][RefAt(w)] = DigestOf[x]
    BY <1>0, <1>1, PushedNow
  <1>3. PICK x \in Task : /\ x = job[w] \/ {job[w], x} \in together
                          /\ RefAt(w) \in ToSet(Refs[x])
                          /\ local[Host(w)][RefAt(w)] = DigestOf[x]
    BY <1>2
  <1>4. next[w] \in DOMAIN Refs[job[w]] BY <1>0 DEF WorkersInv, TypeOK
  <1>5. RefAt(w) \in Ref
    BY <1>0, <1>4, HasTask DEF RefAt
  <1>6. remote'[RefAt(w)] = DigestOf[x] BY <1>0, <1>1, <1>3, <1>5
  <1>7. ASSUME NEW u \in Task, NEW r \in Ref, u = job[w], r = RefAt(w) PROVE Fresh(u, r)'
    <2>1. PushedFor(u, r)' BY <1>0, <1>3, <1>6, <1>7 DEF PushedFor
    <2>2. Age[u] >= Age[u]
      <3>1. Age[u] \in Nat BY SyncAssumption
      <3> QED BY <3>1
    <2> QED BY <2>1, <2>2, <1>2, <1>7 DEF Fresh
  <1>8. PICK u \in Task : u = job[w] BY <1>2
  <1>9. PICK n \in Nat : n = next[w] BY DEF WorkersInv, TypeOK
  <1>10. Refs[u][n] = RefAt(w) /\ Refs[u][n] \in Ref BY <1>5, <1>8, <1>9 DEF RefAt
  <1>11. Fresh(u, Refs[u][n])' BY <1>7, <1>8, <1>10
  <1> QED BY <1>8, <1>9, <1>11

\* Nothing is done at first.
LEMMA PushInit == Init => PushInv
  BY DEF Init, PushInv, NewestStays, Active

\* The tags that a worker of the step has pushed stay fresh.
LEMMA PushOwn ==
    ASSUME WorkersInv, MetInv, HostInv, RelayInv, PushInv,
           NEW w \in Worker, handleTask(w), pc'[w] # "idle"
    PROVE  PushInvOf(w)'
  <1>0. /\ TypeOK /\ w \in Active /\ WorkerInv(w) /\ PushInvOf(w)
        /\ UNCHANGED <<job, met>>
    <2>1. TypeOK /\ w \in Active /\ WorkerInv(w) BY FrameActive DEF WorkersInv
    <2> QED BY <2>1, Frame DEF PushInv, Stays, Frees
  <1>1. PICK u \in Task : u = job[w] BY <1>0, HasTask DEF Active
  <1>2. PICK n \in Nat : n = next[w] BY <1>0 DEF TypeOK
  <1>3. /\ DOMAIN Refs[u] = 1..Len(Refs[u]) /\ Len(Refs[u]) \in Nat
        /\ \A i \in DOMAIN Refs[u] : Refs[u][i] \in Ref
    BY <1>0, <1>1, HasTask DEF Active
  <1>4. ASSUME NEW i \in DOMAIN Refs[u], Fresh(u, Refs[u][i]) PROVE Fresh(u, Refs[u][i])'
    <2>1. Refs[u][i] \in Ref BY <1>3
    <2> QED BY <1>0, <1>1, <1>4, <2>1, FreshStays
  <1>5. \A i \in DOMAIN Refs[u] :
           (pc[w] \in {"tag", "push"} /\ i < n) \/ pc[w] \in {"clean", "done"}
              => Fresh(u, Refs[u][i])'
    BY <1>0, <1>1, <1>2, <1>4 DEF PushInvOf
  <1>6. job'[w] = u BY <1>0, <1>1
  <1>7. (\A i \in DOMAIN Refs[u] :
            (pc'[w] \in {"tag", "push"} /\ i < next'[w]) \/ pc'[w] \in {"clean", "done"}
               => Fresh(u, Refs[u][i])') => PushInvOf(w)'
    BY <1>6 DEF PushInvOf
  <1>8. DOMAIN pc = Worker /\ DOMAIN next = Worker BY <1>0 DEF TypeOK
  <1>9. CASE pc'[w] \in Early \cup {"failed"} BY <1>7, <1>9 DEF Early
  <1>10. CASE Start(w) BY <1>10, <1>8, <1>9 DEF Start, Goto, Return, Early
  <1>11. CASE SourceLogin(w)
    BY <1>11, <1>8, <1>9 DEF SourceLogin, AfterSourceLogin, Goto, Fails, Early
  <1>12. CASE TargetLogin(w) BY <1>12, <1>8, <1>9 DEF TargetLogin, Goto, Fails, Early
  <1>13. CASE Pull(w) BY <1>13, <1>8, <1>9 DEF Pull, AfterPull, Goto, Fails, Early
  <1>14. CASE Announce(w)
    <2>1. CASE pc'[w] = "tag" /\ next'[w] = next[w] /\ pc[w] = "announce"
      <3>1. n = 1 BY <2>1, <1>0, <1>2 DEF WorkerInv, Early
      <3>2. \A i \in DOMAIN Refs[u] : ~(i < next'[w]) BY <3>1, <2>1, <1>2, <1>3
      <3> QED BY <3>2, <2>1, <1>7
    <2>2. \/ pc'[w] = "failed"
          \/ pc'[w] = "tag" /\ next'[w] = next[w] /\ pc[w] = "announce"
      BY <1>14, <1>8 DEF Announce, Goto, Return
    <2> QED BY <2>1, <2>2, <1>9
  <1>15. CASE Tag(w)
    <2>1. CASE pc'[w] = "push" /\ next'[w] = n /\ pc[w] = "tag" BY <2>1, <1>5, <1>7
    <2>2. \/ pc'[w] = "failed"
          \/ pc'[w] = "push" /\ next'[w] = n /\ pc[w] = "tag"
      BY <1>2, <1>15, <1>8 DEF Tag, Goto, Fails
    <2> QED BY <2>1, <2>2, <1>9
  <1>16. CASE Push(w) /\ pc'[w] # "failed"
    <2>1. /\ pc[w] = "push"
          /\ \/ pc'[w] = "tag" /\ next'[w] = n + 1
             \/ pc'[w] \in {"clean", "done"} /\ n = Len(Refs[u])
      BY <1>1, <1>2, <1>16, <1>8 DEF Push, Goto, Fails, LastTag
    <2>2. Fresh(u, Refs[u][n])' BY <1>1, <1>2, <1>16, FreshNow
    <2>3. ASSUME NEW i \in DOMAIN Refs[u], i < n + 1 PROVE Fresh(u, Refs[u][i])'
      <3>1. i \in Nat BY <1>3
      <3>2. i < n \/ i = n BY <2>3, <3>1
      <3>3. CASE i < n BY <3>3, <2>1, <1>5
      <3>4. CASE i = n BY <3>4, <2>2
      <3> QED BY <3>2, <3>3, <3>4
    <2>4. n = Len(Refs[u]) => \A i \in DOMAIN Refs[u] : i < n + 1 BY <1>3
    <2> QED BY <2>1, <2>3, <2>4, <1>7
  <1>17. CASE Clean(w)
    <2>1. pc[w] = "clean" BY <1>17 DEF Clean
    <2> QED BY <2>1, <1>5, <1>7
  <1>18. CASE Report(w) BY <1>18, <1>8 DEF Report, Return
  <1> QED BY <1>9, <1>10, <1>11, <1>12, <1>13, <1>14, <1>15, <1>16, <1>17, <1>18
          DEF handleTask

\* No step makes a tag name something older.
LEMMA PushNext ==
    WorkersInv /\ MetInv /\ HostInv /\ RelayInv /\ PushInv /\ [Next]_vars => PushInv'
  <1> SUFFICES ASSUME WorkersInv, MetInv, HostInv, RelayInv, PushInv, [Next]_vars
               PROVE  PushInv'
    OBVIOUS
  <1>0. /\ TypeOK /\ NewestStays /\ \A v \in Active : PushInvOf(v)
        /\ \A v \in Active : v \in Worker /\ job[v] \in Task
        /\ task \in [Task -> {"new", "waiting", "out", "done", "failed"}]
        /\ \A u \in Task : \A i \in DOMAIN Refs[u] : Refs[u][i] \in Ref
    BY SyncAssumption DEF WorkersInv, WorkerInv, TypeOK, PushInv, Active
  <1>1. \A u \in Task : task[u] = "done" => \A r \in ToSet(Refs[u]) : Fresh(u, r)
    BY <1>0 DEF NewestStays, Fresh
  <1>2. (\A u \in Task : task'[u] = "done" => \A r \in ToSet(Refs[u]) : Fresh(u, r)')
           => NewestStays'
    BY DEF NewestStays, Fresh
  <1>3. ASSUME NEW w \in Worker, handleTask(w) PROVE PushInv'
    <2>0. w \in Active BY <1>3, FrameActive
    <2>1. ASSUME NEW v \in Active' PROVE PushInvOf(v)'
      <3>1. CASE v = w
        <4>1. pc'[w] # "idle" BY <3>1, <2>1 DEF Active
        <4> QED BY <4>1, <1>3, <3>1, PushOwn
      <3>2. CASE v # w
        <4>1. v \in Active /\ v \in Worker BY <1>0, <1>3, FrameActive
        <4>2. job'[v] = job[v] /\ pc'[v] = pc[v] /\ next'[v] = next[v]
          BY <4>1, <1>0, <1>3, <3>2, Frame
        <4>3. PICK u \in Task : u = job[v] BY <4>1, <1>0
        <4>4. \A i \in DOMAIN Refs[u] : Fresh(u, Refs[u][i]) => Fresh(u, Refs[u][i])'
          BY <4>1, <4>3, <1>0, <1>3, FreshStays
        <4>5. PushInvOf(v) BY <4>1, <1>0
        <4>6. job'[v] = u BY <4>2, <4>3
        <4> QED BY <4>2, <4>3, <4>4, <4>5, <4>6 DEF PushInvOf
      <3> QED BY <3>1, <3>2
    <2>2. ASSUME NEW u \in Task, task'[u] = "done", NEW r \in ToSet(Refs[u])
          PROVE  Fresh(u, r)'
      <3>0. PICK i \in DOMAIN Refs[u] : r = Refs[u][i] BY <2>2, Members
      <3>1. r \in Ref BY <3>0, <1>0
      <3>2. CASE task[u] = "done"
        <4>1. Fresh(u, r) BY <3>2, <1>1, <2>2
        <4> QED BY <4>1, <3>1, <3>2, <1>3, FreshStays
      <3>3. CASE task[u] # "done"
        <4>1. u = job[w] /\ pc[w] = "done"
          BY <3>3, <2>2, <1>0, <1>3, Effects
        <4>2. Fresh(u, r) BY <4>1, <3>0, <2>0, <1>0 DEF PushInvOf
        <4> QED BY <4>1, <4>2, <3>1, <2>0, <1>3, FreshStays
      <3> QED BY <3>2, <3>3
    <2> QED BY <2>1, <2>2, <1>2 DEF PushInv
  <1>4. ASSUME remote' = remote, together \subseteq together',
               \A u \in Task : task'[u] = "done" => task[u] = "done",
               \A v \in Active' : \/ pc'[v] = "start"
                                  \/ /\ v \in Active /\ job'[v] = job[v]
                                     /\ pc'[v] = pc[v] /\ next'[v] = next[v]
        PROVE  PushInv'
    <2>1. ASSUME NEW u \in Task, NEW r, Fresh(u, r) PROVE Fresh(u, r)'
      BY <2>1, <1>4 DEF Fresh, PushedFor
    <2>2. NewestStays' BY <2>1, <1>1, <1>2, <1>4
    <2>3. ASSUME NEW v \in Active' PROVE PushInvOf(v)'
      <3>1. CASE pc'[v] = "start" BY <3>1 DEF PushInvOf
      <3>2. CASE /\ v \in Active /\ job'[v] = job[v]
                 /\ pc'[v] = pc[v] /\ next'[v] = next[v]
        <4>1. PICK u \in Task : u = job[v] BY <3>2, <1>0
        <4>2. job'[v] = u /\ PushInvOf(v) BY <4>1, <3>2, <1>0
        <4> QED BY <3>2, <4>1, <4>2, <2>1 DEF PushInvOf
      <3> QED BY <3>1, <3>2, <1>4
    <2> QED BY <2>2, <2>3 DEF PushInv
  <1>5. ASSUME NEW w \in Worker, NEW t \in Task, Assign(w, t) PROVE PushInv'
    <2>1. /\ Active' = Active \cup {w} /\ w \notin Active
          /\ \A v \in Active : v # w /\ job'[v] = job[v]
          /\ together \subseteq together'
      BY <1>5, AssignMet
    <2>2. /\ pc' = [pc EXCEPT ![w] = "start"] /\ next' = [next EXCEPT ![w] = 1]
          /\ task' = [task EXCEPT ![t] = "out"] /\ remote' = remote
      BY <1>5 DEF Assign
    <2>3. pc'[w] = "start" BY <2>2, <1>0 DEF TypeOK
    <2>4. \A v \in Active : pc'[v] = pc[v] /\ next'[v] = next[v]
      BY <2>1, <2>2, <1>0 DEF TypeOK
    <2> QED BY <2>1, <2>2, <2>3, <2>4, <1>0, <1>4
  <1>6. ASSUME UNCHANGED <<job, pc, next, remote, together>>,
               \A u \in Task : task'[u] = "done" => task[u] = "done"
        PROVE  PushInv'
    <2>1. Active' = Active BY <1>6 DEF Active
    <2> QED BY <2>1, <1>4, <1>6
  <1>7. ASSUME NEW t \in Task, Create(t) PROVE PushInv'
    BY <1>7, <1>6, <1>0 DEF Create, workVars
  <1>8. ASSUME NEW w \in Worker, Lose(w) \/ Close(w) PROVE PushInv'
    <2>1. UNCHANGED <<job, pc, next, remote, together>> BY <1>8 DEF Lose, Close
    <2>2. task' = task \/ task' = [task EXCEPT ![job[w]] = "waiting"]
      BY <1>8 DEF Lose, Close
    <2> QED BY <2>1, <2>2, <1>0, <1>6
  <1>9. CASE UNCHANGED vars BY <1>9, <1>6 DEF vars, workVars
  <1> QED BY <1>3, <1>5, <1>7, <1>8, <1>9 DEF Next

\* PushInv always holds.
LEMMA PushAlways == Spec => []PushInv
  BY PushInit, PushNext, WorkersAlways, MetAlways, HostAlways, RelayAlways, PTL DEF Spec

\* The inductive invariant always holds.
THEOREM Invariance == Spec => []IInv
  <1>1. WorkersInv /\ MetInv /\ HostInv /\ RelayInv /\ PushInv => IInv BY DEF IInv
  <1> QED BY <1>1, WorkersAlways, MetAlways, HostAlways, RelayAlways, PushAlways, PTL

\* From the moment a task is done its tags name what was pushed for it, for a newer task,
\* for one that was at work at the same time, or for an older one that an agent of another
\* site or with other channels passed by (AssignNextTask, handleTask).
THEOREM OlderImagesDoNotReturn == Spec => []NewestStays
  <1>1. PushInv => NewestStays BY DEF PushInv
  <1> QED BY <1>1, PushAlways, PTL
=============================================================================
