----------------------------- MODULE ImageSync ------------------------------
(***************************************************************************)
(* What handleTask of an agent does with docker.  The handleTask           *)
(* goroutines of one agent - that of its session and those left over from  *)
(* sessions that ended - share the machine: the accounts docker is logged  *)
(* in with (docker_config_dir), the local images and their tags; and all   *)
(* agents share the target registry.  Every docker command is one step; it *)
(* runs to its end even when its session is over.                          *)
(*                                                                         *)
(* The relay appears as far as handleTask meets it: it hands out waiting   *)
(* tasks, takes a task back when the stream ends, and hears the last       *)
(* report.  RelaySessions has its side in detail.                          *)
(***************************************************************************)
EXTENDS Naturals, Sequences, FiniteSets, SequencesExt

CONSTANTS
    Agent, Task, Digest, Registry, Ref,
    User,           \* accounts at the registries
    Worker,         \* handleTask goroutines
    HostOf,         \* the agent a worker belongs to
    Age,            \* order in which tasks were created
    Takes,          \* tasks whose site and channel are those of an agent's hello
    SourceRegistry, TargetRegistry, DigestOf, \* of a task
    Refs,           \* target references of a task, one for each of its tags
    SourceUser, TargetUser, \* configuration of an agent
    CleanupLocalImages,
    MaxLost,        \* bound: streams that end under a running handleTask
    NoTask, NoUser, NoDigest

ASSUME SyncAssumption ==
    /\ HostOf \in [Worker -> Agent]
    /\ Age \in [Task -> Nat] /\ IsInjective(Age)
    /\ Takes \in [Agent -> SUBSET Task]
    /\ SourceRegistry \in [Task -> Registry]
    /\ TargetRegistry \in [Task -> Registry]
    /\ DigestOf \in [Task -> Digest]
    /\ Refs \in [Task -> Seq(Ref)]
    /\ SourceUser \in [Agent -> User \cup {NoUser}]
    /\ TargetUser \in [Agent -> User \cup {NoUser}]
    /\ CleanupLocalImages \in [Agent -> BOOLEAN]
    /\ MaxLost \in Nat
    /\ NoTask \notin Task /\ NoUser \notin User /\ NoDigest \notin Digest

VARIABLES
    task,     \* what the relay knows of a task
    job, pc,  \* a worker: its task and the step it is at
    next,     \* the tag a worker is at
    stream,   \* the session a worker reports to: up, ended at the relay (lost),
              \* noticed by the agent too (closed)
    account,  \* who docker is logged in as at a registry, per agent
    images,   \* source references in the local store of an agent
    local,    \* what the target references name there
    remote,   \* what the target references name in the target registry
    lost,
    kept,     \* history: removals of its cleanup that failed, by their place in it
    met,      \* history: tasks of other workers of the same agent that were at
              \* work at the same time
    together  \* history: tasks that were worked on at the same time anywhere

workVars == <<job, pc, next, stream, kept, met>>
hostVars == <<account, images, local>>
vars == <<task, workVars, hostVars, remote, lost, together>>

Steps == {"idle", "start", "sourceLogin", "targetLogin", "pull", "announce", "tag",
          "push", "clean", "done", "failed"}

Contents == Digest \cup {NoDigest}

TypeOK ==
    /\ task \in [Task -> {"new", "waiting", "out", "done", "failed"}]
    /\ job \in [Worker -> Task \cup {NoTask}]
    /\ pc \in [Worker -> Steps]
    /\ next \in [Worker -> Nat \ {0}]
    /\ stream \in [Worker -> {"up", "lost", "closed"}]
    /\ account \in [Agent -> [Registry -> User \cup {NoUser}]]
    /\ images \in [Agent -> SUBSET Digest]
    /\ local \in [Agent -> [Ref -> Contents]]
    /\ remote \in [Ref -> Contents]
    /\ lost \in 0..MaxLost
    /\ kept \in [Worker -> SUBSET (Nat \ {0})]
    /\ met \in [Worker -> SUBSET Task]
    /\ together \in SUBSET SUBSET Task
    /\ \A w \in Worker : pc[w] \in {"tag", "push"} => next[w] \in DOMAIN Refs[job[w]]

Init ==
    /\ task = [t \in Task |-> "new"]
    /\ job = [w \in Worker |-> NoTask]
    /\ pc = [w \in Worker |-> "idle"]
    /\ next = [w \in Worker |-> 1]
    /\ stream = [w \in Worker |-> "closed"]
    /\ account = [a \in Agent |-> [r \in Registry |-> NoUser]]
    /\ images = [a \in Agent |-> {}]
    /\ local = [a \in Agent |-> [r \in Ref |-> NoDigest]]
    /\ remote = [r \in Ref |-> NoDigest]
    /\ lost = 0
    /\ kept = [w \in Worker |-> {}]
    /\ met = [w \in Worker |-> {}]
    /\ together = {}

-----------------------------------------------------------------------------
(* The relay. *)

Create(t) ==
    /\ task[t] = "new"
    /\ \A u \in Task : Age[u] < Age[t] => task[u] # "new"
    /\ task' = [task EXCEPT ![t] = "waiting"]
    /\ UNCHANGED <<workVars, hostVars, remote, lost, together>>

Active == {w \in Worker : pc[w] # "idle"}

AssignNextTask_any_bug(a, t) == task[t] = "waiting" /\ t \in Takes[a]

\* AssignNextTask: the oldest task that waits for an agent like this one.
AssignNextTask(a, t) ==
    LET waiting == {u \in Takes[a] : task[u] = "waiting"}
    IN  t \in waiting /\ \A u \in waiting : Age[t] <= Age[u]

\* The relay sends a task down the session of an agent, whose loop calls
\* handleTask; workers of earlier sessions may still be at work.
Assign(w, t) ==
    /\ pc[w] = "idle"
    /\ \A v \in Active : HostOf[v] = HostOf[w] => stream[v] = "closed"
    /\ AssignNextTask(HostOf[w], t)
    /\ task' = [task EXCEPT ![t] = "out"]
    /\ job' = [job EXCEPT ![w] = t]
    /\ pc' = [pc EXCEPT ![w] = "start"]
    /\ next' = [next EXCEPT ![w] = 1]
    /\ stream' = [stream EXCEPT ![w] = "up"]
    /\ LET here == {v \in Active : HostOf[v] = HostOf[w]}
       IN  met' = [v \in Worker |-> IF v = w THEN {job[u] : u \in here}
                                    ELSE IF v \in here THEN met[v] \cup {t} ELSE met[v]]
    /\ together' = together \cup {{t, job[v]} : v \in Active}
    /\ UNCHANGED <<kept, hostVars, remote, lost>>

\* The stream of a worker ends at the relay, which requeues the task.
Lose(w) ==
    /\ w \in Active /\ stream[w] = "up"
    /\ lost < MaxLost
    /\ lost' = lost + 1
    /\ stream' = [stream EXCEPT ![w] = "lost"]
    /\ task' = [task EXCEPT ![job[w]] = "waiting"]
    /\ UNCHANGED <<job, pc, next, kept, met, hostVars, remote, together>>

\* runOnce returns, so nothing more can be sent for this worker.
Close(w) ==
    /\ w \in Active /\ stream[w] = "lost"
    /\ stream' = [stream EXCEPT ![w] = "closed"]
    /\ UNCHANGED <<task, job, pc, next, kept, met, hostVars, remote, lost, together>>

-----------------------------------------------------------------------------
(* handleTask. *)

Host(w) == HostOf[w]
Source(w) == SourceRegistry[job[w]]
Target(w) == TargetRegistry[job[w]]
Image(w) == DigestOf[job[w]]
RefAt(w) == Refs[job[w]][next[w]]

Goto(w, l) == pc' = [pc EXCEPT ![w] = l]

\* handleTask returns.
Return(w) ==
    /\ job' = [job EXCEPT ![w] = NoTask]
    /\ pc' = [pc EXCEPT ![w] = "idle"]
    /\ next' = [next EXCEPT ![w] = 1]
    /\ stream' = [stream EXCEPT ![w] = "closed"]
    /\ kept' = [kept EXCEPT ![w] = {}]
    /\ met' = [met EXCEPT ![w] = {}]

\* sendProgress gives an error, which makes handleTask return at once, only when
\* the stream has ended; until the agent knows, a message may be taken in vain.
Sends(w) == stream[w] # "closed"
SendFails(w) == stream[w] # "up"

\* PULLING is reported before anything else happens.
Start(w) ==
    /\ pc[w] = "start"
    /\ \/ Sends(w) /\ Goto(w, "sourceLogin") /\ UNCHANGED <<job, next, stream, kept, met>>
       \/ SendFails(w) /\ Return(w)
    /\ UNCHANGED <<task, hostVars, remote, lost, together>>

shouldDelayTargetLogin_never_bug(w) == FALSE

shouldDelayTargetLogin(w) ==
    /\ Source(w) = Target(w)
    /\ SourceUser[Host(w)] # TargetUser[Host(w)]

\* login: nothing is done for an agent without an account.
login(w, r, u) ==
    account' = IF u = NoUser THEN account ELSE [account EXCEPT ![Host(w)][r] = u]

\* A docker command may fail; handleTask then reports FAILED.
Fails(w) == Goto(w, "failed") /\ UNCHANGED hostVars

AfterSourceLogin(w) == IF shouldDelayTargetLogin(w) THEN "pull" ELSE "targetLogin"

SourceLogin(w) ==
    /\ pc[w] = "sourceLogin"
    /\ \/ /\ login(w, Source(w), SourceUser[Host(w)])
          /\ Goto(w, AfterSourceLogin(w))
          /\ UNCHANGED <<images, local>>
       \/ Fails(w)
    /\ UNCHANGED <<task, job, next, stream, kept, met, remote, lost, together>>

\* Before the pull, or after it when one registry has two accounts.
TargetLogin(w) ==
    /\ pc[w] = "targetLogin"
    /\ \/ /\ login(w, Target(w), TargetUser[Host(w)])
          /\ Goto(w, IF shouldDelayTargetLogin(w) THEN "announce" ELSE "pull")
          /\ UNCHANGED <<images, local>>
       \/ Fails(w)
    /\ UNCHANGED <<task, job, next, stream, kept, met, remote, lost, together>>

AfterPull(w) == IF shouldDelayTargetLogin(w) THEN "targetLogin" ELSE "announce"

\* docker pull of the source reference, which names the digest.
Pull(w) ==
    /\ pc[w] = "pull"
    /\ \/ /\ images' = [images EXCEPT ![Host(w)] = @ \cup {Image(w)}]
          /\ Goto(w, AfterPull(w))
          /\ UNCHANGED <<account, local>>
       \/ Fails(w)
    /\ UNCHANGED <<task, job, next, stream, kept, met, remote, lost, together>>

\* A task without tags fails; otherwise PUSHING is reported.
Announce(w) ==
    /\ pc[w] = "announce"
    /\ IF Refs[job[w]] = <<>>
       THEN Goto(w, "failed") /\ UNCHANGED <<job, next, stream, kept, met>>
       ELSE \/ Sends(w) /\ Goto(w, "tag") /\ UNCHANGED <<job, next, stream, kept, met>>
            \/ SendFails(w) /\ Return(w)
    /\ UNCHANGED <<task, hostVars, remote, lost, together>>

Retag_onlyNew_bug(w) ==
    IF local[Host(w)][RefAt(w)] = NoDigest
    THEN [local EXCEPT ![Host(w)][RefAt(w)] = Image(w)] ELSE local

Retag(w) == [local EXCEPT ![Host(w)][RefAt(w)] = Image(w)]

\* docker tag; it fails without the source image.
Tag(w) ==
    /\ pc[w] = "tag"
    /\ \/ /\ Image(w) \in images[Host(w)]
          /\ local' = Retag(w)
          /\ Goto(w, "push")
          /\ UNCHANGED <<account, images>>
       \/ Fails(w)
    /\ UNCHANGED <<task, job, next, stream, kept, met, remote, lost, together>>

LastTag_pastEnd_bug(w) == next[w] > Len(Refs[job[w]])

LastTag(w) == next[w] = Len(Refs[job[w]])

\* docker push of what the target reference names locally, then the next tag; a push
\* that fails may have reached the registry all the same.
Push(w) ==
    /\ pc[w] = "push"
    /\ LET image == local[Host(w)][RefAt(w)]
           pushed == [remote EXCEPT ![RefAt(w)] = image]
       IN  \/ /\ image # NoDigest
              /\ remote' = pushed
              /\ next' = [next EXCEPT ![w] = IF LastTag(w) THEN 1 ELSE @ + 1]
              /\ Goto(w, IF ~LastTag(w) THEN "tag"
                         ELSE IF CleanupLocalImages[Host(w)] THEN "clean" ELSE "done")
              /\ UNCHANGED hostVars
           \/ /\ remote' \in {remote} \cup (IF image = NoDigest THEN {} ELSE {pushed})
              /\ Fails(w)
              /\ UNCHANGED next
    /\ UNCHANGED <<task, job, stream, kept, met, lost, together>>

LastClean_sourceKept_bug(w) == next[w] = Len(Refs[job[w]])

\* The image rm of the source reference comes after those of the targets.
LastClean(w) == next[w] = Len(Refs[job[w]]) + 1

\* What is gone from the machine when the image rm that w is at succeeds.
ImageRm(w) ==
    IF next[w] \in DOMAIN Refs[job[w]]
    THEN local' = [local EXCEPT ![Host(w)][RefAt(w)] = NoDigest] /\ UNCHANGED images
    ELSE images' = [images EXCEPT ![Host(w)] = @ \ {Image(w)}] /\ UNCHANGED local

\* docker image rm -f; when it fails the next one is tried all the same.
Clean(w) ==
    /\ pc[w] = "clean"
    /\ \/ ImageRm(w) /\ UNCHANGED kept
       \/ kept' = [kept EXCEPT ![w] = @ \cup {next[w]}] /\ UNCHANGED <<images, local>>
    /\ next' = [next EXCEPT ![w] = @ + 1]
    /\ Goto(w, IF LastClean(w) THEN "done" ELSE "clean")
    /\ UNCHANGED <<task, job, stream, met, account, remote, lost, together>>

\* The last report, which the relay hears while the stream is up.
Report(w) ==
    /\ pc[w] \in {"done", "failed"}
    /\ task' = IF stream[w] = "up" THEN [task EXCEPT ![job[w]] = pc[w]] ELSE task
    /\ Return(w)
    /\ UNCHANGED <<hostVars, remote, lost, together>>

handleTask(w) ==
    \/ Start(w) \/ SourceLogin(w) \/ TargetLogin(w) \/ Pull(w) \/ Announce(w)
    \/ Tag(w) \/ Push(w) \/ Clean(w) \/ Report(w)

Next ==
    \/ \E t \in Task : Create(t)
    \/ \E w \in Worker, t \in Task : Assign(w, t)
    \/ \E w \in Worker : Lose(w) \/ Close(w) \/ handleTask(w)

Spec == Init /\ [][Next]_vars

-----------------------------------------------------------------------------
(* What handleTask does right as long as it has the machine to itself, and *)
(* what exactly may spoil it: met[w] are the tasks of the other workers.   *)

\* Worker w takes the step after l.
Leaves(w, l) == pc[w] = l /\ pc'[w] \notin {l, "failed"}

\* An image is pulled with the source account, although both registries may be one
\* and the account is shared with the push of the task before; only a worker that
\* logs in to this registry as its target can come between.
PullsAsSource(w) ==
    (Leaves(w, "pull") /\ SourceUser[Host(w)] # NoUser) =>
        \/ account[Host(w)][Source(w)] = SourceUser[Host(w)]
        \/ \E u \in met[w] : TargetRegistry[u] = Source(w)

\* All tags are pushed with the target account; only a worker that logs in to the
\* target registry as its source can come between.
PushesAsTarget(w) ==
    (Leaves(w, "push") /\ TargetUser[Host(w)] # NoUser) =>
        \/ account[Host(w)][Target(w)] = TargetUser[Host(w)]
        \/ \E u \in met[w] : SourceRegistry[u] = Target(w)

\* Each docker command that needs an account runs with the right one.
UsesItsAccounts == [][\A w \in Worker : PullsAsSource(w) /\ PushesAsTarget(w)]_vars

\* The image is still there for each of its tags; only the cleanup of a worker with
\* the same image can have removed it.
HasItsImage == \A w \in Worker :
    pc[w] = "tag" =>
        \/ Image(w) \in images[Host(w)]
        \/ CleanupLocalImages[Host(w)] /\ \E u \in met[w] : DigestOf[u] = Image(w)

\* What is about to be pushed under a tag is the image the task names, whatever
\* earlier tasks left under that tag; only a worker with this tag can change it.
PushesItsImage == \A w \in Worker :
    pc[w] = "push" =>
        \/ local[Host(w)][RefAt(w)] = Image(w)
        \/ \E u \in met[w] : ToSet(Refs[u]) \cap ToSet(Refs[job[w]]) # {}

\* The image of a task stays in place, and under its tags, from the pull to the push.
WorksOnItsImage == HasItsImage /\ PushesItsImage

\* When an agent that cleans up reports DONE, nothing of the task is left on its disk
\* but what docker refused to remove, even when the same task had failed there before:
\* one removal that fails does not keep the others from being tried.
DoneLeavesNothing == \A w \in Worker :
    LET refs == Refs[job[w]]
    IN  (pc[w] = "done" /\ CleanupLocalImages[Host(w)] /\ met[w] = {}) =>
            /\ Image(w) \in images[Host(w)] => Len(refs) + 1 \in kept[w]
            /\ \A i \in DOMAIN refs :
                  local[Host(w)][refs[i]] # NoDigest => i \in kept[w]

\* What r names in the registry was pushed for v: the image of v, or that of a task which
\* was at work at the same time, and on the same machine may have put it under this tag.
PushedFor(v, r) == \E x \in Task :
    /\ x = v \/ {v, x} \in together
    /\ r \in ToSet(Refs[x])
    /\ remote[r] = DigestOf[x]

\* An agent that may be given u, but not v.
PassesBy(u, v) == \E a \in Agent : u \in Takes[a] /\ v \notin Takes[a]

\* From the moment a task is done its tags name what was pushed for it or for a newer
\* task, although tasks fail, are cut and handed out again, and pushes that fail may
\* reach the registry.  An older task can have pushed later only if it was at work at
\* the same time, or if it was passed by, by an agent of another site or with other
\* channels (AssignNextTask, handleTask): a target reference names neither.
NewestStays == \A u \in Task : task[u] = "done" => \A r \in ToSet(Refs[u]) :
    \E v \in Task : /\ Age[v] >= Age[u] \/ {u, v} \in together \/ PassesBy(u, v)
                    /\ r \in ToSet(Refs[v])
                    /\ PushedFor(v, r)
=============================================================================
