--------------------------- MODULE ShutdownProofs ---------------------------
(***************************************************************************)
(* The safety properties of Shutdown for every number of agents and        *)
(* requests and for all the waiting times, not only those of main.go.      *)
(***************************************************************************)
EXTENDS Shutdown, TLAPS

\* Each stage begins when the one before it ends and lasts no longer than its limit.
StagesInTime ==
    /\ stage = "running" => clock = 0 /\ since = 0 /\ slowest = 0 /\ cause = "none"
    /\ stage = "http" => since = 0 /\ clock <= HttpWait
    /\ stage = "graceful" => since <= HttpWait /\ clock <= since + GraceWait
    /\ stage = "forced" => since <= HttpWait + GraceWait /\ clock <= since + ForceWait

\* Main waits for HTTP requests only as long as there is one: slowest is the time at
\* which the next stage began.
WaitedFor ==
    /\ stage = "http" /\ requests = {} => slowest = clock
    /\ stage = "graceful" => slowest = since
    /\ stage = "forced" => slowest + GraceWait >= since
    /\ stage \in {"graceful", "forced", "exited"} /\ requests # {} => slowest = HttpWait

\* The deferred MarkAgentOffline leaves nothing behind, before the defer the agent counts
\* as not served, the file says the same as memory unless the last save failed, and a
\* handler whose stream was cut is gone before main gives up.
HandlersClean ==
    /\ \A a \in Agent : handler[a] = "none" /\ a \notin unserved => ~online[a] /\ ~held[a]
    /\ \A a \in Agent : handler[a] = "first" => a \in unserved
    /\ unsaved \/ disk = [online |-> online, held |-> held]
    /\ stage = "forced" /\ clock > since + EndTime => GrpcStopped
    /\ stage = "exited" => GrpcStopped

IInv == TypeOK /\ StagesInTime /\ WaitedFor /\ HandlersClean

-----------------------------------------------------------------------------

\* The waiting times are numbers.
LEMMA Times ==
    /\ HttpWait \in Nat /\ GraceWait \in Nat /\ ForceWait \in Nat /\ StopSec \in Nat
    /\ EndTime \in Nat /\ 0 < EndTime /\ EndTime < ForceWait
    /\ MaxTime = HttpWait + GraceWait + ForceWait
BY ShutdownAssumption DEF MaxTime

\* A relay that has just started satisfies the invariant.
LEMMA InvInit == Init => IInv
<1> SUFFICES ASSUME Init PROVE IInv
  OBVIOUS
<1>1. /\ stage = "running" /\ cause = "none" /\ clock = 0 /\ since = 0 /\ slowest = 0
      /\ requests = {} /\ handler = [a \in Agent |-> "none"]
      /\ online \in [Agent -> BOOLEAN] /\ held \in [Agent -> BOOLEAN]
      /\ \A a \in Agent : held[a] => online[a]
      /\ disk = [online |-> online, held |-> held]
      /\ unserved = Agent /\ unsaved = FALSE
  BY DEF Init
<1>2. disk \in [online : [Agent -> BOOLEAN], held : [Agent -> BOOLEAN]]
  BY <1>1
<1>3. \A a \in Agent : handler[a] # "none" \/ held[a] => online[a]
  BY <1>1
<1>4. TypeOK
  <2>1. /\ handler \in [Agent -> {"none", "first", "recv", "callback", "exit"}]
        /\ unserved \in SUBSET Agent /\ unsaved \in BOOLEAN
        /\ requests \in SUBSET Request
    BY <1>1
  <2>2. /\ stage \in {"running", "http", "graceful", "forced", "exited", "killed"}
        /\ cause \in {"none", "signal", "failure"}
        /\ clock \in 0..MaxTime /\ since \in 0..clock /\ slowest \in 0..clock
    BY <1>1, Times
  <2> QED
    BY <1>1, <1>2, <1>3, <2>1, <2>2 DEF TypeOK
<1>5. HandlersClean
  BY <1>1 DEF HandlersClean
<1> QED
  BY <1>1, <1>4, <1>5, Times DEF IInv, StagesInTime, WaitedFor

\* What the handler of a does.
StreamStep(a) ==
    \/ Hello(a) \/ FirstTask(a) \/ HelloFails(a) \/ SendTask(a) \/ Progress(a)
    \/ TaskEnds(a) \/ CallbackReturns(a) \/ HandlerEnds(a)

HandlerSteps == {"none", "first", "recv", "callback", "exit"}

\* Such a step leaves main alone, or saves what it changed, or leaves the store alone.
LEMMA StreamsSave ==
    ASSUME IInv, NEW a \in Agent, StreamStep(a)
    PROVE  /\ UNCHANGED <<stage, cause, since, slowest, clock, requests>>
           /\ UNCHANGED storeVars \/ \E ok \in BOOLEAN : Save(ok)
           /\ stage \notin {"exited", "killed"}
<1>1. CASE Hello(a)
  BY <1>1 DEF Hello, mainVars
<1>2. CASE FirstTask(a)
  BY <1>2 DEF FirstTask, Ended, mainVars
<1>3. CASE HelloFails(a)
  BY <1>3 DEF HelloFails, Ended, mainVars
<1>4. CASE SendTask(a) \/ Progress(a) \/ TaskEnds(a)
  BY <1>4 DEF SendTask, Progress, TaskEnds, SavedOrExit, Serves, mainVars
<1>5. CASE CallbackReturns(a) \/ HandlerEnds(a)
  BY <1>5 DEF CallbackReturns, HandlerEnds, MarkAgentOffline, Ended, mainVars
<1> QED
  BY <1>1, <1>2, <1>3, <1>4, <1>5 DEF StreamStep

StoreTyped ==
    /\ handler \in [Agent -> HandlerSteps] /\ unserved \in SUBSET Agent
    /\ online \in [Agent -> BOOLEAN] /\ held \in [Agent -> BOOLEAN]

\* What a handler and its agent have to do with each other.
InStep(a) ==
    /\ handler[a] # "none" \/ held[a] => online[a]
    /\ handler[a] = "none" /\ a \notin unserved => ~online[a] /\ ~held[a]
    /\ handler[a] = "first" => a \in unserved

OthersKept(a) ==
    \A b \in Agent \ {a} : /\ handler'[b] = handler[b]
                           /\ online'[b] = online[b] /\ held'[b] = held[b]
                           /\ b \in unserved' <=> b \in unserved

\* The handler of a and its agent stay in step, the others are left alone, and once
\* streams are cut no handler begins.
LEMMA StreamsInStep ==
    ASSUME IInv, NEW a \in Agent, StreamStep(a)
    PROVE  /\ StoreTyped' /\ InStep(a)' /\ OthersKept(a)
           /\ stage = "forced" /\ handler[a] = "none" => handler'[a] = "none"
<1>0. StoreTyped /\ InStep(a)
  BY DEF IInv, TypeOK, HandlersClean, HandlerSteps, StoreTyped, InStep
<1>1. CASE Hello(a)
  <2>1. /\ handler[a] = "none" /\ stage # "forced"
        /\ handler' = [handler EXCEPT ![a] = "first"] \/ handler' = handler
        /\ online' = [online EXCEPT ![a] = TRUE]
        /\ held' = held /\ unserved' = unserved \cup {a}
    BY <1>1 DEF Hello
  <2>2. StoreTyped' /\ OthersKept(a)
    BY <1>0, <2>1 DEF StoreTyped, OthersKept, HandlerSteps
  <2>3. InStep(a)'
    BY <1>0, <2>1 DEF StoreTyped, InStep
  <2> QED
    BY <1>0, <2>1, <2>2, <2>3 DEF StoreTyped
<1>2. CASE FirstTask(a)
  <2>1. /\ handler[a] = "first"
        /\ handler' = [handler EXCEPT ![a] = "recv"]
        /\ unserved' = unserved \ {a}
        /\ online' = online \/ online' = [online EXCEPT ![a] = TRUE]
        /\ held' = held \/ held' = [held EXCEPT ![a] = TRUE]
    BY <1>2 DEF FirstTask, AssignNextTask, storeVars
  <2>2. StoreTyped' /\ OthersKept(a)
    BY <1>0, <2>1 DEF StoreTyped, OthersKept, HandlerSteps
  <2>3. InStep(a)'
    BY <1>0, <2>1 DEF StoreTyped, InStep
  <2> QED
    BY <1>0, <2>1, <2>2, <2>3 DEF StoreTyped
<1>3. CASE HelloFails(a)
  <2>1. /\ handler[a] = "first" /\ unserved' = unserved
        /\ handler' = [handler EXCEPT ![a] = "none"]
        /\ online' = online \/ online' = [online EXCEPT ![a] = TRUE]
        /\ held' = held \/ held' = [held EXCEPT ![a] = TRUE]
    BY <1>3 DEF HelloFails, AssignNextTask, storeVars
  <2>2. StoreTyped' /\ OthersKept(a)
    BY <1>0, <2>1 DEF StoreTyped, OthersKept, HandlerSteps
  <2>3. InStep(a)'
    BY <1>0, <2>1 DEF StoreTyped, InStep
  <2> QED
    BY <1>0, <2>1, <2>2, <2>3 DEF StoreTyped
<1>4. CASE SendTask(a) \/ Progress(a) \/ TaskEnds(a)
  <2>1. /\ handler[a] = "recv" /\ unserved' = unserved
        /\ \E h \in {"recv", "callback", "exit"} : handler' = [handler EXCEPT ![a] = h]
        /\ online' = online \/ online' = [online EXCEPT ![a] = TRUE]
        /\ held' = held \/ \E h \in BOOLEAN : held' = [held EXCEPT ![a] = h]
    BY <1>4 DEF SendTask, Progress, TaskEnds, SavedOrExit, Serves, AssignNextTask
  <2>2. PICK h \in {"recv", "callback", "exit"} : handler' = [handler EXCEPT ![a] = h]
    BY <2>1
  <2>3. /\ handler' \in [Agent -> HandlerSteps]
        /\ \A b \in Agent \ {a} : handler'[b] = handler[b]
    BY <1>0, <2>2 DEF StoreTyped, HandlerSteps
  <2>4. /\ online' \in [Agent -> BOOLEAN]
        /\ \A b \in Agent \ {a} : online'[b] = online[b]
    BY <1>0, <2>1 DEF StoreTyped
  <2>5. /\ held' \in [Agent -> BOOLEAN]
        /\ \A b \in Agent \ {a} : held'[b] = held[b]
    BY <1>0, <2>1 DEF StoreTyped
  <2>6. StoreTyped' /\ OthersKept(a)
    BY <1>0, <2>1, <2>3, <2>4, <2>5 DEF StoreTyped, OthersKept
  <2>7. InStep(a)'
    BY <1>0, <2>1 DEF StoreTyped, InStep
  <2> QED
    BY <1>0, <2>1, <2>6, <2>7 DEF StoreTyped
<1>5. CASE CallbackReturns(a)
  <2>1. /\ handler[a] = "callback" /\ handler' = [handler EXCEPT ![a] = "recv"]
        /\ UNCHANGED <<online, held, unserved>>
    BY <1>5 DEF CallbackReturns
  <2>2. StoreTyped' /\ OthersKept(a)
    BY <1>0, <2>1 DEF StoreTyped, OthersKept, HandlerSteps
  <2>3. InStep(a)'
    BY <1>0, <2>1 DEF StoreTyped, InStep
  <2> QED
    BY <1>0, <2>1, <2>2, <2>3 DEF StoreTyped
<1>6. CASE HandlerEnds(a)
  <2>1. /\ handler[a] # "first" /\ handler' = [handler EXCEPT ![a] = "none"]
        /\ online' = [online EXCEPT ![a] = FALSE]
        /\ held' = [held EXCEPT ![a] = FALSE]
        /\ unserved' = unserved
    BY <1>6 DEF HandlerEnds, MarkAgentOffline
  <2>2. StoreTyped' /\ OthersKept(a)
    BY <1>0, <2>1 DEF StoreTyped, OthersKept, HandlerSteps
  <2>3. InStep(a)'
    BY <1>0, <2>1 DEF StoreTyped, InStep
  <2> QED
    BY <1>0, <2>1, <2>2, <2>3 DEF StoreTyped
<1> QED
  BY <1>1, <1>2, <1>3, <1>4, <1>5, <1>6 DEF StreamStep

\* Streams keep the invariant.
LEMMA AgentsKeep ==
    ASSUME IInv, NEW a \in Agent, StreamStep(a)
    PROVE  IInv'
<1>1. /\ UNCHANGED <<stage, cause, since, slowest, clock, requests>>
      /\ stage \notin {"exited", "killed"}
      /\ UNCHANGED storeVars \/ \E ok \in BOOLEAN : Save(ok)
  BY StreamsSave
<1>2. StagesInTime' /\ WaitedFor'
  BY <1>1 DEF IInv, StagesInTime, WaitedFor
<1>3. /\ disk' \in [online : [Agent -> BOOLEAN], held : [Agent -> BOOLEAN]]
      /\ unsaved' \in BOOLEAN
      /\ unsaved' \/ disk' = [online |-> online', held |-> held']
  <2>1. /\ disk \in [online : [Agent -> BOOLEAN], held : [Agent -> BOOLEAN]]
        /\ unsaved \in BOOLEAN
        /\ unsaved \/ disk = [online |-> online, held |-> held]
    BY DEF IInv, TypeOK, HandlersClean
  <2>2. CASE UNCHANGED storeVars
    BY <2>1, <2>2 DEF storeVars
  <2>3. ASSUME NEW ok \in BOOLEAN, Save(ok)
        PROVE  /\ disk' \in [online : [Agent -> BOOLEAN], held : [Agent -> BOOLEAN]]
               /\ unsaved' \in BOOLEAN
               /\ unsaved' \/ disk' = [online |-> online', held |-> held']
    <3>1. online' \in [Agent -> BOOLEAN] /\ held' \in [Agent -> BOOLEAN]
      BY StreamsInStep DEF StoreTyped
    <3> QED
      BY <2>1, <2>3, <3>1 DEF Save
  <2> QED
    BY <1>1, <2>2, <2>3
<1>4. \A b \in Agent : InStep(b)'
  <2>1. \A b \in Agent : InStep(b)
    BY DEF IInv, TypeOK, HandlersClean, InStep
  <2> QED
    BY <2>1, StreamsInStep DEF InStep, OthersKept
<1>5. TypeOK'
  BY <1>1, <1>3, <1>4, StreamsInStep DEF IInv, TypeOK, HandlerSteps, StoreTyped, InStep
<1>6. stage = "forced" /\ GrpcStopped => GrpcStopped'
  BY StreamsInStep DEF GrpcStopped, OthersKept
<1>7. HandlersClean'
  BY <1>1, <1>3, <1>4, <1>6 DEF IInv, HandlersClean, InStep
<1> QED
  BY <1>2, <1>5, <1>7 DEF IInv

\* So does a save on behalf of others.
LEMMA SavesKeep == IInv /\ OtherSave => IInv'
<1> SUFFICES ASSUME IInv, OtherSave PROVE IInv'
  OBVIOUS
<1>1. /\ UNCHANGED <<stage, cause, since, slowest, clock, requests>>
      /\ UNCHANGED <<handler, unserved, online, held>>
      /\ \E ok \in BOOLEAN : Save(ok)
  BY DEF OtherSave, mainVars
<1>2. /\ disk' \in [online : [Agent -> BOOLEAN], held : [Agent -> BOOLEAN]]
      /\ unsaved' \in BOOLEAN
      /\ unsaved' \/ disk' = [online |-> online', held |-> held']
  BY <1>1 DEF IInv, TypeOK, Save
<1>3. TypeOK'
  BY <1>1, <1>2 DEF IInv, TypeOK
<1>4. HandlersClean'
  BY <1>1, <1>2 DEF IInv, HandlersClean, GrpcStopped
<1> QED
  BY <1>1, <1>3, <1>4 DEF IInv, StagesInTime, WaitedFor

\* Each step of main, of its clock and of systemd keeps what belongs to the stage.
LEMMA MainKeeps ==
    ASSUME IInv, Leave \/ Main \/ Kill \/ Tick
    PROVE  IInv'
<1>0. /\ stage \in {"running", "http", "graceful", "forced", "exited", "killed"}
      /\ clock \in Nat /\ since \in Nat /\ slowest \in Nat
      /\ clock <= MaxTime /\ since <= clock /\ slowest <= clock
      /\ StagesInTime /\ WaitedFor /\ HandlersClean
  BY Times DEF IInv, TypeOK
<1>1. UNCHANGED <<requests, agentVars>>
  BY DEF Leave, Main, StopHttp, StopGrpc, ForceStop, GiveUp, Kill, Tick, GoOn
<1>2. /\ requests' = requests /\ handler' = handler /\ online' = online /\ held' = held
      /\ disk' = disk /\ unserved' = unserved /\ unsaved' = unsaved
      /\ GrpcStopped' <=> GrpcStopped
  BY <1>1 DEF GrpcStopped, agentVars, storeVars
<1>3. ASSUME /\ stage' \in {"running", "http", "graceful", "forced", "exited", "killed"}
             /\ cause' \in {"none", "signal", "failure"}
             /\ clock' \in 0..MaxTime /\ since' \in 0..clock' /\ slowest' \in 0..clock'
             /\ StagesInTime' /\ WaitedFor'
             /\ stage' = "forced" /\ clock' > since' + EndTime => GrpcStopped
             /\ stage' = "exited" => GrpcStopped
      PROVE  IInv'
  BY <1>2, <1>3 DEF IInv, TypeOK, HandlersClean
<1>4. CASE Leave
  BY <1>0, <1>1, <1>3, <1>4, Times DEF Leave, StagesInTime, WaitedFor
<1>5. CASE StopHttp
  <2>1. /\ stage = "http" /\ stage' = "graceful" /\ since' = clock /\ clock' = clock
        /\ cause' = cause /\ slowest' = clock /\ since = 0 /\ clock <= HttpWait
    BY <1>0, <1>5 DEF StopHttp, GoOn, HttpStopped, StagesInTime, WaitedFor
  <2>2. requests # {} => clock = HttpWait
    BY <1>0, <1>5, <2>1, Times DEF StopHttp, HttpStopped, TimeIsUp
  <2>3. StagesInTime' /\ WaitedFor'
    BY <1>0, <1>1, <2>1, <2>2, Times DEF StagesInTime, WaitedFor
  <2> QED
    BY <1>0, <1>3, <2>1, <2>3, Times DEF IInv, TypeOK
<1>6. CASE ForceStop
  <2>1. /\ stage = "graceful" /\ stage' = "forced" /\ since' = clock /\ clock' = clock
        /\ cause' = cause /\ slowest' = slowest /\ clock = since + GraceWait
    BY <1>6 DEF ForceStop, GoOn, GraceIsUp, TimeIsUp
  <2>2. StagesInTime' /\ WaitedFor'
    BY <1>0, <1>1, <2>1, Times DEF StagesInTime, WaitedFor
  <2> QED
    BY <1>0, <1>3, <2>1, <2>2, Times DEF IInv, TypeOK
<1>7. CASE StopGrpc
  <2>1. /\ stage \in {"graceful", "forced"} /\ stage' = "exited" /\ since' = clock
        /\ clock' = clock /\ cause' = cause /\ slowest' = slowest /\ GrpcStopped
    BY <1>7 DEF StopGrpc, GoOn
  <2>2. StagesInTime' /\ WaitedFor'
    BY <1>0, <1>1, <2>1 DEF StagesInTime, WaitedFor
  <2> QED
    BY <1>0, <1>3, <2>1, <2>2 DEF IInv, TypeOK
<1>8. CASE GiveUp
  <2>1. /\ stage = "forced" /\ stage' = "exited" /\ since' = clock
        /\ clock' = clock /\ cause' = cause /\ slowest' = slowest
        /\ clock = since + ForceWait
    BY <1>8 DEF GiveUp, GoOn, ForceIsUp, TimeIsUp
  <2>2. GrpcStopped
    BY <1>0, <2>1, Times DEF HandlersClean
  <2>3. StagesInTime' /\ WaitedFor'
    BY <1>0, <1>1, <2>1 DEF StagesInTime, WaitedFor
  <2> QED
    BY <1>0, <1>3, <2>1, <2>2, <2>3 DEF IInv, TypeOK
<1>9. CASE Kill
  <2>1. /\ stage' = "killed" /\ since' = clock /\ clock' = clock /\ cause' = cause
        /\ slowest' = slowest
    BY <1>9 DEF Kill, GoOn
  <2>2. StagesInTime' /\ WaitedFor'
    BY <1>0, <1>1, <2>1 DEF StagesInTime, WaitedFor
  <2> QED
    BY <1>0, <1>3, <2>1, <2>2 DEF IInv, TypeOK
<1>10. CASE Tick
  <2>1. /\ stage \in {"http", "graceful", "forced"} /\ clock' = clock + 1
        /\ UNCHANGED <<stage, cause, since, slowest>>
        /\ stage = "http" => requests # {} /\ clock # since + HttpWait
        /\ stage = "graceful" => clock # since + GraceWait
        /\ stage = "forced" => /\ clock # since + ForceWait
                               /\ clock = since + EndTime => GrpcStopped
    BY <1>10 DEF Tick, mainVars, HttpStopped, TimeIsUp
  <2>2. StagesInTime' /\ WaitedFor'
    BY <1>0, <1>1, <2>1, Times DEF StagesInTime, WaitedFor
  <2>3. clock' <= MaxTime
    BY <1>0, <2>1, <2>2, Times DEF StagesInTime
  <2>4. stage' = "forced" /\ clock' > since' + EndTime => GrpcStopped
    BY <1>0, <2>1, Times DEF HandlersClean
  <2> QED
    BY <1>0, <1>3, <2>1, <2>2, <2>3, <2>4, Times DEF IInv, TypeOK
<1> QED
  BY <1>4, <1>5, <1>6, <1>7, <1>8, <1>9, <1>10 DEF Main

\* Requests only come while relay runs.
LEMMA RequestsKeep ==
    ASSUME IInv, NEW r \in Request, Accept(r) \/ Answer(r)
    PROVE  IInv'
<1>0. /\ clock \in Nat /\ since \in Nat /\ slowest \in Nat /\ requests \in SUBSET Request
      /\ StagesInTime /\ WaitedFor /\ HandlersClean
  BY Times DEF IInv, TypeOK
<1>1. UNCHANGED <<stage, cause, since, clock, agentVars>>
  BY DEF Accept, Answer, mainVars
<1>2. /\ requests' \in SUBSET Request
      /\ slowest' = slowest \/ (stage = "http" /\ slowest' = clock)
      /\ stage = "running" => slowest' = slowest
      /\ stage # "running" => requests' \subseteq requests
      /\ stage = "http" => slowest' = clock
  BY <1>0 DEF Accept, Answer, mainVars
<1>3. TypeOK'
  BY <1>0, <1>1, <1>2 DEF IInv, TypeOK, agentVars, storeVars
<1>4. StagesInTime'
  BY <1>0, <1>1, <1>2 DEF StagesInTime
<1>5. WaitedFor'
  BY <1>0, <1>1, <1>2 DEF WaitedFor
<1>6. HandlersClean'
  BY <1>0, <1>1 DEF HandlersClean, GrpcStopped, agentVars, storeVars
<1> QED
  BY <1>3, <1>4, <1>5, <1>6 DEF IInv

\* Every step keeps the invariant.
LEMMA InvNext == IInv /\ [Next]_vars => IInv'
<1> SUFFICES ASSUME IInv, [Next]_vars PROVE IInv'
  OBVIOUS
<1>1. CASE UNCHANGED vars
  BY <1>1 DEF vars, mainVars, agentVars, storeVars, IInv, TypeOK, StagesInTime, WaitedFor,
              HandlersClean, GrpcStopped
<1>2. CASE Next
  BY <1>2, MainKeeps, RequestsKeep, AgentsKeep, SavesKeep DEF Next, StreamStep
<1> QED
  BY <1>1, <1>2

\* The clock, the stages and the agents stay in step for any waiting times.
THEOREM Invariance == Spec => []IInv
BY InvInit, InvNext, PTL DEF Spec

\* Every variable keeps its type; the clock never passes the sum of the three waits.
THEOREM TypeCorrect == Spec => []TypeOK
<1>1. IInv => TypeOK
  BY DEF IInv
<1> QED
  BY <1>1, Invariance, PTL

\* A process that ends by itself has no agent online and no task assigned among those
\* whose last hello came to the defer, and says so in the file unless the last save
\* failed, as long as a handler whose stream is cut needs less time than main waits
\* for it.
THEOREM NothingIsLeftAssigned == Spec => []ExitFreesTasks
<1>1. IInv => ExitFreesTasks
  BY DEF IInv, HandlersClean, GrpcStopped, ExitFreesTasks
<1> QED
  BY <1>1, Invariance, PTL

\* systemd allows more than the HTTP server is given: when it kills, main has stopped
\* waiting for HTTP requests.
LEMMA KilledLate ==
    ASSUME HttpWait < StopSec, IInv, KilledOnlyBySlowRequest, [Next]_vars
    PROVE  KilledOnlyBySlowRequest'
<1>0. /\ clock \in Nat /\ since \in Nat /\ slowest \in Nat /\ slowest <= clock
      /\ StagesInTime /\ WaitedFor
  BY Times DEF IInv, TypeOK
<1>1. CASE Kill
  <2>1. /\ cause = "signal" /\ stage \in {"running", "http", "graceful", "forced"}
        /\ clock = StopSec /\ slowest' = slowest
    BY <1>1 DEF Kill, Ended, IInv, TypeOK
  <2>2. CASE stage \in {"running", "http"}
    BY <1>0, <2>1, <2>2, Times DEF StagesInTime
  <2>3. CASE stage = "graceful"
    BY <1>0, <2>1, <2>3, Times DEF StagesInTime, WaitedFor, KilledOnlyBySlowRequest
  <2>4. CASE stage = "forced"
    BY <1>0, <2>1, <2>4, Times DEF StagesInTime, WaitedFor, KilledOnlyBySlowRequest
  <2> QED
    BY <2>1, <2>2, <2>3, <2>4
<1>2. CASE ~Kill
  <2>1. ASSUME NEW a \in Agent, StreamStep(a)
        PROVE  stage' = stage /\ slowest' = slowest
    BY <2>1, StreamsSave
  <2>2. stage' = "killed" => stage = "killed" /\ slowest' = slowest
    BY <1>2, <2>1 DEF Next, vars, mainVars, Leave, Main, StopHttp, StopGrpc, ForceStop, GiveUp,
                      Tick, GoOn, Accept, Answer, Ended, OtherSave, StreamStep
  <2> QED
    BY <2>2 DEF KilledOnlyBySlowRequest
<1> QED
  BY <1>1, <1>2

\* As long as systemd allows more time than the HTTP server is given, it kills the
\* process only after slow HTTP requests, and a request that is cut off by the end of
\* the process has had the whole time the HTTP server allows.
THEOREM OnlySlowRequestsAreCut ==
    ASSUME HttpWait < StopSec
    PROVE  Spec => []LimitsAreFair
<1>1. Init => KilledOnlyBySlowRequest
  BY DEF Init, KilledOnlyBySlowRequest
<1>2. IInv /\ KilledOnlyBySlowRequest /\ [Next]_vars => KilledOnlyBySlowRequest'
  BY KilledLate
<1>3. IInv /\ KilledOnlyBySlowRequest => LimitsAreFair
  BY DEF IInv, WaitedFor, RequestsGetTheirTime, LimitsAreFair
<1> QED
  BY <1>1, <1>2, <1>3, Invariance, PTL DEF Spec
=============================================================================
