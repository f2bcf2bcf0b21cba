------------------------- MODULE NotifyQueueProofs --------------------------
(***************************************************************************)
(* The safety properties of NotifyQueue for every set of items, robots and *)
(* handlers and all intervals, limits and bounds.                          *)
(*                                                                         *)
(* First what the operations on the queue do to the set of queued jobs;    *)
(* then one invariant per question: types and attempts, the pauses, and    *)
(* what relates receipts, queued jobs, calls and messages taken.           *)
(***************************************************************************)
EXTENDS NotifyQueue, SequenceTheorems, FiniteSetTheorems, TLAPS

-----------------------------------------------------------------------------
(* Sequences without repetitions. *)

\* q is a queue of jobs of S, none twice.
Distinct(q, S) == q \in Seq(S) /\ IsInjective(q)

\* The elements of a sequence.
LEMMA Elements ==
    ASSUME NEW S, NEW q \in Seq(S)
    PROVE  /\ Len(q) \in Nat /\ DOMAIN q = 1..Len(q)
           /\ ToSet(q) = {q[i] : i \in 1..Len(q)}
           /\ ToSet(q) \subseteq S
BY LenProperties, ElementOfSeq DEF ToSet

\* Cutting a part out of a queue.
LEMMA SubSeqDistinct ==
    ASSUME NEW S, NEW q, Distinct(q, S), NEW m \in 1..(Len(q) + 1), NEW n \in 0..Len(q)
    PROVE  /\ Distinct(SubSeq(q, m, n), S)
           /\ ToSet(SubSeq(q, m, n)) = {q[i] : i \in m..n}
           /\ Len(SubSeq(q, m, n)) = IF m <= n THEN n - m + 1 ELSE 0
<1> DEFINE c == SubSeq(q, m, n)
<1>0. q \in Seq(S) /\ Len(q) \in Nat /\ DOMAIN q = 1..Len(q)
  BY Elements DEF Distinct
<1>1. \A i \in m..n : i \in 1..Len(q) /\ q[i] \in S
  BY <1>0, ElementOfSeq
<1>2. /\ c \in Seq(S)
      /\ Len(c) = IF m <= n THEN n - m + 1 ELSE 0
      /\ \A i \in 1..(n - m + 1) : c[i] = q[m + i - 1]
  BY <1>0, <1>1, SubSeqProperties
<1>3. DOMAIN c = 1..Len(c) /\ ToSet(c) = {c[i] : i \in 1..Len(c)}
  BY <1>2, Elements
<1> HIDE DEF c
<1>4. \A i \in 1..Len(c) : m + i - 1 \in m..n /\ c[i] = q[m + i - 1]
  BY <1>0, <1>2
<1>5. IsInjective(c)
  <2> SUFFICES ASSUME NEW a \in 1..Len(c), NEW b \in 1..Len(c), c[a] = c[b] PROVE a = b
    BY <1>3 DEF IsInjective
  <2>1. /\ m + a - 1 \in 1..Len(q) /\ m + b - 1 \in 1..Len(q)
        /\ q[m + a - 1] = q[m + b - 1]
    BY <1>1, <1>4
  <2>2. m + a - 1 = m + b - 1
    BY <1>0, <2>1 DEF Distinct, IsInjective
  <2> QED
    BY <1>0, <1>2, <2>2
<1>6. ToSet(c) \subseteq {q[i] : i \in m..n}
  BY <1>3, <1>4
<1>7. ASSUME NEW i \in m..n PROVE q[i] \in ToSet(c)
  <2>1. i - m + 1 \in 1..Len(c) /\ m + (i - m + 1) - 1 = i
    BY <1>0, <1>2
  <2> QED
    BY <1>3, <1>4, <2>1
<1> QED
  BY <1>2, <1>5, <1>6, <1>7 DEF Distinct, c

\* Joining two queues without a job in common.
LEMMA ConcatDistinct ==
    ASSUME NEW S, NEW p, NEW q, Distinct(p, S), Distinct(q, S),
           ToSet(p) \cap ToSet(q) = {}
    PROVE  /\ Distinct(p \o q, S)
           /\ \A e : e \in ToSet(p \o q) <=> e \in ToSet(p) \/ e \in ToSet(q)
<1> DEFINE c == p \o q
<1>1. /\ p \in Seq(S) /\ Len(p) \in Nat /\ DOMAIN p = 1..Len(p)
      /\ ToSet(p) = {p[i] : i \in 1..Len(p)}
      /\ q \in Seq(S) /\ Len(q) \in Nat /\ DOMAIN q = 1..Len(q)
      /\ ToSet(q) = {q[i] : i \in 1..Len(q)}
  BY Elements DEF Distinct
<1>2. /\ c \in Seq(S) /\ Len(c) = Len(p) + Len(q)
      /\ \A i \in 1..(Len(p) + Len(q)) : c[i] = IF i <= Len(p) THEN p[i] ELSE q[i - Len(p)]
  BY <1>1, ConcatProperties
<1>3. DOMAIN c = 1..Len(c) /\ ToSet(c) = {c[i] : i \in 1..Len(c)}
  BY ZenonT(40), <1>2, Elements
<1> HIDE DEF c
<1>4. \A i \in 1..Len(p) : i \in 1..Len(c) /\ c[i] = p[i] /\ c[i] \in ToSet(p)
  BY <1>1, <1>2
<1>5. ASSUME NEW i \in 1..Len(q)
      PROVE  i + Len(p) \in 1..Len(c) /\ c[i + Len(p)] = q[i]
  <2>1. /\ i + Len(p) \in 1..(Len(p) + Len(q)) /\ ~(i + Len(p) <= Len(p))
        /\ (i + Len(p)) - Len(p) = i
    BY <1>1
  <2> QED
    BY <1>2, <2>1
<1>6. \A i \in 1..Len(c) : i \in 1..Len(p) \/ (i - Len(p) \in 1..Len(q) /\ c[i] = q[i - Len(p)]
                                               /\ c[i] \in ToSet(q))
  BY <1>1, <1>2
<1>7. \A e : e \in ToSet(c) <=> e \in ToSet(p) \/ e \in ToSet(q)
  <2>1. ToSet(c) \subseteq ToSet(p) \cup ToSet(q)
    BY <1>3, <1>4, <1>6
  <2>2. ToSet(p) \subseteq ToSet(c)
    BY <1>1, <1>3, <1>4
  <2>3. ToSet(q) \subseteq ToSet(c)
    BY <1>1, <1>3, <1>5
  <2> QED
    BY <2>1, <2>2, <2>3
<1>8. IsInjective(c)
  <2> SUFFICES ASSUME NEW a \in 1..Len(c), NEW b \in 1..Len(c), c[a] = c[b] PROVE a = b
    BY <1>3 DEF IsInjective
  <2>1. CASE a \in 1..Len(p) /\ b \in 1..Len(p)
    BY <1>1, <1>4, <2>1 DEF Distinct, IsInjective
  <2>2. CASE a \notin 1..Len(p) /\ b \notin 1..Len(p)
    <3>1. a - Len(p) = b - Len(p)
      BY <1>1, <1>6, <2>2 DEF Distinct, IsInjective
    <3> QED
      BY <1>1, <1>2, <3>1
  <2>3. CASE a \in 1..Len(p) <=> b \notin 1..Len(p)
    BY <1>4, <1>6, <2>3
  <2> QED
    BY <2>1, <2>2, <2>3
<1> QED
  BY <1>2, <1>7, <1>8 DEF Distinct, c

\* A queue of one job.
LEMMA OneDistinct ==
    ASSUME NEW S, NEW j \in S PROVE Distinct(<<j>>, S) /\ ToSet(<<j>>) = {j}
BY DEF Distinct, IsInjective, ToSet

\* Joining three queues without a job in common.
LEMMA ConcatThree ==
    ASSUME NEW S, NEW a, NEW x, NEW b,
           Distinct(a, S), Distinct(x, S), Distinct(b, S),
           ToSet(a) \cap ToSet(x) = {}, ToSet(a) \cap ToSet(b) = {},
           ToSet(x) \cap ToSet(b) = {}
    PROVE  /\ Distinct(a \o x \o b, S)
           /\ \A e : e \in ToSet(a \o x \o b)
                     <=> e \in ToSet(a) \/ e \in ToSet(x) \/ e \in ToSet(b)
<1> DEFINE ax == a \o x
<1>1. Distinct(ax, S)
  BY ConcatDistinct
<1>2. ToSet(ax) = ToSet(a) \cup ToSet(x)
  BY ZenonT(40), ConcatDistinct
<1>3. ToSet(ax) \cap ToSet(b) = {}
  BY <1>2
<1> HIDE DEF ax
<1>4. Distinct(ax \o b, S)
  BY <1>1, <1>3, ConcatDistinct
<1>5. ToSet(ax \o b) = ToSet(ax) \cup ToSet(b)
  BY <1>1, <1>3, ConcatDistinct
<1> QED
  BY <1>2, <1>4, <1>5 DEF ax

\* Putting a queue into another at place n + 1.
LEMMA PutInDistinct ==
    ASSUME NEW S, NEW q, Distinct(q, S), NEW x, Distinct(x, S),
           ToSet(x) \cap ToSet(q) = {}, NEW n \in 0..Len(q)
    PROVE  LET c == SubSeq(q, 1, n) \o x \o SubSeq(q, n + 1, Len(q))
           IN  Distinct(c, S) /\ ToSet(c) = ToSet(q) \cup ToSet(x)
<1> DEFINE a == SubSeq(q, 1, n)
           b == SubSeq(q, n + 1, Len(q))
<1>0. /\ Len(q) \in Nat /\ DOMAIN q = 1..Len(q) /\ ToSet(q) = {q[i] : i \in 1..Len(q)}
      /\ \A i, k \in 1..Len(q) : q[i] = q[k] => i = k
  BY Elements DEF Distinct, IsInjective
<1>1. Distinct(a, S) /\ ToSet(a) = {q[i] : i \in 1..n}
  <2>1. 1 \in 1..(Len(q) + 1)
    BY <1>0
  <2> QED
    BY <2>1, SubSeqDistinct
<1>2. Distinct(b, S) /\ ToSet(b) = {q[i] : i \in (n + 1)..Len(q)}
  <2>1. n + 1 \in 1..(Len(q) + 1) /\ Len(q) \in 0..Len(q)
    BY <1>0
  <2> QED
    BY SMTT(30), <2>1, SubSeqDistinct
<1> HIDE DEF a, b
<1>3. ToSet(a) \cap ToSet(b) = {}
  <2>1. ASSUME NEW i \in 1..n, NEW k \in (n + 1)..Len(q) PROVE q[i] # q[k]
    BY <1>0
  <2> QED
    BY <1>1, <1>2, <2>1
<1>4. ToSet(q) = ToSet(a) \cup ToSet(b)
  <2>1. \A i \in 1..Len(q) : i \in 1..n \/ i \in (n + 1)..Len(q)
    BY <1>0
  <2>2. (1..n) \subseteq 1..Len(q) /\ ((n + 1)..Len(q)) \subseteq 1..Len(q)
    BY <1>0
  <2> QED
    BY <1>0, <1>1, <1>2, <2>1, <2>2
<1>5. ToSet(a) \cap ToSet(x) = {} /\ ToSet(x) \cap ToSet(b) = {}
  BY <1>4
<1>6. Distinct(a \o x \o b, S)
  BY <1>1, <1>2, <1>3, <1>5, ConcatThree
<1>7. ToSet(a \o x \o b) = ToSet(a) \cup ToSet(x) \cup ToSet(b)
  BY <1>1, <1>2, <1>3, <1>5, ConcatThree
<1> QED
  BY <1>4, <1>6, <1>7 DEF a, b

\* Taking a job out of its queue, as Unqueue does.
LEMMA RemoveDistinct ==
    ASSUME NEW S, NEW q, Distinct(q, S), NEW j \in ToSet(q)
    PROVE  LET c == RemoveAt(q, CHOOSE k \in DOMAIN q : q[k] = j)
           IN  Distinct(c, S) /\ ToSet(c) = ToSet(q) \ {j}
<1> DEFINE i == CHOOSE k \in DOMAIN q : q[k] = j
<1>0. /\ Len(q) \in Nat /\ DOMAIN q = 1..Len(q) /\ ToSet(q) = {q[k] : k \in 1..Len(q)}
      /\ \A h, k \in 1..Len(q) : q[h] = q[k] => h = k
  BY Elements DEF Distinct, IsInjective
<1>1. \E k \in DOMAIN q : q[k] = j
  BY <1>0
<1>2. i \in 1..Len(q) /\ q[i] = j
  BY <1>0, <1>1
<1> HIDE DEF i
<1> DEFINE a == SubSeq(q, 1, i - 1)
           b == SubSeq(q, i + 1, Len(q))
<1>3. Distinct(a, S) /\ ToSet(a) = {q[k] : k \in 1..(i - 1)}
  <2>1. 1 \in 1..(Len(q) + 1) /\ i - 1 \in 0..Len(q)
    BY <1>0, <1>2
  <2> QED
    BY <2>1, SubSeqDistinct
<1>4. Distinct(b, S) /\ ToSet(b) = {q[k] : k \in (i + 1)..Len(q)}
  <2>1. i + 1 \in 1..(Len(q) + 1) /\ Len(q) \in 0..Len(q)
    BY <1>0, <1>2
  <2> QED
    BY <2>1, SubSeqDistinct
<1> HIDE DEF a, b
<1>5. ToSet(a) \cap ToSet(b) = {}
  <2>1. ASSUME NEW h \in 1..(i - 1), NEW k \in (i + 1)..Len(q) PROVE q[h] # q[k]
    BY <1>0, <1>2
  <2> QED
    BY <1>3, <1>4, <2>1
<1>6. ToSet(q) \ {j} = ToSet(a) \cup ToSet(b)
  <2>1. \A k \in 1..Len(q) : k = i \/ k \in 1..(i - 1) \/ k \in (i + 1)..Len(q)
    BY <1>0, <1>2
  <2>2. \A k \in (1..(i - 1)) \cup ((i + 1)..Len(q)) : k \in 1..Len(q) /\ q[k] # j
    BY <1>0, <1>2
  <2> QED
    BY <1>0, <1>2, <1>3, <1>4, <2>1, <2>2
<1>7. Distinct(a \o b, S)
  BY <1>3, <1>4, <1>5, ConcatDistinct
<1>8. ToSet(a \o b) = ToSet(a) \cup ToSet(b)
  BY <1>3, <1>4, <1>5, ConcatDistinct
<1> QED
  BY <1>6, <1>7, <1>8 DEF RemoveAt, a, b, i

\* Reading the head of a queue.
LEMMA TailDistinct ==
    ASSUME NEW S, NEW q, Distinct(q, S), q # <<>>
    PROVE  /\ Distinct(Tail(q), S) /\ Head(q) \in S
           /\ ToSet(q) = {Head(q)} \cup ToSet(Tail(q)) /\ Head(q) \notin ToSet(Tail(q))
<1> DEFINE c == Tail(q)
<1>0. /\ q \in Seq(S) /\ Len(q) \in Nat \ {0} /\ DOMAIN q = 1..Len(q)
      /\ ToSet(q) = {q[k] : k \in 1..Len(q)}
      /\ \A h, k \in 1..Len(q) : q[h] = q[k] => h = k
  BY Elements, EmptySeq DEF Distinct, IsInjective
<1>1. /\ c \in Seq(S) /\ Len(c) = Len(q) - 1 /\ Head(q) = q[1] /\ Head(q) \in S
      /\ \A k \in 1..Len(c) : c[k] = q[k + 1]
  BY <1>0, HeadTailProperties
<1>2. DOMAIN c = 1..Len(c) /\ ToSet(c) = {c[k] : k \in 1..Len(c)}
  BY <1>1, Elements
<1> HIDE DEF c
<1>3. \A k \in 1..Len(c) : k + 1 \in 1..Len(q) /\ c[k] = q[k + 1] /\ c[k] # q[1]
  BY <1>0, <1>1
<1>4. IsInjective(c)
  <2> SUFFICES ASSUME NEW h \in 1..Len(c), NEW k \in 1..Len(c), c[h] = c[k] PROVE h = k
    BY <1>2 DEF IsInjective
  <2>1. h + 1 = k + 1
    BY <1>0, <1>3
  <2> QED
    BY <1>0, <1>1, <2>1
<1>5. ASSUME NEW k \in 1..Len(q) PROVE q[k] \in {Head(q)} \cup ToSet(c)
  <2>1. CASE k = 1
    BY <1>1, <2>1
  <2>2. CASE k # 1
    <3>1. k - 1 \in 1..Len(c) /\ c[k - 1] = q[k]
      BY <1>0, <1>1, <2>2
    <3> QED
      BY <1>2, <3>1
  <2> QED
    BY <2>1, <2>2
<1>6. ToSet(c) \subseteq ToSet(q) /\ Head(q) \in ToSet(q) /\ Head(q) \notin ToSet(c)
  BY <1>0, <1>1, <1>2, <1>3
<1> QED
  BY <1>0, <1>1, <1>4, <1>5, <1>6 DEF Distinct, c

\* Listing a finite set as a queue.
LEMMA ListDistinct ==
    ASSUME NEW S, NEW T \in SUBSET S, IsFiniteSet(T)
    PROVE  Distinct(SetToSeq(T), S) /\ ToSet(SetToSeq(T)) \subseteq T
<1> DEFINE n == Cardinality(T)
           f == SetToSeq(T)
<1>1. n \in Nat /\ \E g \in [1..n -> T] : IsInjective(g)
  BY FS_CardinalityType DEF ExistsBijection, Bijection, Injection
<1>2. f \in [1..n -> T] /\ IsInjective(f)
  BY <1>1 DEF SetToSeq
<1>3. f \in Seq(S)
  BY <1>1, <1>2
<1> QED
  BY <1>2, <1>3 DEF Distinct, ToSet

-----------------------------------------------------------------------------
(* Types, calls and passes. *)

\* A handler's call is about the robots that want its item.
CallsRight == \A h \in Handler : call[h] # NoCall =>
    /\ call[h].todo \cup call[h].unsent \subseteq Wants[call[h].item]
    /\ call[h].picked \subseteq JobsOf(call[h].item)

\* What a pass has before it, and what it sends, is queued: nobody else takes a job
\* out of the queue.
PassRight ==
    /\ Distinct(batch, Job)
    /\ ToSet(batch) \subseteq ToSet(queue)
    /\ sending # NoJob => sending \in ToSet(queue) /\ sending \notin ToSet(batch)

TypeInv == TypeOK /\ CallsRight /\ PassRight

\* The attempts left, in a queue and the attempts that belong to it.
AttemptsLeft(q, a) == MaxAttempts > 0 => \A j \in ToSet(q) : a[j] < MaxAttempts

AttemptsInv == AttemptsLeft(queue, attempts) /\ AttemptsLeft(disk.queue, disk.attempts)

\* A robot the pass still owes a message is one it can send to, and has a job before
\* the pass; the robot it is sending to is no longer owed one.
OwedInv ==
    /\ \A r \in owed : /\ r \in enabled /\ pause[r] = 0
                       /\ \E j \in ToSet(batch) : RobotOf(j) = r
    /\ sending # NoJob => RobotOf(sending) \notin owed

\* A robot's pause is at least what min_interval still asks for.  While the robot has
\* taken the message being sent, its pause is set when the request ends.
Settled(r) == ~(sending # NoJob /\ answered /\ RobotOf(sending) = r)

PaceInv == faults = 0 => \A r \in Robot :
    /\ Settled(r) => since[r] + pause[r] >= MinInterval
    /\ ~Settled(r) => since[r] >= MinInterval \/ since[r] >= elapsed

\* While a handler's call is on its way no job of its item is queued and no other
\* call is about it, so the receipts it did not find are still missing.
CallsAlone == \A h \in Handler : call[h] # NoCall =>
    /\ \A j \in JobsOf(call[h].item) : ~Queued(j)
    /\ \A g \in Handler : call[g].item = call[h].item => g = h
    /\ \A r \in call[h].unsent : <<call[h].item, r>> \notin receipts
    /\ call[h].picked \cap receipts = {}

\* A job without a receipt has reached its robot only through faults, except the one
\* whose answer is on its way.
Counted == \A j \in Job :
    /\ sent[j] <= 1 + faults
    /\ j \notin receipts /\ ~(sending = j /\ answered) => sent[j] <= faults

OnceInv ==
    /\ CallsAlone
    /\ receipts \cap ToSet(queue) = {}
    /\ disk.receipts \cap ToSet(disk.queue) = {}
    /\ Counted

-----------------------------------------------------------------------------
(* The operators of the model. *)

\* The lesser and the greater of two numbers.
LEMMA MinMaxOfTwo ==
    ASSUME NEW a \in Nat, NEW b \in Nat
    PROVE  /\ Min({a, b}) = IF a <= b THEN a ELSE b
           /\ Max({a, b}) = IF a <= b THEN b ELSE a
<1>1. \E x \in {a, b} : \A y \in {a, b} : x <= y
  BY SMT
<1>2. \E x \in {a, b} : \A y \in {a, b} : x >= y
  BY SMT
<1> QED
  BY <1>1, <1>2 DEF Min, Max

\* Each interval is a time a job or a robot may wait.
LEMMA LongestBounds ==
    /\ Longest \in Nat
    /\ \A d \in {MinInterval, RetryInterval, LimitedInterval} : d \in 1..Longest
<1> DEFINE T == {MinInterval, RetryInterval, LimitedInterval}
<1>1. T \subseteq Nat \ {0}
  BY NotifyAssumption
<1>2. \E x \in T : \A y \in T : x >= y
  BY <1>1
<1>3. Longest \in T /\ \A y \in T : Longest >= y
  BY <1>2 DEF Longest, Max
<1> QED
  BY <1>1, <1>3

\* As many jobs as are due is a place in the queue.
LEMMA DuePlace ==
    ASSUME NEW q \in Seq(Job), NEW w PROVE DueWithin(q, w) \in 0..Len(q)
<1> DEFINE D == {k \in DOMAIN q : wait[q[k]] <= w}
<1>1. Len(q) \in Nat /\ DOMAIN q = 1..Len(q)
  BY Elements
<1>2. IsFiniteSet(1..Len(q)) /\ Cardinality(1..Len(q)) = Len(q)
  BY SMTT(30), <1>1, FS_Interval
<1>3. D \subseteq 1..Len(q)
  BY <1>1
<1>4. Cardinality(D) <= Len(q) /\ Cardinality(D) \in Nat
  BY <1>2, <1>3, FS_Subset, FS_CardinalityType
<1> QED
  BY <1>1, <1>4 DEF DueWithin

\* The queue of a state is a queue without repetitions.
LEMMA QueueDistinct == TypeOK => Distinct(queue, Job)
BY DEF TypeOK, memory, Tables, Distinct

\* Unqueue takes out the job and nothing else.
LEMMA UnqueueHeld ==
    ASSUME TypeOK, NEW j \in ToSet(queue)
    PROVE  /\ Distinct(Unqueue(j), Job)
           /\ \A e : e \in ToSet(Unqueue(j)) <=> e \in ToSet(queue) /\ e # j
BY QueueDistinct, RemoveDistinct DEF Unqueue

\* A job that is put off stays in the queue.
LEMMA PutOffHeld ==
    ASSUME TypeOK, NEW j \in ToSet(queue), NEW d
    PROVE  /\ Distinct(InsertByWait(Unqueue(j), j, d), Job)
           /\ \A e : e \in ToSet(InsertByWait(Unqueue(j), j, d)) <=> e \in ToSet(queue)
<1> DEFINE u == Unqueue(j)
           n == DueWithin(u, d)
<1>1. Distinct(u, Job) /\ \A e : e \in ToSet(u) <=> e \in ToSet(queue) /\ e # j
  BY UnqueueHeld
<1>2. n \in 0..Len(u) /\ Len(u) \in Nat
  BY <1>1, DuePlace, Elements DEF Distinct
<1>3. j \in Job
  BY QueueDistinct, Elements DEF Distinct
<1>4. Distinct(<<j>>, Job) /\ ToSet(<<j>>) = {j}
  BY <1>3, OneDistinct
<1> HIDE DEF u, n
<1> DEFINE c == SubSeq(u, 1, n) \o <<j>> \o SubSeq(u, n + 1, Len(u))
<1>5. ToSet(<<j>>) \cap ToSet(u) = {}
  BY <1>1, <1>4
<1>6. Distinct(c, Job) /\ ToSet(c) = ToSet(u) \cup ToSet(<<j>>)
  BY <1>1, <1>2, <1>4, <1>5, PutInDistinct
<1>7. c = InsertAt(u, n + 1, j)
  <2>1. (n + 1) - 1 = n
    BY <1>2
  <2> QED
    BY <2>1 DEF InsertAt
<1> HIDE DEF c
<1>8. \A e : e \in ToSet(c) <=> e \in ToSet(queue)
  BY <1>1, <1>4, <1>6
<1> QED
  BY <1>6, <1>7, <1>8 DEF InsertByWait, u, n

\* EnqueueNotificationJobs adds jobs that were not queued.
LEMMA EnqueueHeld ==
    ASSUME TypeOK, NEW T \in SUBSET Job, IsFiniteSet(T), T \cap ToSet(queue) = {}
    PROVE  LET n == DueWithin(queue, 0)
               c == SubSeq(queue, 1, n) \o SetToSeq(T) \o SubSeq(queue, n + 1, Len(queue))
           IN  /\ Distinct(c, Job)
               /\ \A e \in ToSet(queue) : e \in ToSet(c)
               /\ \A e \in ToSet(c) : e \in ToSet(queue) \/ e \in T
<1> DEFINE n == DueWithin(queue, 0)
           x == SetToSeq(T)
           c == SubSeq(queue, 1, n) \o x \o SubSeq(queue, n + 1, Len(queue))
<1>1. Distinct(queue, Job)
  BY QueueDistinct
<1>2. n \in 0..Len(queue)
  BY <1>1, DuePlace DEF Distinct
<1>3. Distinct(x, Job) /\ ToSet(x) \subseteq T
  BY ListDistinct
<1> HIDE DEF n, x
<1>4. ToSet(x) \cap ToSet(queue) = {}
  BY <1>3
<1>5. Distinct(c, Job) /\ ToSet(c) = ToSet(queue) \cup ToSet(x)
  BY <1>1, <1>2, <1>3, <1>4, PutInDistinct
<1> HIDE DEF c
<1>6. /\ \A e \in ToSet(queue) : e \in ToSet(c)
      /\ \A e \in ToSet(c) : e \in ToSet(queue) \/ e \in T
  BY <1>3, <1>5
<1> QED
  BY <1>5, <1>6 DEF c, n, x

-----------------------------------------------------------------------------
(* What the calls of the store do to the tables. *)

\* MarkNotificationJobFailed takes the job out and counts the attempt.
LEMMA MarkFailedEffect ==
    ASSUME TypeOK, NEW j \in ToSet(queue), MarkFailed(j)
    PROVE  /\ memory' \in Tables /\ IsInjective(queue')
           /\ \A e : e \in ToSet(queue') <=> e \in ToSet(queue) /\ e # j
<1>1. queue \in Seq(Job) /\ j \in Job
  BY QueueDistinct, Elements DEF Distinct
<1>2. Distinct(queue', Job) /\ \A e : e \in ToSet(queue') <=> e \in ToSet(queue) /\ e # j
  BY UnqueueHeld DEF MarkFailed
<1>3. attempts' \in [Job -> Nat] /\ failed' \in SUBSET Job
  BY SMTT(30), <1>1 DEF MarkFailed, TypeOK, memory, Tables
<1>4. wait' \in [Job -> 0..Longest] /\ receipts' \in SUBSET Job /\ pause' \in [Robot -> 0..Longest]
  BY DEF MarkFailed, TypeOK, memory, Tables
<1> QED
  BY <1>2, <1>3, <1>4 DEF memory, Tables, Distinct

\* MarkNotificationJobDelivered takes the job out and lets its robot pause.
LEMMA MarkDeliveredEffect ==
    ASSUME TypeOK, NEW j \in ToSet(queue), MarkDelivered(j), UNCHANGED <<wait, failed>>
    PROVE  /\ memory' \in Tables /\ IsInjective(queue')
           /\ \A e : e \in ToSet(queue') <=> e \in ToSet(queue) /\ e # j
           /\ pause' = [pause EXCEPT ![RobotOf(j)] =
                           IF elapsed <= MinInterval THEN MinInterval - elapsed ELSE 0]
<1>1. j \in Job /\ RobotOf(j) \in Robot
  BY QueueDistinct, Elements, NotifyAssumption DEF Distinct, Job, RobotOf
<1>2. Distinct(queue', Job) /\ \A e : e \in ToSet(queue') <=> e \in ToSet(queue) /\ e # j
  BY UnqueueHeld DEF MarkDelivered
<1>3. attempts' \in [Job -> Nat] /\ receipts' \in SUBSET Job
  BY <1>1 DEF MarkDelivered, TypeOK, memory, Tables
<1>4. MinInterval \in Nat /\ MinInterval <= Longest /\ Longest \in Nat
  BY LongestBounds
<1>5. elapsed \in Nat
  BY NotifyAssumption DEF TypeOK
<1>6. Min({elapsed, MinInterval}) = IF elapsed <= MinInterval THEN elapsed ELSE MinInterval
  BY <1>4, <1>5, MinMaxOfTwo
<1>7. MinInterval - Min({elapsed, MinInterval})
        = IF elapsed <= MinInterval THEN MinInterval - elapsed ELSE 0
  BY <1>4, <1>5, <1>6
<1>8. pause' = [pause EXCEPT ![RobotOf(j)] =
                           IF elapsed <= MinInterval THEN MinInterval - elapsed ELSE 0]
  BY <1>7 DEF MarkDelivered
<1> DEFINE v == IF elapsed <= MinInterval THEN MinInterval - elapsed ELSE 0
<1>9. pause' \in [Robot -> 0..Longest]
  <2>1. v \in 0..Longest
    BY <1>4, <1>5
  <2>2. pause' = [pause EXCEPT ![RobotOf(j)] = v] /\ pause \in [Robot -> 0..Longest]
    BY <1>8 DEF TypeOK, memory, Tables
  <2> HIDE DEF v
  <2> QED
    BY <2>1, <2>2
<1>10. wait' \in [Job -> 0..Longest] /\ failed' \in SUBSET Job
  BY DEF TypeOK, memory, Tables
<1> QED
  BY <1>2, <1>3, <1>8, <1>9, <1>10 DEF memory, Tables, Distinct

\* RescheduleNotificationJob keeps the job and never shortens a pause.
LEMMA RescheduleEffect ==
    ASSUME TypeOK, NEW j \in ToSet(queue), NEW d \in {RetryInterval, LimitedInterval},
           Reschedule(j, d)
    PROVE  /\ memory' \in Tables /\ IsInjective(queue')
           /\ \A e : e \in ToSet(queue') <=> e \in ToSet(queue)
           /\ pause' = [pause EXCEPT ![RobotOf(j)] = IF @ <= d THEN d ELSE @]
<1>1. j \in Job /\ RobotOf(j) \in Robot
  BY QueueDistinct, Elements, NotifyAssumption DEF Distinct, Job, RobotOf
<1>2. Distinct(queue', Job) /\ \A e : e \in ToSet(queue') <=> e \in ToSet(queue)
  BY PutOffHeld DEF Reschedule
<1>3. d \in 1..Longest /\ Longest \in Nat
  BY LongestBounds
<1>4. attempts' \in [Job -> Nat] /\ wait' \in [Job -> 0..Longest]
  <2>1. attempts' = [attempts EXCEPT ![j] = @ + 1] /\ attempts \in [Job -> Nat]
    BY DEF Reschedule, TypeOK, memory, Tables
  <2>2. wait' = [wait EXCEPT ![j] = d] /\ wait \in [Job -> 0..Longest] /\ d \in 0..Longest
    BY <1>3 DEF Reschedule, TypeOK, memory, Tables
  <2> QED
    BY <1>1, <2>1, <2>2
<1> DEFINE p == pause[RobotOf(j)]
           v == IF p <= d THEN d ELSE p
<1>5. p \in 0..Longest /\ p \in Nat /\ d \in Nat
  BY <1>1, <1>3 DEF TypeOK, memory, Tables
<1>6. Max({p, d}) = v /\ v \in 0..Longest
  <2> HIDE DEF p
  <2>1. Max({p, d}) = IF p <= d THEN d ELSE p
    BY <1>5, MinMaxOfTwo
  <2> QED
    BY <1>3, <1>5, <2>1
<1>7. pause' = [pause EXCEPT ![RobotOf(j)] = v]
  BY <1>6 DEF Reschedule
<1>8. pause' \in [Robot -> 0..Longest]
  <2>1. pause \in [Robot -> 0..Longest]
    BY DEF TypeOK, memory, Tables
  <2> HIDE DEF v
  <2> QED
    BY <1>6, <1>7, <2>1
<1>9. failed' \in SUBSET Job /\ receipts' \in SUBSET Job
  BY DEF Reschedule, TypeOK, memory, Tables
<1> QED
  BY <1>2, <1>4, <1>7, <1>8, <1>9 DEF memory, Tables, Distinct

\* EnqueueNotificationJobs adds jobs of the call that were not queued.
LEMMA EnqueueEffect ==
    ASSUME TypeInv, NEW h \in Handler, Enqueue(h)
    PROVE  /\ memory' \in Tables /\ IsInjective(queue')
           /\ \A e \in ToSet(queue) : e \in ToSet(queue')
           /\ \A e \in ToSet(queue') : \/ e \in ToSet(queue)
                                       \/ e \in call[h].picked /\ attempts'[e] = 0
           /\ \A e \in ToSet(queue) : attempts'[e] = attempts[e]
<1> DEFINE T == {j \in call[h].picked : ~Queued(j)}
<1>1. TypeOK /\ call[h] \in Call
  BY DEF TypeInv, TypeOK, Enqueue
<1>2. T \in SUBSET Job /\ T \cap ToSet(queue) = {}
  BY <1>1 DEF Call, Queued
<1>3. IsFiniteSet(T)
  <2>1. T \subseteq {call[h].item} \X Robot
    BY <1>1 DEF TypeInv, CallsRight, Enqueue, Call, JobsOf, Job
  <2>2. IsFiniteSet({call[h].item}) /\ IsFiniteSet(Robot)
    BY FS_Singleton, NotifyAssumption
  <2>3. IsFiniteSet({call[h].item} \X Robot)
    BY <2>2, FS_Product
  <2> QED
    BY <2>1, <2>3, FS_Subset
<1>4. /\ wait' = [j \in Job |-> IF j \in T THEN 0 ELSE wait[j]]
      /\ attempts' = [j \in Job |-> IF j \in T THEN 0 ELSE attempts[j]]
      /\ failed' = failed \ T
      /\ UNCHANGED <<receipts, pause>>
  BY DEF Enqueue
<1>5. /\ Distinct(queue', Job)
      /\ \A e \in ToSet(queue) : e \in ToSet(queue')
      /\ \A e \in ToSet(queue') : e \in ToSet(queue) \/ e \in T
  <2>1. queue' = SubSeq(queue, 1, DueWithin(queue, 0)) \o SetToSeq(T)
                    \o SubSeq(queue, DueWithin(queue, 0) + 1, Len(queue))
    BY DEF Enqueue
  <2> HIDE DEF T
  <2> QED
    BY <1>1, <1>2, <1>3, <2>1, EnqueueHeld
<1>6. ToSet(queue) \subseteq Job /\ ToSet(queue') \subseteq Job
  BY <1>1, <1>5, QueueDistinct, Elements DEF Distinct
<1>7. T \subseteq call[h].picked
  OBVIOUS
<1> HIDE DEF T
<1>8. wait' \in [Job -> 0..Longest] /\ attempts' \in [Job -> Nat] /\ failed' \in SUBSET Job
  BY <1>1, <1>4, LongestBounds DEF TypeOK, memory, Tables
<1>9. receipts' \in SUBSET Job /\ pause' \in [Robot -> 0..Longest]
  BY <1>1, <1>4 DEF TypeOK, memory, Tables
<1>10. memory' \in Tables
  BY <1>5, <1>8, <1>9 DEF memory, Tables, Distinct
<1>11. \A e \in ToSet(queue) : attempts'[e] = attempts[e]
  BY <1>2, <1>4, <1>6
<1>12. ASSUME NEW e \in ToSet(queue'), e \notin ToSet(queue)
       PROVE  e \in call[h].picked /\ attempts'[e] = 0
  <2>1. e \in T /\ e \in Job
    BY <1>5, <1>6, <1>12
  <2> QED
    BY <1>4, <1>7, <2>1
<1> QED
  BY <1>5, <1>10, <1>11, <1>12 DEF Distinct

-----------------------------------------------------------------------------
(* What the steps of notifyTaskEvent do to their call. *)

\* No call has the item of NoCall.
LEMMA CallIsNotNoCall == \A c \in Call : c # NoCall /\ c.item \in Item
BY NotifyAssumption DEF Call, NoCall

\* Calls with the same fields are the same.
LEMMA SameCall ==
    ASSUME NEW x \in Call, NEW y \in Call, x.item = y.item, x.todo = y.todo,
           x.unsent = y.unsent, x.picked = y.picked
    PROVE  x = y
BY DEF Call

\* Begin starts with every enabled robot that wants the item.
LEMMA BeginEffect ==
    ASSUME TypeOK, NEW h \in Handler, Begin(h)
    PROVE  \E c \in Call :
              /\ call' = [call EXCEPT ![h] = c]
              /\ c.todo \subseteq Wants[c.item] /\ c.unsent = {} /\ c.picked = {}
              /\ ~RepeatWhileQueued => /\ \A g \in Handler : call[g].item # c.item
                                       /\ \A j \in JobsOf(c.item) : ~Queued(j)
<1>1. PICK i \in Item :
         /\ RepeatWhileQueued \/ /\ \A g \in Handler : call[g].item # i
                                 /\ \A j \in JobsOf(i) : ~Queued(j)
         /\ call' = [call EXCEPT ![h] =
               [item |-> i, todo |-> Wants[i] \cap enabled, unsent |-> {}, picked |-> {}]]
  BY DEF Begin
<1> DEFINE c == [item |-> i, todo |-> Wants[i] \cap enabled, unsent |-> {}, picked |-> {}]
<1>2. c \in Call /\ c.item = i /\ c.todo \subseteq Wants[i] /\ c.unsent = {} /\ c.picked = {}
  BY NotifyAssumption DEF Call
<1>3. call' = [call EXCEPT ![h] = c]
  BY <1>1
<1> HIDE DEF c
<1> QED
  BY <1>1, <1>2, <1>3

\* CheckReceipt looks for the receipt of one robot.
LEMMA CheckReceiptEffect ==
    ASSUME TypeInv, NEW h \in Handler, CheckReceipt(h)
    PROVE  /\ call[h] \in Call
           /\ \E c \in Call :
                 /\ call' = [call EXCEPT ![h] = c]
                 /\ c.item = call[h].item /\ c.picked = call[h].picked
                 /\ c.todo \cup c.unsent \subseteq Wants[c.item]
                 /\ \A r \in c.unsent : <<c.item, r>> \notin receipts
<1>1. call \in [Handler -> Call \cup {NoCall}] /\ call[h] # NoCall
  BY DEF TypeInv, TypeOK, CheckReceipt, NoCall
<1>2. call[h] \in Call
  BY <1>1
<1>3. PICK r \in call[h].todo :
         call' = [call EXCEPT ![h].todo = @ \ {r},
                              ![h].unsent = IF HasTaskEventNotification(<<call[h].item, r>>)
                                            THEN {} ELSE {r}]
  <2>1. \E x \in call[h].todo : TRUE
    BY DEF CheckReceipt
  <2>2. (CHOOSE x \in call[h].todo : TRUE) \in call[h].todo
    BY <2>1
  <2> QED
    BY <2>2 DEF CheckReceipt
<1> DEFINE u == IF <<call[h].item, r>> \in receipts THEN {} ELSE {r}
           c == [item |-> call[h].item, todo |-> call[h].todo \ {r}, unsent |-> u,
                 picked |-> call[h].picked]
<1>4. call' = [call EXCEPT ![h] = [[call[h] EXCEPT !.todo = @ \ {r}] EXCEPT !.unsent = u]]
  BY <1>1, <1>3 DEF HasTaskEventNotification
<1>6. call[h].todo \subseteq Wants[call[h].item] /\ call[h].todo \subseteq Robot
  BY <1>1, <1>2 DEF TypeInv, CallsRight, Call
<1>7. u \subseteq {r} /\ \A x \in u : <<call[h].item, x>> \notin receipts
  OBVIOUS
<1>8. c \in Call
  <2>1. u \subseteq Robot
    BY <1>6, <1>7
  <2> HIDE DEF u
  <2> QED
    BY <1>2, <2>1 DEF Call
<1>9. /\ c.item = call[h].item /\ c.picked = call[h].picked
      /\ c.todo \cup c.unsent \subseteq Wants[c.item]
      /\ \A x \in c.unsent : <<c.item, x>> \notin receipts
  <2> HIDE DEF u
  <2> QED
    BY <1>6, <1>7
<1>10. [[call[h] EXCEPT !.todo = @ \ {r}] EXCEPT !.unsent = u] = c
  <2> DEFINE x == [[call[h] EXCEPT !.todo = @ \ {r}] EXCEPT !.unsent = u]
  <2>1. u \subseteq Robot
    BY <1>6, <1>7
  <2> HIDE DEF u
  <2>2. x \in Call /\ x.item = c.item /\ x.todo = c.todo /\ x.unsent = c.unsent
        /\ x.picked = c.picked
    BY <1>2, <2>1 DEF Call
  <2> HIDE DEF x, c
  <2>3. x = c
    BY <1>8, <2>2, SameCall
  <2> QED
    BY <2>3 DEF x
<1>11. call' = [call EXCEPT ![h] = c]
  BY <1>4, <1>10
<1> HIDE DEF c, u
<1> QED
  BY <1>2, <1>8, <1>9, <1>11

\* CheckQueued picks that robot's job unless it is queued.
LEMMA CheckQueuedEffect ==
    ASSUME TypeInv, NEW h \in Handler, CheckQueued(h)
    PROVE  /\ call[h] \in Call
           /\ \E c \in Call :
                 /\ call' = [call EXCEPT ![h] = c]
                 /\ c.item = call[h].item /\ c.todo = call[h].todo /\ c.unsent = {}
                 /\ \A j \in c.picked : \/ j \in call[h].picked
                                        \/ \E r \in call[h].unsent : j = <<c.item, r>>
<1>1. call \in [Handler -> Call \cup {NoCall}] /\ call[h] # NoCall
  BY DEF TypeInv, TypeOK, CheckQueued, NoCall
<1>2. call[h] \in Call
  BY <1>1
<1>3. PICK r \in call[h].unsent :
         LET j == <<call[h].item, r>>
         IN  call' = [call EXCEPT ![h].unsent = {},
                                  ![h].picked = IF Queued(j) THEN @ ELSE @ \cup {j}]
  BY DEF CheckQueued
<1> DEFINE j == <<call[h].item, r>>
           p == IF Queued(j) THEN call[h].picked ELSE call[h].picked \cup {j}
           c == [item |-> call[h].item, todo |-> call[h].todo, unsent |-> {}, picked |-> p]
<1>4. call' = [call EXCEPT ![h] = [[call[h] EXCEPT !.unsent = {}] EXCEPT !.picked = p]]
  <2>1. [call[h] EXCEPT !.unsent = {}].picked = call[h].picked
    BY <1>2 DEF Call
  <2> QED
    BY <1>1, <1>3, <2>1
<1>6. j \in Job
  BY <1>1, <1>2 DEF TypeInv, CallsRight, Call, Job
<1>7. c \in Call
  <2>1. p \subseteq Job
    BY <1>2, <1>6 DEF Call
  <2> HIDE DEF p
  <2> QED
    BY <1>2, <2>1 DEF Call
<1>8. /\ c.item = call[h].item /\ c.todo = call[h].todo /\ c.unsent = {}
      /\ \A e \in c.picked : e \in call[h].picked \/ e = <<c.item, r>>
  OBVIOUS
<1>9. [[call[h] EXCEPT !.unsent = {}] EXCEPT !.picked = p] = c
  <2> DEFINE x == [[call[h] EXCEPT !.unsent = {}] EXCEPT !.picked = p]
  <2>1. p \subseteq Job
    BY <1>2, <1>6 DEF Call
  <2> HIDE DEF p
  <2>2. x \in Call /\ x.item = c.item /\ x.todo = c.todo /\ x.unsent = c.unsent
        /\ x.picked = c.picked
    BY <1>2, <2>1 DEF Call
  <2> HIDE DEF x, c
  <2>3. x = c
    BY <1>7, <2>2, SameCall
  <2> QED
    BY <2>3 DEF x
<1>10. call' = [call EXCEPT ![h] = c]
  BY <1>4, <1>9
<1> HIDE DEF c, p
<1> QED
  BY <1>2, <1>7, <1>8, <1>10

-----------------------------------------------------------------------------
(* Types, calls and passes are preserved. *)

\* What becomes of a job the dispatcher has looked at: given up, put off, delivered.
Settle(j) ==
    \/ MarkFailed(j)
    \/ \E d \in {RetryInterval, LimitedInterval} : Reschedule(j, d)
    \/ MarkDelivered(j) /\ UNCHANGED <<wait, failed>>

\* Settling a job leaves the others where they are.
LEMMA SettleEffect ==
    ASSUME TypeOK, NEW j \in ToSet(queue), Settle(j)
    PROVE  /\ memory' \in Tables /\ IsInjective(queue')
           /\ \A e \in ToSet(queue) : e # j => e \in ToSet(queue')
           /\ \A e \in ToSet(queue') : e \in ToSet(queue)
<1>1. CASE MarkFailed(j)
  BY <1>1, MarkFailedEffect
<1>2. CASE \E d \in {RetryInterval, LimitedInterval} : Reschedule(j, d)
  BY <1>2, RescheduleEffect
<1>3. CASE MarkDelivered(j) /\ UNCHANGED <<wait, failed>>
  BY <1>3, MarkDeliveredEffect
<1> QED
  BY <1>1, <1>2, <1>3 DEF Settle

\* Each end of a request settles the job being sent.
LEMMA EndsSettle ==
    ASSUME NEW j, j = sending, Delivered \/ SendFails \/ SendRejected \/ AnswerLost
    PROVE  Settle(j) /\ EndSend /\ Save /\ UNCHANGED <<enabled, call, historyVars>>
<1>1. CASE Delivered
  BY <1>1 DEF Delivered, Settle
<1>2. CASE SendFails
  BY <1>2 DEF SendFails, RetryOrGiveUp, Settle
<1>3. CASE SendRejected
  BY <1>3 DEF SendRejected, Settle
<1>4. CASE AnswerLost
  BY <1>4 DEF AnswerLost, RetryOrGiveUp, Settle
<1> QED
  BY <1>1, <1>2, <1>3, <1>4

\* A save writes tables.
LEMMA SaveTables ==
    ASSUME TypeOK, memory' \in Tables, IsInjective(queue'), Save
    PROVE  disk' \in Tables /\ IsInjective((disk.queue)')
BY DEF TypeOK, Save, Saved, SaveFails, memory

\* The part of TypeInv about the tables, and the part about the rest.
TablesOK ==
    /\ memory \in Tables /\ IsInjective(queue)
    /\ disk \in Tables /\ IsInjective(disk.queue)

RestOK ==
    /\ enabled \in SUBSET Robot
    /\ batch \in Seq(Job)
    /\ sending \in Job \cup {NoJob}
    /\ answered \in BOOLEAN
    /\ elapsed \in 0..SendTime
    /\ faults \in 0..MaxFaults
    /\ sent \in [Job -> Nat]
    /\ since \in [Robot -> 0..MinInterval]
    /\ owed \in SUBSET Robot

CallsOK == call \in [Handler -> Call \cup {NoCall}] /\ CallsRight

\* The four parts are TypeInv.
LEMMA TypeParts ==
    /\ TypeInv <=> TablesOK /\ RestOK /\ CallsOK /\ PassRight
    /\ TypeInv' <=> TablesOK' /\ RestOK' /\ CallsOK' /\ PassRight'
<1>1. TypeInv <=> TablesOK /\ RestOK /\ CallsOK /\ PassRight
  BY DEF TypeInv, TypeOK, TablesOK, RestOK, CallsOK
<1>2. TypeInv' <=> TablesOK' /\ RestOK' /\ CallsOK' /\ PassRight'
  BY <1>1, PTL
<1> QED
  BY <1>1, <1>2

\* What leaves the tables, the calls, or the queue and the pass alone keeps its part.
LEMMA Unchanged ==
    ASSUME TypeInv
    PROVE  /\ UNCHANGED storeVars => TablesOK'
           /\ UNCHANGED call => CallsOK'
           /\ (UNCHANGED <<batch, sending>> /\ ToSet(queue) \subseteq ToSet(queue')) => PassRight'
<1>1. UNCHANGED storeVars => TablesOK'
  BY TypeParts DEF TablesOK, storeVars, tableVars, memory
<1>2. UNCHANGED call => CallsOK'
  BY TypeParts DEF CallsOK, CallsRight
<1>3. (UNCHANGED <<batch, sending>> /\ ToSet(queue) \subseteq ToSet(queue')) => PassRight'
  BY TypeParts DEF PassRight
<1> QED
  BY <1>1, <1>2, <1>3

\* A pass looks at the first ListLimit jobs that are due.
LEMMA DueListed ==
    ASSUME TypeOK
    PROVE  /\ Distinct(ListDue, Job) /\ ToSet(ListDue) \subseteq ToSet(queue)
           /\ \A k \in DOMAIN Due : k <= ListLimit => Due[k] \in ToSet(ListDue)
<1> DEFINE n == DueWithin(queue, 0)
           d == SubSeq(queue, 1, n)
           m == Min({ListLimit, Len(d)})
<1>1. Distinct(queue, Job)
  BY QueueDistinct
<1>2. n \in 0..Len(queue) /\ Len(queue) \in Nat /\ ToSet(queue) = {queue[i] : i \in 1..Len(queue)}
  BY <1>1, DuePlace, Elements DEF Distinct
<1> HIDE DEF n
<1>3. Distinct(d, Job) /\ ToSet(d) = {queue[i] : i \in 1..n}
  <2>1. 1 \in 1..(Len(queue) + 1)
    BY <1>2
  <2> QED
    BY <1>1, <1>2, <2>1, SubSeqDistinct
<1>4. ToSet(d) \subseteq ToSet(queue)
  BY <1>2, <1>3
<1> HIDE DEF d
<1>5. Len(d) \in Nat /\ DOMAIN d = 1..Len(d) /\ ListLimit \in Nat \ {0}
  BY <1>3, Elements, NotifyAssumption DEF Distinct
<1>6. m \in 0..Len(d) /\ \A k \in 1..Len(d) : k <= ListLimit => k \in 1..m
  BY <1>5, MinMaxOfTwo
<1> HIDE DEF m
<1>7. Distinct(SubSeq(d, 1, m), Job) /\ ToSet(SubSeq(d, 1, m)) = {d[i] : i \in 1..m}
  <2>1. 1 \in 1..(Len(d) + 1)
    BY <1>5
  <2> QED
    BY <1>3, <1>6, <2>1, SubSeqDistinct
<1>8. \A k \in DOMAIN d : k <= ListLimit => d[k] \in ToSet(SubSeq(d, 1, m))
  BY <1>5, <1>6, <1>7
<1>9. ToSet(SubSeq(d, 1, m)) \subseteq ToSet(d)
  <2>1. \A i \in 1..m : i \in 1..Len(d)
    BY <1>5, <1>6
  <2>2. ToSet(d) = {d[i] : i \in 1..Len(d)}
    BY <1>3, Elements DEF Distinct
  <2> QED
    BY <1>7, <2>1, <2>2
<1>10. Due = d /\ ListDue = SubSeq(d, 1, m)
  BY DEF Due, ListDue, d, m, n
<1> QED
  BY <1>4, <1>7, <1>8, <1>9, <1>10

\* The steps of the handlers keep TypeInv.
LEMMA TypeOfHandlers ==
    ASSUME TypeInv, NEW h \in Handler, HandlerStep(h)
    PROVE  TypeInv'
<1>0. TablesOK /\ RestOK /\ CallsOK /\ PassRight /\ TypeOK
  BY TypeParts DEF TypeInv
<1>1. RestOK'
  BY <1>0 DEF RestOK, HandlerStep, Begin, CheckReceipt, CheckQueued, Enqueue, dispatchVars,
              historyVars
<1>2. ASSUME NEW c \in Call, call' = [call EXCEPT ![h] = c],
             c.todo \cup c.unsent \subseteq Wants[c.item], c.picked \subseteq JobsOf(c.item)
      PROVE  CallsOK'
  <2>1. call' \in [Handler -> Call \cup {NoCall}]
    BY <1>0, <1>2 DEF CallsOK
  <2>2. \A g \in Handler : g # h => call'[g] = call[g]
    BY <1>0, <1>2 DEF CallsOK
  <2>3. call'[h] = c
    BY <1>0, <1>2 DEF CallsOK
  <2> QED
    BY <1>0, <1>2, <2>1, <2>2, <2>3 DEF CallsOK, CallsRight, JobsOf
<1>3. ASSUME call[h] \in Call
      PROVE  /\ call[h].todo \cup call[h].unsent \subseteq Wants[call[h].item]
             /\ call[h].picked \subseteq JobsOf(call[h].item)
  BY <1>0, <1>3, CallIsNotNoCall DEF CallsOK, CallsRight
<1>4. CASE Begin(h)
  <2>1. PICK c \in Call : call' = [call EXCEPT ![h] = c] /\ c.todo \subseteq Wants[c.item]
                          /\ c.unsent = {} /\ c.picked = {}
    BY <1>0, <1>4, BeginEffect
  <2>2. CallsOK'
    BY <1>2, <2>1
  <2>3. UNCHANGED storeVars /\ UNCHANGED <<batch, sending>> /\ UNCHANGED queue
    BY <1>4 DEF Begin, storeVars, tableVars, dispatchVars
  <2>4. TablesOK' /\ PassRight'
    BY <2>3, Unchanged
  <2> QED
    BY <1>1, <2>2, <2>4, TypeParts
<1>5. CASE CheckReceipt(h)
  <2>1. PICK c \in Call : call' = [call EXCEPT ![h] = c] /\ c.item = call[h].item
                          /\ c.picked = call[h].picked
                          /\ c.todo \cup c.unsent \subseteq Wants[c.item]
    BY <1>5, CheckReceiptEffect
  <2>2. call[h] \in Call
    BY <1>5, CheckReceiptEffect
  <2>3. CallsOK'
    BY <1>2, <1>3, <2>1, <2>2
  <2>4. UNCHANGED storeVars /\ UNCHANGED <<batch, sending>> /\ UNCHANGED queue
    BY <1>5 DEF CheckReceipt, storeVars, tableVars, dispatchVars
  <2>5. TablesOK' /\ PassRight'
    BY <2>4, Unchanged
  <2> QED
    BY <1>1, <2>3, <2>5, TypeParts
<1>6. CASE CheckQueued(h)
  <2>1. call[h] \in Call
    BY <1>6, CheckQueuedEffect
  <2>2. PICK c \in Call : /\ call' = [call EXCEPT ![h] = c] /\ c.item = call[h].item
                          /\ c.todo = call[h].todo /\ c.unsent = {}
                          /\ \A j \in c.picked : \/ j \in call[h].picked
                                                 \/ \E r \in call[h].unsent : j = <<c.item, r>>
    BY <1>6, CheckQueuedEffect
  <2>3. c.picked \subseteq JobsOf(c.item)
    <3> SUFFICES ASSUME NEW j \in c.picked PROVE j \in JobsOf(c.item)
      OBVIOUS
    <3>1. j \in Job
      BY DEF Call
    <3>2. j[1] = c.item
      BY <1>3, <2>1, <2>2 DEF JobsOf
    <3> QED
      BY <3>1, <3>2 DEF JobsOf
  <2>4. CallsOK'
    BY <1>2, <1>3, <2>1, <2>2, <2>3
  <2>5. UNCHANGED storeVars /\ UNCHANGED <<batch, sending>> /\ UNCHANGED queue
    BY <1>6 DEF CheckQueued, storeVars, tableVars, dispatchVars
  <2>6. TablesOK' /\ PassRight'
    BY <2>5, Unchanged
  <2> QED
    BY <1>1, <2>4, <2>6, TypeParts
<1>7. CASE Enqueue(h)
  <2>1. memory' \in Tables /\ IsInjective(queue') /\ ToSet(queue) \subseteq ToSet(queue')
    BY <1>7, EnqueueEffect
  <2>2. Save /\ UNCHANGED <<batch, sending>> /\ call' = [call EXCEPT ![h] = NoCall]
    BY <1>7 DEF Enqueue, dispatchVars
  <2>3. TablesOK'
    BY <1>0, <2>1, <2>2, SaveTables DEF TablesOK
  <2>4. CallsOK'
    BY <1>0, <2>2 DEF CallsOK, CallsRight
  <2>5. PassRight'
    BY <2>1, <2>2, Unchanged
  <2> QED
    BY <1>1, <2>3, <2>4, <2>5, TypeParts
<1> QED
  BY <1>4, <1>5, <1>6, <1>7 DEF HandlerStep

\* The steps of the dispatcher keep TypeInv.
LEMMA TypeOfDispatcher ==
    ASSUME TypeInv, Dispatch
    PROVE  TypeInv'
<1>0. TablesOK /\ RestOK /\ CallsOK /\ PassRight /\ TypeOK
  BY TypeParts DEF TypeInv
<1>1. CallsOK'
  <2>1. UNCHANGED call
    BY DEF Dispatch, StartPass, RobotGone, SkipPaused, SendJob, RobotTakes, Delivered,
           SendFails, SendRejected, AnswerLost
  <2> QED
    BY <2>1, Unchanged
<1>2. ASSUME batch # <<>>
      PROVE  /\ Distinct(Tail(batch), Job) /\ Head(batch) \in Job
             /\ ToSet(batch) = {Head(batch)} \cup ToSet(Tail(batch))
             /\ Head(batch) \notin ToSet(Tail(batch))
             /\ Head(batch) \in ToSet(queue)
  <2>1. Distinct(batch, Job)
    BY <1>0 DEF PassRight
  <2>2. /\ Distinct(Tail(batch), Job) /\ Head(batch) \in Job
        /\ ToSet(batch) = {Head(batch)} \cup ToSet(Tail(batch))
        /\ Head(batch) \notin ToSet(Tail(batch))
    BY <1>2, <2>1, TailDistinct
  <2> QED
    BY <1>0, <2>2 DEF PassRight
<1>3. CASE StartPass
  <2>1. TablesOK' /\ UNCHANGED queue /\ UNCHANGED sending /\ sending = NoJob
    BY <1>3, Unchanged DEF StartPass, Idle, storeVars, tableVars
  <2>2. Distinct(ListDue, Job) /\ ToSet(ListDue) \subseteq ToSet(queue)
    BY <1>0, DueListed
  <2>3. batch' = ListDue
    BY <1>3 DEF StartPass
  <2>4. RestOK' /\ PassRight'
    BY <1>0, <1>3, <2>1, <2>2, <2>3 DEF StartPass, RestOK, PassRight, Distinct
  <2> QED
    BY <1>1, <2>1, <2>4, TypeParts
<1>4. CASE RobotGone
  <2>1. PICK j \in ToSet(queue) : j = Head(batch)
    BY <1>2, <1>4 DEF RobotGone
  <2>2. Settle(j) /\ Save
    BY <1>4, <2>1 DEF RobotGone, Settle
  <2>3. /\ memory' \in Tables /\ IsInjective(queue')
        /\ \A e \in ToSet(queue) : e # j => e \in ToSet(queue')
    BY <1>0, <2>2, SettleEffect
  <2>4. TablesOK'
    BY <1>0, <2>2, <2>3, SaveTables DEF TablesOK
  <2>5. batch # <<>> /\ batch' = Tail(batch) /\ sending' = NoJob
    BY <1>4 DEF RobotGone
  <2>6. PassRight' /\ RestOK'
    BY <1>0, <1>2, <1>4, <2>1, <2>3, <2>5
       DEF PassRight, RestOK, RobotGone, historyVars, Distinct
  <2> QED
    BY <1>1, <2>4, <2>6, TypeParts
<1>5. CASE SkipPaused
  <2>1. TablesOK' /\ UNCHANGED queue /\ batch # <<>> /\ batch' = Tail(batch) /\ sending' = NoJob
    BY <1>5, Unchanged DEF SkipPaused, storeVars, tableVars
  <2>2. PassRight' /\ RestOK'
    BY <1>0, <1>2, <1>5, <2>1 DEF PassRight, RestOK, SkipPaused, historyVars, Distinct
  <2> QED
    BY <1>1, <2>1, <2>2, TypeParts
<1>6. CASE SendJob
  <2>1. /\ TablesOK' /\ UNCHANGED queue /\ batch # <<>> /\ batch' = Tail(batch)
        /\ sending' = Head(batch)
    BY <1>6, Unchanged DEF SendJob, storeVars, tableVars
  <2>2. PassRight'
    BY <1>0, <1>2, <2>1 DEF PassRight
  <2>3. RestOK'
    <3>1. /\ answered' = FALSE /\ elapsed' = 0 /\ owed' \subseteq owed
          /\ UNCHANGED <<enabled, faults, sent, since>>
      BY <1>6 DEF SendJob
    <3>2. 0 \in 0..SendTime
      BY NotifyAssumption
    <3> QED
      BY <1>0, <1>2, <2>1, <3>1, <3>2 DEF RestOK, Distinct
  <2> QED
    BY <1>1, <2>1, <2>2, <2>3, TypeParts
<1>7. CASE RobotTakes
  <2>1. TablesOK' /\ PassRight'
    BY <1>7, Unchanged DEF RobotTakes, storeVars, tableVars
  <2>2. Min({elapsed, MinInterval}) \in 0..MinInterval
    <3>1. elapsed \in Nat /\ MinInterval \in Nat
      BY <1>0, NotifyAssumption DEF RestOK
    <3> QED
      BY <3>1, MinMaxOfTwo
  <2>3. RestOK'
    <3>1. sent' \in [Job -> Nat]
      BY <1>0, <1>7 DEF RestOK, RobotTakes
    <3>2. since' \in [Robot -> 0..MinInterval]
      BY <1>0, <1>7, <2>2 DEF RestOK, RobotTakes
    <3>3. answered' = TRUE /\ UNCHANGED <<enabled, batch, sending, elapsed, faults, owed>>
      BY <1>7 DEF RobotTakes
    <3> QED
      BY <1>0, <3>1, <3>2, <3>3 DEF RestOK
  <2> QED
    BY <1>1, <2>1, <2>3, TypeParts
<1>8. CASE Delivered \/ SendFails \/ SendRejected \/ AnswerLost
  <2>1. sending # NoJob
    BY <1>8 DEF Delivered, SendFails, SendRejected, AnswerLost
  <2>2. PICK j \in ToSet(queue) : j = sending
    BY <1>0, <2>1 DEF PassRight
  <2>3. Settle(j) /\ EndSend /\ Save /\ UNCHANGED <<enabled, call, historyVars>>
    BY <1>8, <2>2, EndsSettle
  <2>4. /\ memory' \in Tables /\ IsInjective(queue')
        /\ \A e \in ToSet(queue) : e # j => e \in ToSet(queue')
    BY <1>0, <2>3, SettleEffect
  <2>5. TablesOK'
    BY <1>0, <2>3, <2>4, SaveTables DEF TablesOK
  <2>6. PassRight'
    BY <1>0, <2>1, <2>2, <2>3, <2>4 DEF PassRight, EndSend, Distinct
  <2>7. faults' \in 0..MaxFaults
    BY <1>0, <1>8, NotifyAssumption
       DEF RestOK, Delivered, SendFails, SendRejected, AnswerLost
  <2>8. RestOK'
    <3>1. 0 \in 0..SendTime
      BY NotifyAssumption
    <3> QED
      BY <1>0, <2>3, <2>7, <3>1 DEF RestOK, EndSend, historyVars
  <2> QED
    BY <1>1, <2>5, <2>6, <2>8, TypeParts
<1> QED
  BY <1>3, <1>4, <1>5, <1>6, <1>7, <1>8 DEF Dispatch

\* One unit of time less to wait.
LEMMA LaterTimes ==
    ASSUME NEW S, NEW t \in [S -> 0..Longest]
    PROVE  Later(t) \in [S -> 0..Longest] /\ \A x \in S : Later(t)[x] = Less(t[x])
<1>1. \A n \in 0..Longest : Less(n) \in 0..Longest
  BY LongestBounds DEF Less
<1> QED
  BY <1>1 DEF Later

\* The passing of time keeps TypeInv.
LEMMA TypeOfTick ==
    ASSUME TypeInv, Tick
    PROVE  TypeInv'
<1>0. TablesOK /\ RestOK /\ CallsOK /\ PassRight
  BY TypeParts
<1>1. CallsOK' /\ PassRight'
  BY Unchanged DEF Tick
<1>2. TablesOK'
  <2>1. memory' \in Tables
    <3>1. wait \in [Job -> 0..Longest] /\ pause \in [Robot -> 0..Longest]
      BY <1>0 DEF TablesOK, memory, Tables
    <3>2. wait' \in [Job -> 0..Longest] /\ pause' \in [Robot -> 0..Longest]
      BY <3>1, LaterTimes DEF Tick
    <3> QED
      BY <1>0, <3>2 DEF TablesOK, memory, Tables, Tick
  <2>2. disk' \in Tables /\ (disk.queue)' = disk.queue
    <3>1. disk.wait \in [Job -> 0..Longest] /\ disk.pause \in [Robot -> 0..Longest]
      BY <1>0 DEF TablesOK, Tables
    <3>2. Later(disk.wait) \in [Job -> 0..Longest] /\ Later(disk.pause) \in [Robot -> 0..Longest]
      BY <3>1, LaterTimes
    <3>3. disk' = [disk EXCEPT !.wait = Later(disk.wait), !.pause = Later(disk.pause)]
      BY <1>0 DEF Tick, TablesOK, Tables
    <3> QED
      BY <1>0, <3>2, <3>3 DEF TablesOK, Tables
  <2> QED
    BY <1>0, <2>1, <2>2 DEF TablesOK, Tick
<1>3. RestOK'
  <2>1. since' \in [Robot -> 0..MinInterval]
    <3>1. MinInterval \in Nat
      BY NotifyAssumption
    <3>2. \A n \in 0..MinInterval : Min({n + 1, MinInterval}) \in 0..MinInterval
      BY <3>1, MinMaxOfTwo
    <3> QED
      BY <1>0, <3>2 DEF RestOK, Tick
  <2>2. elapsed' \in 0..SendTime
    BY <1>0, NotifyAssumption DEF RestOK, Tick
  <2>3. UNCHANGED <<enabled, batch, sending, answered, faults, sent, owed>>
    BY DEF Tick
  <2> QED
    BY <1>0, <2>1, <2>2, <2>3 DEF RestOK
<1> QED
  BY <1>1, <1>2, <1>3, TypeParts

\* A restart begins with the tables of the file and nothing else.
LEMMA TypeOfRestart ==
    ASSUME TypeInv, Restart
    PROVE  TypeInv'
<1>0. TablesOK /\ RestOK /\ CallsOK /\ PassRight
  BY TypeParts
<1>1. TablesOK'
  BY <1>0 DEF TablesOK, Restart, memory, Tables
<1>2. CallsOK'
  BY DEF CallsOK, CallsRight, Restart
<1>3. PassRight'
  BY DEF PassRight, Restart, Distinct, IsInjective, ToSet
<1>4. RestOK'
  <2>1. faults' \in 0..MaxFaults /\ 0 \in 0..SendTime
    BY <1>0, NotifyAssumption DEF RestOK, Restart
  <2>2. /\ enabled' \in SUBSET Robot /\ batch' = <<>> /\ sending' = NoJob
        /\ answered' = FALSE /\ elapsed' = 0 /\ owed' = {} /\ UNCHANGED <<sent, since>>
    BY DEF Restart
  <2>3. batch' \in Seq(Job) /\ answered' \in BOOLEAN
    BY <2>2, EmptySeq
  <2>4. sent' \in [Job -> Nat] /\ since' \in [Robot -> 0..MinInterval]
    BY <1>0, <2>2 DEF RestOK
  <2>5. sending' \in Job \cup {NoJob} /\ elapsed' \in 0..SendTime /\ owed' \in SUBSET Robot
    BY <2>1, <2>2
  <2> QED
    BY <2>1, <2>2, <2>3, <2>4, <2>5 DEF RestOK
<1> QED
  BY <1>1, <1>2, <1>3, <1>4, TypeParts

\* TypeInv holds at the start and is kept.
LEMMA TypeInit == Init => TypeInv
<1> SUFFICES ASSUME Init PROVE TypeInv
  OBVIOUS
<1>1. memory \in Tables /\ IsInjective(queue)
  <2>1. 0 \in 0..Longest
    BY LongestBounds
  <2> QED
    BY <2>1 DEF Init, memory, Tables, IsInjective
<1>2. TablesOK
  BY <1>1 DEF Init, TablesOK, memory
<1>3. RestOK
  <2>1. 0 \in 0..SendTime /\ 0 \in 0..MaxFaults /\ MinInterval \in 0..MinInterval
    BY NotifyAssumption
  <2>2. <<>> \in Seq(Job)
    BY EmptySeq
  <2> QED
    BY <2>1, <2>2 DEF Init, RestOK
<1>4. CallsOK
  BY DEF Init, CallsOK, CallsRight
<1>5. PassRight
  BY DEF Init, PassRight, Distinct, IsInjective, ToSet
<1> QED
  BY <1>2, <1>3, <1>4, <1>5, TypeParts

\* Every step keeps the types and what a pass is doing in agreement with the tables.
LEMMA TypeStep == TypeInv /\ [Next]_vars => TypeInv'
<1> SUFFICES ASSUME TypeInv, [Next]_vars PROVE TypeInv'
  OBVIOUS
<1>1. CASE Tick
  BY <1>1, TypeOfTick
<1>2. CASE Restart
  BY <1>2, TypeOfRestart
<1>3. CASE OtherSave
  <2>1. TablesOK /\ RestOK /\ CallsOK /\ PassRight
    BY TypeParts
  <2>2. CallsOK' /\ PassRight'
    BY <1>3, Unchanged DEF OtherSave, tableVars, dispatchVars
  <2>3. memory' = memory /\ disk' = memory' /\ UNCHANGED queue
    BY <1>3 DEF OtherSave, Saved, memory, tableVars
  <2>4. TablesOK'
    BY <2>1, <2>3 DEF TablesOK, memory
  <2>5. RestOK'
    BY <1>3, <2>1 DEF RestOK, OtherSave, dispatchVars, historyVars
  <2> QED
    BY <2>2, <2>4, <2>5, TypeParts
<1>4. CASE Dispatch
  BY <1>4, TypeOfDispatcher
<1>5. CASE \E h \in Handler : HandlerStep(h)
  BY <1>5, TypeOfHandlers
<1>6. CASE UNCHANGED vars
  <2>1. TablesOK' /\ CallsOK' /\ PassRight'
    BY <1>6, Unchanged DEF vars, dispatchVars, storeVars, tableVars
  <2>2. RestOK'
    BY <1>6, TypeParts DEF RestOK, vars, dispatchVars, historyVars
  <2> QED
    BY <2>1, <2>2, TypeParts
<1> QED
  BY <1>1, <1>2, <1>3, <1>4, <1>5, <1>6 DEF Next

\* TypeInv is an invariant.
LEMMA TypeAlways == Spec => []TypeInv
BY TypeInit, TypeStep, PTL DEF Spec

\* Every variable keeps its type, and no queue ever holds a job twice: neither the one
\* in memory nor the one in the file.
THEOREM TypeCorrect == Spec => []TypeOK
<1>1. TypeInv => TypeOK
  BY DEF TypeInv
<1> QED
  BY <1>1, TypeAlways, PTL

-----------------------------------------------------------------------------
(* Attempts. *)

\* MarkFailed and MarkDelivered take their job out and touch the attempts of no other;
\* an error puts its job off only if an attempt is left.
LEMMA AttemptsOfSettled ==
    ASSUME TypeOK, AttemptsLeft(queue, attempts), NEW j \in ToSet(queue),
           \/ MarkFailed(j)
           \/ MarkDelivered(j) /\ UNCHANGED <<wait, failed>>
           \/ \E d \in {RetryInterval, LimitedInterval} : RetryOrGiveUp(j, d)
    PROVE  AttemptsLeft(queue', attempts')
<1>1. /\ ToSet(queue) \subseteq Job /\ j \in Job
      /\ attempts \in [Job -> Nat]
  BY QueueDistinct, Elements DEF Distinct, TypeOK, memory, Tables
<1>2. CASE MarkFailed(j)
  <2>1. \A e : e \in ToSet(queue') <=> e \in ToSet(queue) /\ e # j
    BY <1>2, MarkFailedEffect
  <2>2. attempts' = [attempts EXCEPT ![j] = @ + 1]
    BY <1>2 DEF MarkFailed
  <2> QED
    BY <1>1, <2>1, <2>2 DEF AttemptsLeft
<1>3. CASE MarkDelivered(j) /\ UNCHANGED <<wait, failed>>
  <2>1. \A e : e \in ToSet(queue') <=> e \in ToSet(queue) /\ e # j
    BY <1>3, MarkDeliveredEffect
  <2>2. attempts' = [attempts EXCEPT ![j] = 0]
    BY <1>3 DEF MarkDelivered
  <2> QED
    BY <1>1, <2>1, <2>2 DEF AttemptsLeft
<1>4. CASE \E d \in {RetryInterval, LimitedInterval} : RetryOrGiveUp(j, d) /\ ~MarkFailed(j)
  <2>1. PICK d \in {RetryInterval, LimitedInterval} : RetryOrGiveUp(j, d) /\ ~MarkFailed(j)
    BY <1>4
  <2>2. Reschedule(j, d) /\ ~exceededMaxAttempts(attempts[j] + 1)
    BY <2>1 DEF RetryOrGiveUp
  <2>3. \A e : e \in ToSet(queue') <=> e \in ToSet(queue)
    BY <2>2, RescheduleEffect
  <2>4. attempts' = [attempts EXCEPT ![j] = @ + 1]
    BY <2>2 DEF Reschedule
  <2>5. MaxAttempts > 0 => attempts[j] + 1 < MaxAttempts
    BY <1>1, <2>2, NotifyAssumption DEF exceededMaxAttempts
  <2> QED
    BY <1>1, <2>3, <2>4, <2>5 DEF AttemptsLeft
<1> QED
  BY <1>2, <1>3, <1>4

\* A save writes the attempts that belong to the queue.
LEMMA AttemptsSaved ==
    ASSUME AttemptsInv, AttemptsLeft(queue', attempts'), Save
    PROVE  AttemptsInv'
BY DEF AttemptsInv, AttemptsLeft, Save, Saved, SaveFails, memory

\* A step that reschedules a job counts the attempt, and gives the job up at the last one.
LEMMA AttemptsStep == TypeInv /\ AttemptsInv /\ [Next]_vars => AttemptsInv'
<1> SUFFICES ASSUME TypeInv, AttemptsInv, [Next]_vars PROVE AttemptsInv'
  OBVIOUS
<1>0. TypeOK /\ PassRight /\ AttemptsLeft(queue, attempts)
  BY DEF TypeInv, AttemptsInv
<1>1. CASE UNCHANGED storeVars
  BY <1>1 DEF AttemptsInv, AttemptsLeft, storeVars, tableVars
<1>2. CASE Tick
  <2>1. (disk.queue)' = disk.queue /\ (disk.attempts)' = disk.attempts
    BY <1>0, <1>2 DEF Tick, TypeOK, Tables
  <2> QED
    BY <1>2, <2>1 DEF Tick, AttemptsInv, AttemptsLeft
<1>3. CASE Restart
  BY <1>3 DEF Restart, AttemptsInv, AttemptsLeft
<1>4. CASE OtherSave
  BY <1>4 DEF OtherSave, Saved, memory, tableVars, AttemptsInv, AttemptsLeft
<1>5. CASE RobotGone
  <2>1. PICK j \in ToSet(queue) : j = Head(batch)
    BY ZenonT(40), <1>0, <1>5, TailDistinct DEF PassRight, RobotGone
  <2>2. MarkFailed(j) /\ Save
    BY <1>5, <2>1 DEF RobotGone
  <2> QED
    BY <1>0, <2>2, AttemptsOfSettled, AttemptsSaved
<1>6. CASE Delivered \/ SendFails \/ SendRejected \/ AnswerLost
  <2>1. PICK j \in ToSet(queue) : j = sending
    BY <1>0, <1>6 DEF PassRight, Delivered, SendFails, SendRejected, AnswerLost
  <2>2. \/ MarkFailed(j)
        \/ MarkDelivered(j) /\ UNCHANGED <<wait, failed>>
        \/ \E d \in {RetryInterval, LimitedInterval} : RetryOrGiveUp(j, d)
    BY <1>6, <2>1 DEF Delivered, SendFails, SendRejected, AnswerLost
  <2>3. Save
    BY <1>6 DEF Delivered, SendFails, SendRejected, AnswerLost
  <2>4. AttemptsLeft(queue', attempts')
    BY <1>0, <2>2, AttemptsOfSettled
  <2> QED
    BY <2>3, <2>4, AttemptsSaved
<1>7. CASE \E h \in Handler : Enqueue(h)
  <2>1. PICK h \in Handler : Enqueue(h)
    BY <1>7
  <2>2. /\ \A e \in ToSet(queue') : \/ e \in ToSet(queue)
                                    \/ e \in call[h].picked /\ attempts'[e] = 0
        /\ \A e \in ToSet(queue) : attempts'[e] = attempts[e]
    BY <2>1, EnqueueEffect
  <2>3. AttemptsLeft(queue', attempts')
    BY <1>0, <2>2, NotifyAssumption DEF AttemptsLeft
  <2> QED
    BY <2>1, <2>3, AttemptsSaved DEF Enqueue
<1> QED
  BY <1>1, <1>2, <1>3, <1>4, <1>5, <1>6, <1>7
     DEF Next, vars, Dispatch, StartPass, SkipPaused, SendJob, RobotTakes, HandlerStep, Begin,
         CheckReceipt, CheckQueued

\* A job in the queue always has an attempt left, whatever handlers queue again and
\* whatever the file held when the relay was started.
THEOREM AttemptsAreCounted == Spec => []QueuedHasAttempts
<1>1. Init => AttemptsInv
  <2>1. ToSet(<<>>) = {}
    BY DEF ToSet
  <2> QED
    BY <2>1 DEF Init, AttemptsInv, AttemptsLeft, memory
<1>2. AttemptsInv => QueuedHasAttempts
  BY DEF AttemptsInv, AttemptsLeft, QueuedHasAttempts
<1> QED
  BY <1>1, <1>2, AttemptsStep, TypeAlways, PTL DEF Spec

-----------------------------------------------------------------------------
(* Pauses. *)

\* Settling a job touches the pause of its robot only, and an error never shortens it.
LEMMA PauseOfSettled ==
    ASSUME TypeOK, NEW j \in ToSet(queue), Settle(j)
    PROVE  /\ \A r \in Robot : r # RobotOf(j) => pause'[r] = pause[r]
           /\ RobotOf(j) \in Robot
           /\ \/ pause'[RobotOf(j)] >= pause[RobotOf(j)]
              \/ MarkDelivered(j) /\ UNCHANGED <<wait, failed>>
<1>1. pause \in [Robot -> 0..Longest] /\ RobotOf(j) \in Robot
  <2>1. RobotOf(j) \in Robot
    BY QueueDistinct, Elements DEF Distinct, Job, RobotOf
  <2> QED
    BY <2>1 DEF TypeOK, memory, Tables
<1>2. Longest \in Nat /\ \A d \in {RetryInterval, LimitedInterval} : d \in Nat
  BY LongestBounds
<1>3. CASE MarkFailed(j)
  <2>1. pause' = pause
    BY <1>3 DEF MarkFailed
  <2> QED
    BY <1>1, <1>2, <2>1
<1>4. CASE \E d \in {RetryInterval, LimitedInterval} : Reschedule(j, d)
  <2>1. PICK d \in {RetryInterval, LimitedInterval} : Reschedule(j, d)
    BY <1>4
  <2>2. pause' = [pause EXCEPT ![RobotOf(j)] = IF @ <= d THEN d ELSE @]
    BY <2>1, RescheduleEffect
  <2> QED
    BY <1>1, <1>2, <2>2
<1>5. CASE MarkDelivered(j) /\ UNCHANGED <<wait, failed>>
  <2>1. pause' = [pause EXCEPT ![RobotOf(j)] =
                     IF elapsed <= MinInterval THEN MinInterval - elapsed ELSE 0]
    BY <1>5, MarkDeliveredEffect
  <2> QED
    BY <1>1, <1>5, <2>1
<1> QED
  BY <1>3, <1>4, <1>5 DEF Settle

\* A robot that is owed a message has a job ahead of it in the pass after every step,
\* and no step owes one to the robot that is being sent to.
LEMMA OwedStep == TypeInv /\ OwedInv /\ [Next]_vars => OwedInv'
<1> SUFFICES ASSUME TypeInv, OwedInv, [Next]_vars PROVE OwedInv'
  OBVIOUS
<1>0. TypeOK /\ PassRight /\ owed \in SUBSET Robot /\ pause \in [Robot -> 0..Longest]
  <2>1. TypeOK /\ PassRight BY DEF TypeInv
  <2>2. memory \in Tables /\ owed \in SUBSET Robot BY <2>1 DEF TypeOK
  <2>3. pause \in [Robot -> 0..Longest] BY <2>2 DEF memory, Tables
  <2> QED BY <2>1, <2>2, <2>3
<1>1. CASE UNCHANGED <<pause, enabled, batch, sending, owed>>
  BY <1>1 DEF OwedInv
<1>2. CASE Tick
  <2>1. \A r \in Robot : pause'[r] = Less(pause[r])
    BY <1>0, <1>2, LaterTimes DEF Tick
  <2> QED
    BY <1>0, <1>2, <2>1 DEF Tick, OwedInv, Less
<1>3. CASE Restart
  BY <1>3 DEF Restart, OwedInv
<1>4. CASE StartPass
  <2>1. \A k \in DOMAIN Due : k <= ListLimit => Due[k] \in ToSet(ListDue)
    BY <1>0, DueListed
  <2>2. /\ batch' = ListDue /\ sending' = NoJob /\ UNCHANGED <<pause, enabled>>
        /\ owed' = {r \in enabled : pause[r] = 0 /\
                      \E k \in DOMAIN Due : k <= ListLimit /\ RobotOf(Due[k]) = r}
    BY <1>4 DEF StartPass, Idle, storeVars, tableVars
  <2> QED
    BY <2>1, <2>2 DEF OwedInv
<1>5. ASSUME batch # <<>>
      PROVE  ToSet(batch) = {Head(batch)} \cup ToSet(Tail(batch)) /\ Head(batch) \in ToSet(queue)
  <2>1. Distinct(batch, Job) /\ ToSet(batch) \subseteq ToSet(queue)
    BY <1>0 DEF PassRight
  <2>2. ToSet(batch) = {Head(batch)} \cup ToSet(Tail(batch))
    BY <1>5, <2>1, TailDistinct
  <2> QED
    BY <2>1, <2>2
<1>6. CASE RobotGone
  <2>1. /\ batch # <<>> /\ batch' = Tail(batch) /\ sending' = NoJob
        /\ RobotOf(Head(batch)) \notin enabled /\ UNCHANGED <<pause, enabled, owed>>
    BY <1>6 DEF RobotGone, MarkFailed, historyVars
  <2> QED
    BY <1>5, <2>1 DEF OwedInv
<1>7. CASE SkipPaused
  <2>1. /\ batch # <<>> /\ batch' = Tail(batch) /\ sending' = NoJob
        /\ pause[RobotOf(Head(batch))] > 0 /\ UNCHANGED <<pause, enabled, owed>>
    BY <1>7 DEF SkipPaused, historyVars, storeVars, tableVars
  <2> QED
    BY <1>5, <2>1 DEF OwedInv
<1>8. CASE SendJob
  <2>1. /\ batch # <<>> /\ batch' = Tail(batch) /\ sending' = Head(batch)
        /\ owed' = owed \ {RobotOf(Head(batch))} /\ UNCHANGED <<pause, enabled>>
    BY <1>8 DEF SendJob, storeVars, tableVars
  <2> QED
    BY <1>5, <2>1 DEF OwedInv
<1>9. CASE Delivered \/ SendFails \/ SendRejected \/ AnswerLost
  <2>1. PICK j \in ToSet(queue) : j = sending /\ sending # NoJob
    BY <1>0, <1>9 DEF PassRight, Delivered, SendFails, SendRejected, AnswerLost
  <2>2. Settle(j) /\ EndSend /\ UNCHANGED <<enabled, historyVars>>
    BY <1>9, <2>1, EndsSettle
  <2>3. \A r \in Robot : r # RobotOf(j) => pause'[r] = pause[r]
    BY <1>0, <2>2, PauseOfSettled
  <2> QED
    BY <1>0, <2>1, <2>2, <2>3 DEF OwedInv, EndSend, historyVars
<1> QED
  BY <1>1, <1>2, <1>3, <1>4, <1>6, <1>7, <1>8, <1>9
     DEF Next, vars, Dispatch, RobotTakes, OtherSave, HandlerStep, Begin, CheckReceipt,
         CheckQueued, Enqueue, storeVars, tableVars, dispatchVars, historyVars

\* A pass that ends has sent something to each robot that had no pause and a job among
\* the ListLimit jobs due longest: the robots before it do not make it wait.
THEOREM RobotsDoNotHoldEachOtherUp == Spec => []ReadyRobotsServed
<1>1. Init => OwedInv
  BY DEF Init, OwedInv
<1>2. OwedInv => ReadyRobotsServed
  BY DEF OwedInv, ReadyRobotsServed, Idle, ToSet
<1> QED
  BY <1>1, <1>2, OwedStep, TypeAlways, PTL DEF Spec

\* No step cuts a pause short or forgets one, while no save fails.
LEMMA PaceStep == TypeInv /\ PaceInv /\ [Next]_vars => PaceInv'
<1> SUFFICES ASSUME TypeInv, PaceInv, [Next]_vars, faults' = 0
             PROVE  \A r \in Robot : /\ Settled(r)' => since'[r] + pause'[r] >= MinInterval
                                     /\ ~Settled(r)' => \/ since'[r] >= MinInterval
                                                        \/ since'[r] >= elapsed'
  BY DEF PaceInv
<1>0. /\ TypeOK /\ PassRight /\ elapsed \in Nat /\ MinInterval \in Nat \ {0} /\ Longest \in Nat
      /\ since \in [Robot -> 0..MinInterval] /\ pause \in [Robot -> 0..Longest]
      /\ faults \in Nat
  <2>1. /\ TypeOK /\ PassRight /\ Longest \in Nat /\ MinInterval \in Nat \ {0}
        /\ SendTime \in Nat /\ MaxFaults \in Nat
    BY LongestBounds, NotifyAssumption DEF TypeInv
  <2>2. /\ elapsed \in 0..SendTime /\ faults \in 0..MaxFaults
        /\ since \in [Robot -> 0..MinInterval]
    BY <2>1 DEF TypeOK
  <2>3. memory \in Tables BY <2>1 DEF TypeOK
  <2>4. pause \in [Robot -> 0..Longest] BY <2>3 DEF memory, Tables
  <2>5. elapsed \in Nat /\ faults \in Nat BY <2>1, <2>2
  <2> QED
    BY <2>1, <2>2, <2>4, <2>5
<1>1. CASE UNCHANGED <<pause, sending, answered, since, elapsed, faults>>
  BY <1>1 DEF PaceInv, Settled
<1>2. CASE Tick
  <2>1. \A r \in Robot : pause'[r] = IF pause[r] = 0 THEN 0 ELSE pause[r] - 1
    BY <1>0, <1>2, LaterTimes DEF Tick, Less
  <2>2. \A r \in Robot : since'[r] = IF since[r] = MinInterval THEN MinInterval ELSE since[r] + 1
    <3>1. \A n \in 0..MinInterval :
             Min({n + 1, MinInterval}) = IF n = MinInterval THEN MinInterval ELSE n + 1
      BY <1>0, MinMaxOfTwo
    <3> QED
      BY <1>0, <1>2, <3>1 DEF Tick
  <2>3. UNCHANGED <<sending, answered, faults>>
        /\ elapsed' = IF sending = NoJob THEN 0 ELSE elapsed + 1
    BY <1>2 DEF Tick
  <2>4. ASSUME NEW r \in Robot, Settled(r) PROVE since'[r] + pause'[r] >= MinInterval
    <3>1. since[r] + pause[r] >= MinInterval
      BY <2>3, <2>4 DEF PaceInv
    <3>2. since[r] \in 0..MinInterval /\ pause[r] \in 0..Longest
      BY <1>0
    <3> QED
      BY <1>0, <2>1, <2>2, <3>1, <3>2
  <2>5. ASSUME NEW r \in Robot, ~Settled(r)
        PROVE  since'[r] >= MinInterval \/ since'[r] >= elapsed'
    <3>1. since[r] >= MinInterval \/ since[r] >= elapsed
      BY <2>3, <2>5 DEF PaceInv
    <3>2. sending # NoJob /\ since[r] \in 0..MinInterval
      BY <1>0, <2>5 DEF Settled
    <3> QED
      BY <1>0, <2>2, <2>3, <3>1, <3>2
  <2> QED
    BY <2>3, <2>4, <2>5 DEF Settled
<1>3. CASE Restart \/ AnswerLost
  BY <1>0, <1>3 DEF Restart, AnswerLost
<1>4. CASE SendJob
  BY <1>4 DEF SendJob, storeVars, tableVars, PaceInv, Settled
<1>5. CASE RobotTakes
  <2>1. PICK j \in Job : j = sending
    BY <1>5 DEF RobotTakes, TypeInv, TypeOK
  <2>2. RobotOf(j) \in Robot
    BY NotifyAssumption DEF Job, RobotOf
  <2>3. /\ UNCHANGED <<pause, sending, elapsed, faults>> /\ ~answered
        /\ since' = [since EXCEPT ![RobotOf(j)] = Min({elapsed, MinInterval})]
    BY <1>5, <2>1 DEF RobotTakes, storeVars, tableVars
  <2>4. \/ Min({elapsed, MinInterval}) >= MinInterval
        \/ Min({elapsed, MinInterval}) >= elapsed
    BY <1>0, MinMaxOfTwo
  <2>5. \A r \in Robot : Settled(r) /\ since[r] + pause[r] >= MinInterval
    BY <2>3 DEF PaceInv, Settled
  <2>6. \A r \in Robot : r # RobotOf(j) => since'[r] = since[r] /\ Settled(r)'
    BY <1>0, <2>1, <2>3 DEF Settled
  <2>7. since'[RobotOf(j)] = Min({elapsed, MinInterval}) /\ ~Settled(RobotOf(j))'
    BY <1>0, <1>5, <2>1, <2>2, <2>3 DEF Settled, RobotTakes
  <2> QED
    BY <2>3, <2>4, <2>5, <2>6, <2>7
<1>6. CASE Delivered \/ SendFails \/ SendRejected
  <2>1. PICK j \in ToSet(queue) : j = sending /\ sending # NoJob
    BY <1>0, <1>6 DEF PassRight, Delivered, SendFails, SendRejected
  <2>2. Settle(j) /\ EndSend /\ UNCHANGED historyVars
    BY <1>6, <2>1, EndsSettle
  <2>3. faults = 0 /\ since' = since /\ \A r \in Robot : Settled(r)'
    BY <1>6, <2>2 DEF EndSend, Settled, historyVars, Delivered, SendFails, SendRejected
  <2>4. /\ \A r \in Robot : r # RobotOf(j) => pause'[r] = pause[r] /\ Settled(r)
        /\ RobotOf(j) \in Robot
    BY <1>0, <2>1, <2>2, PauseOfSettled DEF Settled
  <2>5. since[RobotOf(j)] + pause'[RobotOf(j)] >= MinInterval
    <3>1. CASE Delivered
      <4>1. MarkDelivered(j) /\ UNCHANGED <<wait, failed>> /\ ~Settled(RobotOf(j))
        BY <2>1, <3>1 DEF Delivered, Settled
      <4>2. since[RobotOf(j)] >= MinInterval \/ since[RobotOf(j)] >= elapsed
        BY <2>3, <2>4, <4>1 DEF PaceInv
      <4>3. pause' = [pause EXCEPT ![RobotOf(j)] =
                         IF elapsed <= MinInterval THEN MinInterval - elapsed ELSE 0]
        BY <1>0, <4>1, MarkDeliveredEffect
      <4>4. pause'[RobotOf(j)] = IF elapsed <= MinInterval THEN MinInterval - elapsed ELSE 0
        BY <1>0, <2>4, <4>3
      <4>5. since[RobotOf(j)] \in 0..MinInterval
        BY <1>0, <2>4
      <4> QED
        BY <1>0, <4>2, <4>4, <4>5
    <3>2. CASE SendFails \/ SendRejected
      <4>1. Settled(RobotOf(j)) /\ ~answered
        BY <3>2 DEF SendFails, SendRejected, Settled
      <4>2. since[RobotOf(j)] + pause[RobotOf(j)] >= MinInterval
        BY <2>3, <2>4, <4>1 DEF PaceInv
      <4>3. pause'[RobotOf(j)] >= pause[RobotOf(j)]
        <5>1. UNCHANGED <<receipts>>
          BY <3>2 DEF SendFails, SendRejected, RetryOrGiveUp, MarkFailed, Reschedule
        <5>2. MarkFailed(j) \/ \E d \in {RetryInterval, LimitedInterval} : Reschedule(j, d)
          BY <2>1, <3>2 DEF SendFails, SendRejected, RetryOrGiveUp
        <5>3. CASE MarkFailed(j)
          BY <1>0, <2>4, <5>3 DEF MarkFailed
        <5>4. CASE \E d \in {RetryInterval, LimitedInterval} : Reschedule(j, d)
          <6>1. PICK d \in {RetryInterval, LimitedInterval} : Reschedule(j, d)
            BY <5>4
          <6>2. pause' = [pause EXCEPT ![RobotOf(j)] = IF @ <= d THEN d ELSE @] /\ d \in Nat
            BY <1>0, <6>1, RescheduleEffect, LongestBounds
          <6> QED
            BY <1>0, <2>4, <6>2
        <5> QED
          BY <5>2, <5>3, <5>4
      <4>4. since[RobotOf(j)] \in Nat /\ pause[RobotOf(j)] \in Nat /\ pause'[RobotOf(j)] \in Nat
        <5>1. pause' \in [Robot -> 0..Longest]
          BY <1>0, <2>2, SettleEffect DEF memory, Tables
        <5> QED
          BY <1>0, <2>4, <5>1
      <4> QED
        BY <1>0, <4>2, <4>3, <4>4
    <3> QED
      BY <1>6, <3>1, <3>2
  <2>6. \A r \in Robot : r # RobotOf(j) => since[r] + pause'[r] >= MinInterval
    BY <2>3, <2>4 DEF PaceInv
  <2> QED
    BY <2>3, <2>5, <2>6
<1> QED
  BY <1>1, <1>2, <1>3, <1>4, <1>5, <1>6
     DEF Next, vars, Dispatch, StartPass, RobotGone, MarkFailed, SkipPaused, OtherSave,
         HandlerStep, Begin, CheckReceipt, CheckQueued, Enqueue, storeVars, tableVars,
         dispatchVars, historyVars

\* Without a crash or a lost answer, a request to a robot is begun at least
\* min_interval after the last one it took, however long each request lasts.
THEOREM RobotsArePaced == Spec => Paced
<1>1. Init => PaceInv
  BY NotifyAssumption DEF Init, PaceInv, Settled
<1>2. TypeInv /\ PaceInv /\ [Next]_vars =>
        [\A r \in Robot : (faults = 0 /\ sending = NoJob /\ sending' # NoJob
                           /\ RobotOf(sending') = r) => since[r] >= MinInterval]_vars
  <2> SUFFICES ASSUME TypeInv, PaceInv, [Next]_vars, faults = 0, sending = NoJob,
                      sending' # NoJob, NEW r \in Robot, RobotOf(sending') = r
               PROVE  since[r] >= MinInterval
    OBVIOUS
  <2>1. SendJob
    BY DEF Next, vars, Dispatch, StartPass, RobotGone, SkipPaused, RobotTakes, OtherSave,
           Delivered, SendFails, SendRejected, AnswerLost, Restart, Tick, HandlerStep, Begin,
           CheckReceipt, CheckQueued, Enqueue, dispatchVars
  <2>2. pause[r] = 0
    BY <2>1 DEF SendJob
  <2>3. since[r] + pause[r] >= MinInterval /\ since[r] \in Nat
    BY NotifyAssumption DEF PaceInv, Settled, TypeInv, TypeOK
  <2> QED
    BY <2>2, <2>3
<1>3. Spec => [](TypeInv /\ PaceInv)
  BY <1>1, PaceStep, TypeAlways, PTL DEF Spec
<1> QED
  BY <1>2, <1>3, PTL DEF Spec, Paced

-----------------------------------------------------------------------------
(* Receipts: events are not notified again before their jobs have settled. *)

\* A save writes receipts and jobs that belong together.
LEMMA ReceiptsSaved ==
    ASSUME disk.receipts \cap ToSet(disk.queue) = {}, receipts' \cap ToSet(queue') = {}, Save
    PROVE  (disk.receipts)' \cap ToSet((disk.queue)') = {}
BY DEF Save, Saved, SaveFails, memory

\* A call that goes on with its item stays alone with it.
LEMMA CallGoesOn ==
    ASSUME TypeInv, OnceInv, NEW h \in Handler, NEW c \in Call,
           call' = [call EXCEPT ![h] = c], UNCHANGED <<queue, receipts>>,
           \A j \in JobsOf(c.item) : ~Queued(j),
           \A g \in Handler \ {h} : call[g].item # c.item,
           \A r \in c.unsent : <<c.item, r>> \notin receipts,
           c.picked \cap receipts = {}
    PROVE  CallsAlone'
<1>1. call \in [Handler -> Call \cup {NoCall}] /\ CallsAlone
  BY DEF TypeInv, TypeOK, OnceInv
<1>2. call'[h] = c /\ \A g \in Handler \ {h} : call'[g] = call[g]
  BY <1>1
<1> SUFFICES ASSUME NEW k \in Handler, call'[k] # NoCall
             PROVE  /\ \A j \in JobsOf(call'[k].item) : j \notin ToSet(queue)
                    /\ \A g \in Handler : call'[g].item = call'[k].item => g = k
                    /\ \A r \in call'[k].unsent : <<call'[k].item, r>> \notin receipts
                    /\ call'[k].picked \cap receipts = {}
  BY DEF CallsAlone, Queued, JobsOf
<1>3. CASE k = h
  BY <1>2, <1>3 DEF Queued
<1>4. CASE k # h
  BY <1>1, <1>2, <1>4 DEF CallsAlone, Queued
<1> QED
  BY <1>3, <1>4

\* The steps of the handlers keep OnceInv.
LEMMA OnceOfHandlers ==
    ASSUME ~RepeatWhileQueued, TypeInv, OnceInv, NEW h \in Handler, HandlerStep(h)
    PROVE  OnceInv'
<1>0. /\ TypeOK /\ CallsRight /\ CallsAlone
      /\ call \in [Handler -> Call \cup {NoCall}]
      /\ receipts \cap ToSet(queue) = {} /\ disk.receipts \cap ToSet(disk.queue) = {} /\ Counted
  BY DEF TypeInv, OnceInv, TypeOK
<1>1. Counted'
  <2>1. UNCHANGED <<receipts, sending, answered, sent, faults>>
    BY DEF HandlerStep, Begin, CheckReceipt, CheckQueued, Enqueue, storeVars, tableVars,
           dispatchVars, historyVars
  <2> QED
    BY <1>0, <2>1 DEF Counted
<1>2. ASSUME UNCHANGED storeVars, CallsAlone' PROVE OnceInv'
  BY <1>0, <1>1, <1>2 DEF OnceInv, storeVars, tableVars
<1>3. ASSUME call[h] \in Call
      PROVE  /\ \A j \in JobsOf(call[h].item) : ~Queued(j)
             /\ \A g \in Handler \ {h} : call[g].item # call[h].item
             /\ \A r \in call[h].unsent : <<call[h].item, r>> \notin receipts
             /\ call[h].picked \cap receipts = {}
             /\ call[h].picked \subseteq JobsOf(call[h].item)
  BY <1>0, <1>3, CallIsNotNoCall DEF CallsAlone, CallsRight
<1>4. CASE Begin(h)
  <2>1. PICK c \in Call : /\ call' = [call EXCEPT ![h] = c]
                          /\ c.unsent = {} /\ c.picked = {}
                          /\ \A g \in Handler : call[g].item # c.item
                          /\ \A j \in JobsOf(c.item) : ~Queued(j)
    BY <1>0, <1>4, BeginEffect
  <2>2. UNCHANGED storeVars /\ UNCHANGED <<queue, receipts>>
    BY <1>4 DEF Begin, storeVars, tableVars
  <2>3. CallsAlone'
    BY <2>1, <2>2, CallGoesOn
  <2> QED
    BY <1>2, <2>2, <2>3
<1>5. CASE CheckReceipt(h)
  <2>1. call[h] \in Call
    BY <1>5, CheckReceiptEffect
  <2>2. PICK c \in Call : /\ call' = [call EXCEPT ![h] = c]
                          /\ c.item = call[h].item /\ c.picked = call[h].picked
                          /\ \A r \in c.unsent : <<c.item, r>> \notin receipts
    BY <1>5, CheckReceiptEffect
  <2>3. UNCHANGED storeVars /\ UNCHANGED <<queue, receipts>>
    BY <1>5 DEF CheckReceipt, storeVars, tableVars
  <2>4. /\ \A j \in JobsOf(c.item) : ~Queued(j)
        /\ \A g \in Handler \ {h} : call[g].item # c.item
        /\ c.picked \cap receipts = {}
    BY <1>3, <2>1, <2>2
  <2>5. CallsAlone'
    BY <2>2, <2>3, <2>4, CallGoesOn
  <2> QED
    BY <1>2, <2>3, <2>5
<1>6. CASE CheckQueued(h)
  <2>1. call[h] \in Call
    BY <1>6, CheckQueuedEffect
  <2>2. PICK c \in Call : /\ call' = [call EXCEPT ![h] = c]
                          /\ c.item = call[h].item /\ c.unsent = {}
                          /\ \A j \in c.picked : \/ j \in call[h].picked
                                                 \/ \E r \in call[h].unsent : j = <<c.item, r>>
    BY <1>6, CheckQueuedEffect
  <2>3. UNCHANGED storeVars /\ UNCHANGED <<queue, receipts>>
    BY <1>6 DEF CheckQueued, storeVars, tableVars
  <2>4. /\ \A j \in JobsOf(c.item) : ~Queued(j)
        /\ \A g \in Handler \ {h} : call[g].item # c.item
        /\ \A r \in c.unsent : <<c.item, r>> \notin receipts
        /\ c.picked \cap receipts = {}
    BY <1>3, <2>1, <2>2
  <2>5. CallsAlone'
    BY <2>2, <2>3, <2>4, CallGoesOn
  <2> QED
    BY <1>2, <2>3, <2>5
<1>7. CASE Enqueue(h)
  <2>1. call[h] \in Call
    BY <1>0, <1>7 DEF Enqueue
  <2>2. \A e \in ToSet(queue') : e \in ToSet(queue) \/ e \in call[h].picked
    BY <1>7, EnqueueEffect
  <2>3. call' = [call EXCEPT ![h] = NoCall] /\ UNCHANGED receipts /\ Save
    BY <1>7 DEF Enqueue
  <2>4. call'[h] = NoCall /\ \A g \in Handler \ {h} : call'[g] = call[g]
    BY <1>0, <2>3
  <2>5. CallsAlone'
    <3> SUFFICES ASSUME NEW k \in Handler, call'[k] # NoCall
                 PROVE  /\ \A j \in JobsOf(call'[k].item) : j \notin ToSet(queue')
                        /\ \A g \in Handler : call'[g].item = call'[k].item => g = k
                        /\ \A r \in call'[k].unsent : <<call'[k].item, r>> \notin receipts
                        /\ call'[k].picked \cap receipts = {}
      BY <2>3 DEF CallsAlone, Queued, JobsOf
    <3>1. k # h /\ call'[k] = call[k] /\ call[k] \in Call
      BY <1>0, <2>4
    <3>2. /\ \A j \in JobsOf(call[k].item) : j \notin ToSet(queue)
          /\ \A g \in Handler : call[g].item = call[k].item => g = k
          /\ \A r \in call[k].unsent : <<call[k].item, r>> \notin receipts
          /\ call[k].picked \cap receipts = {}
      BY <1>0, <2>4, <3>1 DEF CallsAlone, Queued
    <3>3. ASSUME NEW j \in JobsOf(call[k].item) PROVE j \notin ToSet(queue')
      <4>1. j[1] # call[h].item
        BY <3>1, <3>2 DEF JobsOf
      <4>2. j \notin call[h].picked
        BY <1>3, <2>1, <4>1 DEF JobsOf
      <4> QED
        BY <2>2, <3>2, <4>2
    <3>4. ASSUME NEW g \in Handler, call'[g].item = call[k].item PROVE g = k
      <4>1. g # h
        BY <2>4, <3>1, <3>4, CallIsNotNoCall, NotifyAssumption DEF NoCall
      <4> QED
        BY <2>4, <3>2, <3>4, <4>1
    <3> QED
      BY <3>1, <3>2, <3>3, <3>4
  <2>6. receipts' \cap ToSet(queue') = {}
    BY <1>0, <1>3, <2>1, <2>2, <2>3
  <2> QED
    BY <1>0, <1>1, <2>3, <2>5, <2>6, ReceiptsSaved DEF OnceInv
<1> QED
  BY <1>4, <1>5, <1>6, <1>7 DEF HandlerStep

\* A job that is settled leaves the calls alone: theirs are of other items.
LEMMA ReceiptsOfSettled ==
    ASSUME TypeInv, OnceInv, NEW j \in ToSet(queue), Settle(j), Save, UNCHANGED call
    PROVE  /\ CallsAlone'
           /\ receipts' \cap ToSet(queue') = {}
           /\ (disk.receipts)' \cap ToSet((disk.queue)') = {}
           /\ receipts \subseteq receipts'
           /\ MarkDelivered(j) => j \in receipts'
<1>0. /\ TypeOK /\ CallsRight /\ CallsAlone /\ call \in [Handler -> Call \cup {NoCall}]
      /\ receipts \cap ToSet(queue) = {} /\ disk.receipts \cap ToSet(disk.queue) = {}
  BY DEF TypeInv, OnceInv, TypeOK
<1>1. \A e \in ToSet(queue') : e \in ToSet(queue)
  BY <1>0, SettleEffect
<1>2. \/ receipts' = receipts
      \/ receipts' = receipts \cup {j} /\ MarkDelivered(j) /\ UNCHANGED <<wait, failed>>
  BY DEF Settle, MarkFailed, Reschedule, MarkDelivered
<1>3. receipts' \cap ToSet(queue') = {}
  <2>1. CASE receipts' = receipts
    BY <1>0, <1>1, <2>1
  <2>2. CASE receipts' = receipts \cup {j} /\ MarkDelivered(j) /\ UNCHANGED <<wait, failed>>
    <3>1. \A e : e \in ToSet(queue') <=> e \in ToSet(queue) /\ e # j
      BY <1>0, <2>2, MarkDeliveredEffect
    <3> QED
      BY <1>0, <2>2, <3>1
  <2> QED
    BY <1>2, <2>1, <2>2
<1>4. CallsAlone'
  <2> SUFFICES ASSUME NEW k \in Handler, call[k] # NoCall
               PROVE  /\ \A e \in JobsOf(call[k].item) : e \notin ToSet(queue')
                      /\ \A g \in Handler : call[g].item = call[k].item => g = k
                      /\ \A r \in call[k].unsent : <<call[k].item, r>> \notin receipts'
                      /\ call[k].picked \cap receipts' = {}
    BY DEF CallsAlone, Queued, JobsOf
  <2>1. /\ \A e \in JobsOf(call[k].item) : e \notin ToSet(queue)
        /\ \A g \in Handler : call[g].item = call[k].item => g = k
        /\ \A r \in call[k].unsent : <<call[k].item, r>> \notin receipts
        /\ call[k].picked \cap receipts = {}
    BY <1>0 DEF CallsAlone, Queued
  <2>2. /\ call[k] \in Call /\ call[k].unsent \subseteq Wants[call[k].item]
        /\ call[k].picked \subseteq JobsOf(call[k].item)
    BY <1>0 DEF CallsRight
  <2>3. j \notin JobsOf(call[k].item)
    BY <2>1
  <2>4. \A r \in call[k].unsent : <<call[k].item, r>> \in JobsOf(call[k].item)
    BY <2>2, NotifyAssumption DEF JobsOf, Job, Call
  <2>5. \A r \in call[k].unsent : <<call[k].item, r>> # j
    BY <2>3, <2>4
  <2>6. j \notin call[k].picked
    BY <2>2, <2>3
  <2> QED
    BY <1>1, <1>2, <2>1, <2>5, <2>6
<1>5. (disk.receipts)' \cap ToSet((disk.queue)') = {}
  BY <1>0, <1>3, ReceiptsSaved
<1>6. receipts \subseteq receipts' /\ (MarkDelivered(j) => j \in receipts')
  BY <1>2 DEF MarkDelivered
<1> QED
  BY <1>3, <1>4, <1>5, <1>6

\* No step queues an event again that has a receipt or a job, and none sends a message a
\* second time without a fault.
LEMMA OnceStep == ~RepeatWhileQueued /\ TypeInv /\ OnceInv /\ [Next]_vars => OnceInv'
<1> SUFFICES ASSUME ~RepeatWhileQueued, TypeInv, OnceInv, [Next]_vars PROVE OnceInv'
  OBVIOUS
<1>0. /\ TypeOK /\ PassRight /\ CallsAlone /\ faults \in Nat /\ sent \in [Job -> Nat]
      /\ receipts \cap ToSet(queue) = {} /\ disk.receipts \cap ToSet(disk.queue) = {} /\ Counted
  BY NotifyAssumption DEF TypeInv, OnceInv, TypeOK
<1>1. CASE UNCHANGED <<storeVars, call, sending, answered, faults, sent>>
  BY <1>1 DEF OnceInv, CallsAlone, Counted, Queued, storeVars, tableVars
<1>2. CASE Tick
  <2>1. (disk.queue)' = disk.queue /\ (disk.receipts)' = disk.receipts
    BY <1>0, <1>2 DEF Tick, TypeOK, Tables
  <2> QED
    BY <1>2, <2>1 DEF Tick, OnceInv, CallsAlone, Counted, Queued
<1>3. CASE Restart
  <2>1. CallsAlone'
    BY <1>3 DEF Restart, CallsAlone
  <2>2. Counted'
    BY <1>0, <1>3 DEF Restart, Counted
  <2> QED
    BY <1>0, <1>3, <2>1, <2>2 DEF Restart, OnceInv
<1>4. CASE OtherSave
  <2>1. UNCHANGED <<queue, receipts, call, sending, answered, faults, sent>>
    BY <1>4 DEF OtherSave, tableVars, dispatchVars, historyVars
  <2>2. (disk.queue)' = queue' /\ (disk.receipts)' = receipts'
    BY <1>4 DEF OtherSave, Saved, memory
  <2>3. CallsAlone' /\ Counted'
    BY <1>0, <2>1 DEF CallsAlone, Counted, Queued
  <2> QED
    BY <1>0, <2>1, <2>2, <2>3 DEF OnceInv
<1>5. CASE SendJob
  <2>1. UNCHANGED <<storeVars, call, faults, sent>> /\ sending = NoJob /\ answered' = FALSE
    BY <1>5 DEF SendJob
  <2>2. CallsAlone' /\ UNCHANGED <<queue, receipts, disk>>
    BY <1>0, <2>1 DEF CallsAlone, Queued, storeVars, tableVars
  <2>3. Counted'
    BY <1>0, <2>1, <2>2, NotifyAssumption DEF Counted
  <2> QED
    BY <1>0, <2>2, <2>3 DEF OnceInv
<1>6. CASE RobotTakes
  <2>1. UNCHANGED <<storeVars, call, faults, sending>> /\ sending # NoJob /\ ~answered
        /\ answered' = TRUE /\ sent' = [sent EXCEPT ![sending] = @ + 1]
    BY <1>6 DEF RobotTakes
  <2>2. CallsAlone' /\ UNCHANGED <<queue, receipts, disk>>
    BY <1>0, <2>1 DEF CallsAlone, Queued, storeVars, tableVars
  <2>3. sending \in ToSet(queue) /\ sending \in Job /\ sending \notin receipts
    BY <1>0, <2>1 DEF PassRight, TypeOK
  <2>4. sent[sending] <= faults
    BY <2>1, <2>3, <1>0 DEF Counted
  <2>5. \A j \in Job : sent'[j] = IF j = sending THEN sent[j] + 1 ELSE sent[j]
    BY <1>0, <2>1
  <2>6. Counted'
    <3> SUFFICES ASSUME NEW j \in Job
                 PROVE  /\ sent'[j] <= 1 + faults
                        /\ j \notin receipts /\ j # sending => sent'[j] <= faults
      BY <2>1, <2>2 DEF Counted
    <3>1. sent[j] <= 1 + faults /\ sent[j] \in Nat
      BY <1>0 DEF Counted
    <3>2. j \notin receipts /\ j # sending => sent[j] <= faults
      BY <1>0 DEF Counted
    <3> QED
      BY <1>0, <2>4, <2>5, <3>1, <3>2
  <2> QED
    BY <1>0, <2>2, <2>6 DEF OnceInv
<1>7. CASE RobotGone
  <2>1. sending = NoJob /\ batch # <<>> /\ MarkFailed(Head(batch)) /\ Save
        /\ UNCHANGED <<call, sending, answered, faults, sent>>
    BY <1>7 DEF RobotGone, historyVars
  <2>2. Head(batch) \in ToSet(queue)
    BY <1>0, <2>1, TailDistinct DEF PassRight
  <2>3. PICK j \in ToSet(queue) : j = Head(batch)
    BY <2>2
  <2>4. Settle(j)
    BY <2>1, <2>3 DEF Settle
  <2>5. /\ CallsAlone' /\ receipts' \cap ToSet(queue') = {}
        /\ (disk.receipts)' \cap ToSet((disk.queue)') = {}
        /\ receipts \subseteq receipts'
    BY <2>1, <2>4, ReceiptsOfSettled
  <2>6. Counted'
    BY <1>0, <2>1, <2>5 DEF Counted
  <2> QED
    BY <2>5, <2>6 DEF OnceInv
<1>8. CASE Delivered \/ SendFails \/ SendRejected \/ AnswerLost
  <2>1. PICK j \in ToSet(queue) : j = sending /\ sending # NoJob
    BY <1>0, <1>8 DEF PassRight, Delivered, SendFails, SendRejected, AnswerLost
  <2>2. Settle(j) /\ EndSend /\ Save /\ UNCHANGED <<call, historyVars>>
    BY <1>8, <2>1, EndsSettle
  <2>3. /\ CallsAlone' /\ receipts' \cap ToSet(queue') = {}
        /\ (disk.receipts)' \cap ToSet((disk.queue)') = {}
        /\ receipts \subseteq receipts'
        /\ MarkDelivered(j) => j \in receipts'
    BY <2>2, ReceiptsOfSettled
  <2>4. \/ ~answered /\ faults' = faults
        \/ MarkDelivered(j) /\ faults' = faults
        \/ faults' = faults + 1
    BY <1>8, <2>1 DEF Delivered, SendFails, SendRejected, AnswerLost
  <2>5. Counted'
    <3>0. sending' = NoJob /\ sent' = sent
      BY <2>2 DEF EndSend, historyVars
    <3> SUFFICES ASSUME NEW e \in Job
                 PROVE  sent[e] <= 1 + faults' /\ (e \notin receipts' => sent[e] <= faults')
      BY <3>0, NotifyAssumption DEF Counted
    <3>1. /\ sent[e] <= 1 + faults /\ sent[e] \in Nat
          /\ e \notin receipts /\ ~(sending = e /\ answered) => sent[e] <= faults
      BY <1>0 DEF Counted
    <3> QED
      BY <1>0, <2>1, <2>3, <2>4, <3>1
  <2> QED
    BY <2>3, <2>5 DEF OnceInv
<1>9. CASE \E h \in Handler : HandlerStep(h)
  BY <1>9, OnceOfHandlers
<1> QED
  BY <1>1, <1>2, <1>3, <1>4, <1>5, <1>6, <1>7, <1>8, <1>9
     DEF Next, vars, Dispatch, StartPass, SkipPaused, dispatchVars, historyVars

\* Without repeated events in the queue, OnceInv is an invariant.
LEMMA OnceAlways ==
    ASSUME ~RepeatWhileQueued
    PROVE  Spec => [](TypeInv /\ OnceInv)
<1>1. Init => OnceInv
  <2>1. ToSet(<<>>) = {}
    BY DEF ToSet
  <2> QED
    BY <2>1, NotifyAssumption DEF Init, OnceInv, CallsAlone, Counted, memory
<1> QED
  BY <1>1, OnceStep, TypeAlways, PTL DEF Spec

\* As long as no event is notified again before its jobs have settled, each message
\* reaches its robot once and once more at most for each crash and each lost answer:
\* neither a save that fails nor handlers that check receipts and queue at different
\* times add one.
THEOREM MessagesAreSentOnce ==
    ASSUME ~RepeatWhileQueued
    PROVE  Spec => []SentOncePerFault
<1>1. OnceInv => SentOncePerFault
  BY DEF OnceInv, Counted, SentOncePerFault
<1> QED
  BY <1>1, OnceAlways, PTL

\* Then also what is queued has no receipt and has attempts left.
THEOREM QueueHoldsWhatIsToBeSent ==
    ASSUME ~RepeatWhileQueued
    PROVE  Spec => []QueuedIsUnfinished
<1>1. OnceInv => ReceiptEndsJob
  BY DEF OnceInv, ReceiptEndsJob, Queued
<1>2. ReceiptEndsJob /\ QueuedHasAttempts => QueuedIsUnfinished
  BY DEF QueuedIsUnfinished
<1> QED
  BY <1>1, <1>2, OnceAlways, AttemptsAreCounted, PTL
=============================================================================
