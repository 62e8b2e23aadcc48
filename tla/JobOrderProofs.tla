---------------------------- MODULE JobOrderProofs ----------------------------
(***************************************************************************)
(* Theorems about the order in which jobs pass through the queues, and     *)
(* about what that order is good for: nothing is lost and nobody waits in  *)
(* a circle.  They speak of TensorJobs for any number of nodes and jobs,   *)
(* and of every state before the first crash; where a verdict matters, of  *)
(* every state before the first lost write and the first deletion.         *)
(***************************************************************************)
EXTENDS TensorJobsProofs

-----------------------------------------------------------------------------
(* The inductive invariant.                                                *)

\* A launch that waits for an update job is queued after UpdateProject queued
\* that job.
Linked ==
    /\ \A j \in LaunchedJob : handler[j] \in {"none", "inserted"} => previous[j] = NoJob
    /\ \A j \in LaunchedJob : previous[j] # NoJob /\ handler[j] \in {"updated", "done"} =>
         handler[previous[j]] = "done"

\* No crash, no dead connection.
Connected == crashes = 0 => up = Node /\ \A q \in Queue : unclaimed[q] = {}

Dependent == {a \in AnsibleJob : previous[a] # NoJob}

\* On the queue an update job is ahead of its dependent.
QueueOrder ==
    LET s == ready["ansibleq"] IN
    \A a \in Dependent : \A i, k \in 1 .. Len(s) : s[i] = a /\ s[k] = previous[a] => k < i

\* Who has taken the dependent off the queue has left no update job behind.
NodeOrder ==
    \A a \in Dependent, n \in Node :
        /\ prefetched[n]["ansibleq"] = a => ~IsReady("ansibleq", previous[a])
        /\ held[n]["ansibleq"] = a =>
             ~IsReady("ansibleq", previous[a]) /\ prefetched[n]["ansibleq"] # previous[a]

\* The consumer of node n has a job that waits for the one in the channel of m.
WaitsFor(n, m) ==
    /\ held[n]["ansibleq"] \in Dependent
    /\ prefetched[m]["ansibleq"] = previous[held[n]["ansibleq"]]

\* Any set of nodes has one that waits for none of the set.
NoCircle ==
    \A S \in SUBSET Node : S # {} => \E n \in S : \A m \in S : ~WaitsFor(n, m)

InOrder == QueueOrder /\ NodeOrder /\ NoCircle

Ordered == Linked /\ Connected /\ (crashes = 0 => InOrder)

-----------------------------------------------------------------------------
(* The order of the queue.                                                 *)

LEMMA LinkedStep ==
    ASSUME TypeOK, Located, Recorded, Linked, Step
    PROVE  Linked'
<1> USE ConstantFacts
<1>t. /\ handler \in [Job -> HandlerPhase]
      /\ previous \in [Job -> UpdateJob \cup {NoJob}]
  BY DEF TypeOK
<1>0. ASSUME UNCHANGED <<handler, previous>> PROVE Linked'
  BY <1>0 DEF Linked
<1>1. ASSUME NEW n \in Node, HandlerStep(n) PROVE Linked'
  <2>1. ASSUME NEW j \in LaunchedJob, Launch(n, j) PROVE Linked'
    BY <2>1, <1>t DEF Launch, Linked
  <2>2. ASSUME NEW j \in LaunchedJob, NEW u \in UpdateJob, LaunchWithUpdate(n, j, u) PROVE Linked'
    BY <2>2, <1>t DEF LaunchWithUpdate, BeginUpdate, Linked
  <2>3. ASSUME NEW u \in UpdateJob, RequestUpdate(n, u) PROVE Linked'
    BY <2>3, <1>t DEF RequestUpdate, BeginUpdate, Linked
  <2>4. ASSUME NEW u \in UpdateJob, PublishUpdate(n, u) PROVE Linked'
    BY <2>4, <1>t DEF PublishUpdate, Callers, Linked
  <2>5. ASSUME NEW u \in UpdateJob, AbortUpdate(n, u) PROVE Linked'
    BY <2>5, <1>t DEF AbortUpdate, Callers, Linked
  <2>6. ASSUME NEW j \in LaunchedJob, PublishJob(n, j) PROVE Linked'
    BY <2>6, <1>t DEF PublishJob, Linked
  <2>7. ASSUME NEW j \in LaunchedJob, AbortLaunch(n, j) PROVE Linked'
    BY <2>7, <1>t DEF AbortLaunch, Linked
  <2> QED BY <1>1, <2>1, <2>2, <2>3, <2>4, <2>5, <2>6, <2>7 DEF HandlerStep
<1>2. ASSUME NEW n \in Node, Crash(n) PROVE Linked'
  BY <1>2, <1>t DEF Crash, InProgress, Linked
<1>3. ASSUME NEW n \in Node, NEW q \in Queue, RunnerStep(n, q) PROVE UNCHANGED <<handler, previous>>
  BY <1>3 DEF RunnerStep, Consume, RecordStep, Record, AdvanceStep, LeaveStep, apiVars
<1> QED
  BY <1>0, <1>1, <1>2, <1>3 DEF Step, Fetch, ReturnStep, Restart, RemoveStep, apiVars

LEMMA ConnectedStep ==
    ASSUME TypeOK, Connected, Step
    PROVE  Connected'
<1> USE ConstantFacts
<1>t. crashes \in Nat /\ up \subseteq Node
  BY TensorJobsAssumption DEF TypeOK
<1>0. ASSUME UNCHANGED <<crashes, up, unclaimed>> PROVE Connected'
  BY <1>0 DEF Connected
<1>1. ASSUME NEW n \in Node, HandlerStep(n) PROVE UNCHANGED <<crashes, up, unclaimed>>
  BY <1>1 DEF HandlerStep, Launch, LaunchWithUpdate, RequestUpdate, BeginUpdate, PublishUpdate,
              AbortUpdate, PublishJob, AbortLaunch, Publish, queueVars
<1>2. ASSUME NEW n \in Node, NEW q \in Queue, RunnerStep(n, q)
      PROVE  UNCHANGED <<crashes, up, unclaimed>>
  BY <1>2 DEF RunnerStep, Consume, TakeAndAck, RecordStep, Record, AdvanceStep, LeaveStep, queueVars
<1>3. ASSUME NEW n \in Node, Crash(n) PROVE Connected'
  BY <1>3, <1>t DEF Crash, Connected
<1>4. ASSUME NEW n \in Node, Restart(n) PROVE Connected'
  BY <1>4 DEF Restart, Connected, queueVars
<1>5. ASSUME NEW q \in Queue, NEW j \in Job, ReturnStep(q, j) PROVE Connected'
  <2>1. j \in unclaimed[q] /\ UNCHANGED <<crashes, up>>
    BY <1>5 DEF ReturnStep, ReturnUnacked
  <2> QED BY <2>1 DEF Connected
<1> QED
  BY <1>0, <1>1, <1>2, <1>3, <1>4, <1>5 DEF Step, Fetch, Prefetch, RemoveStep, queueVars

\* Steps that move no payload, and name no update job for one that has moved.
LEMMA InOrderUnmoved ==
    ASSUME TypeOK, Located, InOrder, UNCHANGED <<ready, prefetched, held>>,
           \A j \in Job : previous'[j] = previous[j] \/ InProgress(j)
    PROVE  InOrder'
<1> USE ConstantFacts
<1>t. ready["ansibleq"] \in Seq(Job)
  BY DEF TypeOK, TypeOKQueue
<1>a. ASSUME NEW a \in AnsibleJob, OnQueue(a) \/ Held(a)
      PROVE  previous'[a] = previous[a] /\ (a \in Dependent' <=> a \in Dependent)
  BY <1>a, QueuedIsDone DEF Dependent
<1>1. QueueOrder'
  <2> DEFINE s == ready["ansibleq"]
  <2> SUFFICES ASSUME NEW a \in Dependent', NEW i \in 1 .. Len(s), NEW k \in 1 .. Len(s),
                      s[i] = a, s[k] = previous'[a]
               PROVE  k < i
    BY DEF QueueOrder
  <2>1. a \in AnsibleJob /\ OnQueue(a)
    BY <1>t DEF Dependent, OnQueue, IsReady, Range
  <2> QED BY <2>1, <1>a DEF InOrder, QueueOrder
<1>2. NodeOrder'
  <2> SUFFICES ASSUME NEW a \in Dependent', NEW n \in Node,
                      prefetched[n]["ansibleq"] = a \/ held[n]["ansibleq"] = a
               PROVE  /\ ~IsReady("ansibleq", previous'[a])
                      /\ held[n]["ansibleq"] = a => prefetched[n]["ansibleq"] # previous'[a]
    BY DEF NodeOrder, IsReady
  <2>1. a \in AnsibleJob /\ (OnQueue(a) \/ Held(a))
    BY DEF Dependent, OnQueue, Prefetched, Held
  <2> QED BY <2>1, <1>a DEF InOrder, NodeOrder
<1>3. ASSUME NEW n \in Node, NEW m \in Node, WaitsFor(n, m)' PROVE WaitsFor(n, m)
  <2>1. held[n]["ansibleq"] \in AnsibleJob /\ Held(held[n]["ansibleq"])
    BY <1>3 DEF WaitsFor, Dependent, Held
  <2> QED BY <1>3, <2>1, <1>a DEF WaitsFor
<1>4. NoCircle'
  BY <1>3 DEF InOrder, NoCircle
<1> QED BY <1>1, <1>2, <1>4 DEF InOrder

\* A handler publishes job x: an update job nobody waits for yet, or a job whose
\* update job is already on its way.
LEMMA InOrderPublish ==
    ASSUME TypeOK, Located, Linked, InOrder, NEW x \in Job, handler[x] # "done",
           x \in LaunchedJob /\ previous[x] # NoJob => handler[previous[x]] = "done",
           Publish(QueueOf(x), x), UNCHANGED <<held, previous>>
    PROVE  InOrder'
<1> USE ConstantFacts
<1> DEFINE s == ready["ansibleq"]
<1>t. /\ s \in Seq(Job)
      /\ ready \in [Queue -> Seq(Job)]
      /\ Len(s) \in Nat
      /\ QueueOf(x) \in Queue
  BY DEF TypeOK, TypeOKQueue, QueueOf
<1>1. /\ UNCHANGED <<prefetched, unclaimed>>
      /\ ready'["ansibleq"] = s \/ ready'["ansibleq"] = Append(s, x)
      /\ Dependent' = Dependent
  BY <1>t DEF Publish, Dependent
<1>n. ~OnQueue(x) /\ ~Held(x)
  BY DEF Located, Published
<1>p. ASSUME NEW a \in Dependent, OnQueue(a) \/ Held(a) PROVE previous[a] # x
  <2>1. a \in LaunchedJob /\ handler[a] = "done" /\ previous[a] # NoJob
    BY <1>p, QueuedIsDone DEF Dependent
  <2> QED BY <2>1 DEF Linked
<1>2. QueueOrder'
  <2>1. CASE ready'["ansibleq"] = s
    BY <2>1, <1>1 DEF InOrder, QueueOrder
  <2>2. CASE ready'["ansibleq"] = Append(s, x)
    <3> DEFINE e == Append(s, x)
    <3> SUFFICES ASSUME NEW a \in Dependent, NEW i \in 1 .. Len(e), NEW k \in 1 .. Len(e),
                        e[i] = a, e[k] = previous[a]
                 PROVE  k < i
      BY <2>2, <1>1 DEF QueueOrder
    <3>1. /\ Len(e) = Len(s) + 1 /\ e[Len(s) + 1] = x
          /\ \A l \in 1 .. Len(s) : e[l] = s[l]
      BY <1>t
    <3>2. CASE i = Len(s) + 1
      <4>1. previous[a] # a
        BY DEF Dependent, TypeOK
      <4>2. k # i
        BY <4>1
      <4> QED BY <3>1, <3>2, <4>2, <1>t
    <3>3. CASE i # Len(s) + 1
      <4>1. i \in 1 .. Len(s) /\ s[i] = a
        BY <3>1, <3>3, <1>t
      <4>2. OnQueue(a)
        BY <4>1, <1>t DEF OnQueue, IsReady, Range
      <4>3. k # Len(s) + 1
        BY <4>2, <3>1, <1>p
      <4>4. k \in 1 .. Len(s) /\ s[k] = previous[a]
        BY <4>3, <3>1, <1>t
      <4> QED BY <4>1, <4>4 DEF InOrder, QueueOrder
    <3> QED BY <3>2, <3>3
  <2> QED BY <2>1, <2>2, <1>1
<1>3. \A j \in Job : IsReady("ansibleq", j)' => IsReady("ansibleq", j) \/ j = x
  <2>1. Range(Append(s, x)) = Range(s) \cup {x}
    BY <1>t, AppendDistinct
  <2> QED BY <1>1, <2>1 DEF IsReady
<1>4. NodeOrder'
  <2> SUFFICES ASSUME NEW a \in Dependent, NEW n \in Node,
                      prefetched[n]["ansibleq"] = a \/ held[n]["ansibleq"] = a
               PROVE  /\ ~IsReady("ansibleq", previous[a])'
                      /\ held[n]["ansibleq"] = a => prefetched[n]["ansibleq"] # previous[a]
    BY <1>1 DEF NodeOrder, IsReady
  <2>1. previous[a] # x
    BY <1>p DEF OnQueue, Prefetched, Held
  <2>2. previous[a] \in Job
    BY DEF Dependent, TypeOK
  <2> QED BY <2>1, <2>2, <1>3 DEF InOrder, NodeOrder
<1>5. \A n, m \in Node : WaitsFor(n, m)' <=> WaitsFor(n, m)
  BY <1>1 DEF WaitsFor
<1>6. NoCircle'
  BY <1>5 DEF InOrder, NoCircle
<1> QED BY <1>2, <1>4, <1>6 DEF InOrder

\* The head of the queue moves to an empty channel.
LEMMA InOrderFetch ==
    ASSUME TypeOK, Located, InOrder, NEW n \in Node, NEW q \in Queue, Fetch(n, q)
    PROVE  InOrder'
<1> USE ConstantFacts
<1> DEFINE s == ready["ansibleq"]
<1>t. /\ ready \in [Queue -> Seq(Job)]
      /\ s \in Seq(Job)
      /\ prefetched \in [Node -> [Queue -> Job \cup {NoJob}]]
  BY DEF TypeOK, TypeOKQueue
<1>f. UNCHANGED <<held, previous>> /\ Dependent' = Dependent
  BY DEF Fetch, apiVars, runVars, Dependent
<1>0. CASE q # "ansibleq"
  <2>1. /\ ready'["ansibleq"] = s
        /\ \A m \in Node : prefetched'[m]["ansibleq"] = prefetched[m]["ansibleq"]
    BY <1>0, <1>t DEF Fetch, Prefetch
  <2>2. QueueOrder'
    BY <2>1, <1>f DEF InOrder, QueueOrder
  <2>3. NodeOrder'
    BY <2>1, <1>f DEF InOrder, NodeOrder, IsReady
  <2>4. \A l, m \in Node : WaitsFor(l, m)' <=> WaitsFor(l, m)
    BY <2>1, <1>f DEF WaitsFor
  <2>5. NoCircle'
    BY <2>4 DEF InOrder, NoCircle
  <2> QED BY <2>2, <2>3, <2>5 DEF InOrder
<1>1. CASE q = "ansibleq"
  <2>1. /\ s # <<>> /\ ready'["ansibleq"] = Tail(s)
        /\ prefetched[n]["ansibleq"] = NoJob
        /\ \A m \in Node : prefetched'[m]["ansibleq"] =
             IF m = n THEN Head(s) ELSE prefetched[m]["ansibleq"]
    BY <1>1, <1>t DEF Fetch, Prefetch
  <2>2. /\ Head(s) \in Job /\ Head(s) = s[1] /\ Len(s) \in Nat \ {0}
        /\ Len(Tail(s)) = Len(s) - 1
        /\ \A i \in 1 .. Len(Tail(s)) : i + 1 \in 1 .. Len(s) /\ Tail(s)[i] = s[i + 1]
    BY <2>1, <1>t
  <2>3. /\ Range(s) = Range(Tail(s)) \cup {Head(s)}
        /\ \A j \in Range(Tail(s)) : \E i \in 2 .. Len(s) : s[i] = j
    <3>1. \A j \in Range(Tail(s)) : \E i \in 1 .. Len(Tail(s)) : Tail(s)[i] = j
      <4>1. Tail(s) \in Seq(Job) /\ DOMAIN Tail(s) = 1 .. Len(Tail(s))
        BY <2>1, <1>t
      <4> QED BY <4>1 DEF Range
    <3>2. \A i \in 1 .. Len(Tail(s)) : i + 1 \in 2 .. Len(s)
      BY <2>2
    <3>3. Range(s) = Range(Tail(s)) \cup {Head(s)}
      BY <2>1, <1>t, TailDistinct
    <3> QED BY <3>1, <3>2, <3>3, <2>2
  <2>4. QueueOrder'
    <3> SUFFICES ASSUME NEW a \in Dependent, NEW i \in 1 .. Len(Tail(s)),
                        NEW k \in 1 .. Len(Tail(s)), Tail(s)[i] = a, Tail(s)[k] = previous[a]
                 PROVE  k < i
      BY <2>1, <1>f DEF QueueOrder
    <3>1. k + 1 < i + 1
      BY <2>2 DEF InOrder, QueueOrder
    <3> QED BY <3>1, <2>2
  <2>5. \A j : IsReady("ansibleq", j)' => IsReady("ansibleq", j)
    BY <2>1, <2>3 DEF IsReady
  <2>6. \A a \in Dependent : IsReady("ansibleq", previous[a]) =>
          \A m \in Node : held[m]["ansibleq"] # a
    BY DEF InOrder, NodeOrder
  <2>7. IsReady("ansibleq", Head(s))
    BY <2>3 DEF IsReady
  <2>8. NodeOrder'
    <3> SUFFICES ASSUME NEW a \in Dependent, NEW m \in Node
                 PROVE  /\ prefetched'[m]["ansibleq"] = a => ~IsReady("ansibleq", previous[a])'
                        /\ held[m]["ansibleq"] = a =>
                             /\ ~IsReady("ansibleq", previous[a])'
                             /\ prefetched'[m]["ansibleq"] # previous[a]
      BY <1>f DEF NodeOrder, IsReady
    <3>1. held[m]["ansibleq"] = a =>
            ~IsReady("ansibleq", previous[a])' /\ prefetched'[m]["ansibleq"] # previous[a]
      BY <1>f, <2>1, <2>5, <2>6, <2>7 DEF InOrder, NodeOrder
    <3>2. ASSUME prefetched'[m]["ansibleq"] = a, IsReady("ansibleq", previous[a])'
          PROVE  FALSE
      <4>1. CASE m = n
        <5>1. PICK i \in 2 .. Len(s) : s[i] = previous[a]
          BY <3>2, <1>f, <2>1, <2>3 DEF IsReady
        <5>2. s[1] = a /\ 1 \in 1 .. Len(s) /\ i \in 1 .. Len(s)
          BY <4>1, <3>2, <2>1, <2>2
        <5>3. i < 1
          BY <5>1, <5>2 DEF InOrder, QueueOrder
        <5> QED BY <5>3
      <4>2. CASE m # n
        BY <4>2, <3>2, <1>f, <2>1, <2>5 DEF InOrder, NodeOrder
      <4> QED BY <4>1, <4>2
    <3> QED BY <3>1, <3>2
  <2>9. ASSUME NEW l \in Node, NEW m \in Node, WaitsFor(l, m)' PROVE WaitsFor(l, m)
    BY <2>9, <1>f, <2>1, <2>6, <2>7 DEF WaitsFor
  <2>10. NoCircle'
    BY <2>9 DEF InOrder, NoCircle
  <2> QED BY <2>4, <2>8, <2>10 DEF InOrder
<1> QED BY <1>0, <1>1

\* A consumer takes the job of its channel: it may wait for others from then on,
\* but as its channel is empty nobody waits for what is in it.
LEMMA InOrderConsume ==
    ASSUME TypeOK, Located, InOrder, NEW n \in Node, NEW q \in Queue, Consume(n, q)
    PROVE  InOrder'
<1> USE ConstantFacts
<1>t. /\ prefetched \in [Node -> [Queue -> Job \cup {NoJob}]]
      /\ held \in [Node -> [Queue -> Job \cup {NoJob}]]
      /\ \A a \in Dependent : previous[a] \in Job
  BY DEF TypeOK, TypeOKQueue, Dependent
<1>1. PICK j \in Job : TakeAndAck(n, q, j) /\ held' = [held EXCEPT ![n][q] = j]
  BY DEF Consume
<1>2. /\ prefetched[n][q] = j
      /\ \A m \in Node, r \in Queue :
           /\ prefetched'[m][r] = IF m = n /\ r = q THEN NoJob ELSE prefetched[m][r]
           /\ held'[m][r] = IF m = n /\ r = q THEN j ELSE held[m][r]
      /\ UNCHANGED <<ready, previous>> /\ Dependent' = Dependent
  BY <1>1, <1>t DEF TakeAndAck, Consume, apiVars, Dependent
<1>3. QueueOrder'
  BY <1>2 DEF InOrder, QueueOrder
<1>4. NodeOrder'
  <2>1. \A i : IsReady("ansibleq", i)' <=> IsReady("ansibleq", i)
    BY <1>2 DEF IsReady
  <2> SUFFICES ASSUME NEW a \in Dependent, NEW m \in Node
               PROVE  /\ prefetched'[m]["ansibleq"] = a => ~IsReady("ansibleq", previous[a])
                      /\ held'[m]["ansibleq"] = a =>
                           /\ ~IsReady("ansibleq", previous[a])
                           /\ prefetched'[m]["ansibleq"] # previous[a]
    BY <1>2, <2>1 DEF NodeOrder
  <2>2. a # NoJob /\ previous[a] # NoJob
    BY DEF Dependent
  <2> QED BY <1>2, <2>2 DEF InOrder, NodeOrder
<1>5. ASSUME q = "ansibleq", NEW l \in Node PROVE ~WaitsFor(l, n)'
  BY <1>5, <1>2, <1>t DEF WaitsFor
<1>6. ASSUME NEW l \in Node, NEW m \in Node, WaitsFor(l, m)'
      PROVE  WaitsFor(l, m) \/ (l = n /\ q = "ansibleq")
  BY <1>6, <1>2, <1>t DEF WaitsFor
<1>7. NoCircle'
  <2> SUFFICES ASSUME NEW S \in SUBSET Node, S # {}
               PROVE  \E l \in S : \A m \in S : ~WaitsFor(l, m)'
    BY DEF NoCircle
  <2>1. CASE S \ {n} # {} /\ q = "ansibleq"
    <3>1. PICK l \in S \ {n} : \A m \in S \ {n} : ~WaitsFor(l, m)
      BY <2>1 DEF InOrder, NoCircle
    <3> QED BY <2>1, <3>1, <1>5, <1>6
  <2>2. CASE S \ {n} = {} /\ q = "ansibleq"
    BY <2>2, <1>5
  <2>3. CASE q # "ansibleq"
    BY <2>3, <1>6 DEF InOrder, NoCircle
  <2> QED BY <2>1, <2>2, <2>3
<1> QED BY <1>3, <1>4, <1>7 DEF InOrder

LEMMA InOrderLeave ==
    ASSUME TypeOK, InOrder, NEW n \in Node, NEW q \in Queue, LeaveStep(n, q)
    PROVE  InOrder'
<1> USE ConstantFacts
<1>1. /\ \A m \in Node, r \in Queue :
           held'[m][r] = IF m = n /\ r = q THEN NoJob ELSE held[m][r]
      /\ UNCHANGED <<ready, prefetched, previous>> /\ Dependent' = Dependent
      /\ NoJob \notin Dependent
  BY DEF LeaveStep, Leave, apiVars, queueVars, TypeOK, Dependent
<1>2. QueueOrder'
  BY <1>1 DEF InOrder, QueueOrder
<1>3. NodeOrder'
  BY <1>1 DEF InOrder, NodeOrder, IsReady
<1>4. \A l, m \in Node : WaitsFor(l, m)' => WaitsFor(l, m)
  BY <1>1 DEF WaitsFor
<1>5. NoCircle'
  BY <1>4 DEF InOrder, NoCircle
<1> QED BY <1>2, <1>3, <1>5 DEF InOrder

LEMMA InOrderStep ==
    ASSUME TypeOK, Located, Linked, Connected, InOrder, Step, crashes = 0, crashes' = 0
    PROVE  InOrder'
<1> USE ConstantFacts
<1>t. /\ handler \in [Job -> HandlerPhase]
      /\ previous \in [Job -> UpdateJob \cup {NoJob}]
  BY DEF TypeOK
<1>1. ASSUME NEW n \in Node, HandlerStep(n) PROVE InOrder'
  <2>1. ASSUME NEW j \in LaunchedJob, Launch(n, j) PROVE InOrder'
    BY <2>1, InOrderUnmoved DEF Launch, queueVars, runVars
  <2>2. ASSUME NEW j \in LaunchedJob, NEW u \in UpdateJob, LaunchWithUpdate(n, j, u) PROVE InOrder'
    <3>1. \A i \in Job : previous'[i] = previous[i] \/ InProgress(i)
      BY <2>2, <1>t DEF LaunchWithUpdate, InProgress
    <3> QED BY <2>2, <3>1, InOrderUnmoved DEF LaunchWithUpdate, BeginUpdate, queueVars, runVars
  <2>3. ASSUME NEW u \in UpdateJob, RequestUpdate(n, u) PROVE InOrder'
    BY <2>3, InOrderUnmoved DEF RequestUpdate, BeginUpdate, queueVars, runVars
  <2>4. ASSUME NEW u \in UpdateJob, PublishUpdate(n, u) PROVE InOrder'
    <3>1. QueueOf(u) = "ansibleq" /\ u \notin LaunchedJob
      BY DEF QueueOf, LaunchedJob
    <3> QED BY <2>4, <3>1, InOrderPublish DEF PublishUpdate, runVars
  <2>5. ASSUME NEW u \in UpdateJob, AbortUpdate(n, u) PROVE InOrder'
    BY <2>5, InOrderUnmoved DEF AbortUpdate, queueVars, runVars
  <2>6. ASSUME NEW j \in LaunchedJob, PublishJob(n, j) PROVE InOrder'
    <3>1. previous[j] # NoJob => handler[previous[j]] = "done"
      BY <2>6 DEF PublishJob, Linked
    <3>2. handler[j] # "done"
      BY <2>6 DEF PublishJob
    <3> QED BY <2>6, <3>1, <3>2, InOrderPublish DEF PublishJob, runVars
  <2>7. ASSUME NEW j \in LaunchedJob, AbortLaunch(n, j) PROVE InOrder'
    BY <2>7, InOrderUnmoved DEF AbortLaunch, queueVars, runVars
  <2> QED BY <1>1, <2>1, <2>2, <2>3, <2>4, <2>5, <2>6, <2>7 DEF HandlerStep
<1>2. ASSUME NEW n \in Node, NEW q \in Queue, RunnerStep(n, q) PROVE InOrder'
  <2>1. CASE Consume(n, q)
    BY <2>1, InOrderConsume
  <2>2. CASE RecordStep(n, q)
    BY <2>2, InOrderUnmoved DEF RecordStep, Record, queueVars, apiVars
  <2>3. CASE AdvanceStep(n, q)
    BY <2>3, InOrderUnmoved DEF AdvanceStep, queueVars, apiVars
  <2>4. CASE LeaveStep(n, q)
    BY <2>4, InOrderLeave
  <2> QED BY <1>2, <2>1, <2>2, <2>3, <2>4 DEF RunnerStep
<1>3. ASSUME NEW q \in Queue, NEW j \in Job, ReturnStep(q, j) PROVE FALSE
  BY <1>3 DEF ReturnStep, ReturnUnacked, Connected
<1>4. ASSUME NEW n \in Node, Crash(n) PROVE FALSE
  BY <1>4 DEF Crash
<1>5. ASSUME NEW n \in Node, Restart(n) PROVE InOrder'
  BY <1>5, InOrderUnmoved DEF Restart, queueVars, apiVars, runVars
<1>6. CASE RemoveStep
  BY <1>6, InOrderUnmoved DEF RemoveStep, queueVars, apiVars, runVars
<1> QED BY <1>1, <1>2, <1>3, <1>4, <1>5, <1>6, InOrderFetch DEF Step

\* Crashes are counted.
LEMMA CrashesGrow ==
    ASSUME TypeOK, Step
    PROVE  crashes' = crashes \/ (crashes' = crashes + 1 /\ crashes \in Nat)
<1>t. crashes \in Nat
  BY TensorJobsAssumption DEF TypeOK
<1>1. ASSUME NEW n \in Node, HandlerStep(n) PROVE UNCHANGED crashes
  BY <1>1 DEF HandlerStep, Launch, LaunchWithUpdate, RequestUpdate, BeginUpdate, PublishUpdate,
              AbortUpdate, PublishJob, AbortLaunch
<1>2. ASSUME NEW n \in Node, NEW q \in Queue, RunnerStep(n, q) PROVE UNCHANGED crashes
  BY <1>2 DEF RunnerStep, Consume, RecordStep, Record, AdvanceStep, LeaveStep
<1> QED
  BY <1>t, <1>1, <1>2 DEF Step, Fetch, ReturnStep, Crash, Restart, RemoveStep

LEMMA InitOrdered == Init => Ordered
<1> SUFFICES ASSUME Init PROVE Ordered
  OBVIOUS
<1> USE ConstantFacts
<1>1. Linked
  BY DEF Init, Linked
<1>2. Connected
  BY DEF Init, InitQueue, Connected
<1>3. Dependent = {}
  BY DEF Init, Dependent, LaunchedJob
<1>4. InOrder
  BY <1>3 DEF InOrder, QueueOrder, NodeOrder, NoCircle, WaitsFor
<1> QED BY <1>1, <1>2, <1>4 DEF Ordered

LEMMA NextOrdered == IInv /\ Ordered /\ [Next]_vars => Ordered'
<1> SUFFICES ASSUME TypeOK, Located, Recorded, Ordered, [Next]_vars PROVE Ordered'
  BY IInvParts
<1>1. CASE Next
  <2>1. Step
    BY <1>1, NextStep
  <2>2. crashes' = 0 => crashes = 0
    BY <2>1, CrashesGrow
  <2> QED BY <2>1, <2>2, LinkedStep, ConnectedStep, InOrderStep DEF Ordered
<1>2. CASE UNCHANGED vars
  <2>1. UNCHANGED <<ready, prefetched, unclaimed, held, handler, previous, up, crashes>>
    BY <1>2 DEF vars, queueVars, apiVars, runVars
  <2>2. Linked' /\ Connected'
    BY <2>1 DEF Ordered, Linked, Connected
  <2>3. InOrder => InOrder'
    BY <2>1, InOrderUnmoved
  <2> QED BY <2>1, <2>2, <2>3 DEF Ordered
<1> QED BY <1>1, <1>2

THEOREM OrderInvariant == Spec => [](IInv /\ Ordered)
<1>1. Init => IInv /\ Ordered
  BY InitIInv, InitOrdered
<1>2. IInv /\ Ordered /\ [Next]_vars => IInv' /\ Ordered'
  BY NextIInv, NextOrdered
<1> QED BY <1>1, <1>2, PTL DEF Spec

\* Until a node crashes, an update job stays in front of the job that waits for
\* it (Launch in api/template.go calls UpdateProject before it publishes; queues
\* are lists, and rmq takes from one end what it put in at the other).
THEOREM UpdatesGoAhead == Spec => [](crashes = 0 => UpdateAhead)
<1>1. IInv /\ Ordered => (crashes = 0 => UpdateAhead)
  <2> SUFFICES ASSUME TypeOK, InOrder, NEW n \in Node, held[n]["ansibleq"] \in AnsibleJob,
                      previous[held[n]["ansibleq"]] # NoJob
               PROVE  LET u == previous[held[n]["ansibleq"]] IN
                      ~IsReady("ansibleq", u) /\ prefetched[n]["ansibleq"] # u
    BY DEF IInv, Ordered, UpdateAhead
  <2> QED BY DEF InOrder, NodeOrder, Dependent
<1> QED BY <1>1, OrderInvariant, PTL

-----------------------------------------------------------------------------
(* Nothing is lost.                                                        *)

\* Nothing but requests has failed so far, and no document was deleted.
Quiet == crashes = 0 /\ lostWrites = 0 /\ \A j \in Job : status[j] # "removed"

\* A consumer that reports to the project or the template has recorded its verdict.
Told ==
    \A n \in Node, q \in Queue :
        phase[n][q] \in {"finished", "reported"} => status[held[n][q]] \in Outcome

Kept == Quiet => NothingLost /\ Told

\* Once lost, always lost.
LEMMA QuietBefore ==
    ASSUME TypeOK, Located, Recorded, Step, Quiet'
    PROVE  Quiet
<1> USE ConstantFacts
<1>t. /\ lostWrites \in Nat
      /\ status \in [Job -> Status \cup NoDocument]
  BY JobDocsAssumption DEF TypeOK, TypeOKDocs
<1>1. crashes = 0
  BY CrashesGrow DEF Quiet
<1>0. ASSUME UNCHANGED <<lostWrites, status>> PROVE Quiet
  BY <1>0, <1>1 DEF Quiet
<1>2. ASSUME NEW j \in Job, NEW s \in {"new", "pending"}, InsertJob(j, s) PROVE Quiet
  BY <1>1, <1>2, <1>t DEF InsertJob, Quiet
<1>3. ASSUME NEW n \in Node, HandlerStep(n) PROVE Quiet
  BY <1>0, <1>2, <1>3 DEF HandlerStep, Launch, LaunchWithUpdate, RequestUpdate, BeginUpdate,
                          PublishUpdate, AbortUpdate, PublishJob, AbortLaunch, docVars
<1>4. ASSUME NEW n \in Node, NEW q \in Queue, RecordStep(n, q) PROVE Quiet
  <2>1. PICK s \in Status : SetStatus(held[n][q], s)
    BY <1>4 DEF RecordStep, Record
  <2>2. lostWrites = 0
    BY <2>1, <1>t DEF SetStatus, Quiet
  <2>3. \A j \in Job : status[j] = "removed" => status'[j] = "removed"
    BY <2>1, <1>t DEF SetStatus, Exists, NoDocument
  <2> QED BY <1>1, <2>2, <2>3 DEF Quiet
<1>5. ASSUME NEW n \in Node, NEW q \in Queue, RunnerStep(n, q) PROVE Quiet
  BY <1>0, <1>4, <1>5 DEF RunnerStep, Consume, AdvanceStep, LeaveStep, docVars
<1>6. CASE RemoveStep
  BY <1>6, <1>1 DEF RemoveStep, Quiet, Exists, NoDocument
<1> QED
  BY <1>0, <1>3, <1>5, <1>6 DEF Step, Fetch, ReturnStep, Crash, Restart, docVars

\* Steps that write no document and keep every published job on a queue or in
\* the hands of a consumer.
LEMMA KeptFrame ==
    ASSUME NothingLost, Told, UNCHANGED status,
           \A j \in Job : handler'[j] = "done" /\ handler[j] # "done" => OnQueue(j)',
           \A j \in Job : OnQueue(j) \/ Held(j) =>
               OnQueue(j)' \/ Held(j)' \/ status[j] \in Outcome,
           \A n \in Node, q \in Queue : phase'[n][q] \in {"finished", "reported"} =>
               phase[n][q] \in {"finished", "reported"} /\ held'[n][q] = held[n][q]
    PROVE  NothingLost' /\ Told'
<1>1. NothingLost'
  BY DEF NothingLost
<1>2. Told'
  BY DEF Told
<1> QED BY <1>1, <1>2

\* A published job is on its queue, and no other leaves it.
LEMMA PublishedIsOnQueue ==
    ASSUME TypeOK, NEW q \in Queue, NEW x \in Job, Publish(q, x)
    PROVE  OnQueue(x)' /\ \A j \in Job : OnQueue(j) => OnQueue(j)'
<1>t. ready \in [Queue -> Seq(Job)] /\ ready[q] \in Seq(Job)
  BY ConstantFacts DEF TypeOK, TypeOKQueue
<1>1. /\ Range(ready'[q]) = Range(ready[q]) \cup {x}
      /\ \A r \in Queue \ {q} : ready'[r] = ready[r]
      /\ UNCHANGED <<prefetched, unclaimed>>
  BY <1>t, AppendDistinct DEF Publish
<1> QED BY <1>1 DEF OnQueue, IsReady, Prefetched

LEMMA HandlerStepKept ==
    ASSUME TypeOK, Located, Recorded, NothingLost, Told, NEW n \in Node, HandlerStep(n)
    PROVE  NothingLost' /\ Told'
<1> USE ConstantFacts
<1>t. /\ handler \in [Job -> HandlerPhase]
      /\ status \in [Job -> Status \cup NoDocument]
      /\ \A m \in Node, q \in Queue : held[m][q] \in Job \cup {NoJob}
  BY DEF TypeOK, TypeOKDocs
\* An insert concerns a job that nobody holds.
<1>i. ASSUME NEW x \in Job, NEW s \in {"new", "pending"}, handler[x] = "none", InsertJob(x, s),
             handler'[x] # "done", \A j \in Job : handler'[j] = "done" => handler[j] = "done",
             UNCHANGED <<queueVars, runVars>>
      PROVE  NothingLost' /\ Told'
  <2>1. /\ \A j \in Job \ {x} : status'[j] = status[j]
        /\ UNCHANGED <<ready, prefetched, unclaimed, phase, held>>
    BY <1>i, <1>t DEF InsertJob, queueVars, runVars
  <2>2. \A j \in Job : OnQueue(j)' <=> OnQueue(j)
    BY <2>1, OnQueueUnmoved
  <2>3. \A j \in Job : Held(j)' <=> Held(j)
    BY <2>1 DEF Held
  <2>4. NothingLost'
    BY <1>i, <2>1, <2>2, <2>3 DEF NothingLost
  <2>5. \A m \in Node, q \in Queue : held[m][q] # NoJob => held[m][q] # x
    BY <1>i, <1>t, QueuedIsDone DEF Held
  <2>6. Told'
    BY <2>1, <2>5, <1>t DEF Told, Recorded, Busy
  <2> QED BY <2>4, <2>6
\* A publication moves no consumer.
<1>p. ASSUME NEW x \in Job, NEW q \in Queue, Publish(q, x), UNCHANGED <<status, phase, held>>,
             \A j \in Job : handler'[j] = "done" => handler[j] = "done" \/ j = x
      PROVE  NothingLost' /\ Told'
  <2>1. OnQueue(x)' /\ \A j \in Job : OnQueue(j) => OnQueue(j)'
    BY <1>p, PublishedIsOnQueue
  <2>2. \A j \in Job : Held(j)' <=> Held(j)
    BY <1>p DEF Held
  <2> QED BY <1>p, <2>1, <2>2, KeptFrame
\* Nor does a handler that gives up.
<1>a. ASSUME UNCHANGED <<status, ready, prefetched, unclaimed, phase, held>>,
             \A j \in Job : handler'[j] = "done" => handler[j] = "done"
      PROVE  NothingLost' /\ Told'
  <2>1. \A j \in Job : (OnQueue(j)' <=> OnQueue(j)) /\ (Held(j)' <=> Held(j))
    BY <1>a, OnQueueUnmoved DEF Held
  <2> QED BY <1>a, <2>1, KeptFrame
<1>1. ASSUME NEW j \in LaunchedJob, Launch(n, j) PROVE NothingLost' /\ Told'
  BY <1>1, <1>i, <1>t DEF Launch
<1>2. ASSUME NEW j \in LaunchedJob, NEW u \in UpdateJob, LaunchWithUpdate(n, j, u)
      PROVE  NothingLost' /\ Told'
  BY <1>2, <1>i, <1>t DEF LaunchWithUpdate, BeginUpdate
<1>3. ASSUME NEW u \in UpdateJob, RequestUpdate(n, u) PROVE NothingLost' /\ Told'
  BY <1>3, <1>i, <1>t DEF RequestUpdate, BeginUpdate
<1>4. ASSUME NEW u \in UpdateJob, PublishUpdate(n, u) PROVE NothingLost' /\ Told'
  BY <1>4, <1>p DEF PublishUpdate, Callers, docVars, runVars
<1>5. ASSUME NEW u \in UpdateJob, AbortUpdate(n, u) PROVE NothingLost' /\ Told'
  BY <1>5, <1>a DEF AbortUpdate, docVars, queueVars, runVars
<1>6. ASSUME NEW j \in LaunchedJob, PublishJob(n, j) PROVE NothingLost' /\ Told'
  <2>1. QueueOf(j) \in Queue
    BY DEF QueueOf
  <2> QED BY <1>6, <2>1, <1>p, <1>t DEF PublishJob, docVars, runVars
<1>7. ASSUME NEW j \in LaunchedJob, AbortLaunch(n, j) PROVE NothingLost' /\ Told'
  BY <1>7, <1>a, <1>t DEF AbortLaunch, docVars, queueVars, runVars
<1> QED BY <1>1, <1>2, <1>3, <1>4, <1>5, <1>6, <1>7 DEF HandlerStep

LEMMA RunnerStepKept ==
    ASSUME TypeOK, Located, Recorded, NothingLost, Told, Quiet, Quiet',
           NEW n \in Node, NEW q \in Queue, RunnerStep(n, q)
    PROVE  NothingLost' /\ Told'
<1> USE ConstantFacts
<1>t. /\ phase \in [Node -> [Queue -> Phase]]
      /\ held \in [Node -> [Queue -> Job \cup {NoJob}]]
      /\ prefetched \in [Node -> [Queue -> Job \cup {NoJob}]]
      /\ status \in [Job -> Status \cup NoDocument]
  BY DEF TypeOK, TypeOKDocs, TypeOKQueue
<1>1. CASE Consume(n, q)
  <2>1. PICK j \in Job : TakeAndAck(n, q, j) /\ held' = [held EXCEPT ![n][q] = j]
    BY <1>1 DEF Consume
  <2>2. /\ prefetched[n][q] = j /\ held[n][q] = NoJob
        /\ \A m \in Node, r \in Queue :
             /\ phase'[m][r] = IF m = n /\ r = q THEN "acked" ELSE phase[m][r]
             /\ held'[m][r] = IF m = n /\ r = q THEN j ELSE held[m][r]
             /\ prefetched'[m][r] = IF m = n /\ r = q THEN NoJob ELSE prefetched[m][r]
        /\ UNCHANGED <<ready, unclaimed, status, handler>>
    BY <1>1, <1>t, <2>1 DEF Consume, Enter, TakeAndAck, docVars, apiVars, Recorded, Busy
  <2>3. \A i \in Job : OnQueue(i) => OnQueue(i)' \/ Held(i)'
    BY <2>2 DEF OnQueue, IsReady, Prefetched, Held
  <2>4. \A i \in Job : Held(i) => Held(i)'
    BY <2>2 DEF Held
  <2> QED BY <2>2, <2>3, <2>4, KeptFrame
<1>2. CASE RecordStep(n, q)
  <2> DEFINE h == held[n][q]
  <2>1. PICK s \in Status, p \in Phase : MayRecord(n, q, s, p) /\ Record(n, q, s, p)
    BY <1>2 DEF RecordStep
  <2>2. h \in Job /\ h # NoJob /\ Held(h)
    BY <2>1, <1>t DEF MayRecord, Recorded, Busy, Held
  <2>3. Exists(h)
    <3>1. handler[h] # "none"
      BY <2>2, QueuedIsDone
    <3> QED BY <2>2, <3>1 DEF Recorded, Fresh, Quiet, Exists, NoDocument
  <2>4. /\ status'[h] = s
        /\ \A j \in Job \ {h} : status'[j] = status[j]
    BY <2>1, <2>2, <2>3, <1>t DEF Record, SetStatus, Quiet
  <2>5. /\ \A m \in Node, r \in Queue :
             phase'[m][r] = IF m = n /\ r = q THEN p ELSE phase[m][r]
        /\ UNCHANGED <<ready, prefetched, unclaimed, held, handler>>
    BY <2>1, <1>t DEF Record, Enter, queueVars, apiVars
  <2>6. \A j \in Job : (OnQueue(j)' <=> OnQueue(j)) /\ (Held(j)' <=> Held(j))
    BY <2>5, OnQueueUnmoved DEF Held
  <2>7. NothingLost'
    BY <2>2, <2>4, <2>5, <2>6 DEF NothingLost
  <2>8. Told'
    <3> SUFFICES ASSUME NEW m \in Node, NEW r \in Queue, phase'[m][r] \in {"finished", "reported"}
                 PROVE  status'[held[m][r]] \in Outcome
      BY <2>5 DEF Told
    <3>1. CASE m = n /\ r = q
      BY <3>1, <2>1, <2>4, <2>5 DEF MayRecord, Outcome
    <3>2. CASE ~(m = n /\ r = q)
      <4>1. phase[m][r] \in {"finished", "reported"}
        BY <3>2, <2>5
      <4>2. held[m][r] \in Job \ {h}
        BY <4>1, <3>2, <2>2, <1>t, OnePlaceParts DEF Recorded, Busy, Located, OneHolder
      <4> QED BY <4>1, <4>2, <2>4 DEF Told
    <3> QED BY <3>1, <3>2
  <2> QED BY <2>7, <2>8
<1>3. CASE AdvanceStep(n, q)
  <2>1. PICK p \in Phase :
          /\ \/ phase[n][q] = "waiting" /\ PreviousStatus(n, q) = "successful" /\ p = "cleared"
             \/ phase[n][q] = "getting" /\ p = "running"
             \/ phase[n][q] = "finished" /\ p = "reported"
          /\ Enter(n, q, p)
    BY <1>3 DEF AdvanceStep
  <2>2. /\ \A m \in Node, r \in Queue :
             phase'[m][r] = IF m = n /\ r = q THEN p ELSE phase[m][r]
        /\ UNCHANGED <<ready, prefetched, unclaimed, held, handler, status>>
    BY <1>3, <2>1, <1>t DEF AdvanceStep, Enter, queueVars, apiVars
  <2>3. \A j \in Job : (OnQueue(j)' <=> OnQueue(j)) /\ (Held(j)' <=> Held(j))
    BY <2>2, OnQueueUnmoved DEF Held
  <2> QED BY <2>1, <2>2, <2>3, KeptFrame
<1>4. CASE LeaveStep(n, q)
  <2>1. /\ phase[n][q] \in {"finished", "reported"}
        /\ \A m \in Node, r \in Queue :
             /\ held'[m][r] = IF m = n /\ r = q THEN NoJob ELSE held[m][r]
             /\ phase'[m][r] = IF m = n /\ r = q THEN "idle" ELSE phase[m][r]
        /\ UNCHANGED <<ready, prefetched, unclaimed, handler, status>>
    BY <1>4, <1>t DEF LeaveStep, Leave, Enter, apiVars, queueVars
  <2>2. status[held[n][q]] \in Outcome
    BY <2>1 DEF Told
  <2>3. \A j \in Job : OnQueue(j)' <=> OnQueue(j)
    BY <2>1, OnQueueUnmoved
  <2>4. \A j \in Job : Held(j) => Held(j)' \/ status[j] \in Outcome
    BY <2>1, <2>2 DEF Held
  <2> QED BY <2>1, <2>3, <2>4, KeptFrame
<1> QED BY <1>1, <1>2, <1>3, <1>4 DEF RunnerStep

LEMMA KeptStep ==
    ASSUME TypeOK, Located, Recorded, Kept, Step
    PROVE  Kept'
<1> USE ConstantFacts
<1> SUFFICES ASSUME Quiet' PROVE NothingLost' /\ Told'
  BY DEF Kept
<1>q. Quiet /\ NothingLost /\ Told
  BY QuietBefore DEF Kept
<1>t. /\ ready \in [Queue -> Seq(Job)]
      /\ prefetched \in [Node -> [Queue -> Job \cup {NoJob}]]
      /\ unclaimed \in [Queue -> SUBSET Job]
  BY DEF TypeOK, TypeOKQueue
<1>1. ASSUME NEW n \in Node, NEW q \in Queue, Fetch(n, q) PROVE NothingLost' /\ Told'
  <2>1. /\ ready[q] \in Seq(Job) /\ ready[q] # <<>> /\ ready'[q] = Tail(ready[q])
        /\ prefetched[n][q] = NoJob
        /\ \A r \in Queue \ {q} : ready'[r] = ready[r]
        /\ \A m \in Node, r \in Queue :
             prefetched'[m][r] = IF m = n /\ r = q THEN Head(ready[q]) ELSE prefetched[m][r]
        /\ UNCHANGED <<unclaimed, status, handler, phase, held>>
    BY <1>1, <1>t DEF Fetch, Prefetch, docVars, apiVars, runVars
  <2>2. Range(ready[q]) = Range(ready'[q]) \cup {Head(ready[q])}
    BY <2>1, TailDistinct
  <2>3. ASSUME NEW j \in Job, OnQueue(j) PROVE OnQueue(j)'
    <3>1. CASE j \in Range(ready[q])
      BY <3>1, <2>1, <2>2 DEF OnQueue, IsReady, Prefetched
    <3>2. CASE j \notin Range(ready[q])
      BY <2>3, <3>2, <2>1 DEF OnQueue, IsReady, Prefetched
    <3> QED BY <3>1, <3>2
  <2>4. \A j \in Job : Held(j)' <=> Held(j)
    BY <2>1 DEF Held
  <2> QED BY <1>q, <2>1, <2>3, <2>4, KeptFrame
<1>2. ASSUME NEW q \in Queue, NEW x \in Job, ReturnStep(q, x) PROVE NothingLost' /\ Told'
  <2>1. /\ ready[q] \in Seq(Job) /\ ready'[q] = Append(ready[q], x)
        /\ \A r \in Queue \ {q} : ready'[r] = ready[r] /\ unclaimed'[r] = unclaimed[r]
        /\ unclaimed'[q] = unclaimed[q] \ {x}
        /\ UNCHANGED <<prefetched, status, handler, phase, held>>
    BY <1>2, <1>t DEF ReturnStep, ReturnUnacked, docVars, apiVars, runVars
  <2>2. Range(ready'[q]) = Range(ready[q]) \cup {x}
    BY <2>1, AppendDistinct
  <2>3. \A j \in Job : OnQueue(j) => OnQueue(j)'
    BY <2>1, <2>2 DEF OnQueue, IsReady, Prefetched
  <2>4. \A j \in Job : Held(j)' <=> Held(j)
    BY <2>1 DEF Held
  <2> QED BY <1>q, <2>1, <2>3, <2>4, KeptFrame
<1>3. ASSUME UNCHANGED <<ready, prefetched, unclaimed, status, handler, phase, held>>
      PROVE  NothingLost' /\ Told'
  <2>1. \A j \in Job : (OnQueue(j)' <=> OnQueue(j)) /\ (Held(j)' <=> Held(j))
    BY <1>3, OnQueueUnmoved DEF Held
  <2> QED BY <1>3, <1>q, <2>1, KeptFrame
<1>4. ASSUME NEW n \in Node, Restart(n) PROVE NothingLost' /\ Told'
  BY <1>4, <1>3 DEF Restart, docVars, queueVars, apiVars, runVars
<1>5. ASSUME NEW n \in Node, Crash(n) PROVE FALSE
  BY <1>5, <1>q, CrashesGrow DEF Quiet, Crash
<1>6. CASE RemoveStep
  <2>1. status' = status
    BY <1>6 DEF RemoveStep, Quiet, TypeOK, TypeOKDocs
  <2> QED BY <1>6, <2>1, <1>3 DEF RemoveStep, queueVars, apiVars, runVars
<1> QED BY <1>q, <1>1, <1>2, <1>4, <1>5, <1>6, HandlerStepKept, RunnerStepKept DEF Step

LEMMA InitKept == Init => Kept
<1> SUFFICES ASSUME Init PROVE NothingLost /\ Told
  BY DEF Kept
<1>1. NothingLost
  BY DEF Init, NothingLost
<1>2. Told
  BY DEF Init, Told
<1> QED BY <1>1, <1>2

LEMMA NextKept == IInv /\ Kept /\ [Next]_vars => Kept'
<1> SUFFICES ASSUME TypeOK, Located, Recorded, Kept, [Next]_vars PROVE Kept'
  BY IInvParts
<1>1. CASE Next
  BY <1>1, NextStep, KeptStep
<1>2. CASE UNCHANGED vars
  <2>1. UNCHANGED <<ready, prefetched, unclaimed, held, phase, handler, status, lostWrites, crashes>>
    BY <1>2 DEF vars, docVars, queueVars, apiVars, runVars
  <2>2. \A j \in Job : (OnQueue(j)' <=> OnQueue(j)) /\ (Held(j)' <=> Held(j))
    BY <2>1, OnQueueUnmoved DEF Held
  <2>3. Quiet' <=> Quiet
    BY <2>1 DEF Quiet
  <2>4. NothingLost => NothingLost'
    BY <2>1, <2>2 DEF NothingLost
  <2>5. Told => Told'
    BY <2>1 DEF Told
  <2> QED BY <2>3, <2>4, <2>5 DEF Kept
<1> QED BY <1>1, <1>2

THEOREM KeptInvariant == Spec => [](IInv /\ Ordered /\ Kept)
<1>1. Init => IInv /\ Ordered /\ Kept
  BY InitIInv, InitOrdered, InitKept
<1>2. IInv /\ Ordered /\ Kept /\ [Next]_vars => IInv' /\ Ordered' /\ Kept'
  BY NextIInv, NextOrdered, NextKept
<1> QED BY <1>1, <1>2, PTL DEF Spec

\* While nothing fails but requests and nobody deletes, a job the API answered
\* 201 for is on a queue, in the hands of a consumer, or has its verdict (Consume
\* acks before it runs, and jobSuccess, jobFail and jobError write before the
\* consumer returns).
THEOREM NothingSlips == Spec => [](Quiet => NothingLost)
<1>1. IInv /\ Ordered /\ Kept => (Quiet => NothingLost)
  BY DEF Kept
<1> QED BY <1>1, KeptInvariant, PTL

-----------------------------------------------------------------------------
(* Nobody waits in a circle.                                               *)

\* A consumer that is blocked waits for a published job that has no verdict:
\* it is on the Ansible queue, in a channel, or in the hands of a consumer.
LEMMA BlockedWaits ==
    ASSUME IInv, Linked, Quiet, NothingLost,
           NEW n \in Node, NEW q \in Queue, Blocked(n, q)
    PROVE  LET u == previous[held[n][q]] IN
           /\ held[n][q] \in LaunchedJob /\ u \in UpdateJob
           /\ OnQueue(u) \/ Held(u)
<1> DEFINE u == previous[held[n][q]]
<1> USE ConstantFacts
<1>t. /\ previous \in [Job -> UpdateJob \cup {NoJob}]
      /\ held[n][q] \in Job \cup {NoJob}
  BY DEF IInv, TypeOK
<1>1. held[n][q] \in LaunchedJob /\ u # NoJob
  BY DEF Blocked, IInv, Busy
<1>2. u \in UpdateJob
  BY <1>1, <1>t
<1>3. handler[held[n][q]] = "done"
  BY <1>1 DEF Held, IInv, Published
<1>4. handler[u] = "done"
  BY <1>1, <1>3 DEF Linked
<1>5. OnQueue(u) \/ Held(u)
  BY <1>2, <1>4 DEF NothingLost, Blocked, PreviousStatus
<1> QED BY <1>1, <1>2, <1>5

\* The consumer at the end of the chain has something to do.
LEMMA SomebodyHasWork ==
    ASSUME IInv, Ordered, Quiet, NothingLost
    PROVE  NoGridlock
<1> USE ConstantFacts
<1> DEFINE Works(m) == /\ ~Blocked(m, "ansibleq")
                       /\ \/ phase[m]["ansibleq"] # "idle"
                          \/ prefetched[m]["ansibleq"] # NoJob
                          \/ ready["ansibleq"] # <<>>
           S == {m \in Node : Blocked(m, "ansibleq")}
           Awaited(n, q) == previous[held[n][q]]
<1> SUFFICES ASSUME NEW n \in Node, NEW q \in Queue, Blocked(n, q),
                    \A m \in Node : ~Works(m)
             PROVE  FALSE
  <2>1. up = Node
    BY DEF Quiet, Ordered, Connected
  <2> QED BY <2>1 DEF NoGridlock
<1>t. /\ ready["ansibleq"] \in Seq(Job)
      /\ \A r \in Queue : unclaimed[r] = {}
  BY DEF IInv, TypeOK, TypeOKQueue, Ordered, Connected, Quiet
<1>o. /\ Linked /\ InOrder
  BY DEF Ordered, Quiet
\* An update job in the hands of a consumer keeps that consumer at work.
<1>1. ASSUME NEW u \in UpdateJob PROVE ~Held(u)
  <2> SUFFICES ASSUME NEW m \in Node, NEW r \in Queue, held[m][r] = u PROVE FALSE
    BY DEF Held
  <2>1. r = "ansibleq" /\ u # NoJob
    BY DEF IInv, Homes, QueueOf, LaunchedJob
  <2>2. phase[m]["ansibleq"] # "idle" /\ phase[m]["ansibleq"] # "waiting"
    BY <2>1 DEF IInv, Busy
  <2>3. Works(m)
    BY <2>2 DEF Blocked
  <2> QED BY <2>3
\* One on the queue keeps everybody at work who is not blocked, one in a channel
\* the node of that channel.
<1>2. ASSUME NEW u \in UpdateJob, OnQueue(u)
      PROVE  \/ IsReady("ansibleq", u) /\ S = Node
             \/ \E m \in S : prefetched[m]["ansibleq"] = u
  <2>1. CASE \E r \in Queue : IsReady(r, u)
    <3>1. IsReady("ansibleq", u)
      BY <2>1 DEF IInv, Homes, QueueOf, LaunchedJob, IsReady
    <3>2. ready["ansibleq"] # <<>>
      BY <3>1 DEF IsReady, Range
    <3> QED BY <3>1, <3>2
  <2>2. CASE Prefetched(u)
    <3>1. PICK m \in Node : prefetched[m]["ansibleq"] = u
      BY <2>2 DEF Prefetched, IInv, Homes, QueueOf, LaunchedJob
    <3> QED BY <3>1
  <2> QED BY <1>2, <2>1, <2>2, <1>t DEF OnQueue
<1>3. S # {}
  <2>1. Awaited(n, q) \in UpdateJob /\ OnQueue(Awaited(n, q))
    BY <1>o, <1>1, BlockedWaits
  <2> QED BY <2>1, <1>2
<1>4. ASSUME NEW s \in S PROVE \E m \in S : WaitsFor(s, m)
  <2>1. /\ held[s]["ansibleq"] \in LaunchedJob
        /\ Awaited(s, "ansibleq") \in UpdateJob /\ OnQueue(Awaited(s, "ansibleq"))
    BY <1>o, <1>1, BlockedWaits
  <2>2. held[s]["ansibleq"] \in Dependent
    <3>1. held[s]["ansibleq"] \in AnsibleJob
      BY <2>1 DEF IInv, Homes, QueueOf, LaunchedJob
    <3> QED BY <2>1, <3>1 DEF Dependent
  <2>3. ~IsReady("ansibleq", Awaited(s, "ansibleq"))
    BY <2>2, <1>o DEF InOrder, NodeOrder
  <2>4. PICK m \in S : prefetched[m]["ansibleq"] = Awaited(s, "ansibleq")
    BY <2>1, <2>3, <1>2
  <2> QED BY <2>2, <2>4 DEF WaitsFor
<1>5. PICK s \in S : \A m \in S : ~WaitsFor(s, m)
  BY <1>3, <1>o DEF InOrder, NoCircle
<1> QED BY <1>4, <1>5

\* While nothing fails but requests and nobody deletes, consumers never wait in
\* a circle: whenever one waits for an update job, some Ansible consumer has
\* something to do (ansibleRun waits in a loop without an end, on a consumer
\* that could have run the job it waits for).
THEOREM NoStandstill == Spec => [](Quiet => NoGridlock)
<1>1. IInv /\ Ordered /\ Kept => (Quiet => NoGridlock)
  BY SomebodyHasWork DEF Kept
<1> QED BY <1>1, KeptInvariant, PTL

=============================================================================
