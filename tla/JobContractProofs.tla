-------------------------- MODULE JobContractProofs --------------------------
(***************************************************************************)
(* The job machinery of TensorJobs keeps the contract of JobContract, for  *)
(* any number of nodes, jobs, crashes, lost writes and deletions: its      *)
(* initial states map to the contract's, and each of its steps maps to a   *)
(* step of the contract or changes nothing the contract speaks of.         *)
(***************************************************************************)
EXTENDS JobOrderProofs

-----------------------------------------------------------------------------
(* The stage of a job.                                                     *)

Taken(j) == HeldIn(j, {"acked", "pending", "waiting", "cleared"})
Executing(j) == HeldIn(j, {"getting", "running"})

\* The stage of a job nobody is working on.
AtRest(s) ==
    IF s = "absent" THEN "unborn"
    ELSE IF s = "removed" THEN "forgotten"
    ELSE IF s \in Outcome THEN s ELSE "lost"


LEMMA RestIs ==
    ASSUME NEW s
    PROVE  AtRest(s) = CASE s = "absent" -> "unborn"
             [] s = "removed" -> "forgotten"
             [] s \in Outcome -> s
             [] OTHER -> "lost"
  BY SMT DEF AtRest, Outcome

\* A job is in one place, and its handler is done with it before it is anywhere.
Apart(j) ==
    /\ OnQueue(j) => ~Taken(j) /\ ~Executing(j) /\ ~InProgress(j)
    /\ Taken(j) => ~Executing(j) /\ ~InProgress(j)
    /\ Executing(j) => ~InProgress(j)

StageFacts(j) ==
    /\ Apart(j)
    /\ OnQueue(j) => Stage(j) = "queued"
    /\ Taken(j) => Stage(j) = "taken"
    /\ Executing(j) => Stage(j) = "executing"
    /\ InProgress(j) => Stage(j) = "accepted"
    /\ ~OnQueue(j) /\ ~Taken(j) /\ ~Executing(j) /\ ~InProgress(j) =>
         Stage(j) = AtRest(status[j])

LEMMA StageIs ==
    ASSUME Located, NEW j \in Job
    PROVE  StageFacts(j)
<1>1. Apart(j)
  <2>1. OnQueue(j) => ~Held(j)
    BY ConstantFacts DEF Located, OnePlace, OnQueue, Prefetched, Held
  <2>2. ASSUME Taken(j), Executing(j) PROVE FALSE
    <3>1. PICK n \in Node, q \in Queue :
            held[n][q] = j /\ phase[n][q] \in {"acked", "pending", "waiting", "cleared"}
      BY <2>2 DEF Taken, HeldIn
    <3>2. PICK m \in Node, r \in Queue :
            held[m][r] = j /\ phase[m][r] \in {"getting", "running"}
      BY <2>2 DEF Executing, HeldIn
    <3>3. n = m /\ q = r
      BY <3>1, <3>2, OnePlaceParts, ConstantFacts DEF Located, OneHolder
    <3> QED BY <3>1, <3>2, <3>3
  <2>3. Taken(j) \/ Executing(j) => Held(j)
    BY DEF Taken, Executing, HeldIn, Held
  <2>4. OnQueue(j) \/ Held(j) => ~InProgress(j)
    BY QueuedIsDone
  <2> QED BY <2>1, <2>2, <2>3, <2>4 DEF Apart
<1>2. OnQueue(j) => Stage(j) = "queued"
  BY <1>1, Zenon DEF Apart, Stage, Taken, Executing
<1>3. Taken(j) => Stage(j) = "taken"
  BY <1>1, Zenon DEF Apart, Stage, Taken, Executing
<1>4. Executing(j) => Stage(j) = "executing"
  BY <1>1, Zenon DEF Apart, Stage, Taken, Executing
<1>5. InProgress(j) => Stage(j) = "accepted"
  BY <1>1, Zenon DEF Apart, Stage, Taken, Executing
<1>6. ~OnQueue(j) /\ ~Taken(j) /\ ~Executing(j) /\ ~InProgress(j) => Stage(j) = AtRest(status[j])
  BY RestIs, Zenon DEF Stage, Taken, Executing
<1> QED BY <1>1, <1>2, <1>3, <1>4, <1>5, <1>6 DEF StageFacts

LEMMA StagesAre == Located => \A j \in Job : StageFacts(j)
  BY StageIs

LEMMA StagesAreNext == Located' => \A j \in Job : StageFacts(j)'
<1>1. (Located => \A j \in Job : StageFacts(j))'
  BY StagesAre, PTL
<1> QED BY <1>1

LEMMA StageType ==
    ASSUME Located, NEW j \in Job
    PROVE  Stage(j) \in Contract!Stage
<1>1. AtRest(status[j]) \in Contract!Stage
  BY DEF AtRest, Outcome, Contract!Stage, Contract!Ended
<1> QED BY <1>1, StageIs DEF StageFacts, Contract!Stage, Contract!Ended

\* Who has a verdict in its document is at rest.
LEMMA VerdictIsStage ==
    ASSUME Located, Recorded, NEW j \in Job, status[j] \in Outcome
    PROVE  Stage(j) = status[j]
<1>1. ~OnQueue(j) /\ ~InProgress(j)
  BY DEF Recorded, Untouched, Initial, Outcome
<1>2. ~Taken(j) /\ ~Executing(j)
  BY ConstantFacts DEF Recorded, Behind, Reached, Taken, Executing, HeldIn, Outcome
<1>3. AtRest(status[j]) = status[j]
  BY DEF AtRest, Outcome
<1> QED BY <1>1, <1>2, <1>3, StageIs DEF StageFacts

-----------------------------------------------------------------------------
(* Moves.                                                                  *)

\* The step, as the contract sees it.
Promised == [Contract!Next]_<<[j \in Job |-> Stage(j)], previous>>

\* What a step leaves alone of job j.
Stays(j) ==
    /\ OnQueue(j)' <=> OnQueue(j)
    /\ Taken(j)' <=> Taken(j)
    /\ Executing(j)' <=> Executing(j)
    /\ InProgress(j)' <=> InProgress(j)
    /\ status'[j] = status[j] \/ OnQueue(j) \/ Taken(j) \/ Executing(j) \/ InProgress(j)

LEMMA StageStays ==
    ASSUME Located, Located', NEW j \in Job, Stays(j)
    PROVE  Stage(j)' = Stage(j)
  BY StagesAre, StagesAreNext DEF StageFacts, Stays

LEMMA PayloadsStay ==
    ASSUME UNCHANGED <<ready, prefetched, unclaimed, phase, held>>, NEW j \in Job
    PROVE  /\ OnQueue(j)' <=> OnQueue(j)
           /\ Taken(j)' <=> Taken(j)
           /\ Executing(j)' <=> Executing(j)
<1>1. OnQueue(j)' <=> OnQueue(j)
  BY OnQueueUnmoved
<1>2. /\ Taken(j)' <=> Taken(j)
      /\ Executing(j)' <=> Executing(j)
  BY DEF Taken, Executing, HeldIn
<1> QED BY <1>1, <1>2

LEMMA NobodyMoves ==
    ASSUME Located, Located', \A j \in Job : Stays(j), UNCHANGED previous
    PROVE  Promised
<1>1. \A j \in Job : Stage(j)' = Stage(j)
  BY StageStays
<1> QED BY <1>1 DEF Promised

\* One job moves.
LEMMA OneMoves ==
    ASSUME Located, Located', NEW x \in Job, \A j \in Job \ {x} : Stays(j),
           NEW s, Stage(x)' = s
    PROVE  Contract!Move(x, s)
<1>1. \A j \in Job \ {x} : Stage(j)' = Stage(j)
  BY StageStays
<1> QED BY <1>1 DEF Contract!Move

\* A job nobody has heard of.
LEMMA Unborn ==
    ASSUME Located, Recorded, NEW x \in Job, handler[x] = "none"
    PROVE  /\ Stage(x) = "unborn"
           /\ ~OnQueue(x) /\ ~Taken(x) /\ ~Executing(x) /\ ~InProgress(x)
<1>1. ~OnQueue(x) /\ ~Held(x) /\ ~InProgress(x)
  BY DEF Located, Published, InProgress
<1>2. ~Taken(x) /\ ~Executing(x)
  BY <1>1 DEF Taken, Executing, HeldIn, Held
<1>3. status[x] = "absent"
  BY DEF Recorded, Fresh
<1> QED BY <1>1, <1>2, <1>3, StageIs DEF StageFacts, AtRest

LEMMA HandlerKeepsPromise ==
    ASSUME TypeOK, Located, Recorded, Linked, Located', NEW n \in Node, HandlerStep(n)
    PROVE  Promised
<1> USE ConstantFacts
<1>t. /\ handler \in [Job -> HandlerPhase]
      /\ status \in [Job -> Status \cup NoDocument]
      /\ previous \in [Job -> UpdateJob \cup {NoJob}]
  BY DEF TypeOK, TypeOKDocs
\* A handler that inserts document x, and may be another handler's errand.
<1>i. ASSUME NEW x \in Job, NEW s \in {"new", "pending"}, handler[x] = "none", InsertJob(x, s),
             InProgress(x)', \A j \in Job \ {x} : InProgress(j)' <=> InProgress(j),
             UNCHANGED <<queueVars, runVars>>
      PROVE  Stage(x) = "unborn" /\ Contract!Move(x, "accepted")
  <2>1. UNCHANGED <<ready, prefetched, unclaimed, phase, held>>
    BY <1>i DEF queueVars, runVars
  <2>2. \A j \in Job \ {x} : Stays(j)
    BY <1>i, <1>t, <2>1, PayloadsStay DEF Stays, InsertJob
  <2>3. Stage(x)' = "accepted"
    BY <1>i, StagesAreNext DEF StageFacts
  <2> QED BY <1>i, <2>2, <2>3, OneMoves, Unborn
\* A handler that publishes job x.
<1>p. ASSUME NEW x \in Job, NEW q \in Queue, Publish(q, x), InProgress(x),
             \A j \in Job \ {x} : InProgress(j)' <=> InProgress(j), ~InProgress(x)',
             UNCHANGED <<status, phase, held, previous>>
      PROVE  Promised
  <2>1. \A j \in Job : OnQueue(j)' <=> OnQueue(j) \/ j = x
    BY <1>p, PublishedIsOnQueue, PublishOnQueue
  <2>2. \A j \in Job \ {x} : Stays(j)
    BY <1>p, <2>1 DEF Stays, Taken, Executing, HeldIn
  <2>3. Stage(x) = "accepted" /\ Stage(x)' = "queued"
    BY <1>p, <2>1, StagesAre, StagesAreNext DEF StageFacts
  <2>4. Contract!Enqueue(x)
    BY <1>p, <2>2, <2>3, OneMoves DEF Contract!Enqueue
  <2> QED BY <2>4 DEF Promised, Contract!Next
\* Handlers that give up.
<1>a. ASSUME UNCHANGED <<status, queueVars, runVars, previous>>,
             \A j \in Job : handler'[j] = handler[j] \/ (InProgress(j) /\ handler'[j] = "failed")
      PROVE  Promised
  <2>1. UNCHANGED <<ready, prefetched, unclaimed, phase, held>>
    BY <1>a DEF queueVars, runVars
  <2>2. ASSUME NEW j \in Job
        PROVE  \/ Stage(j)' = Stage(j)
               \/ Stage(j) = "accepted" /\ Stage(j)' \in {"lost", "forgotten"}
    <3>1. CASE handler'[j] = handler[j]
      BY <1>a, <2>1, <3>1, PayloadsStay, StageStays DEF Stays, InProgress
    <3>2. CASE InProgress(j) /\ handler'[j] = "failed"
      <4>1. Stage(j) = "accepted"
        BY <3>2, StagesAre DEF StageFacts
      <4>2. ~OnQueue(j)' /\ ~Taken(j)' /\ ~Executing(j)' /\ ~InProgress(j)'
        BY <2>1, <3>2, PayloadsStay, StagesAre DEF StageFacts, Apart, InProgress
      <4>3. Stage(j)' = AtRest(status[j])
        BY <1>a, <4>2, StagesAreNext DEF StageFacts
      <4>4. status[j] \in {"removed", "pending", "new"}
        BY <3>2 DEF Recorded, Untouched, Initial
      <4> QED BY <4>1, <4>3, <4>4 DEF AtRest, Outcome
    <3> QED BY <1>a, <3>1, <3>2
  <2>3. Contract!Drop
    <3>1. \A j \in Job : Stage(j)' \in Contract!Stage
      BY <2>2, StageType DEF Contract!Stage
    <3> QED BY <1>a, <2>2, <3>1 DEF Contract!Drop
  <2> QED BY <2>3 DEF Promised, Contract!Next
<1>1. ASSUME NEW j \in LaunchedJob, Launch(n, j) PROVE Promised
  <2>1. Stage(j) = "unborn" /\ Contract!Move(j, "accepted")
    BY <1>1, <1>i, <1>t DEF Launch, InProgress
  <2>2. Contract!Accept(j)
    BY <1>1, <2>1 DEF Launch, Contract!Accept
  <2> QED BY <2>2 DEF Promised, Contract!Next
<1>2. ASSUME NEW j \in LaunchedJob, NEW u \in UpdateJob, LaunchWithUpdate(n, j, u)
      PROVE  Promised
  <2>1. /\ handler[u] = "none" /\ InsertJob(u, "pending") /\ UNCHANGED <<queueVars, runVars>>
        /\ handler[j] = "inserted"
        /\ handler' = [handler EXCEPT ![j] = "updating", ![u] = "inserted"]
        /\ previous' = [previous EXCEPT ![j] = u]
    BY <1>2 DEF LaunchWithUpdate, BeginUpdate
  <2>2. InProgress(u)' /\ \A i \in Job \ {u} : InProgress(i)' <=> InProgress(i)
    BY <2>1, <1>t DEF InProgress
  <2>3. Stage(u) = "unborn" /\ Contract!Move(u, "accepted")
    BY <2>1, <2>2, <1>i
  <2>4. Stage(j) = "accepted"
    BY <2>1, StagesAre DEF StageFacts, InProgress
  <2>5. previous[j] = NoJob
    BY <2>1 DEF Linked
  <2>6. Contract!AcceptAfter(j, u)
    BY <2>1, <2>3, <2>4, <2>5 DEF Contract!AcceptAfter
  <2> QED BY <2>6 DEF Promised, Contract!Next
<1>3. ASSUME NEW u \in UpdateJob, RequestUpdate(n, u) PROVE Promised
  <2>1. Stage(u) = "unborn" /\ Contract!Move(u, "accepted")
    BY <1>3, <1>i, <1>t DEF RequestUpdate, BeginUpdate, InProgress
  <2>2. Contract!Accept(u)
    BY <1>3, <2>1 DEF RequestUpdate, Contract!Accept
  <2> QED BY <2>2 DEF Promised, Contract!Next
<1>4. ASSUME NEW u \in UpdateJob, PublishUpdate(n, u) PROVE Promised
  <2>1. InProgress(u) /\ ~InProgress(u)' /\ \A i \in Job \ {u} : InProgress(i)' <=> InProgress(i)
    BY <1>4, <1>t DEF PublishUpdate, Callers, InProgress
  <2> QED BY <1>4, <2>1, <1>p DEF PublishUpdate, docVars, runVars
<1>5. ASSUME NEW u \in UpdateJob, AbortUpdate(n, u) PROVE Promised
  BY <1>5, <1>a DEF AbortUpdate, Callers, InProgress, docVars
<1>6. ASSUME NEW j \in LaunchedJob, PublishJob(n, j) PROVE Promised
  <2>1. InProgress(j) /\ ~InProgress(j)' /\ \A i \in Job \ {j} : InProgress(i)' <=> InProgress(i)
    BY <1>6, <1>t DEF PublishJob, InProgress
  <2>2. QueueOf(j) \in Queue
    BY DEF QueueOf
  <2> QED BY <1>6, <2>1, <2>2, <1>p DEF PublishJob, docVars, runVars
<1>7. ASSUME NEW j \in LaunchedJob, AbortLaunch(n, j) PROVE Promised
  BY <1>7, <1>a, <1>t DEF AbortLaunch, InProgress, docVars
<1> QED BY <1>1, <1>2, <1>3, <1>4, <1>5, <1>6, <1>7 DEF HandlerStep

-----------------------------------------------------------------------------
(* Consumers.                                                              *)

\* The update job of a job that may run has ended well.
Settled ==
    \A n \in Node, q \in Queue :
        /\ phase[n][q] \in {"cleared", "getting", "running"}
        /\ held[n][q] \in LaunchedJob
        /\ previous[held[n][q]] # NoJob
        => Stage(previous[held[n][q]]) \in {"successful", "forgotten"}

\* Only launched jobs wait for others.
NoChains == \A u \in UpdateJob : previous[u] = NoJob

\* Where the job of a consumer is, as the phase of that consumer tells.
HeldFacts(n, q) ==
    LET h == held[n][q] IN
    h # NoJob =>
        /\ h \in Job /\ ~OnQueue(h) /\ ~InProgress(h)
        /\ Taken(h) <=> phase[n][q] \in {"acked", "pending", "waiting", "cleared"}
        /\ Executing(h) <=> phase[n][q] \in {"getting", "running"}

LEMMA HeldFactsHold ==
    ASSUME TypeOK, Located, NEW n \in Node, NEW q \in Queue
    PROVE  HeldFacts(n, q)
<1> DEFINE h == held[n][q]
<1> USE ConstantFacts
<1> SUFFICES ASSUME h # NoJob
             PROVE  /\ h \in Job /\ ~OnQueue(h) /\ ~InProgress(h)
                    /\ Taken(h) <=> phase[n][q] \in {"acked", "pending", "waiting", "cleared"}
                    /\ Executing(h) <=> phase[n][q] \in {"getting", "running"}
  BY DEF HeldFacts
<1>1. h \in Job
  BY DEF TypeOK
<1>2. ~InProgress(h)
  BY <1>1, QueuedIsDone DEF Held
<1>3. ~OnQueue(h)
  BY <1>1 DEF Located, OnePlace, OnQueue, Prefetched, Held
<1>4. \A m \in Node, r \in Queue : held[m][r] = h => m = n /\ r = q
  BY <1>1, OnePlaceParts DEF Located, OneHolder
<1> QED BY <1>1, <1>2, <1>3, <1>4 DEF Taken, Executing, HeldIn

LEMMA HandsAre ==
    TypeOK /\ Located => \A n \in Node, q \in Queue : HeldFacts(n, q)
  BY HeldFactsHold

LEMMA HandsAreNext ==
    TypeOK' /\ Located' => \A n \in Node, q \in Queue : HeldFacts(n, q)'
<1>1. (TypeOK /\ Located => \A n \in Node, q \in Queue : HeldFacts(n, q))'
  BY HandsAre, PTL
<1> QED BY <1>1

\* The step of a consumer that moves nothing but its own job.
OwnStep(n, q) ==
    /\ UNCHANGED <<ready, prefetched, unclaimed, handler, previous>>
    /\ \A m \in Node, r \in Queue :
         ~(m = n /\ r = q) => phase'[m][r] = phase[m][r] /\ held'[m][r] = held[m][r]
    /\ held'[n][q] \in {held[n][q], NoJob}
    /\ held[n][q] # NoJob
    /\ \A j \in Job : j # held[n][q] => status'[j] = status[j]

LEMMA OthersStay ==
    ASSUME TypeOK, NEW n \in Node, NEW q \in Queue, OwnStep(n, q),
           NEW j \in Job, j # held[n][q]
    PROVE  Stays(j)
<1>1. OnQueue(j)' <=> OnQueue(j)
  BY OnQueueUnmoved DEF OwnStep
<1>2. InProgress(j)' <=> InProgress(j)
  BY DEF OwnStep, InProgress
<1>3. \A m \in Node, r \in Queue :
        (held'[m][r] = j <=> held[m][r] = j) /\ (held[m][r] = j => phase'[m][r] = phase[m][r])
  BY ConstantFacts DEF OwnStep
<1>4. /\ Taken(j)' <=> Taken(j)
      /\ Executing(j)' <=> Executing(j)
  BY <1>3 DEF Taken, Executing, HeldIn
<1> QED BY <1>1, <1>2, <1>4 DEF Stays, OwnStep

LEMMA ConsumePromise ==
    ASSUME TypeOK, Located, Located', TypeOK', NEW n \in Node, NEW q \in Queue, Consume(n, q)
    PROVE  Promised
<1> USE ConstantFacts
<1>t. /\ prefetched \in [Node -> [Queue -> Job \cup {NoJob}]]
      /\ held \in [Node -> [Queue -> Job \cup {NoJob}]]
      /\ phase \in [Node -> [Queue -> Phase]]
  BY DEF TypeOK, TypeOKQueue
<1>1. PICK x \in Job : TakeAndAck(n, q, x) /\ held' = [held EXCEPT ![n][q] = x]
  BY DEF Consume
<1>2. /\ prefetched[n][q] = x
      /\ \A m \in Node, r \in Queue :
           /\ prefetched'[m][r] = IF m = n /\ r = q THEN NoJob ELSE prefetched[m][r]
           /\ held'[m][r] = IF m = n /\ r = q THEN x ELSE held[m][r]
           /\ phase'[m][r] = IF m = n /\ r = q THEN "acked" ELSE phase[m][r]
      /\ UNCHANGED <<ready, unclaimed, handler, previous, status>>
  BY <1>1, <1>t DEF TakeAndAck, Consume, Enter, apiVars, docVars
<1>3. phase[n][q] = "idle"
  BY DEF Consume
<1>4. ASSUME NEW j \in Job \ {x} PROVE Stays(j)
  <2>1. OnQueue(j)' <=> OnQueue(j)
    <3>1. Prefetched(j)' <=> Prefetched(j)
      BY <1>2 DEF Prefetched
    <3> QED BY <1>2, <3>1 DEF OnQueue, IsReady
  <2>2. InProgress(j)' <=> InProgress(j)
    BY <1>2 DEF InProgress
  <2>3. /\ Taken(j)' <=> Taken(j)
        /\ Executing(j)' <=> Executing(j)
    BY <1>2, <1>3 DEF Taken, Executing, HeldIn
  <2> QED BY <1>2, <2>1, <2>2, <2>3 DEF Stays
<1>5. Stage(x) = "queued"
  <2>1. OnQueue(x)
    BY <1>2 DEF OnQueue, Prefetched
  <2> QED BY <2>1, StagesAre DEF StageFacts
<1>6. Stage(x)' = "taken"
  <2>1. held'[n][q] = x /\ phase'[n][q] = "acked"
    BY <1>2
  <2>2. Taken(x)'
    BY <2>1 DEF Taken, HeldIn
  <2> QED BY <2>2, StagesAreNext DEF StageFacts
<1>7. Contract!Take(x)
  BY <1>2, <1>4, <1>5, <1>6, OneMoves DEF Contract!Take
<1> QED BY <1>7 DEF Promised, Contract!Next

LEMMA LeavePromise ==
    ASSUME TypeOK, Located, Recorded, Located', TypeOK', NEW n \in Node, NEW q \in Queue,
           LeaveStep(n, q)
    PROVE  Promised
<1> USE ConstantFacts
<1>t. /\ held \in [Node -> [Queue -> Job \cup {NoJob}]]
      /\ phase \in [Node -> [Queue -> Phase]]
  BY DEF TypeOK
<1>1. /\ phase[n][q] \in {"finished", "reported"}
      /\ \A m \in Node, r \in Queue :
           /\ held'[m][r] = IF m = n /\ r = q THEN NoJob ELSE held[m][r]
           /\ phase'[m][r] = IF m = n /\ r = q THEN "idle" ELSE phase[m][r]
      /\ UNCHANGED <<ready, prefetched, unclaimed, handler, previous, status>>
  BY <1>t DEF LeaveStep, Leave, Enter, apiVars, queueVars
<1>2. PICK h \in Job : h = held[n][q]
  BY <1>1, <1>t DEF Recorded, Busy
<1>3. OwnStep(n, q)
  BY <1>1, <1>2 DEF OwnStep
<1>4. \A m \in Node, r \in Queue : held[m][r] = h => m = n /\ r = q
  BY <1>2, OnePlaceParts DEF Located, OneHolder
<1>5. ~Taken(h)' /\ ~Executing(h)' /\ ~Taken(h) /\ ~Executing(h)
  BY <1>1, <1>2, <1>4 DEF Taken, Executing, HeldIn
<1>6. /\ OnQueue(h)' <=> OnQueue(h)
      /\ InProgress(h)' <=> InProgress(h)
  BY <1>1, <1>2, OnQueueUnmoved DEF InProgress
<1>7. Stays(h)
  BY <1>1, <1>2, <1>5, <1>6 DEF Stays
<1>8. \A j \in Job : Stays(j)
  BY <1>2, <1>3, <1>7, OthersStay
<1> QED BY <1>1, <1>8, NobodyMoves

LEMMA AdvancePromise ==
    ASSUME TypeOK, Located, Recorded, Located', TypeOK', NEW n \in Node, NEW q \in Queue,
           AdvanceStep(n, q)
    PROVE  Promised
<1> USE ConstantFacts
<1> DEFINE h == held[n][q]
<1>t. /\ held \in [Node -> [Queue -> Job \cup {NoJob}]]
      /\ phase \in [Node -> [Queue -> Phase]]
  BY DEF TypeOK
<1>1. PICK p \in Phase :
        /\ \/ phase[n][q] = "waiting" /\ p = "cleared"
           \/ phase[n][q] = "getting" /\ p = "running"
           \/ phase[n][q] = "finished" /\ p = "reported"
        /\ Enter(n, q, p)
  BY DEF AdvanceStep
<1>2. /\ \A m \in Node, r \in Queue :
           phase'[m][r] = IF m = n /\ r = q THEN p ELSE phase[m][r]
      /\ UNCHANGED <<ready, prefetched, unclaimed, handler, previous, status, held>>
  BY <1>1, <1>t DEF AdvanceStep, Enter, apiVars, queueVars
<1>3. h # NoJob /\ h \in Job
  BY <1>1, <1>t DEF Recorded, Busy
<1>4. OwnStep(n, q)
  BY <1>2, <1>3 DEF OwnStep
<1>5. Stays(h)
  <2>1. HeldFacts(n, q) /\ HeldFacts(n, q)'
    BY HandsAre, HandsAreNext
  <2> QED BY <1>1, <1>2, <1>3, <2>1 DEF HeldFacts, Stays
<1>6. \A j \in Job : Stays(j)
  BY <1>4, <1>5, OthersStay
<1> QED BY <1>2, <1>6, NobodyMoves

\* A status write that may be lost, and the verdict it leaves.
LEMMA WrittenOrLost ==
    ASSUME TypeOK, NEW h \in Job, NEW s \in Status, SetStatus(h, s)
    PROVE  /\ \A j \in Job : j # h => status'[j] = status[j]
           /\ status'[h] = status[h] \/ (status[h] \notin NoDocument /\ status'[h] = s)
           /\ status[h] = "removed" => status'[h] = "removed"
  BY DEF TypeOK, TypeOKDocs, SetStatus, Exists, NoDocument

LEMMA RecordPromise ==
    ASSUME TypeOK, Located, Recorded, Settled, NoChains, Located', TypeOK',
           NEW n \in Node, NEW q \in Queue, RecordStep(n, q)
    PROVE  Promised
<1> USE ConstantFacts
<1>t. /\ held \in [Node -> [Queue -> Job \cup {NoJob}]]
      /\ phase \in [Node -> [Queue -> Phase]]
      /\ previous \in [Job -> UpdateJob \cup {NoJob}]
      /\ status \in [Job -> Status \cup NoDocument]
  BY DEF TypeOK, TypeOKDocs
<1>1. PICK s \in Status, p \in Phase : MayRecord(n, q, s, p) /\ Record(n, q, s, p)
  BY DEF RecordStep
<1>2. PICK h \in Job : h = held[n][q]
  BY <1>1, <1>t DEF MayRecord, Recorded, Busy
<1>3. /\ \A m \in Node, r \in Queue :
           phase'[m][r] = IF m = n /\ r = q THEN p ELSE phase[m][r]
      /\ UNCHANGED <<ready, prefetched, unclaimed, handler, previous, held>>
  BY <1>1, <1>t DEF Record, Enter, apiVars, queueVars
<1>4. /\ \A j \in Job : j # h => status'[j] = status[j]
      /\ status'[h] = status[h] \/ (status[h] \notin NoDocument /\ status'[h] = s)
      /\ status[h] = "removed" => status'[h] = "removed"
  BY <1>1, <1>2, WrittenOrLost DEF Record
<1>5. OwnStep(n, q)
  BY <1>2, <1>3, <1>4 DEF OwnStep
<1>6. \A j \in Job \ {h} : Stays(j)
  BY <1>2, <1>5, OthersStay
<1>7. /\ ~OnQueue(h) /\ ~InProgress(h)
      /\ Taken(h) <=> phase[n][q] \in {"acked", "pending", "waiting", "cleared"}
      /\ Executing(h) <=> phase[n][q] \in {"getting", "running"}
  BY <1>2, HandsAre DEF HeldFacts
<1>8. /\ ~OnQueue(h)' /\ ~InProgress(h)'
      /\ Taken(h)' <=> p \in {"acked", "pending", "waiting", "cleared"}
      /\ Executing(h)' <=> p \in {"getting", "running"}
  BY <1>2, <1>3, HandsAreNext DEF HeldFacts
<1>9. /\ status[h] \in {"removed"} \cup Reached(phase[n][q])
      /\ phase[n][q] \in {"getting", "running"} => status[h] \in {"removed", "new", "pending", "waiting", "running"}
      /\ phase[n][q] = "waiting" => status[h] \in {"removed", "new", "pending", "waiting"}
  BY <1>2 DEF Recorded, Behind, Reached
\* The consumer goes on, and the stage of its job does not change.
<1>a. CASE p \in {"pending", "waiting"}
  <2>1. phase[n][q] \in {"acked", "pending", "waiting", "cleared"}
    BY <1>a, <1>1 DEF MayRecord
  <2>2. Stays(h)
    BY <1>a, <2>1, <1>7, <1>8 DEF Stays
  <2> QED BY <2>2, <1>3, <1>6, NobodyMoves
\* It starts to run its job.
<1>b. CASE p \in {"getting", "running"}
  <2>1. phase[n][q] \in {"pending", "cleared"}
    BY <1>b, <1>1 DEF MayRecord
  <2>2. Stage(h) = "taken"
    BY <2>1, <1>7, StagesAre DEF StageFacts
  <2>3. Stage(h)' = "executing"
    BY <1>b, <1>8, StagesAreNext DEF StageFacts
  <2>4. ASSUME previous[h] # NoJob
        PROVE  previous[h] \in Job /\ Stage(previous[h]) \in {"successful", "forgotten"}
    <3>1. h \in LaunchedJob
      BY <2>4 DEF NoChains, Job
    <3>2. phase[n][q] = "cleared"
      BY <1>b, <1>1, <1>2, <2>4, <3>1 DEF MayRecord
    <3> QED BY <2>4, <3>1, <3>2, <1>2, <1>t DEF Settled
  <2>5. Contract!Execute(h)
    BY <1>3, <1>6, <2>2, <2>3, <2>4, OneMoves DEF Contract!Execute
  <2> QED BY <2>5 DEF Promised, Contract!Next
\* It reports.
<1>c. CASE p = "finished"
  <2>1. Stage(h)' = AtRest(status'[h])
    BY <1>c, <1>8, StagesAreNext DEF StageFacts
  <2>2. CASE phase[n][q] = "waiting"
    <3>1. s = "error" /\ PreviousStatus(n, q) \in {"failed", "error"}
      BY <1>c, <2>2, <1>1 DEF MayRecord
    <3>2. Stage(h)' \in {"error", "lost", "forgotten"}
      BY <2>1, <2>2, <3>1, <1>4, <1>9 DEF AtRest, Outcome
    <3>3. Stage(h) = "taken"
      BY <2>2, <1>7, StagesAre DEF StageFacts
    <3>4. previous[h] \in UpdateJob
      BY <2>2, <1>2, <1>t DEF Recorded, Busy
    <3>5. status[previous[h]] = "failed"
      BY <3>1, <3>4, <1>2 DEF PreviousStatus, Recorded, UpdatesNeverInError
    <3>6. Stage(previous[h]) = "failed"
      BY <3>4, <3>5, VerdictIsStage DEF Outcome
    <3>7. Contract!GiveUp(h)
      BY <1>3, <1>6, <3>2, <3>3, <3>4, <3>6, OneMoves DEF Contract!GiveUp
    <3> QED BY <3>7 DEF Promised, Contract!Next
  <2>3. CASE phase[n][q] # "waiting"
    <3>1. phase[n][q] \in {"getting", "running"} /\ s \in {"successful", "failed"}
      BY <1>c, <2>3, <1>1 DEF MayRecord
    <3>2. Stage(h)' \in {"successful", "failed", "lost", "forgotten"}
      BY <2>1, <3>1, <1>4, <1>9 DEF AtRest, Outcome
    <3>3. Stage(h) = "executing"
      BY <3>1, <1>7, StagesAre DEF StageFacts
    <3>4. Contract!End(h)
      BY <1>3, <1>6, <3>2, <3>3, OneMoves DEF Contract!End
    <3> QED BY <3>4 DEF Promised, Contract!Next
  <2> QED BY <2>2, <2>3
<1> QED BY <1>1, <1>a, <1>b, <1>c DEF MayRecord

-----------------------------------------------------------------------------
(* The queue, the nodes and the deletions.                                 *)

\* Payloads move between the lists and the channels of rmq.
LEMMA QueuePromise ==
    ASSUME Located, Located', UNCHANGED <<status, handler, previous, phase, held>>,
           \A j \in Job : OnQueue(j)' <=> OnQueue(j)
    PROVE  Promised
<1>1. ASSUME NEW j \in Job PROVE Stays(j)
  BY DEF Stays, InProgress, Taken, Executing, HeldIn
<1> QED BY <1>1, NobodyMoves

LEMMA FetchPromise ==
    ASSUME TypeOK, Located, Located', NEW n \in Node, NEW q \in Queue, Fetch(n, q)
    PROVE  Promised
<1> USE ConstantFacts
<1>t. /\ ready \in [Queue -> Seq(Job)]
      /\ prefetched \in [Node -> [Queue -> Job \cup {NoJob}]]
  BY DEF TypeOK, TypeOKQueue
<1>1. /\ ready[q] \in Seq(Job) /\ ready[q] # <<>> /\ ready'[q] = Tail(ready[q])
      /\ prefetched[n][q] = NoJob
      /\ \A r \in Queue \ {q} : ready'[r] = ready[r]
      /\ \A m \in Node, r \in Queue :
           prefetched'[m][r] = IF m = n /\ r = q THEN Head(ready[q]) ELSE prefetched[m][r]
      /\ UNCHANGED <<unclaimed, status, handler, previous, phase, held>>
  BY <1>t DEF Fetch, Prefetch, docVars, apiVars, runVars
<1>2. Range(ready[q]) = Range(ready'[q]) \cup {Head(ready[q])}
  BY <1>1, TailDistinct
<1>3. ASSUME NEW j \in Job PROVE OnQueue(j)' <=> OnQueue(j)
  <2>1. Prefetched(j)' <=> Prefetched(j) \/ j = Head(ready[q])
    BY <1>1 DEF Prefetched
  <2>2. \A r \in Queue : j \in Range(ready[r]) <=>
          j \in Range(ready'[r]) \/ (r = q /\ j = Head(ready[q]))
    BY <1>1, <1>2
  <2> QED BY <2>1, <2>2, <1>1 DEF OnQueue, IsReady
<1> QED BY <1>1, <1>3, QueuePromise

LEMMA ReturnPromise ==
    ASSUME TypeOK, Located, Located', NEW q \in Queue, NEW x \in Job, ReturnStep(q, x)
    PROVE  Promised
<1> USE ConstantFacts
<1>t. /\ ready \in [Queue -> Seq(Job)]
      /\ unclaimed \in [Queue -> SUBSET Job]
  BY DEF TypeOK, TypeOKQueue
<1>1. /\ ready[q] \in Seq(Job) /\ ready'[q] = Append(ready[q], x)
      /\ \A r \in Queue \ {q} : ready'[r] = ready[r] /\ unclaimed'[r] = unclaimed[r]
      /\ x \in unclaimed[q] /\ unclaimed'[q] = unclaimed[q] \ {x}
      /\ UNCHANGED <<prefetched, status, handler, previous, phase, held>>
  BY <1>t DEF ReturnStep, ReturnUnacked, docVars, apiVars, runVars
<1>2. Range(ready'[q]) = Range(ready[q]) \cup {x}
  BY <1>1, AppendDistinct
<1>3. ASSUME NEW j \in Job PROVE OnQueue(j)' <=> OnQueue(j)
  BY <1>1, <1>2 DEF OnQueue, IsReady, Prefetched
<1> QED BY <1>1, <1>3, QueuePromise

LEMMA CrashPromise ==
    ASSUME TypeOK, Located, Recorded, Located', NEW n \in Node, Crash(n)
    PROVE  Promised
<1> USE ConstantFacts
<1>t. /\ prefetched \in [Node -> [Queue -> Job \cup {NoJob}]]
      /\ held \in [Node -> [Queue -> Job \cup {NoJob}]]
      /\ phase \in [Node -> [Queue -> Phase]]
      /\ unclaimed \in [Queue -> SUBSET Job]
      /\ handler \in [Job -> HandlerPhase]
  BY DEF TypeOK, TypeOKQueue
<1>1. /\ \A m \in Node, q \in Queue :
           /\ prefetched'[m][q] = IF m = n THEN NoJob ELSE prefetched[m][q]
           /\ held'[m][q] = IF m = n THEN NoJob ELSE held[m][q]
           /\ phase'[m][q] = IF m = n THEN "idle" ELSE phase[m][q]
      /\ \A q \in Queue : unclaimed'[q] = unclaimed[q] \cup ({prefetched[n][q]} \ {NoJob})
      /\ \A j \in Job : handler'[j] = handler[j] \/ (InProgress(j) /\ handler'[j] = "failed")
      /\ UNCHANGED <<ready, status, previous>>
  BY <1>t DEF Crash, DropConnection, docVars
<1>2. ASSUME NEW j \in Job PROVE OnQueue(j)' <=> OnQueue(j)
  <2>1. Prefetched(j) => Prefetched(j)' \/ \E q \in Queue : j \in unclaimed'[q]
    BY <1>1 DEF Prefetched
  <2>2. Prefetched(j)' => Prefetched(j)
    BY <1>1 DEF Prefetched
  <2>3. (\E q \in Queue : j \in unclaimed'[q]) => OnQueue(j)
    BY <1>1 DEF OnQueue, Prefetched
  <2>4. (\E q \in Queue : j \in unclaimed[q]) => \E q \in Queue : j \in unclaimed'[q]
    BY <1>1
  <2> QED BY <2>1, <2>2, <2>3, <2>4, <1>1 DEF OnQueue, IsReady
<1>3. ASSUME NEW j \in Job
      PROVE  /\ Taken(j)' => Taken(j)
             /\ Executing(j)' => Executing(j)
             /\ InProgress(j)' => InProgress(j)
  BY <1>1 DEF Taken, Executing, HeldIn, InProgress
<1>4. ASSUME NEW j \in Job
      PROVE  \/ Stage(j)' = Stage(j)
             \/ /\ Stage(j) \in {"accepted", "taken", "executing"}
                /\ Stage(j)' \in {"lost", "forgotten"}
  <2>1. CASE Stays(j)
    BY <2>1, StageStays
  <2>2. CASE ~Stays(j)
    <3>1. /\ Taken(j) \/ Executing(j) \/ InProgress(j)
          /\ ~OnQueue(j) /\ ~OnQueue(j)' /\ ~Taken(j)' /\ ~Executing(j)' /\ ~InProgress(j)'
      <4>1. StageFacts(j)
        BY StagesAre
      <4> QED BY <4>1, <2>2, <1>1, <1>2, <1>3 DEF Stays, StageFacts, Apart
    <3>2. Stage(j) \in {"accepted", "taken", "executing"}
      BY <3>1, StagesAre DEF StageFacts
    <3>3. Stage(j)' = AtRest(status[j])
      BY <1>1, <3>1, StagesAreNext DEF StageFacts
    <3>4. status[j] \in {"removed", "new", "pending", "waiting", "running"}
      <4>1. CASE InProgress(j)
        BY <4>1 DEF Recorded, Untouched, Initial
      <4>2. CASE Taken(j) \/ Executing(j)
        BY <4>2 DEF Recorded, Behind, Reached, Taken, Executing, HeldIn
      <4> QED BY <3>1, <4>1, <4>2
    <3> QED BY <3>2, <3>3, <3>4 DEF AtRest, Outcome
  <2> QED BY <2>1, <2>2
<1>5. \A j \in Job : Stage(j)' \in Contract!Stage
  BY <1>4, StageType DEF Contract!Stage
<1>6. Contract!Drop
  BY <1>1, <1>4, <1>5 DEF Contract!Drop
<1> QED BY <1>6 DEF Promised, Contract!Next

LEMMA RemovePromise ==
    ASSUME TypeOK, Located, Recorded, Located', RemoveStep
    PROVE  Promised
<1>1. /\ \A j \in Job : status'[j] = status[j] \/ (Exists(j) /\ status'[j] = "removed")
      /\ UNCHANGED <<ready, prefetched, unclaimed, handler, previous, phase, held>>
  BY DEF RemoveStep, queueVars, apiVars, runVars
<1>2. ASSUME NEW j \in Job
      PROVE  \/ Stage(j)' = Stage(j)
             \/ Stage(j) \in Contract!Ended \cup {"lost"} /\ Stage(j)' = "forgotten"
  <2>0. /\ OnQueue(j)' <=> OnQueue(j)
        /\ Taken(j)' <=> Taken(j)
        /\ Executing(j)' <=> Executing(j)
        /\ InProgress(j)' <=> InProgress(j)
    BY <1>1, PayloadsStay DEF InProgress
  <2>1. CASE Stays(j)
    BY <2>1, StageStays
  <2>2. CASE ~Stays(j)
    <3>1. /\ ~OnQueue(j) /\ ~Taken(j) /\ ~Executing(j) /\ ~InProgress(j)
          /\ Exists(j) /\ status'[j] = "removed"
      BY <2>0, <2>2, <1>1 DEF Stays
    <3>2. Stage(j) = AtRest(status[j]) /\ Stage(j)' = AtRest(status'[j])
      BY <2>0, <3>1, StagesAre, StagesAreNext DEF StageFacts
    <3> QED BY <3>1, <3>2 DEF AtRest, Outcome, Contract!Ended, Exists, NoDocument
  <2> QED BY <2>1, <2>2
<1>3. \A j \in Job : Stage(j)' \in Contract!Stage
  BY <1>2, StageType DEF Contract!Stage
<1>4. Contract!Forget
  BY <1>1, <1>2, <1>3 DEF Contract!Forget
<1> QED BY <1>4 DEF Promised, Contract!Next

LEMMA StepPromise ==
    ASSUME TypeOK, Located, Recorded, Linked, Settled, NoChains, TypeOK', Located', Step
    PROVE  Promised
<1>1. ASSUME NEW n \in Node, NEW q \in Queue, RunnerStep(n, q) PROVE Promised
  BY <1>1, ConsumePromise, RecordPromise, AdvancePromise, LeavePromise DEF RunnerStep
<1>2. ASSUME NEW n \in Node, Restart(n) PROVE Promised
  BY <1>2, OnQueueUnmoved, QueuePromise DEF Restart, docVars, queueVars, apiVars, runVars
<1> QED
  BY <1>1, <1>2, HandlerKeepsPromise, FetchPromise, ReturnPromise, CrashPromise, RemovePromise
     DEF Step

-----------------------------------------------------------------------------
(* The invariant behind Execute.                                           *)

\* A verdict stands, says the contract, until the record is deleted.
LEMMA PromisedVerdict ==
    ASSUME Promised, NEW j \in Job, Stage(j) \in {"successful", "forgotten"}
    PROVE  Stage(j)' \in {"successful", "forgotten"}
<1> DEFINE st == [i \in Job |-> Stage(i)]
<1>1. \A i \in Job : st[i] = Stage(i) /\ st'[i] = Stage(i)'
  OBVIOUS
<1> HIDE DEF st
<1>2. CASE UNCHANGED <<[i \in Job |-> Stage(i)], previous>>
  BY <1>1, <1>2 DEF st
<1>m. ASSUME NEW x \in Job, NEW s, Contract!Move(x, s), x # j PROVE Stage(j)' = Stage(j)
  BY <1>m, <1>1 DEF Contract!Move, st
<1>3. ASSUME NEW x \in Job,
             Contract!Accept(x) \/ Contract!Enqueue(x) \/ Contract!Take(x) \/ Contract!Execute(x)
               \/ Contract!End(x) \/ Contract!GiveUp(x)
      PROVE  Stage(j)' = Stage(j)
  <2>1. x # j
    BY <1>3 DEF Contract!Accept, Contract!Enqueue, Contract!Take, Contract!Execute, Contract!End,
                Contract!GiveUp
  <2>2. PICK s : Contract!Move(x, s)
    BY <1>3 DEF Contract!Accept, Contract!Enqueue, Contract!Take, Contract!Execute, Contract!End,
                Contract!GiveUp
  <2> QED BY <2>1, <2>2, <1>m
<1>4. ASSUME NEW x \in Job, NEW u \in Job, Contract!AcceptAfter(x, u) PROVE Stage(j)' = Stage(j)
  <2>1. u # j /\ Contract!Move(u, "accepted")
    BY <1>4 DEF Contract!AcceptAfter
  <2> QED BY <2>1, <1>m
<1>5. CASE Contract!Drop \/ Contract!Forget
  BY <1>5 DEF Contract!Drop, Contract!Forget, Contract!Ended
<1> QED BY <1>2, <1>3, <1>4, <1>5 DEF Promised, Contract!Next

\* A consumer that may run its job in the next state may run it now, or it has
\* just found the update job successful.
MayRun(n, q) ==
    /\ phase[n][q] \in {"cleared", "getting", "running"}
    /\ held[n][q] \in LaunchedJob
    /\ previous[held[n][q]] # NoJob

Cleared(n, q) ==
    /\ held'[n][q] = held[n][q] /\ held[n][q] \in LaunchedJob
    /\ previous'[held[n][q]] = previous[held[n][q]] /\ previous[held[n][q]] \in UpdateJob
    /\ MayRun(n, q) \/ PreviousStatus(n, q) = "successful"

LEMMA MayRunBefore ==
    ASSUME TypeOK, Located, Recorded, NEW n \in Node, NEW q \in Queue, Step, MayRun(n, q)'
    PROVE  Cleared(n, q)
<1> USE ConstantFacts
<1>t. /\ held \in [Node -> [Queue -> Job \cup {NoJob}]]
      /\ phase \in [Node -> [Queue -> Phase]]
      /\ previous \in [Job -> UpdateJob \cup {NoJob}]
      /\ handler \in [Job -> HandlerPhase]
  BY DEF TypeOK
\* No handler names an update job for a job that a consumer holds.
<1>1. ASSUME NEW m \in Node, HandlerStep(m), held[n][q] \in Job
      PROVE  previous'[held[n][q]] = previous[held[n][q]]
  <2>1. handler[held[n][q]] = "done"
    BY <1>1, QueuedIsDone DEF Held
  <2> QED
    BY <1>1, <2>1, <1>t DEF HandlerStep, Launch, LaunchWithUpdate, RequestUpdate, PublishUpdate,
                       AbortUpdate, PublishJob, AbortLaunch
<1>2. ASSUME NEW m \in Node, HandlerStep(m) PROVE UNCHANGED <<phase, held>>
  BY <1>2 DEF HandlerStep, Launch, LaunchWithUpdate, RequestUpdate, BeginUpdate, PublishUpdate,
              AbortUpdate, PublishJob, AbortLaunch, runVars
<1>3. ASSUME phase'[n][q] = phase[n][q], held'[n][q] = held[n][q],
             held[n][q] \in Job => previous'[held[n][q]] = previous[held[n][q]]
      PROVE  Cleared(n, q)
  BY <1>3, <1>t DEF MayRun, Cleared
<1>4. ASSUME NEW m \in Node, HandlerStep(m) PROVE Cleared(n, q)
  BY <1>4, <1>1, <1>2, <1>3
<1>5. ASSUME NEW m \in Node, NEW r \in Queue, RunnerStep(m, r) PROVE Cleared(n, q)
  <2>1. previous' = previous
    BY <1>5 DEF RunnerStep, Consume, RecordStep, Record, AdvanceStep, LeaveStep, apiVars
  <2>2. CASE ~(m = n /\ r = q)
    <3>1. phase'[n][q] = phase[n][q] /\ held'[n][q] = held[n][q]
      BY <1>5, <2>2, <1>t DEF RunnerStep, Consume, RecordStep, Record, AdvanceStep, LeaveStep,
                              Leave, Enter
    <3> QED BY <2>1, <3>1, <1>3
  <2>3. CASE Consume(n, q)
    BY <2>3, <1>t DEF Consume, Enter, MayRun
  <2>4. CASE LeaveStep(n, q)
    BY <2>4, <1>t DEF LeaveStep, Leave, Enter, MayRun
  <2>5. CASE RecordStep(n, q)
    <3>1. PICK s \in Status, p \in Phase : MayRecord(n, q, s, p) /\ Record(n, q, s, p)
      BY <2>5 DEF RecordStep
    <3>2. phase'[n][q] = p /\ held'[n][q] = held[n][q]
      BY <3>1, <1>t DEF Record, Enter
    <3>3. held[n][q] \in LaunchedJob /\ previous[held[n][q]] \in UpdateJob
      BY <2>1, <3>2, <1>t DEF MayRun
    <3>4. phase[n][q] \in {"cleared", "getting", "running"}
      BY <3>1, <3>2, <3>3 DEF MayRecord, MayRun
    <3> QED BY <2>1, <3>2, <3>3, <3>4 DEF Cleared, MayRun
  <2>6. CASE AdvanceStep(n, q)
    <3>1. PICK p \in Phase :
            /\ \/ phase[n][q] = "waiting" /\ PreviousStatus(n, q) = "successful" /\ p = "cleared"
               \/ phase[n][q] = "getting" /\ p = "running"
               \/ phase[n][q] = "finished" /\ p = "reported"
            /\ Enter(n, q, p)
      BY <2>6 DEF AdvanceStep
    <3>2. phase'[n][q] = p /\ held'[n][q] = held[n][q]
      BY <2>6, <3>1, <1>t DEF AdvanceStep, Enter
    <3>3. held[n][q] \in LaunchedJob /\ previous[held[n][q]] \in UpdateJob
      BY <2>1, <3>2, <1>t DEF MayRun
    <3> QED BY <2>1, <3>1, <3>2, <3>3 DEF Cleared, MayRun
  <2> QED BY <1>5, <2>2, <2>3, <2>4, <2>5, <2>6 DEF RunnerStep
<1>6. ASSUME NEW m \in Node, Crash(m) PROVE Cleared(n, q)
  <2>1. m # n
    BY <1>6, <1>t DEF Crash, MayRun
  <2> QED BY <1>6, <2>1, <1>3, <1>t DEF Crash
<1>7. ASSUME UNCHANGED <<phase, held, previous>> PROVE Cleared(n, q)
  BY <1>7, <1>3
<1> QED
  BY <1>4, <1>5, <1>6, <1>7 DEF Step, Fetch, ReturnStep, Restart, RemoveStep, apiVars, runVars

LEMMA SettledStep ==
    ASSUME TypeOK, Located, Recorded, Settled, Step, Promised
    PROVE  Settled'
<1> USE ConstantFacts
<1> SUFFICES ASSUME NEW n \in Node, NEW q \in Queue, MayRun(n, q)'
             PROVE  Stage(previous[held[n][q]])' \in {"successful", "forgotten"}
  BY DEF Settled, MayRun
<1>1. Cleared(n, q)
  BY MayRunBefore
<1>2. PICK u \in UpdateJob : u = previous[held[n][q]] /\ u = previous'[held'[n][q]]
  BY <1>1 DEF Cleared
<1>3. Stage(u) \in {"successful", "forgotten"}
  <2>1. CASE MayRun(n, q)
    BY <1>2, <2>1 DEF MayRun, Settled
  <2>2. CASE PreviousStatus(n, q) = "successful"
    <3>1. status[u] = "successful"
      BY <1>2, <2>2 DEF PreviousStatus
    <3> QED BY <3>1, VerdictIsStage DEF Outcome
  <2> QED BY <1>1, <2>1, <2>2 DEF Cleared
<1>4. Stage(u)' \in {"successful", "forgotten"}
  BY <1>3, PromisedVerdict
<1> QED BY <1>2, <1>4

LEMMA NoChainsStep ==
    ASSUME TypeOK, NoChains, Step
    PROVE  NoChains'
<1> USE ConstantFacts
<1>t. previous \in [Job -> UpdateJob \cup {NoJob}]
  BY DEF TypeOK
<1>0. ASSUME UNCHANGED previous PROVE NoChains'
  BY <1>0 DEF NoChains
<1>1. ASSUME NEW n \in Node, HandlerStep(n) PROVE NoChains'
  <2>1. ASSUME NEW j \in LaunchedJob, NEW u \in UpdateJob, LaunchWithUpdate(n, j, u)
        PROVE  NoChains'
    BY <2>1, <1>t DEF LaunchWithUpdate, NoChains
  <2> QED BY <1>1, <2>1, <1>0 DEF HandlerStep, Launch, RequestUpdate, PublishUpdate, AbortUpdate,
                                   PublishJob, AbortLaunch
<1>2. ASSUME NEW n \in Node, NEW q \in Queue, RunnerStep(n, q) PROVE UNCHANGED previous
  BY <1>2 DEF RunnerStep, Consume, RecordStep, Record, AdvanceStep, LeaveStep, apiVars
<1> QED
  BY <1>0, <1>1, <1>2 DEF Step, Fetch, ReturnStep, Crash, Restart, RemoveStep, apiVars

-----------------------------------------------------------------------------
(* The theorem.                                                            *)

CInv == IInv /\ Ordered /\ Settled /\ NoChains

LEMMA InitCInv == Init => CInv
<1> SUFFICES ASSUME Init PROVE Settled /\ NoChains
  BY InitIInv, InitOrdered DEF CInv
<1>1. Settled
  BY DEF Init, Settled
<1>2. NoChains
  BY ConstantFacts DEF Init, NoChains
<1> QED BY <1>1, <1>2

LEMMA NextCInv == CInv /\ [Next]_vars => CInv' /\ Promised
<1> SUFFICES ASSUME CInv, [Next]_vars PROVE CInv' /\ Promised
  OBVIOUS
<1>1. /\ TypeOK /\ Located /\ Recorded /\ Linked
      /\ IInv' /\ Ordered' /\ TypeOK' /\ Located'
  BY NextIInv, NextOrdered, IInvParts DEF CInv, Ordered, IInv, Located
<1>2. CASE Next
  <2>1. Step
    BY <1>1, <1>2, NextStep
  <2>2. Promised
    BY <1>1, <2>1, StepPromise DEF CInv
  <2>3. Settled' /\ NoChains'
    BY <1>1, <2>1, <2>2, SettledStep, NoChainsStep DEF CInv
  <2> QED BY <1>1, <2>2, <2>3 DEF CInv
<1>3. CASE UNCHANGED vars
  <2>1. UNCHANGED <<ready, prefetched, unclaimed, status, handler, previous, phase, held>>
    BY <1>3 DEF vars, docVars, queueVars, apiVars, runVars
  <2>2. \A j \in Job : Stays(j)
    BY <2>1, PayloadsStay DEF Stays, InProgress
  <2>3. Promised
    BY <1>1, <2>1, <2>2, NobodyMoves
  <2>4. Settled'
    <3> SUFFICES ASSUME NEW n \in Node, NEW q \in Queue, MayRun(n, q)'
                 PROVE  Stage(previous[held[n][q]])' \in {"successful", "forgotten"}
      BY DEF Settled, MayRun
    <3>1. PICK u \in Job : u = previous[held[n][q]] /\ u = previous'[held'[n][q]]
      BY <1>1, <2>1, ConstantFacts DEF MayRun, TypeOK
    <3>2. Stage(u) \in {"successful", "forgotten"}
      BY <2>1, <3>1 DEF CInv, Settled, MayRun
    <3>3. Stage(u)' = Stage(u)
      BY <1>1, <2>2, StageStays
    <3> QED BY <3>1, <3>2, <3>3
  <2>5. NoChains'
    BY <2>1 DEF CInv, NoChains
  <2> QED BY <1>1, <2>3, <2>4, <2>5 DEF CInv
<1> QED BY <1>2, <1>3

\* The machinery keeps its contract: a job that is on a queue is neither lost nor
\* duplicated, is executed at most once, only after the project update it asked
\* for, and its verdict stands (Launch, UpdateProject, the two Run functions,
\* RMQCleaner and the reports of exec/, on any number of nodes).
THEOREM ContractKept == Spec => KeepsContract
<1>1. Init => Contract!Init
  <2> SUFFICES ASSUME Init PROVE Contract!Init
    OBVIOUS
  <2>1. TypeOK /\ Located /\ Recorded
    BY InitIInv, IInvParts
  <2>2. \A j \in Job : Stage(j) = "unborn"
    BY <2>1, Unborn DEF Init
  <2> QED BY <2>2 DEF Init, Contract!Init
<1>2. CInv /\ [Next]_vars => CInv'
  BY NextCInv
<1>3. CInv /\ [Next]_vars => [Contract!Next]_<<[j \in Job |-> Stage(j)], previous>>
  BY NextCInv DEF Promised
<1> QED BY <1>1, <1>2, <1>3, InitCInv, PTL DEF Spec, KeepsContract, Contract!Spec

=============================================================================
