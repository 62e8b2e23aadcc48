------------------------------ MODULE TaskQueue ------------------------------
(***************************************************************************)
(* The two Redis task queues and the rmq library between them and the      *)
(* consumers, as queue/queue.go, queue/cleaner.go and the two Run          *)
(* functions use them.                                                     *)
(*                                                                         *)
(* rmq keeps a list "ready" per queue.  A consuming connection moves the   *)
(* oldest delivery from "ready" to its own "unacked" list and hands it to  *)
(* a channel, here prefetched[n][q]: Run asks for a prefetch limit of one. *)
(* Ack removes the delivery from the unacked list.  What a dead connection *)
(* had not acked stays behind, here unclaimed[q], until a cleaner of a     *)
(* living node pushes it back to the newest end of "ready".  The heartbeat *)
(* of a node that is up is taken never to expire.                          *)
(***************************************************************************)
EXTENDS Sequences, Functions

CONSTANTS
    Node,      \* tensord processes, one redis connection each
    Delivery,  \* what can be published: a job's id stands for its payload
    NoJob      \* the absence of a delivery

Queue == {"ansibleq", "terraformq"}

ASSUME TaskQueueAssumption == NoJob \notin Delivery

VARIABLES
    ready,       \* [Queue -> Seq(Delivery)], oldest first
    prefetched,  \* [Node -> [Queue -> the delivery waiting in the channel]]
    unclaimed    \* [Queue -> deliveries of dead connections]

queueVars == <<ready, prefetched, unclaimed>>

-----------------------------------------------------------------------------
TypeOKQueue ==
    /\ ready \in [Queue -> Seq(Delivery)]
    /\ prefetched \in [Node -> [Queue -> Delivery \cup {NoJob}]]
    /\ unclaimed \in [Queue -> SUBSET Delivery]

InitQueue ==
    /\ ready = [q \in Queue |-> <<>>]
    /\ prefetched = [n \in Node |-> [q \in Queue |-> NoJob]]
    /\ unclaimed = [q \in Queue |-> {}]

IsReady(q, j) == j \in Range(ready[q])

\* Slip: the queue as a stack.
PublishLifo(q, j) ==
    /\ ready' = [ready EXCEPT ![q] = <<j>> \o @]
    /\ UNCHANGED <<prefetched, unclaimed>>

\* PublishBytes
Publish(q, j) ==
    /\ ready' = [ready EXCEPT ![q] = Append(@, j)]
    /\ UNCHANGED <<prefetched, unclaimed>>

\* Slip: a delivery is fetched although the channel is full.
PrefetchOverwriting(n, q) ==
    /\ ready[q] # <<>>
    /\ prefetched' = [prefetched EXCEPT ![n][q] = Head(ready[q])]
    /\ ready' = [ready EXCEPT ![q] = Tail(@)]
    /\ UNCHANGED unclaimed

\* The goroutine StartConsuming runs: it polls while the channel has room.
Prefetch(n, q) ==
    /\ prefetched[n][q] = NoJob
    /\ ready[q] # <<>>
    /\ prefetched' = [prefetched EXCEPT ![n][q] = Head(ready[q])]
    /\ ready' = [ready EXCEPT ![q] = Tail(@)]
    /\ UNCHANGED unclaimed

\* Slip: taken and never acked, so it is there to be returned.
TakeUnacked(n, q, j) ==
    /\ j # NoJob
    /\ prefetched[n][q] = j
    /\ prefetched' = [prefetched EXCEPT ![n][q] = NoJob]
    /\ unclaimed' = [unclaimed EXCEPT ![q] = @ \cup {j}]
    /\ UNCHANGED ready

\* The consumer goroutine takes delivery j from the channel and acks it.
TakeAndAck(n, q, j) ==
    /\ j # NoJob
    /\ prefetched[n][q] = j
    /\ prefetched' = [prefetched EXCEPT ![n][q] = NoJob]
    /\ UNCHANGED <<ready, unclaimed>>

\* The connection of node n dies with the process.
DropConnection(n) ==
    /\ prefetched' = [prefetched EXCEPT ![n] = [q \in Queue |-> NoJob]]
    /\ unclaimed' = [q \in Queue |-> unclaimed[q] \cup ({prefetched[n][q]} \ {NoJob})]
    /\ UNCHANGED ready

\* Slip: returned, and left where it was.
ReturnUnackedCopy(q, j) ==
    /\ j \in unclaimed[q]
    /\ Len(ready[q]) < 2
    /\ ready' = [ready EXCEPT ![q] = Append(@, j)]
    /\ UNCHANGED <<prefetched, unclaimed>>

\* Slip: the lists of the dead connection are purged instead.
ReturnUnackedNowhere(q, j) ==
    /\ j \in unclaimed[q]
    /\ unclaimed' = [unclaimed EXCEPT ![q] = @ \ {j}]
    /\ UNCHANGED <<ready, prefetched>>

\* RMQCleaner, for one unacked delivery of a dead connection.
ReturnUnacked(q, j) ==
    /\ j \in unclaimed[q]
    /\ unclaimed' = [unclaimed EXCEPT ![q] = @ \ {j}]
    /\ ready' = [ready EXCEPT ![q] = Append(@, j)]
    /\ UNCHANGED prefetched

=============================================================================
