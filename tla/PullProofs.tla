----------------------------- MODULE PullProofs -----------------------------
(***************************************************************************)
(* Proofs about PullDispatch, for any finite number of requests, any job   *)
(* ids, nodes, queue depth, attempts and faults: the books that the        *)
(* dispatcher and the registry keep of the dispatches under way.           *)
(***************************************************************************)
EXTENDS PullDispatch, FiniteSetTheorems, TLAPS

Phases == {"new", "choosing", "done"} \cup InDispatch
RequestType == [phase  : Phases,
                job    : Jobs \cup {None},
                left   : SUBSET Nodes,
                node   : Nodes \cup {None},
                tried  : 0 .. MaxAttempts,
                answer : Results \cup {Failure, None}]
NodeType == [phase : {"polling", "running", "posting"}, job : Jobs \cup {None}, ok : BOOLEAN]

(* TypeOK, with what it leaves open of the queues and of a node at work.   *)
Typed ==
    /\ req \in [Requests -> RequestType]
    /\ ctxDone \subseteq Requests
    /\ chan \in [Requests -> Results \cup {None}]
    /\ waiters \in [Jobs -> Attempts \cup {None}]
    /\ queue \in [Nodes -> Seq(Jobs)] /\ \A n \in Nodes : Len(queue[n]) <= QueueDepth
    /\ node \in [Nodes -> NodeType]
    /\ \A n \in Nodes : node[n].phase # "polling" => node[n].job \in Jobs
    /\ late \subseteq [from : Nodes, job : Jobs, ok : BOOLEAN]
    /\ unreachable \subseteq Nodes
    /\ inFlight \in [Nodes -> Nat]
    /\ faults \in 0 .. MaxFaults

UnderWay(r) == req[r].phase \in InDispatch

(* A request has its job from its start on, and a node while it dispatches. *)
Shape ==
    \A r \in Requests :
        /\ IF req[r].phase = "new" THEN req[r].job = None ELSE req[r].job \in Jobs
        /\ UnderWay(r) => req[r].node \in Nodes

(* WaiterReachable, from the moment of the registration.                   *)
Registered ==
    \A r \in Requests : UnderWay(r) /\ ~Shares(r) => waiters[req[r].job] = Me(r)

AtNode(n) == {r \in Requests : req[r].node = n /\ req[r].phase \in InDispatch}
Counted == \A n \in Nodes : inFlight[n] = Cardinality(AtNode(n))

Books == Shape /\ NoLeakedWaiter /\ Registered /\ Counted
PullInv == Typed /\ Books

USE DEF InDispatch

(* At the start no request waits.                                          *)
LEMMA PullInvStarts == Init => PullInv
<1> SUFFICES ASSUME Init PROVE PullInv
  OBVIOUS
<1>1. Typed
  <2>1. NewRequest \in RequestType
    BY PullConstants DEF NewRequest, RequestType, Phases
  <2>2. IdleNode \in NodeType /\ IdleNode.phase = "polling"
    BY DEF IdleNode, NodeType
  <2>3. <<>> \in Seq(Jobs) /\ Len(<<>>) <= QueueDepth
    BY PullConstants
  <2>4. node \in [Nodes -> NodeType] /\ \A n \in Nodes : node[n].phase = "polling"
    BY <2>2 DEF Init
  <2>5. queue \in [Nodes -> Seq(Jobs)] /\ \A n \in Nodes : Len(queue[n]) <= QueueDepth
    BY <2>3 DEF Init
  <2> QED
    BY <2>1, <2>4, <2>5, PullConstants DEF Init, Typed
<1>2. \A r \in Requests : req[r].phase = "new" /\ req[r].job = None
  BY DEF Init, NewRequest
<1>3. Shape /\ Registered
  BY <1>2 DEF Shape, Registered, UnderWay
<1>4. NoLeakedWaiter
  BY DEF Init, NoLeakedWaiter
<1>5. Counted
  <2>1. \A n \in Nodes : AtNode(n) = {}
    BY <1>2 DEF AtNode
  <2> QED
    BY <2>1, FS_EmptySet DEF Init, Counted
<1> QED
  BY <1>1, <1>3, <1>4, <1>5 DEF PullInv, Books

(* What concerns neither the requests nor the two books of them.           *)
LEMMA BooksStay ==
    ASSUME Books, UNCHANGED <<req, waiters, inFlight>>
    PROVE  Books'
BY DEF Books, Shape, NoLeakedWaiter, Registered, Counted, AtNode, UnderWay, Shares, Me

(* The fields of a request that steps, and the requests that do not.       *)
LEMMA OneSteps ==
    ASSUME Typed, NEW r \in Requests, NEW q \in RequestType, req' = [req EXCEPT ![r] = q]
    PROVE  /\ req' \in [Requests -> RequestType] /\ req'[r] = q
           /\ \A s \in Requests : s # r => req'[s] = req[s]
BY DEF Typed

(* A request outside of every dispatch moves on outside of it, or one that *)
(* dispatches goes on with the same attempt.                               *)
LEMMA MovesOn ==
    ASSUME Typed, Books, NEW r \in Requests, NEW q \in RequestType,
           req' = [req EXCEPT ![r] = q], UNCHANGED <<waiters, inFlight>>,
           q.phase \in InDispatch <=> UnderWay(r),
           UnderWay(r) => q.node = req[r].node /\ q.tried = req[r].tried,
           q.phase # "new" /\ q.job \in Jobs,
           req[r].phase = "new" \/ q.job = req[r].job
    PROVE  Books'
<1>1. req'[r] = q /\ \A s \in Requests : s # r => req'[s] = req[s]
  BY OneSteps
<1>2. Shape'
  BY <1>1 DEF Books, Shape, UnderWay
<1>3. UnderWay(r) => req'[r].job = req[r].job /\ Me(r)' = Me(r)
  BY <1>1 DEF Me, UnderWay
<1>4. NoLeakedWaiter'
  <2>1. SUFFICES ASSUME NEW j \in Jobs, waiters[j] # None
                 PROVE  LET s == waiters[j][1] IN
                          req'[s].job = j /\ req'[s].phase \in InDispatch /\ waiters[j] = Me(s)'
    BY DEF NoLeakedWaiter
  <2>2. PICK s \in Requests : s = waiters[j][1]
    BY <2>1 DEF Typed, Attempts
  <2>3. req[s].job = j /\ UnderWay(s) /\ waiters[j] = Me(s)
    BY <2>1, <2>2 DEF Books, NoLeakedWaiter, UnderWay
  <2>4. CASE s = r
    BY <1>1, <1>3, <2>2, <2>3, <2>4 DEF UnderWay
  <2>5. CASE s # r
    BY <1>1, <2>2, <2>3, <2>5 DEF UnderWay, Me
  <2> QED
    BY <2>4, <2>5
<1>5. Registered'
  <2>1. SUFFICES ASSUME NEW s \in Requests, UnderWay(s)', ~Shares(s)'
                 PROVE  waiters[req'[s].job] = Me(s)'
    BY DEF Registered
  <2>2. UnderWay(s) /\ req'[s].job = req[s].job /\ Me(s)' = Me(s)
    BY <1>1, <1>3, <2>1 DEF UnderWay, Me
  <2>3. ~Shares(s)
    <3>1. \A t \in Requests : req[t].job # None => req'[t].job = req[t].job
      BY <1>1 DEF Books, Shape
    <3>2. req[s].job # None
      BY <2>2, PullConstants DEF Books, Shape, UnderWay
    <3> QED
      BY <2>1, <2>2, <3>1, <3>2 DEF Shares
  <2> QED
    BY <2>2, <2>3 DEF Books, Registered
<1>6. Counted'
  <2>1. \A n \in Nodes : AtNode(n)' = AtNode(n)
    BY <1>1 DEF AtNode, UnderWay
  <2> QED
    BY <2>1 DEF Books, Counted
<1> QED
  BY <1>2, <1>4, <1>5, <1>6 DEF Books
(* The waiters of the other requests, when one's own place is written: no  *)
(* other of the request's places is left behind.                           *)
LEMMA NoOtherWaiter ==
    ASSUME Typed, Books, NEW r \in Requests, NEW j \in Jobs, waiters[j] # None, j # req[r].job
    PROVE  waiters[j][1] # r
BY DEF Books, NoLeakedWaiter

(* A request that is not under way has no place among the waiters.         *)
LEMMA IdleHasNoWaiter ==
    ASSUME Typed, Books, NEW r \in Requests, ~UnderWay(r), NEW j \in Jobs, waiters[j] # None
    PROVE  waiters[j][1] # r
BY DEF Books, NoLeakedWaiter, UnderWay

(* Books after a step of r that writes its job's place, unless another     *)
(* request carries the same job.                                           *)
LEMMA WritesOwnPlace ==
    ASSUME Typed, Books, NEW r \in Requests, NEW q \in RequestType,
           req' = [req EXCEPT ![r] = q], req[r].job \in Jobs, q.job = req[r].job, q.phase # "new",
           NEW v, waiters' = [waiters EXCEPT ![req[r].job] = v],
           q.phase \in InDispatch => q.node \in Nodes /\ v = Me(r)',
           q.phase \notin InDispatch => v = None
    PROVE  (Shape /\ NoLeakedWaiter /\ Registered)'
<1>1. req'[r] = q /\ \A s \in Requests : s # r => req'[s] = req[s]
  BY OneSteps
<1>2. waiters'[req[r].job] = v /\ \A j \in Jobs : j # req[r].job => waiters'[j] = waiters[j]
  BY DEF Typed
<1>3. Shape'
  BY <1>1 DEF Books, Shape, UnderWay
<1>4. NoLeakedWaiter'
  <2>1. SUFFICES ASSUME NEW j \in Jobs, waiters'[j] # None
                 PROVE  LET s == waiters'[j][1] IN
                          req'[s].job = j /\ req'[s].phase \in InDispatch
                            /\ waiters'[j] = <<s, req'[s].tried>>
    BY DEF NoLeakedWaiter, Me
  <2>2. CASE j = req[r].job
    <3>1. waiters'[j] = Me(r)' /\ waiters'[j][1] = r
      BY <1>2, <2>1, <2>2 DEF Me
    <3> QED
      BY <1>1, <1>2, <2>1, <2>2, <3>1 DEF Me
  <2>3. CASE j # req[r].job
    <3>1. PICK s \in Requests : s = waiters[j][1]
      BY <1>2, <2>1, <2>3 DEF Typed, Attempts
    <3>2. s # r /\ req[s].job = j /\ UnderWay(s) /\ waiters[j] = Me(s)
      BY <1>2, <2>1, <2>3, <3>1, NoOtherWaiter DEF Books, NoLeakedWaiter, UnderWay
    <3>3. waiters'[j] = waiters[j] /\ req'[s] = req[s]
      BY <1>1, <1>2, <2>3, <3>2
    <3> QED
      BY <3>1, <3>2, <3>3 DEF UnderWay, Me
  <2> QED
    BY <2>2, <2>3
<1>5. Registered'
  <2>1. SUFFICES ASSUME NEW s \in Requests, UnderWay(s)', ~Shares(s)'
                 PROVE  waiters'[req'[s].job] = Me(s)'
    BY DEF Registered
  <2>2. CASE s = r
    BY <1>1, <1>2, <2>1, <2>2 DEF UnderWay
  <2>3. CASE s # r
    <3>1. UnderWay(s) /\ req'[s] = req[s] /\ Me(s)' = Me(s) /\ req[s].job \in Jobs
      BY <1>1, <2>1, <2>3 DEF UnderWay, Me, Books, Shape
    <3>2. \A t \in Requests : req'[t].job = req[t].job
      BY <1>1
    <3>3. ~Shares(s) /\ req[s].job # req[r].job
      BY <2>1, <2>3, <3>2 DEF Shares
    <3> QED
      BY <1>2, <3>1, <3>3 DEF Books, Registered
  <2> QED
    BY <2>2, <2>3
<1> QED
  BY <1>3, <1>4, <1>5

(* Registration counts the node up and puts the waiter down.               *)
LEMMA RegisterKeeps ==
    ASSUME Typed, Books, NEW r \in Requests, NEW n \in Nodes, Register(r, n)
    PROVE  Books' /\ Typed'
<1> DEFINE q == [req[r] EXCEPT !.phase = "enqueueing", !.node = n,
                               !.left = req[r].left \ {n}, !.tried = req[r].tried + 1]
<1>1. req[r] \in RequestType /\ req[r].phase = "choosing" /\ req[r].tried < MaxAttempts
  BY DEF Typed, Register
<1>2. /\ q \in RequestType /\ q.phase = "enqueueing" /\ q.node = n /\ q.job = req[r].job
      /\ q.tried = req[r].tried + 1 /\ q.tried \in 1 .. MaxAttempts
  <2>1. req[r].tried \in Nat /\ req[r].tried + 1 \in 0 .. MaxAttempts
        /\ req[r].tried + 1 \in 1 .. MaxAttempts
    BY <1>1, PullConstants DEF RequestType
  <2>2. "enqueueing" \in Phases /\ req[r].left \ {n} \in SUBSET Nodes
    BY <1>1 DEF RequestType, Phases
  <2>3. q \in RequestType
    BY <1>1, <2>1, <2>2 DEF RequestType
  <2> QED
    BY <1>1, <2>1, <2>3 DEF RequestType
<1>3. req' = [req EXCEPT ![r] = q]
  BY DEF Register
<1> HIDE DEF q
<1>4. req'[r] = q /\ \A s \in Requests : s # r => req'[s] = req[s]
  BY <1>2, <1>3, OneSteps
<1>5. req[r].job \in Jobs
  BY <1>1 DEF Books, Shape
<1>6. Me(r)' = <<r, req[r].tried + 1>> /\ Me(r)' \in Attempts
  BY <1>2, <1>4 DEF Me, Attempts
<1>7. waiters' = [waiters EXCEPT ![req[r].job] = Me(r)']
  BY <1>6 DEF Register
<1>8. (Shape /\ NoLeakedWaiter /\ Registered)'
  BY <1>2, <1>3, <1>5, <1>7, WritesOwnPlace
<1>9. Counted'
  <2>1. IsFiniteSet(AtNode(n))
    BY PullConstants, FS_Subset DEF AtNode
  <2>2. r \notin AtNode(n)
    BY <1>1 DEF AtNode
  <2>3. AtNode(n)' = AtNode(n) \cup {r}
    BY <1>2, <1>4 DEF AtNode
  <2>4. inFlight'[n] = Cardinality(AtNode(n)')
    <3>1. Cardinality(AtNode(n) \cup {r}) = Cardinality(AtNode(n)) + 1
      BY <2>1, <2>2, FS_AddElement
    <3>2. inFlight'[n] = inFlight[n] + 1 /\ inFlight[n] = Cardinality(AtNode(n))
      BY DEF Register, Typed, Books, Counted
    <3> QED
      BY <2>3, <3>1, <3>2
  <2>5. ASSUME NEW m \in Nodes, m # n PROVE inFlight'[m] = Cardinality(AtNode(m)')
    <3>1. AtNode(m)' = AtNode(m)
      BY <1>1, <1>2, <1>4, <2>5 DEF AtNode
    <3> QED
      BY <2>5, <3>1 DEF Register, Typed, Books, Counted
  <2> QED
    BY <2>4, <2>5 DEF Counted
<1>10. Typed'
  <2>1. req' \in [Requests -> RequestType]
    BY <1>2, <1>3, OneSteps
  <2>2. waiters' \in [Jobs -> Attempts \cup {None}]
    BY <1>5, <1>6, <1>7 DEF Typed
  <2>3. chan' \in [Requests -> Results \cup {None}] /\ inFlight' \in [Nodes -> Nat]
    BY DEF Register, Typed
  <2> QED
    BY <2>1, <2>2, <2>3 DEF Register, Typed
<1> QED
  BY <1>8, <1>9, <1>10 DEF Books

(* However an attempt ends, its place is emptied and its node counted down. *)
LEMMA LeaveKeeps ==
    ASSUME Typed, Books, NEW r \in Requests, UnderWay(r),
           NEW answer \in Results \cup {Failure}, Leave(r, answer),
           UNCHANGED <<ctxDone, queue, node, late, faults>>
    PROVE  Books' /\ Typed'
<1> DEFINE qok == [req[r] EXCEPT !.phase = "done", !.left = {}, !.answer = answer]
           qno == [req[r] EXCEPT !.phase = "choosing", !.node = None]
<1>1. req[r] \in RequestType
  BY DEF Typed
<1>2. PICK n \in Nodes : n = req[r].node
  BY DEF Books, Shape
<1>3. PICK q \in RequestType :
         /\ req' = [req EXCEPT ![r] = q]
         /\ q.phase \in {"done", "choosing"} /\ q.job = req[r].job
  <2>1. /\ qok \in RequestType /\ qok.phase = "done" /\ qok.job = req[r].job
        /\ qno \in RequestType /\ qno.phase = "choosing" /\ qno.job = req[r].job
    BY <1>1 DEF RequestType, Phases
  <2>2. req' = [req EXCEPT ![r] = qok] \/ req' = [req EXCEPT ![r] = qno]
    BY DEF Leave
  <2> QED
    BY <2>1, <2>2
<1>4. req'[r] = q /\ \A s \in Requests : s # r => req'[s] = req[s]
  BY <1>3, OneSteps
<1>5. /\ req[r].job \in Jobs /\ waiters' = [waiters EXCEPT ![req[r].job] = None]
      /\ inFlight' = [inFlight EXCEPT ![n] = @ - 1]
      /\ chan' = [chan EXCEPT ![r] = None]
      /\ unreachable' \in {unreachable, unreachable \cup {n}}
  BY <1>2 DEF Leave, Books, Shape, UnderWay
<1>6. (Shape /\ NoLeakedWaiter /\ Registered)'
  BY <1>3, <1>5, WritesOwnPlace
<1>7. IsFiniteSet(AtNode(n)) /\ r \in AtNode(n)
  BY <1>2, PullConstants, FS_Subset DEF AtNode, UnderWay
<1>8. Cardinality(AtNode(n) \ {r}) = Cardinality(AtNode(n)) - 1
      /\ Cardinality(AtNode(n) \ {r}) \in Nat
  BY <1>7, FS_RemoveElement, FS_CardinalityType
<1>9. inFlight[n] - 1 \in Nat /\ inFlight[n] = Cardinality(AtNode(n))
  BY <1>8 DEF Books, Counted
<1>10. Counted'
  <2>1. AtNode(n)' = AtNode(n) \ {r}
    BY <1>3, <1>4 DEF AtNode
  <2>2. inFlight'[n] = Cardinality(AtNode(n)')
    BY <1>5, <1>8, <1>9, <2>1 DEF Typed
  <2>3. ASSUME NEW m \in Nodes, m # n PROVE inFlight'[m] = Cardinality(AtNode(m)')
    <3>1. AtNode(m)' = AtNode(m)
      BY <1>2, <1>3, <1>4, <2>3 DEF AtNode
    <3> QED
      BY <1>5, <2>3, <3>1 DEF Typed, Books, Counted
  <2> QED
    BY <2>2, <2>3 DEF Counted
<1>11. Typed'
  <2>1. req' \in [Requests -> RequestType]
    BY <1>3, OneSteps
  <2>2. /\ waiters' \in [Jobs -> Attempts \cup {None}]
        /\ chan' \in [Requests -> Results \cup {None}]
        /\ inFlight' \in [Nodes -> Nat] /\ unreachable' \subseteq Nodes
    BY <1>5, <1>9 DEF Typed
  <2> QED
    BY <2>1, <2>2 DEF Typed
<1> QED
  BY <1>6, <1>10, <1>11 DEF Books
-----------------------------------------------------------------------------
(* The router's other steps.                                               *)
LEMMA StartKeeps ==
    ASSUME PullInv, NEW r \in Requests, NEW j \in Jobs, NEW left \in SUBSET Nodes,
           req[r].phase = "new",
           req' = [req EXCEPT ![r].phase = "choosing", ![r].job = j, ![r].left = left],
           UNCHANGED <<ctxDone, chan, waiters, queue, node, late, unreachable, inFlight, faults>>
    PROVE  PullInv'
<1> DEFINE q == [req[r] EXCEPT !.phase = "choosing", !.job = j, !.left = left]
<1>1. req[r] \in RequestType
  BY DEF PullInv, Typed
<1>2. q \in RequestType /\ q.phase = "choosing" /\ q.job = j
  BY <1>1 DEF RequestType, Phases
<1>3. req' = [req EXCEPT ![r] = q]
  OBVIOUS
<1> HIDE DEF q
<1>4. Books'
  BY <1>2, <1>3, MovesOn DEF PullInv, UnderWay
<1>5. req' \in [Requests -> RequestType]
  BY <1>2, <1>3, OneSteps DEF PullInv
<1> QED
  BY <1>4, <1>5 DEF PullInv, Typed

(* Without candidates nothing was registered, so nothing is left.          *)
LEMMA OutKeeps == ASSUME PullInv, NEW r \in Requests, OutOfCandidates(r) PROVE PullInv'
<1> DEFINE q == [req[r] EXCEPT !.phase = "done", !.left = {}, !.answer = Failure]
<1>1. req[r] \in RequestType /\ req[r].phase = "choosing"
  BY DEF PullInv, Typed, OutOfCandidates
<1>2. q \in RequestType /\ q.phase = "done" /\ q.job = req[r].job
  BY <1>1 DEF RequestType, Phases
<1>3. req' = [req EXCEPT ![r] = q]
  BY DEF OutOfCandidates
<1> HIDE DEF q
<1>4. req[r].job \in Jobs
  BY <1>1 DEF PullInv, Books, Shape
<1>5. Books'
  BY <1>1, <1>2, <1>3, <1>4, MovesOn DEF PullInv, UnderWay, OutOfCandidates
<1>6. req' \in [Requests -> RequestType]
  BY <1>2, <1>3, OneSteps DEF PullInv
<1> QED
  BY <1>5, <1>6 DEF PullInv, Typed, OutOfCandidates

(* A job that is queued stays registered.                                  *)
LEMMA EnqueueKeeps == ASSUME PullInv, NEW r \in Requests, Enqueue(r) PROVE PullInv'
<1> DEFINE q == [req[r] EXCEPT !.phase = "waiting"]
<1>1. req[r] \in RequestType /\ req[r].phase = "enqueueing"
  BY DEF PullInv, Typed, Enqueue
<1>2. /\ q \in RequestType /\ q.phase = "waiting" /\ q.job = req[r].job
      /\ q.node = req[r].node /\ q.tried = req[r].tried
  BY <1>1 DEF RequestType, Phases
<1>3. req' = [req EXCEPT ![r] = q]
  BY DEF Enqueue
<1> HIDE DEF q
<1>4. req[r].job \in Jobs
  BY <1>1 DEF PullInv, Books, Shape
<1>5. Books'
  BY <1>1, <1>2, <1>3, <1>4, MovesOn DEF PullInv, UnderWay, Enqueue
<1>6. req' \in [Requests -> RequestType]
  BY <1>2, <1>3, OneSteps DEF PullInv
<1>7. PICK n \in Nodes : n = req[r].node
  BY <1>1 DEF PullInv, Books, Shape, UnderWay
<1>8. queue' = [queue EXCEPT ![n] = Append(queue[n], req[r].job)] /\ Len(queue[n]) < QueueDepth
  BY <1>7 DEF Enqueue
<1>9. queue' \in [Nodes -> Seq(Jobs)] /\ \A m \in Nodes : Len(queue'[m]) <= QueueDepth
  BY <1>4, <1>8, PullConstants DEF PullInv, Typed
<1> QED
  BY <1>5, <1>6, <1>9 DEF PullInv, Typed, Enqueue

(* The three ends of an attempt all leave it in the same way.              *)
LEMMA AttemptEndKeeps ==
    ASSUME PullInv, NEW r \in Requests, EnqueueFails(r) \/ Receive(r) \/ GiveUp(r)
    PROVE  PullInv'
<1>1. UnderWay(r) /\ UNCHANGED <<ctxDone, queue, node, late, faults>>
  BY DEF EnqueueFails, Receive, GiveUp, UnderWay
<1>2. PICK answer \in Results \cup {Failure} : Leave(r, answer)
  BY DEF EnqueueFails, Receive, GiveUp, PullInv, Typed
<1> QED
  BY <1>1, <1>2, LeaveKeeps DEF PullInv

-----------------------------------------------------------------------------
(* The node's steps, and those of the network.                             *)
LEMMA TakeKeeps ==
    ASSUME PullInv, NEW n \in Nodes, Claim(n) \/ ClaimLost(n)
    PROVE  PullInv'
<1>1. /\ queue[n] \in Seq(Jobs) /\ queue[n] # <<>> /\ Len(queue[n]) <= QueueDepth
      /\ queue' = [queue EXCEPT ![n] = Tail(queue[n])]
      /\ UNCHANGED <<req, ctxDone, chan, waiters, late, unreachable, inFlight>>
  BY DEF Claim, ClaimLost, PullInv, Typed
<1>2. /\ Head(queue[n]) \in Jobs /\ Tail(queue[n]) \in Seq(Jobs)
      /\ Len(Tail(queue[n])) <= QueueDepth
  BY <1>1, PullConstants
<1>3. queue' \in [Nodes -> Seq(Jobs)] /\ \A m \in Nodes : Len(queue'[m]) <= QueueDepth
  BY <1>1, <1>2 DEF PullInv, Typed
<1>4. PICK k \in NodeType : node' = [node EXCEPT ![n] = k]
                             /\ (k.phase # "polling" => k.job \in Jobs)
  <2>1. CASE Claim(n)
    <3> DEFINE k == [node[n] EXCEPT !.phase = "running", !.job = Head(queue[n])]
    <3>1. node[n] \in NodeType
      BY DEF PullInv, Typed
    <3>2. k \in NodeType /\ k.job \in Jobs
      BY <1>2, <3>1 DEF NodeType
    <3>3. node' = [node EXCEPT ![n] = k]
      BY <2>1 DEF Claim
    <3> QED
      BY <3>2, <3>3
  <2>2. CASE ClaimLost(n)
    <3>1. IdleNode \in NodeType /\ IdleNode.phase = "polling"
      BY DEF IdleNode, NodeType
    <3> QED
      BY <2>2, <3>1 DEF ClaimLost
  <2> QED
    BY <2>1, <2>2
<1>5. node' \in [Nodes -> NodeType] /\ \A m \in Nodes : node'[m].phase # "polling" => node'[m].job \in Jobs
  BY <1>4 DEF PullInv, Typed
<1>6. faults' \in 0 .. MaxFaults
  BY PullConstants DEF Claim, ClaimLost, PullInv, Typed
<1> QED
  BY <1>1, <1>3, <1>5, <1>6, BooksStay DEF PullInv, Typed

(* What nodes do touches no waiter of a request, only its channel.         *)
LEMMA NodeKeeps ==
    ASSUME PullInv, NEW n \in Nodes,
           \/ \E ok \in BOOLEAN : Execute(n, ok)
           \/ AgentForgets(n) \/ PostAgain(n) \/ PostResult(n) \/ Poll(n)
    PROVE  PullInv'
<1>1. UNCHANGED <<req, ctxDone, waiters, queue, inFlight>> /\ Typed /\ Books
  BY DEF Execute, AgentForgets, PostAgain, PostResult, Poll, PullInv
<1>2. node[n] \in NodeType
  BY <1>1 DEF Typed
<1>3. IdleNode \in NodeType /\ IdleNode.phase = "polling"
  BY DEF IdleNode, NodeType
<1>4. PICK k \in NodeType : node' = [node EXCEPT ![n] = k]
                             /\ (k.phase # "polling" => k.job \in Jobs)
  <2>1. ASSUME NEW ok \in BOOLEAN, Execute(n, ok)
        PROVE  \E k \in NodeType : node' = [node EXCEPT ![n] = k]
                                   /\ (k.phase # "polling" => k.job \in Jobs)
    <3> DEFINE k == [node[n] EXCEPT !.phase = "posting", !.ok = ok]
    <3>1. k \in NodeType /\ k.job = node[n].job
      BY <1>2 DEF NodeType
    <3>2. node[n].job \in Jobs
      BY <1>1, <2>1 DEF Execute, Typed
    <3>3. node' = [node EXCEPT ![n] = k]
      BY <2>1 DEF Execute
    <3> QED
      BY <3>1, <3>2, <3>3
  <2>2. CASE AgentForgets(n) \/ PostResult(n)
    BY <1>3, <2>2 DEF AgentForgets, PostResult
  <2>3. CASE PostAgain(n) \/ Poll(n)
    <3>1. node' = [node EXCEPT ![n] = node[n]]
      BY <1>1, <2>3 DEF PostAgain, Poll, Typed
    <3> QED
      BY <1>1, <1>2, <3>1 DEF Typed
  <2> QED
    BY <2>1, <2>2, <2>3
<1>5. node' \in [Nodes -> NodeType] /\ \A m \in Nodes : node'[m].phase # "polling" => node'[m].job \in Jobs
  BY <1>1, <1>4 DEF Typed
<1>6. chan' \in [Requests -> Results \cup {None}]
  <2>1. CASE PostResult(n)
    <3>1. [from |-> n, ok |-> node[n].ok] \in Results
      BY <1>2 DEF Results, NodeType
    <3> QED
      BY <1>1, <2>1, <3>1 DEF PostResult, SubmitResult, Typed
  <2>2. CASE UNCHANGED chan
    BY <1>1, <2>2 DEF Typed
  <2> QED
    BY <2>1, <2>2 DEF Execute, AgentForgets, PostAgain, PostResult, Poll
<1>7. late' \subseteq [from : Nodes, job : Jobs, ok : BOOLEAN]
  <2>1. CASE PostAgain(n)
    <3>1. node[n].job \in Jobs /\ node[n].ok \in BOOLEAN
      BY <1>1, <1>2, <2>1 DEF PostAgain, Typed, NodeType
    <3>2. [from |-> n, job |-> node[n].job, ok |-> node[n].ok] \in [from : Nodes, job : Jobs, ok : BOOLEAN]
      BY <3>1
    <3> QED
      BY <1>1, <2>1, <3>2 DEF PostAgain, Typed
  <2>2. CASE UNCHANGED late
    BY <1>1, <2>2 DEF Typed
  <2> QED
    BY <2>1, <2>2 DEF Execute, AgentForgets, PostAgain, PostResult, Poll
<1>8. faults' \in 0 .. MaxFaults /\ unreachable' \subseteq Nodes
  BY <1>1, PullConstants DEF Execute, AgentForgets, PostAgain, PostResult, Poll, Typed
<1> QED
  BY <1>1, <1>5, <1>6, <1>7, <1>8, BooksStay DEF PullInv, Typed

(* A late result fills a channel at most.                                  *)
LEMMA LateKeeps == ASSUME PullInv, NEW m \in late, LateResult(m) PROVE PullInv'
<1>1. m.from \in Nodes /\ m.ok \in BOOLEAN
  BY DEF PullInv, Typed
<1>2. [from |-> m.from, ok |-> m.ok] \in Results
  BY <1>1 DEF Results
<1>3. chan' \in [Requests -> Results \cup {None}]
  BY <1>2 DEF LateResult, SubmitResult, PullInv, Typed
<1> QED
  BY <1>3, BooksStay DEF LateResult, PullInv, Typed

(* Every step of router, nodes and network keeps the books.                *)
LEMMA PullInvStays == ASSUME PullInv, [Next]_vars PROVE PullInv'
<1>1. ASSUME NEW r \in Requests, NEW j \in Jobs, DispatchFastLane(r, j) PROVE PullInv'
  <2> DEFINE left == Nodes \ unreachable
  <2>1. /\ req[r].phase = "new" /\ left \in SUBSET Nodes
        /\ req' = [req EXCEPT ![r].phase = "choosing", ![r].job = j, ![r].left = left]
        /\ UNCHANGED <<ctxDone, chan, waiters, queue, node, late, unreachable, inFlight, faults>>
    BY <1>1 DEF DispatchFastLane
  <2> HIDE DEF left
  <2> QED
    BY <2>1, StartKeeps
<1>2. ASSUME NEW r \in Requests, NEW j \in Jobs, NEW n \in Nodes, DispatchToResolvedNode(r, j, n)
      PROVE  PullInv'
  <2>1. /\ req[r].phase = "new" /\ {n} \in SUBSET Nodes
        /\ req' = [req EXCEPT ![r].phase = "choosing", ![r].job = j, ![r].left = {n}]
        /\ UNCHANGED <<ctxDone, chan, waiters, queue, node, late, unreachable, inFlight, faults>>
    BY <1>2 DEF DispatchToResolvedNode
  <2> QED
    BY <2>1, StartKeeps
<1>3. ASSUME NEW r \in Requests, RouterStep(r) PROVE PullInv'
  BY <1>3, RegisterKeeps, OutKeeps, EnqueueKeeps, AttemptEndKeeps DEF RouterStep, PullInv
<1>4. ASSUME NEW r \in Requests, ContextEnds(r) PROVE PullInv'
  BY <1>4, BooksStay DEF ContextEnds, PullInv, Typed
<1>5. ASSUME NEW n \in Nodes, NodeStep(n) \/ ClaimLost(n) \/ PostAgain(n) \/ AgentForgets(n)
      PROVE  PullInv'
  BY <1>5, TakeKeeps, NodeKeeps DEF NodeStep
<1>6. CASE UNCHANGED vars
  BY <1>6, BooksStay DEF vars, PullInv, Typed
<1> QED
  BY <1>1, <1>2, <1>3, <1>4, <1>5, <1>6, LateKeeps DEF Next

(* Every behaviour keeps the invariant.                                    *)
LEMMA PullInvAlways == Spec => []PullInv
BY PullInvStarts, PullInvStays, PTL DEF Spec

(* The state of requests, queues, nodes and counters stays well typed, and *)
(* no node's queue ever holds more than its depth.                         *)
THEOREM TypeCorrect == Spec => []TypeOK
<1>1. PullInv => TypeOK
  BY DEF PullInv, Typed, TypeOK, RequestType, NodeType, Phases
<1> QED
  BY <1>1, PullInvAlways, PTL

(* Whatever is lost, repeated or late, and whichever ids clients send      *)
(* twice: who waits alone for a job can be reached, nothing is registered  *)
(* for nobody, and the in-flight counters count who is under way.          *)
THEOREM BooksOfDispatches == Spec => []DispatchesExact
<1>1. Registered => WaiterReachable
  BY DEF Registered, WaiterReachable, UnderWay
<1>2. Counted => InFlightExact
  BY DEF Counted, InFlightExact, AtNode
<1>3. PullInv => DispatchesExact
  BY <1>1, <1>2 DEF PullInv, Books, DispatchesExact
<1> QED
  BY <1>3, PullInvAlways, PTL
=============================================================================
