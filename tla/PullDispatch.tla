---------------------------- MODULE PullDispatch ----------------------------
(***************************************************************************)
(* Pull delivery: router.DispatchFastLane handing a job to nodes that      *)
(* fetch their work by long-polling, through coordinator.PullDispatcher.   *)
(*                                                                         *)
(* A request is one call of DispatchFastLane (of the chat handler, or of a *)
(* queue worker) or of DispatchToResolvedNode.  It tries candidates one    *)
(* after the other; each attempt is a Dispatch that registers a fresh      *)
(* result channel under the JOB's id, puts the job on the node's bounded   *)
(* queue and waits.  A client may send a job id again (oim_job_id is the   *)
(* client's to choose), so requests and job ids are different things here. *)
(* The node side is agent.runPullLoop: poll, execute, post the result,     *)
(* with retries of the post.  Ranking is abstracted to an arbitrary order  *)
(* of the candidates.                                                      *)
(***************************************************************************)
EXTENDS Naturals, Sequences, FiniteSets

CONSTANTS
    Requests,
    Resolved,      \* requests made with DispatchToResolvedNode
    Jobs,          \* job ids
    Nodes,         \* pull-mode nodes, all eligible for every job
    QueueDepth,    \* DefaultPullQueueDepth
    MaxAttempts,   \* candidates one DispatchFastLane tries
    MaxFaults,     \* bound: lost or repeated messages and agent restarts
    Deadlined,     \* requests whose context has a deadline
    None

ASSUME PullConstants ==
    /\ IsFiniteSet(Requests)
    /\ QueueDepth \in Nat \ {0}
    /\ MaxAttempts \in Nat
    /\ MaxFaults \in Nat
    /\ Deadlined \subseteq Requests
    /\ Resolved \subseteq Requests
    /\ None \notin Requests \cup Jobs \cup Nodes

VARIABLES
    req,          \* req[r]: where the request's DispatchFastLane stands
    ctxDone,      \* requests whose context is cancelled or past its deadline
    chan,         \* chan[r]: what the current attempt's result channel holds
    waiters,      \* waiters[j]: the attempt whose channel is registered for j
    queue,        \* queue[n]: job ids waiting to be claimed by n
    node,         \* node[n]: where n's pull loop stands
    late,         \* copies of results that postJSON sent and gave up waiting for
    unreachable,  \* nodes marked unreachable in the registry
    inFlight,     \* inFlight[n]: the registry's in-flight counter
    faults

vars == <<req, ctxDone, chan, waiters, queue, node, late, unreachable,
          inFlight, faults>>

Results == [from : Nodes, ok : BOOLEAN]
Failure == [from |-> None, ok |-> FALSE]
Attempts == Requests \X (1 .. MaxAttempts)

NewRequest == [phase |-> "new", job |-> None, left |-> {}, node |-> None,
               tried |-> 0, answer |-> None]

InDispatch == {"enqueueing", "waiting"}

IdleNode == [phase |-> "polling", job |-> None, ok |-> FALSE]

Me(r) == <<r, req[r].tried>>

-----------------------------------------------------------------------------
(* The router.                                                             *)

(* DispatchFastLane: the candidates are read once, before the first try.   *)
DispatchFastLane(r, j) ==
    /\ r \notin Resolved
    /\ req[r].phase = "new"
    /\ req' = [req EXCEPT ![r].phase = "choosing", ![r].job = j,
                          ![r].left = Nodes \ unreachable]
    /\ UNCHANGED <<ctxDone, chan, waiters, queue, node, late, unreachable,
                   inFlight, faults>>

(* DispatchToResolvedNode: a reserved or background job, or a warm-up, has *)
(* its node already, reachable or not, and no other to fall back on.       *)
DispatchToResolvedNode(r, j, n) ==
    /\ r \in Resolved
    /\ req[r].phase = "new"
    /\ req' = [req EXCEPT ![r].phase = "choosing", ![r].job = j, ![r].left = {n}]
    /\ UNCHANGED <<ctxDone, chan, waiters, queue, node, late, unreachable,
                   inFlight, faults>>

(* The next candidate: IncrInFlight, then Dispatch makes its channel and   *)
(* registers it over whatever is registered for the job id.                *)
Register(r, n) ==
    /\ req[r].phase = "choosing"
    /\ req[r].tried < MaxAttempts
    /\ n \in req[r].left
    /\ req' = [req EXCEPT ![r].phase = "enqueueing", ![r].node = n,
                          ![r].left = @ \ {n}, ![r].tried = @ + 1]
    /\ waiters' = [waiters EXCEPT ![req[r].job] = <<r, req[r].tried + 1>>]
    /\ chan' = [chan EXCEPT ![r] = None]
    /\ inFlight' = [inFlight EXCEPT ![n] = @ + 1]
    /\ UNCHANGED <<ctxDone, queue, node, late, unreachable, faults>>

OutOfCandidates(r) ==
    /\ req[r].phase = "choosing"
    /\ req[r].left = {} \/ req[r].tried = MaxAttempts
    /\ req' = [req EXCEPT ![r].phase = "done", ![r].left = {},
                          ![r].answer = Failure]
    /\ UNCHANGED <<ctxDone, chan, waiters, queue, node, late, unreachable,
                   inFlight, faults>>

(* Mutant: the waiter of a failed attempt stays registered.                *)
LeaveKeepingWaiter(r, answer) ==
    /\ inFlight' = [inFlight EXCEPT ![req[r].node] = @ - 1]
    /\ chan' = [chan EXCEPT ![r] = None]
    /\ IF answer.ok
       THEN /\ req' = [req EXCEPT ![r].phase = "done", ![r].left = {},
                                  ![r].answer = answer]
            /\ waiters' = [waiters EXCEPT ![req[r].job] = None]
            /\ UNCHANGED unreachable
       ELSE /\ req' = [req EXCEPT ![r].phase = "choosing", ![r].node = None]
            /\ unreachable' = unreachable \cup {req[r].node}
            /\ UNCHANGED waiters

(* How an attempt ends.  Dispatch's deferred delete is by job id; then the *)
(* router does DecrInFlight and, on an error, MarkUnreachable and goes on  *)
(* with the next candidate.  (Nothing another goroutine does between the   *)
(* end of the wait and the delete can tell the two apart.)                 *)
Leave(r, answer) ==
    /\ waiters' = [waiters EXCEPT ![req[r].job] = None]
    /\ inFlight' = [inFlight EXCEPT ![req[r].node] = @ - 1]
    /\ chan' = [chan EXCEPT ![r] = None]
    /\ IF answer.ok
       THEN /\ req' = [req EXCEPT ![r].phase = "done", ![r].left = {},
                                  ![r].answer = answer]
            /\ UNCHANGED unreachable
       ELSE /\ req' = [req EXCEPT ![r].phase = "choosing", ![r].node = None]
            /\ unreachable' = unreachable \cup {req[r].node}

(* Dispatch's first select.                                                *)
EnqueueUnbounded(r) ==
    /\ req[r].phase = "enqueueing"
    /\ queue' = [queue EXCEPT ![req[r].node] = Append(@, req[r].job)]
    /\ req' = [req EXCEPT ![r].phase = "waiting"]
    /\ UNCHANGED <<ctxDone, chan, waiters, node, late, unreachable, inFlight,
                   faults>>

Enqueue(r) ==
    /\ req[r].phase = "enqueueing"
    /\ Len(queue[req[r].node]) < QueueDepth
    /\ queue' = [queue EXCEPT ![req[r].node] = Append(@, req[r].job)]
    /\ req' = [req EXCEPT ![r].phase = "waiting"]
    /\ UNCHANGED <<ctxDone, chan, waiters, node, late, unreachable, inFlight,
                   faults>>

EnqueueFails(r) ==
    /\ req[r].phase = "enqueueing"
    /\ r \in ctxDone \/ Len(queue[req[r].node]) = QueueDepth
    /\ Leave(r, Failure)
    /\ UNCHANGED <<ctxDone, queue, node, late, faults>>

(* Dispatch's second select: a result, or the end of the context.          *)
Receive(r) ==
    /\ req[r].phase = "waiting"
    /\ chan[r] # None
    /\ Leave(r, chan[r])
    /\ UNCHANGED <<ctxDone, queue, node, late, faults>>

(* The node's queue is looked at instead of the context.                   *)
GiveUpIfUnclaimed(r) ==
    /\ req[r].phase = "waiting"
    /\ r \in ctxDone
    /\ \E i \in DOMAIN queue[req[r].node] : queue[req[r].node][i] = req[r].job
    /\ Leave(r, Failure)
    /\ UNCHANGED <<ctxDone, queue, node, late, faults>>

GiveUp(r) ==
    /\ req[r].phase = "waiting"
    /\ r \in ctxDone
    /\ Leave(r, Failure)
    /\ UNCHANGED <<ctxDone, queue, node, late, faults>>

(* The client goes away, or the deadline passes.                           *)
ContextEnds(r) ==
    /\ req[r].phase \notin {"new", "done"}
    /\ r \notin ctxDone
    /\ ctxDone' = ctxDone \cup {r}
    /\ UNCHANGED <<req, chan, waiters, queue, node, late, unreachable,
                   inFlight, faults>>

-----------------------------------------------------------------------------
(* POST /jobs/claim and the node's loop.                                   *)

(* A claim request arrives, the first or the next after a 204: MarkSeen.   *)
(* An idle loop is always in "polling"; it backs off only for an instant.  *)
Poll(n) ==
    /\ node[n].phase = "polling"
    /\ unreachable' = unreachable \ {n}
    /\ UNCHANGED <<req, ctxDone, chan, waiters, queue, node, late, inFlight,
                   faults>>

(* Claim hands the poll the oldest queued job.                             *)
Claim(n) ==
    /\ node[n].phase = "polling"
    /\ queue[n] # <<>>
    /\ queue' = [queue EXCEPT ![n] = Tail(@)]
    /\ node' = [node EXCEPT ![n].phase = "running", ![n].job = Head(queue[n])]
    /\ UNCHANGED <<req, ctxDone, chan, waiters, late, unreachable, inFlight, faults>>

(* Claim took a job off the queue and its reply never reached the node.    *)
ClaimLost(n) ==
    /\ faults < MaxFaults
    /\ faults' = faults + 1
    /\ node[n].phase = "polling"
    /\ queue[n] # <<>>
    /\ queue' = [queue EXCEPT ![n] = Tail(@)]
    /\ node' = [node EXCEPT ![n] = IdleNode]
    /\ UNCHANGED <<req, ctxDone, chan, waiters, late, unreachable, inFlight>>

(* executePulledJob, with or without an error; submitJobResult posts it.   *)
Execute(n, ok) ==
    /\ node[n].phase = "running"
    /\ node' = [node EXCEPT ![n].phase = "posting", ![n].ok = ok]
    /\ UNCHANGED <<req, ctxDone, chan, waiters, queue, late, unreachable,
                   inFlight, faults>>

(* The agent restarts and forgets the job it held, or gives up posting it. *)
AgentForgets(n) ==
    /\ faults < MaxFaults
    /\ faults' = faults + 1
    /\ node[n].phase \in {"running", "posting"}
    /\ node' = [node EXCEPT ![n] = IdleNode]
    /\ UNCHANGED <<req, ctxDone, chan, waiters, queue, late, unreachable,
                   inFlight>>

(* No reply in time: postJSON posts again, and the first copy is still on  *)
(* its way to the coordinator.                                             *)
PostAgain(n) ==
    /\ faults < MaxFaults
    /\ faults' = faults + 1
    /\ node[n].phase = "posting"
    /\ late' = late \cup {[from |-> n, job |-> node[n].job, ok |-> node[n].ok]}
    /\ UNCHANGED <<req, ctxDone, chan, waiters, queue, node, unreachable,
                   inFlight>>

-----------------------------------------------------------------------------
(* POST /jobs/result: SubmitResult.  No waiter, or a channel that already  *)
(* holds a result: nothing happens.  The send follows the unlock, but the  *)
(* channel is buffered and belongs to one attempt, so whatever comes       *)
(* between has the outcome it would have had after the send.               *)
SubmitResult(from, job, ok) ==
    chan' = [r \in Requests |->
               IF waiters[job] = Me(r) /\ chan[r] = None
               THEN [from |-> from, ok |-> ok]
               ELSE chan[r]]

(* The reply sends the node back to polling, whatever "delivered" says.    *)
PostResult(n) ==
    /\ node[n].phase = "posting"
    /\ SubmitResult(n, node[n].job, node[n].ok)
    /\ node' = [node EXCEPT ![n] = IdleNode]
    /\ UNCHANGED <<req, ctxDone, waiters, queue, late, unreachable, inFlight,
                   faults>>

LateResult(m) ==
    /\ m \in late
    /\ SubmitResult(m.from, m.job, m.ok)
    /\ late' = late \ {m}
    /\ UNCHANGED <<req, ctxDone, waiters, queue, node, unreachable, inFlight,
                   faults>>

-----------------------------------------------------------------------------
Init ==
    /\ req = [r \in Requests |-> NewRequest]
    /\ ctxDone = {}
    /\ chan = [r \in Requests |-> None]
    /\ waiters = [j \in Jobs |-> None]
    /\ queue = [n \in Nodes |-> <<>>]
    /\ node = [n \in Nodes |-> IdleNode]
    /\ late = {}
    /\ unreachable = {}
    /\ inFlight = [n \in Nodes |-> 0]
    /\ faults = 0

RouterStep(r) ==
    \/ \E n \in Nodes : Register(r, n)
    \/ OutOfCandidates(r)
    \/ Enqueue(r)
    \/ EnqueueFails(r)
    \/ Receive(r)
    \/ GiveUp(r)

NodeStep(n) ==
    \/ Poll(n)
    \/ Claim(n)
    \/ \E ok \in BOOLEAN : Execute(n, ok)
    \/ PostResult(n)

Next ==
    \/ \E r \in Requests :
          \/ \E j \in Jobs : DispatchFastLane(r, j)
          \/ \E j \in Jobs, n \in Nodes : DispatchToResolvedNode(r, j, n)
          \/ RouterStep(r)
          \/ ContextEnds(r)
    \/ \E m \in late : LateResult(m)
    \/ \E n \in Nodes :
          \/ NodeStep(n)
          \/ ClaimLost(n)
          \/ PostAgain(n)
          \/ AgentForgets(n)

(* Goroutines run; a deadline, where there is one, passes; and a node's    *)
(* loop goes on, finding a job that stays queued even though polls expire. *)
Fairness ==
    /\ \A r \in Requests : WF_vars(RouterStep(r))
    /\ \A r \in Deadlined : WF_vars(ContextEnds(r))
    /\ \A n \in Nodes : WF_vars(NodeStep(n))

Spec == Init /\ [][Next]_vars /\ Fairness

-----------------------------------------------------------------------------
(* Type correctness of the dispatcher, the nodes and the late results.     *)
TypeOK ==
    /\ req \in [Requests -> [phase  : {"new", "choosing", "done"} \cup InDispatch,
                             job    : Jobs \cup {None},
                             left   : SUBSET Nodes,
                             node   : Nodes \cup {None},
                             tried  : 0 .. MaxAttempts,
                             answer : Results \cup {Failure, None}]]
    /\ ctxDone \subseteq Requests
    /\ chan \in [Requests -> Results \cup {None}]
    /\ waiters \in [Jobs -> Attempts \cup {None}]
    /\ \A n \in Nodes : queue[n] \in Seq(Jobs) /\ Len(queue[n]) <= QueueDepth
    /\ node \in [Nodes -> [phase : {"polling", "running", "posting"},
                           job : Jobs \cup {None}, ok : BOOLEAN]]
    /\ late \subseteq [from : Nodes, job : Jobs, ok : BOOLEAN]
    /\ unreachable \subseteq Nodes
    /\ inFlight \in [Nodes -> Nat]
    /\ faults \in 0 .. MaxFaults

Shares(r) == \E s \in Requests \ {r} : req[s].job = req[r].job

(* A request that waits can still be reached: the channel registered for   *)
(* its job is its own, so a result posted now finds it.  It holds for jobs *)
(* whose id no second request carries; two Dispatches of one id delete     *)
(* each other's waiter.                                                    *)
WaiterReachable ==
    \A r \in Requests :
        req[r].phase = "waiting" /\ ~Shares(r) => waiters[req[r].job] = Me(r)

(* No waiter leaks: whatever path a Dispatch leaves by, also with ids sent *)
(* twice, what is registered belongs to a Dispatch that is under way.      *)
NoLeakedWaiter ==
    \A j \in Jobs : waiters[j] # None =>
        LET r == waiters[j][1] IN
          req[r].job = j /\ req[r].phase \in InDispatch /\ waiters[j] = Me(r)

(* The in-flight counter the ranking divides by counts the attempts under  *)
(* way at the node, and returns to zero with them.                         *)
InFlightExact ==
    \A n \in Nodes : inFlight[n] =
        Cardinality({r \in Requests : req[r].node = n /\ req[r].phase \in InDispatch})

(* The books of the dispatches are right: nobody waits unregistered, nothing *)
(* is registered for nobody, and the counters count who is under way.      *)
DispatchesExact == WaiterReachable /\ NoLeakedWaiter /\ InFlightExact

(* Every dispatch under a deadline returns to its caller, although claims, *)
(* posts and whole nodes get lost.                                         *)
DispatchReturns ==
    \A r \in Requests : (req[r].phase = "choosing") ~> (req[r].phase = "done")

(* SubmitResult's comment calls a late or duplicate result a no-op: then   *)
(* an answer is always the answer of the node the attempt dispatched to,   *)
(* the node the router tags as having served it and the handler credits.   *)
AnswerFromDispatchedNode ==
    \A r \in Requests : chan[r] # None => chan[r].from = req[r].node
=============================================================================
