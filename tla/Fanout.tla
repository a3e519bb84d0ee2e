------------------------------- MODULE Fanout -------------------------------
(***************************************************************************)
(* RouteWithDecomposition: a background job is cut into sub-tasks, which   *)
(* run on the pod's nodes at the same time; one of them may be run again   *)
(* on a second node to verify it; a merge node puts the results together.  *)
(* At every point where that is impossible the job goes to one node as a   *)
(* whole.                                                                  *)
(*                                                                         *)
(* A query is the number of sub-task types its keywords match.  An answer is  *)
(* one of a few values, equal exactly when the checksums are.  Prompts are *)
(* left out.  The registry may change at any time: a node that registers   *)
(* again has lost its attestation, and may earn it anew.                   *)
(***************************************************************************)
EXTENDS Naturals, FiniteSets, Sequences, SequencesExt

CONSTANTS
  PodNodes,     \* registered live nodes with the model
  NoEndpoint,   \* those that serve by pull only, and cannot be dialled
  MaxKinds,     \* bound: sub-task types that one query matches
  Answers,      \* what a sub-task may answer
  MaxParallel,  \* bound: values of max_parallel_nodes
  MaxChanges    \* bound: re-registrations and attestations during the job

ASSUME FanoutConstants ==
  /\ IsFiniteSet(PodNodes)
  /\ MaxKinds \in Nat /\ MaxParallel \in Nat /\ MaxChanges \in Nat

VARIABLES
  job,          \* the request: kinds, sensitive, deterministic, big, maxPar
  stage,        \* where RouteWithDecomposition is
  pod,          \* podNodes: the candidates listed, in their order
  task,         \* task[i]: the i-th analytical sub-task
  replica,      \* the verification's second run of sub-task 1
  merged,       \* indices of the sub-tasks whose results were merged
  seen,         \* nodes that were sent some of the job's content
  attested,     \* nodes whose enclave the coordinator has verified
  everAttested, \* those that were attested at some time during the job
  changes

foVars == <<job, stage, pod, task, replica, merged, seen, attested, everAttested, changes>>
registryVars == <<attested, everAttested, changes>>

Jobs == [kinds: 0..MaxKinds, sensitive: BOOLEAN, deterministic: BOOLEAN,
         big: BOOLEAN, maxPar: 0..MaxParallel]
NoAnswer == "none"
Tasks == [state: {"ready", "running", "done", "failed"}, answer: Answers \cup {NoAnswer}]
Stages == {"start", "list", "fanout", "verify", "merge", "whole",
           "merged", "served", "failed"}

FoTypeOK ==
  /\ job \in Jobs
  /\ stage \in Stages
  /\ pod \in UNION {[1..k -> PodNodes] : k \in 0..Cardinality(PodNodes)}
  /\ task \in UNION {[1..k -> Tasks] : k \in 0..MaxKinds}
  /\ replica \in Tasks
  /\ merged \subseteq DOMAIN task
  /\ seen \subseteq PodNodes /\ attested \subseteq everAttested /\ everAttested \subseteq PodNodes
  /\ changes \in 0..MaxChanges

Ready == [state |-> "ready", answer |-> NoAnswer]

FoInit ==
  /\ job \in Jobs
  /\ stage = "start"
  /\ pod = <<>> /\ task = <<>> /\ replica = Ready
  /\ merged = {} /\ seen = {}
  /\ attested \in SUBSET PodNodes /\ everAttested = attested
  /\ changes = 0

(* keywordHeuristicClassify: three or more types are too ambiguous (0.45 is
   below the 0.5 that DecomposeJob asks for). *)
Decomposable == job.kinds \in 1..2

(* IsDecompositionWorthIt with an overhead of 50 of 2000 ms: 2000/k + 50 must
   be below 1800. *)
WorthIt(k) == k >= 2 /\ 2000 + 50 * k < 1800 * k

Decompose ==
  /\ stage = "start"
  /\ stage' = IF Decomposable /\ WorthIt(job.kinds) THEN "list" ELSE "whole"
  /\ UNCHANGED <<job, pod, task, replica, merged, seen, registryVars>>

(* The sub-tasks that are run: DecomposeJob appends MERGE after the analytical
   ones, and the list is cut off at max_parallel_nodes. *)
Analytical ==
  IF job.maxPar > 0 /\ job.maxPar < job.kinds THEN job.maxPar ELSE job.kinds

(* Mutant: the attestation gate on the candidates is forgotten. *)
ClearedAll(n) == TRUE

(* The gate on the candidates of a sensitive job. *)
Cleared(n) == job.sensitive => n \in attested

(* CandidatesWithLoad answers the live nodes in some order. *)
ListCandidates ==
  /\ stage = "list"
  /\ \E live \in SUBSET PodNodes :
       \E order \in SetToSeqs({n \in live : Cleared(n)}) :
         /\ pod' = order
         /\ \/ /\ order = <<>>
               /\ stage' = "whole"
               /\ UNCHANGED task
            \/ /\ order /= <<>>
               /\ stage' = "fanout"
               /\ task' = [i \in 1..Analytical |-> Ready]
  /\ UNCHANGED <<job, replica, merged, seen, registryVars>>

(* Sub-task i goes to the nodes in turn; the replica to the node after that of
   sub-task 1; the merge to the first node, as no result names its node. *)
NodeOf(i) == pod[((i - 1) % Len(pod)) + 1]

ReplicaNode == NodeOf(2)
MergeNode == NodeOf(1)

(* dispatchToNode: a node without an endpoint fails at once, unasked. *)
SendSubTask(i) ==
  /\ stage = "fanout"
  /\ task[i].state = "ready"
  /\ IF NodeOf(i) \in NoEndpoint
     THEN /\ task' = [task EXCEPT ![i].state = "failed"]
          /\ UNCHANGED seen
     ELSE /\ task' = [task EXCEPT ![i].state = "running"]
          /\ seen' = seen \cup {NodeOf(i)}
  /\ UNCHANGED <<job, stage, pod, replica, merged, registryVars>>

(* The node answers, perhaps with a JSON null, which is no result and no error;
   or the call fails or meets its 120 seconds. *)
SubTaskEnds(i) ==
  /\ stage = "fanout"
  /\ task[i].state = "running"
  /\ \/ \E a \in Answers \cup {NoAnswer} :
           task' = [task EXCEPT ![i] = [state |-> "done", answer |-> a]]
     \/ task' = [task EXCEPT ![i].state = "failed"]
  /\ UNCHANGED <<job, stage, pod, replica, merged, seen, registryVars>>

Finished(i) == task[i].state \in {"done", "failed"}

(* ShouldUseParallelVerification. *)
Verifies == job.deterministic /\ job.big /\ Len(pod) >= 2

(* One error sends the whole job to one node; a null result fails it. *)
AfterFanout ==
  IF \E i \in DOMAIN task : task[i].state = "failed" THEN "whole"
  ELSE IF \E i \in DOMAIN task : task[i].answer = NoAnswer THEN "failed"
  ELSE IF Verifies THEN "verify" ELSE "merge"

(* Mutant: the results are taken as soon as one sub-task has answered. *)
JoinEarly ==
  /\ stage = "fanout"
  /\ \E i \in DOMAIN task : Finished(i)
  /\ stage' = AfterFanout
  /\ UNCHANGED <<job, pod, task, replica, merged, seen, registryVars>>

(* Mutant: the join waits for answers only, and a failed sub-task gives none. *)
JoinAnswered ==
  /\ stage = "fanout"
  /\ \A i \in DOMAIN task : task[i].state = "done"
  /\ stage' = AfterFanout
  /\ UNCHANGED <<job, pod, task, replica, merged, seen, registryVars>>

(* wg.Wait: when all sub-tasks have finished. *)
Join ==
  /\ stage = "fanout"
  /\ \A i \in DOMAIN task : Finished(i)
  /\ stage' = AfterFanout
  /\ UNCHANGED <<job, pod, task, replica, merged, seen, registryVars>>

(* Sub-task 1 once more on the replica node; then the checksums decide (a null
   has the checksum of an empty answer, and is taken for one). *)
SendReplica ==
  /\ stage = "verify" /\ replica.state = "ready"
  /\ IF ReplicaNode \in NoEndpoint
     THEN replica' = [replica EXCEPT !.state = "failed"] /\ UNCHANGED seen
     ELSE replica' = [replica EXCEPT !.state = "running"] /\ seen' = seen \cup {ReplicaNode}
  /\ UNCHANGED <<job, stage, pod, task, merged, registryVars>>

ReplicaEnds ==
  /\ stage = "verify" /\ replica.state = "running"
  /\ \/ \E a \in Answers : replica' = [state |-> "done", answer |-> a]
     \/ replica' = [replica EXCEPT !.state = "failed"]
  /\ UNCHANGED <<job, stage, pod, task, merged, seen, registryVars>>

(* The replica agrees; one that could not be had does not. *)
Agrees == replica.state = "done" /\ replica.answer = task[1].answer

Judge ==
  /\ stage = "verify" /\ replica.state \in {"done", "failed"}
  /\ stage' = IF Agrees THEN "merge" ELSE "failed"
  /\ UNCHANGED <<job, pod, task, replica, merged, seen, registryVars>>

(* ExecuteMerge: one more call, with the results as its prompt. *)
Merge ==
  /\ stage = "merge"
  /\ \/ /\ MergeNode \notin NoEndpoint
        /\ seen' = seen \cup {MergeNode}
        /\ \/ stage' = "merged" /\ merged' = DOMAIN task
           \/ stage' = "failed" /\ UNCHANGED merged
     \/ /\ MergeNode \in NoEndpoint
        /\ stage' = "failed"
        /\ UNCHANGED <<seen, merged>>
  /\ UNCHANGED <<job, pod, task, replica, registryVars>>

(* DispatchFastLane of the job as it came, through its own gate, to one node
   after the other until one serves it. *)
DispatchWhole ==
  /\ stage = "whole"
  /\ \E asked \in SUBSET {n \in PodNodes : Cleared(n)} :
       /\ seen' = seen \cup asked
       /\ stage' \in IF asked = {} THEN {"failed"} ELSE {"served", "failed"}
  /\ UNCHANGED <<job, pod, task, replica, merged, registryVars>>

(* Environment: a node registers again, or has its enclave verified. *)
ReRegister(n) ==
  /\ changes < MaxChanges /\ n \in attested
  /\ changes' = changes + 1
  /\ attested' = attested \ {n}
  /\ UNCHANGED <<job, stage, pod, task, replica, merged, seen, everAttested>>

Attest(n) ==
  /\ changes < MaxChanges /\ n \notin attested
  /\ changes' = changes + 1
  /\ attested' = attested \cup {n}
  /\ everAttested' = everAttested \cup {n}
  /\ UNCHANGED <<job, stage, pod, task, replica, merged, seen>>

RouteStep ==
  \/ Decompose
  \/ ListCandidates
  \/ \E i \in DOMAIN task : SendSubTask(i) \/ SubTaskEnds(i)
  \/ Join
  \/ SendReplica
  \/ ReplicaEnds
  \/ Judge
  \/ Merge
  \/ DispatchWhole

FoNext == RouteStep \/ \E n \in PodNodes : ReRegister(n) \/ Attest(n)

(* Goroutines run on, and every call to a node has a timeout. *)
FoFairness == WF_foVars(RouteStep)
FoSpec == FoInit /\ [][FoNext]_foVars /\ FoFairness

-----------------------------------------------------------------------------
(* What is merged has been answered, with a result, by sub-tasks that are all over; where the
   job asked for verification, another node gave sub-task 1 the same answer. *)
MergeIsSound ==
  /\ stage \in {"merge", "merged", "whole", "served"} =>
       \A i \in DOMAIN task : Finished(i)
  /\ stage \in {"merge", "merged"} =>
       /\ \A i \in DOMAIN task : task[i].state = "done" /\ task[i].answer /= NoAnswer
       /\ Verifies => /\ replica = task[1]
                      /\ ReplicaNode /= NodeOf(1)

(* No content of a sensitive job goes to a node whose enclave was not verified
   at some time during the job: not a shard, not the replica, not the merge,
   not the fallback. *)
SensitiveShards == job.sensitive => seen \subseteq everAttested

(* The route comes to an end on every path. *)
RouteEnds == <>(stage \in {"merged", "served", "failed"})

(* max_parallel_nodes is documented as a ceiling on the nodes used at once.
   A merged answer covers every type that the query was decomposed into. *)
MergeCoversQuery == stage = "merged" => merged = 1..job.kinds
=============================================================================
