---------------------------- MODULE RoutingProofs ----------------------------
(***************************************************************************)
(* Proofs about the components of MCRouting.                               *)
(*                                                                         *)
(* Streaming: for any streams and nodes and for any bounds on attempts,    *)
(* usage counts and frames.                                                *)
(*                                                                         *)
(* Fanout: for any finite pod, any number of sub-task types, any answers   *)
(* and any changes of the registry during the job.                         *)
(*                                                                         *)
(* NodeAgent: for any number of requests served at once, however often the *)
(* window moves and the coordinator restarts.                              *)
(***************************************************************************)
EXTENDS MCRouting, FiniteSetTheorems, TLAPS

(* The nodes that sub-tasks are dealt to are nodes of the pod.             *)
LEMMA RingIndex ==
    ASSUME NEW n \in Nat, n >= 1, NEW i \in Nat, i >= 1
    PROVE  ((i - 1) % n) + 1 \in 1..n
OBVIOUS

(* NodeOf deals every sub-task to a listed node.                           *)
LEMMA DealtToPod ==
    ASSUME pod \in Seq(PodNodes), Len(pod) >= 1, NEW i \in Nat, i >= 1
    PROVE  \E k \in 1..Len(pod) : NodeOf(i) = pod[k]
BY RingIndex DEF NodeOf

(* With two nodes or more the replica's node is the one after the first.   *)
LEMMA SecondIsNext ==
    ASSUME pod \in Seq(PodNodes), Len(pod) >= 2
    PROVE  NodeOf(1) = pod[1] /\ ReplicaNode = pod[2]
<1>1. 0 % Len(pod) = 0 /\ 1 % Len(pod) = 1
  OBVIOUS
<1> QED
  BY <1>1 DEF NodeOf, ReplicaNode

-----------------------------------------------------------------------------
(* What the variables range over while a query is routed.                 *)
Typed ==
    /\ job \in Jobs
    /\ pod \in Seq(PodNodes)
    /\ task \in Seq(Tasks)
    /\ replica \in Tasks
    /\ attested \subseteq everAttested

(* The pod lists no node twice, is not empty where it is dealt from, and   *)
(* for a sensitive job has only nodes that were attested when listed.      *)
PodInv ==
    /\ \A i, j \in 1..Len(pod) : i # j => pod[i] # pod[j]
    /\ stage \in {"fanout", "verify", "merge"} => Len(pod) >= 1
    /\ job.sensitive => \A k \in 1..Len(pod) : pod[k] \in everAttested

(* How far the sub-tasks are at each stage.                                *)
TaskInv ==
    /\ stage \in {"start", "list"} => task = <<>>
    /\ stage = "list" => job.kinds >= 2
    /\ stage \in {"fanout", "verify", "merge", "merged"} => Len(task) >= 1
    /\ stage \in {"whole", "served"} => \A i \in DOMAIN task : Finished(i)
    /\ stage \in {"verify", "merge", "merged"} =>
         \A i \in DOMAIN task : task[i].state = "done" /\ task[i].answer # NoAnswer

(* What Judge let through.                                                 *)
VerifiedInv == stage \in {"merge", "merged"} /\ Verifies => replica = task[1]

FoInv ==
    /\ Typed
    /\ PodInv
    /\ TaskInv
    /\ VerifiedInv
    /\ SensitiveShards

(* At the start nothing has been sent to anybody.                          *)
LEMMA FoInvStarts == FoInit => FoInv
<1> SUFFICES ASSUME FoInit PROVE FoInv
  OBVIOUS
<1>1. Typed
  BY DEF FoInit, Typed, Ready, Tasks
<1>2. PodInv /\ TaskInv /\ VerifiedInv /\ SensitiveShards
  BY DEF FoInit, PodInv, TaskInv, VerifiedInv, SensitiveShards
<1> QED
  BY <1>1, <1>2 DEF FoInv

(* Deciding to decompose sends nothing.                                    *)
LEMMA DecomposeKeeps == ASSUME FoInv, Decompose PROVE FoInv'
BY DEF FoInv, Decompose, registryVars, WorthIt, Decomposable, Typed, PodInv, TaskInv,
       VerifiedInv, SensitiveShards, Jobs

(* The candidates are the cleared ones, each listed once.                  *)
LEMMA CandidatesKeep == ASSUME FoInv, ListCandidates PROVE FoInv'
<1>1. PICK live \in SUBSET PodNodes :
        \E order \in SetToSeqs({n \in live : Cleared(n)}) :
          /\ pod' = order
          /\ \/ order = <<>> /\ stage' = "whole" /\ UNCHANGED task
             \/ order # <<>> /\ stage' = "fanout" /\ task' = [i \in 1..Analytical |-> Ready]
  BY DEF ListCandidates
<1> DEFINE S == {n \in live : Cleared(n)}
           k == Cardinality(S)
<1>2. k \in Nat
  <2>1. IsFiniteSet(S)
    BY FanoutConstants, FS_Subset
  <2> QED
    BY <2>1, FS_CardinalityType
<1>3. pod' \in [1..k -> S] /\ \A i, j \in 1..k : i # j => pod'[i] # pod'[j]
  BY <1>1 DEF SetToSeqs
<1> HIDE DEF k
<1>4. Len(pod') = k /\ pod' \in Seq(PodNodes)
  BY <1>2, <1>3
<1>5. \A i, j \in 1..Len(pod') : i # j => pod'[i] # pod'[j]
  BY <1>3, <1>4
<1>6. job.sensitive => \A i \in 1..Len(pod') : pod'[i] \in everAttested'
  BY <1>3, <1>4 DEF Cleared, ListCandidates, registryVars, FoInv, Typed
<1>7. UNCHANGED <<job, replica, merged, seen, attested, everAttested>> /\ stage = "list"
  BY DEF ListCandidates, registryVars
<1>8. Analytical \in Nat /\ Analytical >= 1
  BY <1>7, FanoutConstants DEF FoInv, Typed, Jobs, TaskInv, Analytical
<1>9. CASE stage' = "whole" /\ UNCHANGED task
  BY <1>4, <1>5, <1>6, <1>7, <1>9
     DEF FoInv, Typed, PodInv, TaskInv, VerifiedInv, SensitiveShards
<1>10. CASE /\ pod' # <<>> /\ stage' = "fanout"
            /\ task' = [i \in 1..Analytical |-> Ready]
  <2>1. Ready \in Tasks
    BY DEF Ready, Tasks
  <2>2. task' \in Seq(Tasks) /\ Len(task') = Analytical
    BY <1>8, <1>10, <2>1
  <2>3. Len(pod') >= 1
    BY <1>4, <1>10, <1>2
  <2> QED
    BY <1>4, <1>5, <1>6, <1>7, <1>8, <1>10, <2>2, <2>3
       DEF FoInv, Typed, PodInv, TaskInv, VerifiedInv, SensitiveShards
<1> QED
  BY <1>1, <1>9, <1>10

(* A node of a sensitive job's pod may see its content.                    *)
LEMMA SendingIsSafe ==
    ASSUME FoInv, stage \in {"fanout", "verify", "merge"}, NEW i \in Nat, i >= 1,
           job' = job, everAttested' = everAttested, seen' = seen \cup {NodeOf(i)}
    PROVE  SensitiveShards'
<1>1. Len(pod) >= 1 /\ pod \in Seq(PodNodes)
  BY DEF FoInv, PodInv, Typed
<1>2. PICK k \in 1..Len(pod) : NodeOf(i) = pod[k]
  BY <1>1, DealtToPod
<1> QED
  BY <1>2 DEF FoInv, PodInv, SensitiveShards

(* Sending a sub-task, and its end, keep task and pod in step.             *)
LEMMA SubTasksKeep ==
    ASSUME FoInv, NEW i \in DOMAIN task, SendSubTask(i) \/ SubTaskEnds(i)
    PROVE  FoInv'
<1>1. stage = "fanout" /\ UNCHANGED <<job, stage, pod, replica, merged, attested, everAttested>>
  BY DEF SendSubTask, SubTaskEnds, registryVars
<1>2. i \in Nat /\ i >= 1
  BY DEF FoInv, Typed
<1>3. task' \in Seq(Tasks) /\ Len(task') = Len(task)
  <2>1. PICK t \in Tasks : task' = [task EXCEPT ![i] = t]
    <3>1. task[i] \in Tasks /\ task \in Seq(Tasks)
      BY DEF FoInv, Typed
    <3>2. \A s \in {"running", "failed"} : [task[i] EXCEPT !.state = s] \in Tasks
      BY <3>1 DEF Tasks
    <3>3. \A a \in Answers \cup {NoAnswer} : [state |-> "done", answer |-> a] \in Tasks
      BY DEF Tasks
    <3>4. CASE SendSubTask(i)
      BY <3>1, <3>2, <3>4 DEF SendSubTask
    <3>5. CASE SubTaskEnds(i)
      BY <3>1, <3>2, <3>3, <3>5 DEF SubTaskEnds
    <3> QED
      BY <3>4, <3>5
  <2> QED
    BY <2>1 DEF FoInv, Typed
<1>4. SensitiveShards'
  <2>1. CASE SendSubTask(i)
    BY <1>1, <1>2, <2>1, SendingIsSafe DEF SendSubTask, FoInv, SensitiveShards
  <2>2. CASE SubTaskEnds(i)
    BY <1>1, <2>2 DEF SubTaskEnds, FoInv, SensitiveShards
  <2> QED
    BY <2>1, <2>2
<1> QED
  BY <1>1, <1>3, <1>4 DEF FoInv, Typed, PodInv, TaskInv, VerifiedInv, Verifies

(* The join goes on to verify or merge only with every sub-task done, and  *)
(* with a result.                                                          *)
LEMMA JoinKeeps == ASSUME FoInv, Join PROVE FoInv'
<1>1. /\ stage = "fanout" /\ stage' = AfterFanout
      /\ \A i \in DOMAIN task : Finished(i)
      /\ UNCHANGED <<job, pod, task, replica, merged, seen, attested, everAttested>>
  BY DEF Join, registryVars
<1>2. stage' \in {"whole", "failed", "verify", "merge"}
  BY <1>1 DEF AfterFanout
<1>3. stage' \in {"verify", "merge"} =>
         \A i \in DOMAIN task : task[i].state = "done" /\ task[i].answer # NoAnswer
  BY <1>1 DEF AfterFanout, Finished
<1>4. stage' = "merge" => ~Verifies
  BY <1>1 DEF AfterFanout
<1> QED
  BY <1>1, <1>2, <1>3, <1>4
     DEF FoInv, Typed, PodInv, TaskInv, VerifiedInv, SensitiveShards, Verifies, Finished

(* The replica runs at the second node, on sub-task 1.                     *)
LEMMA ReplicaKeeps == ASSUME FoInv, SendReplica \/ ReplicaEnds PROVE FoInv'
<1>1. stage = "verify" /\ UNCHANGED <<job, stage, pod, task, merged, attested, everAttested>>
  BY DEF SendReplica, ReplicaEnds, registryVars
<1>2. replica' \in Tasks
  BY DEF SendReplica, ReplicaEnds, FoInv, Typed, Tasks
<1>3. SensitiveShards'
  <2>1. CASE seen' = seen
    BY <1>1, <2>1 DEF FoInv, SensitiveShards
  <2>2. CASE seen' = seen \cup {ReplicaNode}
    BY <1>1, <2>2, SendingIsSafe DEF ReplicaNode
  <2> QED
    BY <2>1, <2>2 DEF SendReplica, ReplicaEnds
<1> QED
  BY <1>1, <1>2, <1>3 DEF FoInv, Typed, PodInv, TaskInv, VerifiedInv

(* An answer that agrees makes the replica and sub-task 1 one record.      *)
LEMMA JudgeKeeps == ASSUME FoInv, Judge PROVE FoInv'
<1>1. /\ stage = "verify" /\ stage' \in {"merge", "failed"} /\ (stage' = "merge" => Agrees)
      /\ UNCHANGED <<job, pod, task, replica, merged, seen, attested, everAttested>>
  BY DEF Judge, registryVars
<1>2. Agrees => replica = task[1]
  <2>1. task[1] \in Tasks /\ replica \in Tasks /\ task[1].state = "done"
    BY <1>1 DEF FoInv, Typed, TaskInv
  <2> QED
    BY <2>1 DEF Agrees, Tasks
<1> QED
  BY <1>1, <1>2
     DEF FoInv, Typed, PodInv, TaskInv, VerifiedInv, SensitiveShards, Verifies

(* The merge node is one of the pod.                                       *)
LEMMA MergeKeeps == ASSUME FoInv, Merge PROVE FoInv'
<1>1. /\ stage = "merge" /\ stage' \in {"merged", "failed"}
      /\ UNCHANGED <<job, pod, task, replica, attested, everAttested>>
  BY DEF Merge, registryVars
<1>2. SensitiveShards'
  <2>1. CASE seen' = seen
    BY <1>1, <2>1 DEF FoInv, SensitiveShards
  <2>2. CASE seen' = seen \cup {MergeNode}
    BY <1>1, <2>2, SendingIsSafe DEF MergeNode
  <2> QED
    BY <2>1, <2>2 DEF Merge
<1> QED
  BY <1>1, <1>2 DEF FoInv, Typed, PodInv, TaskInv, VerifiedInv, Verifies

(* A whole dispatch goes to a node that is cleared at that moment.         *)
LEMMA WholeKeeps == ASSUME FoInv, DispatchWhole PROVE FoInv'
BY DEF DispatchWhole, Cleared, registryVars, FoInv, Typed, PodInv, TaskInv, VerifiedInv,
       SensitiveShards, Finished

(* What the registry's changes leave of the invariant: a node that was     *)
(* attested stays in everAttested.                                         *)
LEMMA RegistryKeeps ==
    ASSUME FoInv, NEW n \in PodNodes, ReRegister(n) \/ Attest(n)
    PROVE  FoInv'
<1>1. UNCHANGED <<job, stage, pod, task, replica, merged, seen>>
  BY DEF ReRegister, Attest
<1>2. attested' \subseteq everAttested' /\ everAttested \subseteq everAttested'
  BY DEF ReRegister, Attest, FoInv, Typed
<1> QED
  BY <1>1, <1>2
     DEF FoInv, Typed, PodInv, TaskInv, VerifiedInv, SensitiveShards, Verifies, Finished

(* Every step of the route and of the registry keeps the invariant.        *)
LEMMA FoInvStays == ASSUME FoInv, [FoNext]_foVars PROVE FoInv'
<1>1. CASE RouteStep
  BY <1>1, DecomposeKeeps, CandidatesKeep, SubTasksKeep, JoinKeeps, ReplicaKeeps, JudgeKeeps,
     MergeKeeps, WholeKeeps DEF RouteStep
<1>2. CASE \E n \in PodNodes : ReRegister(n) \/ Attest(n)
  BY <1>2, RegistryKeeps
<1>3. CASE UNCHANGED foVars
  BY <1>3 DEF foVars, registryVars, FoInv, Typed, PodInv, TaskInv, VerifiedInv,
              SensitiveShards, Verifies, Finished
<1> QED
  BY <1>1, <1>2, <1>3 DEF FoNext

(* So it holds throughout.                                                 *)
LEMMA FoInvAlways == FoSpec => []FoInv
BY FoInvStarts, FoInvStays, PTL DEF FoSpec

(* No content of a sensitive job reaches a node that was never attested    *)
(* during the job, on any path of RouteWithDecomposition.                  *)
THEOREM ShardsStayAttested == FoSpec => []SensitiveShards
<1>1. FoInv => SensitiveShards
  BY DEF FoInv
<1> QED
  BY <1>1, FoInvAlways, PTL

(* RouteWithDecomposition merges answers only, of sub-tasks that are all   *)
(* over, and verified by another node where the job asked for that.        *)
THEOREM MergesAreSound == FoSpec => []MergeIsSound
<1>1. ASSUME FoInv, stage \in {"merge", "merged"}, Verifies
      PROVE  ReplicaNode # NodeOf(1)
  <2>1. Len(pod) >= 2 /\ Len(pod) \in Nat
    BY <1>1 DEF Verifies, FoInv, Typed
  <2>2. pod[1] # pod[2]
    BY <1>1, <2>1 DEF FoInv, PodInv
  <2> QED
    BY <1>1, <2>1, <2>2, SecondIsNext DEF FoInv, Typed
<1>2. FoInv => MergeIsSound
  BY <1>1 DEF FoInv, TaskInv, VerifiedInv, MergeIsSound, Finished
<1> QED
  BY <1>2, FoInvAlways, PTL

-----------------------------------------------------------------------------
(* What the workers' counts and places are made of.                        *)
WorkersTyped ==
    /\ work \in [Workers -> PullStages \cup PushStages]
    /\ started \in [Workers -> Nat]

(* A worker that can begin a job without asking the flags again has passed *)
(* them since the last pause began or ended.                               *)
Admitted(w) == work[w] \in {"claiming", "polling", "passed"}

(* StragglersBounded is not inductive: the worker that begins its second   *)
(* job must be seen to have passed the flags before it, and passing them   *)
(* to need that no pause is on.                                            *)
AgentInv ==
    /\ WorkersTyped
    /\ \A w \in Workers : started[w] <= 1
    /\ ~Paused => \A w \in Workers : started[w] = 0
    /\ \A w \in Workers : Admitted(w) => started[w] = 0

(* Everything the invariant speaks of.                                     *)
agentVars == <<scheduleActive, chaosActive, work, started>>

(* A step that touches neither flags, workers nor counts.                  *)
LEMMA AgentStutters ==
    ASSUME AgentInv, UNCHANGED agentVars
    PROVE  AgentInv'
BY DEF agentVars, AgentInv, WorkersTyped, Paused, Admitted

(* The flags, however they are set: jobs are counted anew when no pause is *)
(* left.                                                                   *)
LEMMA FlagsKeep ==
    ASSUME AgentInv, NEW schedule \in BOOLEAN, NEW chaos \in BOOLEAN,
           Flags(schedule, chaos), work' = work
    PROVE  AgentInv'
BY DEF AgentInv, WorkersTyped, Flags, Paused, Admitted

(* The heartbeat loop's tick sets the flags to the schedule's answer.      *)
LEMMA TickKeeps == ASSUME AgentInv, Tick PROVE AgentInv'
<1>0. Scheduled \in BOOLEAN
  BY DEF Scheduled
<1>1. CASE TickPaused
  <2>1. chaosActive \in BOOLEAN => AgentInv'
    BY <1>0, <1>1, FlagsKeep DEF TickPaused, AtTick
  <2> QED
    BY <1>1, <2>1 DEF TickPaused, AtTick, Flags, AgentInv, WorkersTyped, Paused, Admitted
<1>2. CASE TickChaos
  BY <1>2, FlagsKeep DEF TickChaos, AtTick
<1>3. CASE TickNoManifest
  BY <1>3, FlagsKeep DEF TickNoManifest, AtTick
<1>4. CASE TickRefresh
  BY <1>4, FlagsKeep DEF TickRefresh, AtTick
<1> QED
  BY <1>1, <1>2, <1>3, <1>4 DEF Tick

(* A worker that passes the flags does so outside of every pause.          *)
LEMMA PassesFlags ==
    ASSUME AgentInv, NEW w \in Workers, ~Paused,
           work' \in [Workers -> PullStages \cup PushStages],
           UNCHANGED <<scheduleActive, chaosActive, started>>
    PROVE  AgentInv'
BY DEF AgentInv, WorkersTyped, Paused, Admitted

(* A worker that moves on without a job keeps its count; it must not come  *)
(* to be admitted that way.                                                *)
LEMMA MovesOn ==
    ASSUME AgentInv, NEW w \in Workers, NEW from, NEW to \in PullStages \cup PushStages,
           Step(w, from, to), UNCHANGED started,
           to \in {"claiming", "polling", "passed"} =>
               from \in {"claiming", "polling", "passed"}
    PROVE  AgentInv'
BY DEF AgentInv, WorkersTyped, Step, Paused, Admitted

(* A worker that begins a job was admitted, so this is its first one in    *)
(* the pause, if there is one.                                             *)
LEMMA BeginsFirst ==
    ASSUME AgentInv, NEW w \in Workers, NEW from \in {"claiming", "polling", "passed"},
           Step(w, from, "running"), Begins(w)
    PROVE  AgentInv'
<1>1. started[w] = 0
  BY DEF AgentInv, Step, Admitted
<1>2. CASE Paused
  BY <1>1, <1>2 DEF AgentInv, WorkersTyped, Step, Begins, Paused, Admitted, PullStages
<1>3. CASE ~Paused
  BY <1>1, <1>3 DEF AgentInv, WorkersTyped, Step, Begins, Paused, Admitted, PullStages
<1> QED
  BY <1>2, <1>3

(* Every step of a worker either passes the flags, moves on or begins.     *)
LEMMA WorkerKeeps == ASSUME AgentInv, NEW w \in Workers, Worker(w) PROVE AgentInv'
<1> USE DEF PullStages, PushStages
<1>1. CASE Gate(w)
  BY <1>1, PassesFlags DEF Gate, Step, AgentInv, WorkersTyped
<1>2. CASE HandlerPasses(w)
  BY <1>2, PassesFlags DEF HandlerPasses, Step, AgentInv, WorkersTyped
<1>3. CASE JobHanded(w)
  BY <1>3, BeginsFirst DEF JobHanded
<1>4. CASE JobStarts(w)
  BY <1>4, BeginsFirst DEF JobStarts
<1>5. CASE ClaimArrives(w) \/ ClaimFails(w) \/ PollEnds(w)
  BY <1>5, MovesOn DEF ClaimArrives, ClaimFails, PollEnds
<1>6. CASE PulledJobEnds(w) \/ Dispatched(w) \/ HandlerRefuses(w) \/ ServedJobEnds(w)
  BY <1>6, MovesOn DEF PulledJobEnds, Dispatched, HandlerRefuses, ServedJobEnds
<1> QED
  BY <1>1, <1>2, <1>3, <1>4, <1>5, <1>6 DEF Worker

(* An agent starts with no job begun.                                      *)
LEMMA AgentInvStarts == NaInit => AgentInv
BY DEF NaInit, AgentInv, WorkersTyped, Paused, Admitted, PullStages, PushStages

(* The flags change in the loop, the counts in the workers only.           *)
LEMMA AgentInvStays == ASSUME AgentInv, [NaNext]_naVars PROVE AgentInv'
<1>1. CASE WindowMoves \/ SaveBegins \/ SaveEnds
  BY <1>1, AgentStutters DEF WindowMoves, SaveBegins, SaveEnds, agentVars
<1>2. CASE ChaosEnds
  BY <1>2 DEF ChaosEnds, Flags, AgentInv, WorkersTyped, Paused, Admitted
<1>3. CASE Tick
  BY <1>3, TickKeeps
<1>4. CASE BeatEnds \/ BenchStarts
  BY <1>4, AgentStutters
     DEF BeatEnds, RefreshEnds, RegisterArrives, RegisterFails, BenchDone, BenchStarts,
         Beating, agentVars
<1>5. ASSUME NEW w \in Workers, Worker(w) PROVE AgentInv'
  BY <1>5, WorkerKeeps
<1>6. CASE JobComes \/ Age \/ Evict \/ CoordinatorRestarts
  BY <1>6, AgentStutters DEF JobComes, Age, Evict, CoordinatorRestarts, Remote, agentVars
<1>7. CASE UNCHANGED naVars
  BY <1>7, AgentStutters DEF naVars, agentVars
<1> QED
  BY <1>1, <1>2, <1>3, <1>4, <1>5, <1>6, <1>7 DEF NaNext

(* No worker of the node begins a second job in one pause: the gates of    *)
(* runPullLoop and of the job handler are enough, although they are read   *)
(* long before the job is begun.                                           *)
THEOREM OneStragglerPerWorker == NaSafety => []StragglersBounded
<1>1. AgentInv => StragglersBounded
  BY DEF AgentInv, StragglersBounded
<1> QED
  BY <1>1, AgentInvStarts, AgentInvStays, PTL DEF NaSafety

-----------------------------------------------------------------------------
(* The handler's working data, without the finite bounds that follow.      *)
StTyped ==
    /\ st \in [Streams -> Handlers]
    /\ heard \in [Streams -> Seq(Nodes \X Tokens)]
    /\ load \in [Nodes -> Nat]
    /\ marked \subseteq Nodes

(* t is the usage count that the lines w end with: that of the last frame  *)
(* with a positive count, 0 without one.                                   *)
UsageOf(w, t) ==
    LET frames == {i \in DOMAIN w : w[i][2] > 0} IN
    \/ frames = {} /\ t = 0
    \/ \E i \in frames : (\A j \in frames : j <= i) /\ t = w[i][2]

(* One request: before a node's stream is open nothing has been heard; from *)
(* then on every line is that of the node in the headers, and the handler's *)
(* counts are those of the lines.                                          *)
HandlerInv(h, w) ==
    /\ h.stage \in {"new", "pick", "connect", "refused"} => w = <<>>
    /\ h.stage \in {"connect", "relay"} => h.node \in Nodes
    /\ h.stage = "connect" => h.lines = 0 /\ h.tokens = 0
    /\ h.stage = "relay" => h.tag = h.node /\ Len(w) = h.lines
    /\ Len(w) <= MaxLines
    /\ \A i \in DOMAIN w : w[i][1] = h.tag
    /\ h.stage \in {"connect", "relay", "ok"} => UsageOf(w, h.tokens)
    /\ h.charge = IF h.stage = "ok" THEN h.tokens ELSE 0

Working(n) == {s \in Streams : st[s].node = n /\ st[s].stage \in {"connect", "relay"}}

StInv ==
    /\ StTyped
    /\ \A s \in Streams : HandlerInv(st[s], heard[s])
    /\ StreamLoadExact

(* Before any stream is accepted the invariant holds.                      *)
LEMMA StInvStarts == StInit => StInv
<1> SUFFICES ASSUME StInit PROVE StInv
  OBVIOUS
<1> USE StreamingConstants
<1>1. NewHandler \in Handlers
  <2>1. Cardinality(Nodes) \in Nat
    BY FS_CardinalityType
  <2>2. <<>> \in [1..0 -> Nodes]
    OBVIOUS
  <2>3. <<>> \in UNION {[1..k -> Nodes] : k \in 0..Cardinality(Nodes)}
    BY <2>1, <2>2
  <2> QED
    BY <2>3 DEF NewHandler, Handlers, NoNode, Tokens
<1>2. StTyped
  BY <1>1 DEF StInit, StTyped
<1>3. ASSUME NEW s \in Streams PROVE HandlerInv(st[s], heard[s])
  BY DEF StInit, NewHandler, HandlerInv
<1>4. ASSUME NEW n \in Nodes PROVE load[n] = Cardinality(Working(n))
  <2>1. Working(n) = {}
    BY DEF StInit, NewHandler, Working
  <2> QED
    BY <2>1, FS_EmptySet DEF StInit
<1> QED
  BY <1>2, <1>3, <1>4 DEF StInv, StreamLoadExact, Working

(* What is not a node's own stream does not count for it.                  *)
LEMMA SameWork ==
    ASSUME StInv, load' = load, 
           \A n \in Nodes : Working(n)' = Working(n)
    PROVE  StreamLoadExact'
BY DEF StInv, StreamLoadExact, Working

(* One request moves: it and the counters are all that has to be shown.    *)
LEMMA OneStreamMoves ==
    ASSUME StInv, NEW s \in Streams, NEW h \in Handlers, NEW w \in Seq(Nodes \X Tokens),
           st' = [st EXCEPT ![s] = h], heard' = [heard EXCEPT ![s] = w],
           marked' \subseteq Nodes, HandlerInv(h, w),
           load' \in [Nodes -> Nat], StreamLoadExact'
    PROVE  StInv'
<1>1. StTyped'
  BY DEF StInv, StTyped
<1>2. ASSUME NEW r \in Streams PROVE HandlerInv(st[r], heard[r])'
  <2>1. CASE r = s
    BY <2>1 DEF StInv, StTyped, HandlerInv
  <2>2. CASE r # s
    BY <2>2 DEF StInv, StTyped, HandlerInv
  <2> QED
    BY <2>1, <2>2
<1> QED
  BY <1>1, <1>2 DEF StInv

(* A request that neither takes nor leaves a node leaves the counters.     *)
LEMMA StaysPut ==
    ASSUME StInv, NEW s \in Streams, NEW h, st' = [st EXCEPT ![s] = h], load' = load,
           \/ h.node = st[s].node /\ (h.stage \in {"connect", "relay"} <=> st[s].stage \in {"connect", "relay"})
           \/ h.stage \notin {"connect", "relay"} /\ st[s].stage \notin {"connect", "relay"}
    PROVE  StreamLoadExact' /\ load' \in [Nodes -> Nat]
<1>1. ASSUME NEW n \in Nodes PROVE Working(n)' = Working(n)
  BY DEF Working, StInv, StTyped
<1> QED
  BY <1>1, SameWork DEF StInv, StTyped

(* Taking a node counts one stream more for it.                            *)
LEMMA TakesNode ==
    ASSUME StInv, NEW s \in Streams, NEW h, NEW n \in Nodes, st' = [st EXCEPT ![s] = h],
           st[s].stage \notin {"connect", "relay"}, h.stage \in {"connect", "relay"}, h.node = n,
           load' = [load EXCEPT ![n] = @ + 1]
    PROVE  StreamLoadExact' /\ load' \in [Nodes -> Nat]
<1> USE StreamingConstants
<1>1. ASSUME NEW m \in Nodes PROVE load'[m] = Cardinality(Working(m)') /\ load'[m] \in Nat
  <2>0. IsFiniteSet(Working(m)) /\ load[m] = Cardinality(Working(m)) /\ load[m] \in Nat
    BY FS_Subset DEF Working, StInv, StTyped, StreamLoadExact
  <2>1. CASE m = n
    <3>1. Working(m)' = Working(m) \cup {s} /\ s \notin Working(m)
      BY <2>1 DEF Working, StInv, StTyped
    <3>2. Cardinality(Working(m) \cup {s}) = Cardinality(Working(m)) + 1
      BY <3>1, <2>0, FS_AddElement
    <3> QED
      BY <2>0, <2>1, <3>1, <3>2 DEF StInv, StTyped
  <2>2. CASE m # n
    <3>1. Working(m)' = Working(m)
      BY <2>2 DEF Working, StInv, StTyped
    <3> QED
      BY <2>0, <2>2, <3>1 DEF StInv, StTyped
  <2> QED
    BY <2>1, <2>2
<1> QED
  BY <1>1 DEF StreamLoadExact, Working, StInv, StTyped

(* Leaving a node counts one stream less for it.                           *)
LEMMA LeavesNode ==
    ASSUME StInv, NEW s \in Streams, NEW h, st' = [st EXCEPT ![s] = h],
           st[s].stage \in {"connect", "relay"}, h.stage \notin {"connect", "relay"},
           load' = [load EXCEPT ![st[s].node] = @ - 1]
    PROVE  StreamLoadExact' /\ load' \in [Nodes -> Nat]
<1> USE StreamingConstants
<1> DEFINE n == st[s].node
<1>0. n \in Nodes
  BY DEF StInv, HandlerInv
<1>1. ASSUME NEW m \in Nodes PROVE load'[m] = Cardinality(Working(m)') /\ load'[m] \in Nat
  <2>0. IsFiniteSet(Working(m)) /\ load[m] = Cardinality(Working(m)) /\ load[m] \in Nat
    BY FS_Subset DEF Working, StInv, StTyped, StreamLoadExact
  <2>1. CASE m = n
    <3>1. Working(m)' = Working(m) \ {s} /\ s \in Working(m)
      BY <2>1 DEF Working, StInv, StTyped
    <3>2. Cardinality(Working(m) \ {s}) = Cardinality(Working(m)) - 1
      BY <3>1, <2>0, FS_RemoveElement
    <3>3. IsFiniteSet(Working(m) \ {s})
      BY <2>0, FS_Subset
    <3>4. Cardinality(Working(m) \ {s}) \in Nat
      BY <3>3, FS_CardinalityType
    <3> QED
      BY <2>0, <2>1, <3>1, <3>2, <3>4 DEF StInv, StTyped
  <2>2. CASE m # n
    <3>1. Working(m)' = Working(m)
      BY <2>2, <1>0 DEF Working, StInv, StTyped
    <3> QED
      BY <2>0, <2>2, <3>1 DEF StInv, StTyped
  <2> QED
    BY <2>1, <2>2
<1> QED
  BY <1>1 DEF StreamLoadExact, Working, StInv, StTyped

(* What the lines of a client end with, when one more line comes.          *)
LEMMA OneLineMore ==
    ASSUME NEW w \in Seq(Nodes \X Tokens), NEW t \in Tokens, UsageOf(w, t),
           NEW n \in Nodes, NEW u \in Tokens
    PROVE  UsageOf(Append(w, <<n, u>>), LastUsage(t, u))
<1> USE StreamingConstants
<1> DEFINE v == Append(w, <<n, u>>)
<1>1. Len(v) = Len(w) + 1 /\ v[Len(w) + 1] = <<n, u>> /\ \A i \in 1..Len(w) : v[i] = w[i]
  OBVIOUS
<1>2. DOMAIN w = 1..Len(w) /\ DOMAIN v = 1..(Len(w) + 1) /\ Len(w) \in Nat
  BY <1>1
<1>3. u \in Nat /\ v[Len(w) + 1][2] = u
  BY <1>1 DEF Tokens
<1> HIDE DEF v
<1>4. CASE u > 0
  <2> DEFINE frames == {i \in DOMAIN v : v[i][2] > 0}
  <2>1. Len(w) + 1 \in frames /\ \A j \in frames : j <= Len(w) + 1
    BY <1>2, <1>3, <1>4
  <2> QED
    BY <2>1, <1>3, <1>4 DEF UsageOf, LastUsage
<1>5. CASE ~(u > 0)
  <2> DEFINE framesV == {i \in DOMAIN v : v[i][2] > 0}
             framesW == {i \in DOMAIN w : w[i][2] > 0}
  <2>1. framesV = framesW
    BY <1>1, <1>2, <1>3, <1>5
  <2>2. \A i \in framesW : v[i] = w[i]
    BY <1>1, <1>2
  <2>3. LastUsage(t, u) = t
    BY <1>5 DEF LastUsage
  <2>4. \/ framesW = {} /\ t = 0
        \/ \E i \in framesW : (\A j \in framesW : j <= i) /\ t = w[i][2]
    BY DEF UsageOf
  <2>5. \/ framesV = {} /\ t = 0
        \/ \E i \in framesV : (\A j \in framesV : j <= i) /\ t = v[i][2]
    <3> HIDE DEF framesV, framesW
    <3> QED
      BY <2>1, <2>2, <2>4
  <2> QED
    BY <2>3, <2>5 DEF UsageOf, v
<1> QED
  BY <1>4, <1>5 DEF v

(* The ranked candidates are nodes.                                        *)
LEMMA RankKeeps == ASSUME StInv, NEW s \in Streams, Rank(s) PROVE StInv'
<1> USE StreamingConstants
<1>1. PICK order \in Ranked : st' = [st EXCEPT ![s].stage = "pick", ![s].ranked = order]
  BY DEF Rank
<1> DEFINE h == [st[s] EXCEPT !.stage = "pick", !.ranked = order]
           S == (Nodes \ marked) \ PullNodes
<1>2. st[s] \in Handlers /\ HandlerInv(st[s], heard[s]) /\ st[s].stage = "new"
  BY DEF StInv, StTyped, Rank
<1>3. order \in UNION {[1..k -> Nodes] : k \in 0..Cardinality(Nodes)}
  <2>1. IsFiniteSet(S) /\ Cardinality(S) <= Cardinality(Nodes)
    BY FS_Subset
  <2>2. Cardinality(S) \in Nat /\ Cardinality(Nodes) \in Nat
    BY <2>1, FS_CardinalityType
  <2>3. order \in [1..Cardinality(S) -> S]
    BY <1>1 DEF Ranked, SetToSeqs
  <2>4. order \in [1..Cardinality(S) -> Nodes]
    BY <2>3
  <2> HIDE DEF S
  <2> QED
    BY <2>1, <2>2, <2>4
<1>4. st' = [st EXCEPT ![s] = h] /\ heard' = [heard EXCEPT ![s] = heard[s]]
  BY <1>1 DEF Rank, StInv, StTyped
<1>5. h \in Handlers
  BY <1>2, <1>3 DEF Handlers
<1>6. h.stage = "pick" /\ h.charge = st[s].charge /\ h.tag = st[s].tag
  BY <1>2 DEF Handlers
<1>7. HandlerInv(h, heard[s])
  BY <1>2, <1>6 DEF HandlerInv
<1>8. load' = load /\ marked' = marked /\ heard[s] \in Seq(Nodes \X Tokens) /\ marked \subseteq Nodes
  BY DEF Rank, StInv, StTyped
<1> HIDE DEF h
<1>9. StreamLoadExact' /\ load' \in [Nodes -> Nat]
  BY <1>2, <1>4, <1>6, <1>8, StaysPut
<1> QED
  BY <1>4, <1>5, <1>7, <1>8, <1>9, OneStreamMoves

(* A sequence is a function on its places.                                 *)
LEMMA AsFunction == ASSUME NEW S, NEW q \in Seq(S) PROVE q \in [1..Len(q) -> S]
OBVIOUS

(* The first of k candidates is a node, and one less is left.              *)
LEMMA CandidatesLeft ==
    ASSUME NEW k \in Nat, k # 0, NEW order \in [1..k -> Nodes]
    PROVE  Head(order) \in Nodes /\ Tail(order) \in [1..(k - 1) -> Nodes]
<1>1. order \in Seq(Nodes) /\ Len(order) = k
  OBVIOUS
<1>2. Head(order) \in Nodes
  BY <1>1
<1>3. Tail(order) \in Seq(Nodes) /\ Len(Tail(order)) = k - 1
  BY <1>1
<1>4. Tail(order) \in [1..Len(Tail(order)) -> Nodes]
  BY <1>3, AsFunction
<1> QED
  BY <1>2, <1>3, <1>4

(* A dialled node is counted before it is asked.                           *)
LEMMA TryKeeps == ASSUME StInv, NEW s \in Streams, Try(s) PROVE StInv'
<1> USE StreamingConstants
<1> DEFINE n == Head(st[s].ranked)
           h == [st[s] EXCEPT !.stage = "connect", !.node = n, !.lines = 0, !.tokens = 0,
                              !.tried = @ + 1, !.ranked = Tail(@)]
<1>2. st[s] \in Handlers /\ HandlerInv(st[s], heard[s]) /\ st[s].stage = "pick"
  BY DEF StInv, StTyped, Try
<1>3. n \in Nodes /\ Tail(st[s].ranked) \in UNION {[1..k -> Nodes] : k \in 0..Cardinality(Nodes)}
  <2>1. PICK k \in 0..Cardinality(Nodes) : st[s].ranked \in [1..k -> Nodes]
    BY <1>2 DEF Handlers
  <2>2. Cardinality(Nodes) \in Nat
    BY FS_CardinalityType
  <2>3. k # 0
    BY <2>1 DEF Try
  <2>4. Tail(st[s].ranked) \in [1..(k - 1) -> Nodes] /\ n \in Nodes
    BY <2>1, <2>2, <2>3, CandidatesLeft
  <2> QED
    BY <2>2, <2>3, <2>4
<1>4. st' = [st EXCEPT ![s] = h] /\ heard' = [heard EXCEPT ![s] = heard[s]]
  BY DEF Try, StInv, StTyped
<1>5. h \in Handlers
  <2>1. st[s].tried + 1 \in 0..MaxAttempts
    BY <1>2 DEF Handlers, Try
  <2>2. 0 \in Tokens /\ 0 \in 0..MaxLines
    BY DEF Tokens
  <2> QED
    BY <1>2, <1>3, <2>1, <2>2 DEF Handlers
<1>6. /\ h.stage = "connect" /\ h.charge = st[s].charge /\ h.tag = st[s].tag /\ h.node = n
      /\ h.lines = 0 /\ h.tokens = 0
  BY <1>2 DEF Handlers
<1>7. HandlerInv(h, heard[s])
  BY <1>2, <1>3, <1>6 DEF HandlerInv, UsageOf
<1>8. /\ load' = [load EXCEPT ![n] = @ + 1] /\ marked' = marked
      /\ heard[s] \in Seq(Nodes \X Tokens) /\ marked \subseteq Nodes
  BY DEF Try, StInv, StTyped
<1> HIDE DEF h, n
<1>9. StreamLoadExact' /\ load' \in [Nodes -> Nat]
  BY <1>2, <1>3, <1>4, <1>6, <1>8, TakesNode
<1> QED
  BY <1>4, <1>5, <1>7, <1>8, <1>9, OneStreamMoves

(* Without a candidate the request ends as it was.                         *)
LEMMA ExhaustedKeeps == ASSUME StInv, NEW s \in Streams, Exhausted(s) PROVE StInv'
<1> DEFINE h == [st[s] EXCEPT !.stage = "refused"]
<1>2. st[s] \in Handlers /\ HandlerInv(st[s], heard[s]) /\ st[s].stage = "pick"
  BY DEF StInv, StTyped, Exhausted
<1>4. st' = [st EXCEPT ![s] = h] /\ heard' = [heard EXCEPT ![s] = heard[s]]
  BY DEF Exhausted, StInv, StTyped
<1>5. h \in Handlers
  BY <1>2 DEF Handlers
<1>6. h.stage = "refused" /\ h.charge = st[s].charge /\ h.tag = st[s].tag
  BY <1>2 DEF Handlers
<1>7. HandlerInv(h, heard[s])
  BY <1>2, <1>6 DEF HandlerInv
<1>8. load' = load /\ marked' = marked /\ heard[s] \in Seq(Nodes \X Tokens) /\ marked \subseteq Nodes
  BY DEF Exhausted, StInv, StTyped
<1> HIDE DEF h
<1>9. StreamLoadExact' /\ load' \in [Nodes -> Nat]
  BY <1>2, <1>4, <1>6, <1>8, StaysPut
<1> QED
  BY <1>4, <1>5, <1>7, <1>8, <1>9, OneStreamMoves

(* An attempt that ends without a line leaves nothing behind.              *)
LEMMA NextCandidateKeeps ==
    ASSUME StInv, NEW s \in Streams, NextCandidate(s),
           st[s].stage \in {"connect", "relay"}, heard[s] = <<>>
    PROVE  StInv'
<1> DEFINE h == [st[s] EXCEPT !.stage = "pick", !.node = NoNode]
<1>2. st[s] \in Handlers /\ HandlerInv(st[s], heard[s])
  BY DEF StInv, StTyped
<1>4. st' = [st EXCEPT ![s] = h] /\ heard' = [heard EXCEPT ![s] = heard[s]]
  BY DEF NextCandidate, StInv, StTyped
<1>5. h \in Handlers
  BY <1>2 DEF Handlers
<1>6. h.stage = "pick" /\ h.charge = st[s].charge /\ h.tag = st[s].tag
  BY <1>2 DEF Handlers
<1>7. HandlerInv(h, heard[s])
  BY <1>2, <1>6 DEF HandlerInv
<1>8. /\ load' = [load EXCEPT ![st[s].node] = @ - 1] /\ marked' \subseteq Nodes
      /\ heard[s] \in Seq(Nodes \X Tokens)
  BY <1>2 DEF NextCandidate, StInv, StTyped, HandlerInv
<1> HIDE DEF h
<1>9. StreamLoadExact' /\ load' \in [Nodes -> Nat]
  BY <1>2, <1>4, <1>6, <1>8, LeavesNode
<1> QED
  BY <1>4, <1>5, <1>7, <1>8, <1>9, OneStreamMoves

(* The headers name the node that answered.                                *)
LEMMA AcceptedKeeps == ASSUME StInv, NEW s \in Streams, Accepted(s) PROVE StInv'
<1> DEFINE h == [st[s] EXCEPT !.stage = "relay", !.tag = st[s].node]
<1>2. st[s] \in Handlers /\ HandlerInv(st[s], heard[s]) /\ st[s].stage = "connect"
  BY DEF StInv, StTyped, Accepted
<1>4. st' = [st EXCEPT ![s] = h] /\ heard' = [heard EXCEPT ![s] = heard[s]]
  BY DEF Accepted, StInv, StTyped
<1>5. h \in Handlers
  BY <1>2 DEF Handlers
<1>6. /\ h.stage = "relay" /\ h.charge = st[s].charge /\ h.tag = st[s].node /\ h.node = st[s].node
      /\ h.lines = st[s].lines /\ h.tokens = st[s].tokens
  BY <1>2 DEF Handlers
<1>7. HandlerInv(h, heard[s])
  BY <1>2, <1>6 DEF HandlerInv
<1>8. load' = load /\ marked' = marked /\ heard[s] \in Seq(Nodes \X Tokens) /\ marked \subseteq Nodes
  BY DEF Accepted, StInv, StTyped
<1> HIDE DEF h
<1>9. StreamLoadExact' /\ load' \in [Nodes -> Nat]
  BY <1>2, <1>4, <1>6, <1>8, StaysPut
<1> QED
  BY <1>4, <1>5, <1>7, <1>8, <1>9, OneStreamMoves

(* A line that goes out is the node's in the headers, and its count stands *)
(* if it is positive.                                                      *)
LEMMA RelayLineKeeps ==
    ASSUME StInv, NEW s \in Streams, NEW u \in Tokens, RelayLine(s, u)
    PROVE  StInv'
<1> USE StreamingConstants
<1> DEFINE h == [st[s] EXCEPT !.lines = @ + 1, !.tokens = LastUsage(@, u)]
           w == Append(heard[s], <<st[s].node, u>>)
<1>2. /\ st[s] \in Handlers /\ HandlerInv(st[s], heard[s]) /\ st[s].stage = "relay"
      /\ st[s].lines < MaxLines /\ heard[s] \in Seq(Nodes \X Tokens)
  BY DEF StInv, StTyped, RelayLine
<1>3. /\ st[s].node \in Nodes /\ st[s].tokens \in Tokens /\ UsageOf(heard[s], st[s].tokens)
      /\ st[s].lines \in 0..MaxLines /\ LastUsage(st[s].tokens, u) \in Tokens
  BY <1>2 DEF HandlerInv, Handlers, LastUsage
<1>4. st' = [st EXCEPT ![s] = h] /\ heard' = [heard EXCEPT ![s] = w]
  BY DEF RelayLine, StInv, StTyped
<1>5. h \in Handlers /\ w \in Seq(Nodes \X Tokens)
  <2>1. st[s].lines + 1 \in 0..MaxLines
    BY <1>2, <1>3
  <2>2. h \in Handlers
    BY <1>2, <1>3, <2>1 DEF Handlers
  <2>3. <<st[s].node, u>> \in Nodes \X Tokens
    BY <1>3
  <2> QED
    BY <1>2, <2>2, <2>3
<1>6. /\ h.stage = "relay" /\ h.charge = st[s].charge /\ h.tag = st[s].tag /\ h.node = st[s].node
      /\ h.lines = st[s].lines + 1 /\ h.tokens = LastUsage(st[s].tokens, u)
  BY <1>2 DEF Handlers
<1>7. UsageOf(w, h.tokens)
  BY <1>2, <1>3, <1>6, OneLineMore
<1>8. Len(w) = Len(heard[s]) + 1 /\ \A i \in DOMAIN w : w[i][1] = h.tag
  <2>1. Len(w) = Len(heard[s]) + 1 /\ w[Len(w)] = <<st[s].node, u>>
    BY <1>2
  <2>2. \A i \in 1..Len(heard[s]) : w[i] = heard[s][i]
    BY <1>2
  <2>3. DOMAIN w = 1..(Len(heard[s]) + 1) /\ DOMAIN heard[s] = 1..Len(heard[s])
    BY <1>2, <2>1
  <2>4. st[s].tag = st[s].node /\ \A i \in DOMAIN heard[s] : heard[s][i][1] = st[s].tag
    BY <1>2 DEF HandlerInv
  <2> HIDE DEF w
  <2> QED
    BY <2>1, <2>2, <2>3, <2>4, <1>2, <1>6
<1> HIDE DEF h, w
<1>9. HandlerInv(h, w)
  BY <1>2, <1>3, <1>5, <1>6, <1>7, <1>8 DEF HandlerInv
<1>10. load' = load /\ marked' = marked /\ marked \subseteq Nodes
  BY DEF RelayLine, StInv, StTyped
<1>11. StreamLoadExact' /\ load' \in [Nodes -> Nat]
  BY <1>2, <1>4, <1>6, <1>10, StaysPut
<1> QED
  BY <1>4, <1>5, <1>9, <1>10, <1>11, OneStreamMoves

(* At the end of its stream a request is charged for what was observed, and *)
(* one that breaks off for nothing.                                        *)
LEMMA LeavesRelay ==
    ASSUME StInv, NEW s \in Streams, NEW h \in Handlers, st[s].stage = "relay",
           st' = [st EXCEPT ![s] = h], UNCHANGED <<heard, marked>>,
           load' = [load EXCEPT ![st[s].node] = @ - 1],
           h.stage \in {"ok", "broken"}, h.tag = st[s].tag, h.tokens = st[s].tokens,
           h.charge = IF h.stage = "ok" THEN h.tokens ELSE 0
    PROVE  StInv'
<1>1. HandlerInv(st[s], heard[s])
  BY DEF StInv
<1>2. HandlerInv(h, heard[s])
  BY <1>1 DEF HandlerInv
<1>3. heard' = [heard EXCEPT ![s] = heard[s]] /\ marked' \subseteq Nodes /\ heard[s] \in Seq(Nodes \X Tokens)
  BY DEF StInv, StTyped
<1>4. StreamLoadExact' /\ load' \in [Nodes -> Nat]
  BY LeavesNode
<1> QED
  BY <1>2, <1>3, <1>4, OneStreamMoves

(* A stream that ends is charged for the tokens that it was heard to use.  *)
LEMMA RelayEndsKeeps == ASSUME StInv, NEW s \in Streams, RelayEnds(s) PROVE StInv'
<1> DEFINE h == [st[s] EXCEPT !.stage = "ok", !.charge = st[s].tokens]
<1>1. st[s] \in Handlers /\ HandlerInv(st[s], heard[s]) /\ st[s].stage = "relay"
  BY DEF StInv, StTyped, RelayEnds
<1>2. st' = [st EXCEPT ![s] = h] /\ UNCHANGED <<heard, marked>>
      /\ load' = [load EXCEPT ![st[s].node] = @ - 1]
  BY DEF RelayEnds, StInv, StTyped
<1>3. h \in Handlers
  BY <1>1 DEF Handlers
<1>4. h.stage = "ok" /\ h.tag = st[s].tag /\ h.tokens = st[s].tokens /\ h.charge = h.tokens
  BY <1>1 DEF Handlers
<1> HIDE DEF h
<1> QED
  BY <1>1, <1>2, <1>3, <1>4, LeavesRelay

(* Only before the first line does a broken stream go to another node.     *)
LEMMA RelayBreaksKeeps == ASSUME StInv, NEW s \in Streams, RelayBreaks(s) PROVE StInv'
<1>1. st[s] \in Handlers /\ HandlerInv(st[s], heard[s]) /\ st[s].stage = "relay"
      /\ heard[s] \in Seq(Nodes \X Tokens)
  BY DEF StInv, StTyped, RelayBreaks
<1>2. CASE st[s].lines = 0 /\ NextCandidate(s)
  <2>1. heard[s] = <<>>
    BY <1>1, <1>2 DEF HandlerInv
  <2> QED
    BY <1>1, <1>2, <2>1, NextCandidateKeeps
<1>3. CASE /\ load' = [load EXCEPT ![st[s].node] = @ - 1]
           /\ st' = [st EXCEPT ![s].stage = "broken"]
           /\ UNCHANGED <<heard, marked>>
  <2> DEFINE h == [st[s] EXCEPT !.stage = "broken"]
  <2>1. st' = [st EXCEPT ![s] = h]
    BY <1>3 DEF StInv, StTyped
  <2>2. h \in Handlers
    BY <1>1 DEF Handlers
  <2>3. h.stage = "broken" /\ h.tag = st[s].tag /\ h.tokens = st[s].tokens /\ h.charge = st[s].charge
    BY <1>1 DEF Handlers
  <2>4. st[s].charge = 0
    BY <1>1 DEF HandlerInv
  <2> HIDE DEF h
  <2> QED
    BY <1>1, <1>3, <2>1, <2>2, <2>3, <2>4, LeavesRelay
<1> QED
  BY <1>2, <1>3 DEF RelayBreaks

(* Every step of the relay keeps the invariant.                            *)
LEMMA StInvKept == StInv /\ [StNext]_stVars => StInv'
<1> SUFFICES ASSUME StInv, [StNext]_stVars PROVE StInv'
  OBVIOUS
<1>1. ASSUME NEW s \in Streams, Rank(s) PROVE StInv'
  BY <1>1, RankKeeps
<1>2. ASSUME NEW s \in Streams, Try(s) PROVE StInv'
  BY <1>2, TryKeeps
<1>3. ASSUME NEW s \in Streams, Exhausted(s) PROVE StInv'
  BY <1>3, ExhaustedKeeps
<1>4. ASSUME NEW s \in Streams, ConnectFails(s) PROVE StInv'
  <2>1. st[s].stage = "connect" /\ NextCandidate(s) /\ heard[s] = <<>>
    BY <1>4 DEF ConnectFails, StInv, HandlerInv
  <2> QED
    BY <2>1, NextCandidateKeeps
<1>5. ASSUME NEW s \in Streams, Accepted(s) PROVE StInv'
  BY <1>5, AcceptedKeeps
<1>6. ASSUME NEW s \in Streams, NEW u \in Tokens, RelayLine(s, u) PROVE StInv'
  BY <1>6, RelayLineKeeps
<1>7. ASSUME NEW s \in Streams, RelayEnds(s) PROVE StInv'
  BY <1>7, RelayEndsKeeps
<1>8. ASSUME NEW s \in Streams, RelayBreaks(s) PROVE StInv'
  BY <1>8, RelayBreaksKeeps
<1>9. ASSUME NEW n \in Nodes, StRefresh(n) PROVE StInv'
  BY <1>9 DEF StRefresh, StInv, StTyped, StreamLoadExact
<1>10. CASE UNCHANGED stVars
  BY <1>10 DEF stVars, StInv, StTyped, StreamLoadExact
<1> QED
  BY <1>1, <1>2, <1>3, <1>4, <1>5, <1>6, <1>7, <1>8, <1>9, <1>10 DEF StNext

(* The invariant says what a client may rely on, and the types.            *)
LEMMA StInvHonest == StInv => StreamsAreHonest /\ StTypeOK
<1> SUFFICES ASSUME StInv PROVE StreamsAreHonest /\ StTypeOK
  OBVIOUS
<1> USE StreamingConstants
<1>1. OneVoice
  BY DEF StInv, HandlerInv, OneVoice
<1>2. ChargeIsUsage
  BY DEF StInv, HandlerInv, UsageOf, ChargeIsUsage
<1>3. ASSUME NEW n \in Nodes PROVE load[n] \in 0..Cardinality(Streams)
  <2>1. Cardinality(Working(n)) <= Cardinality(Streams) /\ IsFiniteSet(Working(n))
    BY FS_Subset DEF Working
  <2>2. Cardinality(Working(n)) \in Nat /\ Cardinality(Streams) \in Nat
    BY <2>1, FS_CardinalityType
  <2>3. load[n] = Cardinality(Working(n))
    BY DEF StInv, StreamLoadExact, Working
  <2> QED
    BY <2>1, <2>2, <2>3
<1>4. load \in [Nodes -> 0..Cardinality(Streams)]
  BY <1>3 DEF StInv, StTyped
<1>5. \A s \in Streams : Len(heard[s]) <= MaxLines
  BY DEF StInv, HandlerInv
<1> QED
  BY <1>1, <1>2, <1>4, <1>5 DEF StreamsAreHonest, StTypeOK, StInv, StTyped

(* What a client of a stream hears is of the one node that the headers     *)
(* name, what it pays for is the last usage count it could see, and the    *)
(* registry counts every stream exactly once: whatever the nodes send, and *)
(* at whatever line they break off (DispatchFastLaneStreaming).            *)
THEOREM HonestStreams == StSpec => []StreamsAreHonest
<1>1. StInit => StInv
  BY StInvStarts
<1>2. StInv /\ [StNext]_stVars => StInv'
  BY StInvKept
<1>3. StInv => StreamsAreHonest
  BY StInvHonest
<1> QED
  BY <1>1, <1>2, <1>3, PTL DEF StSpec

-----------------------------------------------------------------------------
(* The types of a decomposed job, with the bounds: FoTypeOK needs that     *)
(* nothing is merged while the sub-tasks can still be replaced.            *)
FoShape ==
    /\ FoTypeOK
    /\ merged # {} => stage = "merged"

(* A job starts without candidates and sub-tasks.                          *)
LEMMA FoShapeStarts == FoInit => FoShape
<1> SUFFICES ASSUME FoInit PROVE FoShape
  OBVIOUS
<1>1. Cardinality(PodNodes) \in Nat
  BY FanoutConstants, FS_CardinalityType
<1>2. <<>> \in [1..0 -> PodNodes] /\ <<>> \in [1..0 -> Tasks]
  OBVIOUS
<1>3. 0 \in 0..Cardinality(PodNodes) /\ 0 \in 0..MaxKinds /\ 0 \in 0..MaxChanges
  BY <1>1, FanoutConstants
<1>4. pod \in UNION {[1..k -> PodNodes] : k \in 0..Cardinality(PodNodes)}
  BY <1>2, <1>3 DEF FoInit
<1>5. task \in UNION {[1..k -> Tasks] : k \in 0..MaxKinds}
  BY <1>2, <1>3 DEF FoInit
<1> QED
  BY <1>3, <1>4, <1>5 DEF FoInit, FoShape, FoTypeOK, Stages, Ready, Tasks

(* The candidates are at most the pod's nodes, the sub-tasks at most the   *)
(* types that the query matches.                                           *)
LEMMA CandidatesShape == ASSUME FoInv, FoShape, ListCandidates PROVE FoShape'
<1>1. PICK live \in SUBSET PodNodes :
        \E order \in SetToSeqs({n \in live : Cleared(n)}) :
          /\ pod' = order
          /\ \/ stage' = "whole" /\ UNCHANGED task
             \/ stage' = "fanout" /\ task' = [i \in 1..Analytical |-> Ready]
  BY DEF ListCandidates
<1> DEFINE S == {n \in live : Cleared(n)}
           k == Cardinality(S)
<1>2. k \in 0..Cardinality(PodNodes)
  <2>1. /\ S \in SUBSET PodNodes /\ IsFiniteSet(S)
        /\ Cardinality(S) <= Cardinality(PodNodes)
    BY FanoutConstants, FS_Subset
  <2>2. Cardinality(S) \in Nat /\ Cardinality(PodNodes) \in Nat
    BY <2>1, FanoutConstants, FS_CardinalityType
  <2> HIDE DEF S
  <2> QED
    BY <2>1, <2>2
<1>3. pod' \in [1..k -> S]
  BY <1>1 DEF SetToSeqs
<1>4. S \subseteq PodNodes
  OBVIOUS
<1> HIDE DEF k, S
<1>5. pod' \in UNION {[1..n -> PodNodes] : n \in 0..Cardinality(PodNodes)}
  <2>1. pod' \in [1..k -> PodNodes]
    BY <1>3, <1>4
  <2> QED
    BY <1>2, <2>1
<1>6. UNCHANGED <<job, replica, merged, seen, attested, everAttested, changes>> /\ merged = {}
  BY DEF ListCandidates, registryVars, FoShape
<1>7. task' \in UNION {[1..n -> Tasks] : n \in 0..MaxKinds}
  <2>1. CASE UNCHANGED task
    BY <2>1 DEF FoShape, FoTypeOK
  <2>2. CASE task' = [i \in 1..Analytical |-> Ready]
    <3>1. Analytical \in 0..MaxKinds
      BY FanoutConstants DEF Analytical, FoInv, Typed, Jobs
    <3>2. Ready \in Tasks
      BY DEF Ready, Tasks
    <3>3. task' \in [1..Analytical -> Tasks]
      BY <2>2, <3>2
    <3> HIDE DEF Analytical
    <3> QED
      BY <3>1, <3>3
  <2> QED
    BY <1>1, <2>1, <2>2
<1> QED
  BY <1>1, <1>5, <1>6, <1>7 DEF FoShape, FoTypeOK, Stages

(* Whoever sub-tasks are dealt to can see them.                            *)
LEMMA DealtToPodNode ==
    ASSUME pod \in Seq(PodNodes), Len(pod) >= 1, NEW i \in Nat, i >= 1
    PROVE  NodeOf(i) \in PodNodes
<1>1. PICK k \in 1..Len(pod) : NodeOf(i) = pod[k]
  BY DealtToPod
<1>2. pod[k] \in PodNodes
  OBVIOUS
<1> QED
  BY <1>1, <1>2

(* A sub-task is sent to a node of the pod; there are as many as before.   *)
LEMMA SubTasksShape ==
    ASSUME FoInv, FoShape, NEW i \in DOMAIN task, SendSubTask(i) \/ SubTaskEnds(i)
    PROVE  FoShape'
<1>1. /\ stage = "fanout" /\ UNCHANGED <<job, stage, pod, replica, merged, attested, everAttested, changes>>
      /\ merged = {}
  BY DEF SendSubTask, SubTaskEnds, registryVars, FoShape
<1>2. PICK k \in 0..MaxKinds : task \in [1..k -> Tasks]
  BY DEF FoShape, FoTypeOK
<1>3. task' \in [1..k -> Tasks]
  <2>1. \A s \in {"running", "failed"} : [task[i] EXCEPT !.state = s] \in Tasks
    BY <1>2 DEF Tasks
  <2>2. \A a \in Answers \cup {NoAnswer} : [state |-> "done", answer |-> a] \in Tasks
    BY DEF Tasks
  <2>3. CASE SendSubTask(i)
    BY <1>2, <2>1, <2>3 DEF SendSubTask
  <2>4. CASE SubTaskEnds(i)
    BY <1>2, <2>1, <2>2, <2>4 DEF SubTaskEnds
  <2> QED
    BY <2>3, <2>4
<1>4. task' \in UNION {[1..n -> Tasks] : n \in 0..MaxKinds}
  BY <1>2, <1>3
<1>5. seen' \subseteq PodNodes
  <2>1. i \in Nat /\ i >= 1 /\ Len(pod) >= 1 /\ pod \in Seq(PodNodes)
    BY <1>1, <1>2 DEF FoInv, Typed, PodInv
  <2>2. NodeOf(i) \in PodNodes
    BY <2>1, DealtToPodNode
  <2> QED
    BY <2>2 DEF SendSubTask, SubTaskEnds, FoShape, FoTypeOK
<1> QED
  BY <1>1, <1>4, <1>5 DEF FoShape, FoTypeOK

(* The replica and the merge go to nodes of the pod as well.               *)
LEMMA LaterShape ==
    ASSUME FoInv, FoShape, SendReplica \/ ReplicaEnds \/ Merge
    PROVE  FoShape'
<1>1. /\ stage \in {"verify", "merge"}
      /\ UNCHANGED <<job, pod, task, attested, everAttested, changes>>
      /\ Len(pod) >= 1 /\ pod \in Seq(PodNodes)
  BY DEF SendReplica, ReplicaEnds, Merge, registryVars, FoInv, Typed, PodInv
<1>2. ReplicaNode \in PodNodes /\ MergeNode \in PodNodes
  BY <1>1, DealtToPodNode DEF ReplicaNode, MergeNode
<1>3. seen' \subseteq PodNodes
  BY <1>2 DEF SendReplica, ReplicaEnds, Merge, FoShape, FoTypeOK
<1>4. replica' \in Tasks
  BY DEF SendReplica, ReplicaEnds, Merge, FoInv, Typed, Tasks
<1>5. stage' \in Stages /\ merged' \in SUBSET (DOMAIN task) /\ (merged' # {} => stage' = "merged")
  BY <1>1 DEF SendReplica, ReplicaEnds, Merge, FoShape, FoTypeOK, Stages
<1> QED
  BY <1>1, <1>3, <1>4, <1>5 DEF FoShape, FoTypeOK

(* The other steps move the stage or the registry.                         *)
LEMMA FoShapeStays == ASSUME FoInv, FoShape, [FoNext]_foVars PROVE FoShape'
<1>1. CASE Decompose
  BY <1>1 DEF Decompose, registryVars, FoShape, FoTypeOK, Stages
<1>2. CASE Join \/ Judge
  BY <1>2 DEF Join, Judge, AfterFanout, registryVars, FoShape, FoTypeOK, Stages
<1>3. CASE DispatchWhole
  BY <1>3 DEF DispatchWhole, registryVars, FoShape, FoTypeOK, Stages
<1>4. ASSUME NEW n \in PodNodes, ReRegister(n) \/ Attest(n) PROVE FoShape'
  <2>1. changes' \in 0..MaxChanges
    BY <1>4, FanoutConstants DEF ReRegister, Attest, FoShape, FoTypeOK
  <2>2. attested' \subseteq everAttested' /\ everAttested' \subseteq PodNodes
    BY <1>4 DEF ReRegister, Attest, FoShape, FoTypeOK
  <2> QED
    BY <1>4, <2>1, <2>2 DEF ReRegister, Attest, FoShape, FoTypeOK
<1>5. CASE UNCHANGED foVars
  BY <1>5 DEF foVars, registryVars, FoShape, FoTypeOK
<1> QED
  BY <1>1, <1>2, <1>3, <1>4, <1>5, CandidatesShape, SubTasksShape, LaterShape DEF FoNext, RouteStep

-----------------------------------------------------------------------------
(* The agent's types.                                                      *)

(* An agent starts after its registration, in one of the two modes.        *)
LEMMA NaTypeStarts == NaInit => NaTypeOK
<1> SUFFICES ASSUME NaInit PROVE NaTypeOK
  OBVIOUS
<1>1. work \in [Workers -> IF mode = "pull" THEN PullStages ELSE PushStages]
  <2>1. CASE mode = "pull"
    BY <2>1 DEF NaInit, PullStages
  <2>2. CASE mode # "pull"
    BY <2>2 DEF NaInit, PushStages
  <2> QED
    BY <2>1, <2>2
<1>2. moves \in 0..MaxMoves /\ restarts \in 0..MaxDown /\ started \in [Workers -> Nat]
  BY AgentBounds DEF NaInit
<1> QED
  BY <1>1, <1>2 DEF NaInit, NaTypeOK, Beats

(* A worker's place is one of its node's mode.                             *)
LEMMA StepTyped ==
    ASSUME NaTypeOK, NEW w \in Workers, NEW from, NEW to, Step(w, from, to),
           to \in IF mode = "pull" THEN PullStages ELSE PushStages,
           known' \in {"none", "live", "stale"}, queued' \in BOOLEAN,
           started' \in [Workers -> Nat]
    PROVE  NaTypeOK'
<1>1. work' \in [Workers -> IF mode = "pull" THEN PullStages ELSE PushStages]
  BY DEF Step, NaTypeOK
<1> QED
  BY <1>1 DEF Step, NaTypeOK

(* So are all the steps of workers.                                        *)
LEMMA WorkerTyped == ASSUME NaTypeOK, NEW w \in Workers, Worker(w) PROVE NaTypeOK'
<1>1. started \in [Workers -> Nat] /\ (Begins(w) => started' \in [Workers -> Nat])
  BY DEF NaTypeOK, Begins
<1>2. known \in {"none", "live", "stale"} /\ queued \in BOOLEAN
      /\ (Unreachable => known' \in {"none", "live", "stale"})
  BY DEF NaTypeOK, Unreachable
<1>3. mode = "pull" => {"gate", "claiming", "polling", "running"} \subseteq
                         IF mode = "pull" THEN PullStages ELSE PushStages
  BY DEF PullStages
<1>4. mode = "push" => {"idle", "sent", "passed", "running"} \subseteq
                         IF mode = "pull" THEN PullStages ELSE PushStages
  BY DEF PushStages
<1>5. CASE Gate(w) \/ ClaimArrives(w) \/ ClaimFails(w) \/ PollEnds(w) \/ PulledJobEnds(w)
  BY <1>1, <1>2, <1>3, <1>5, StepTyped DEF Gate, ClaimArrives, ClaimFails, PollEnds, PulledJobEnds
<1>6. CASE JobHanded(w)
  BY <1>1, <1>2, <1>3, <1>6, StepTyped DEF JobHanded
<1>7. CASE Dispatched(w) \/ HandlerPasses(w) \/ HandlerRefuses(w) \/ ServedJobEnds(w)
  BY <1>1, <1>2, <1>4, <1>7, StepTyped DEF Dispatched, HandlerPasses, HandlerRefuses, ServedJobEnds
<1>8. CASE JobStarts(w)
  BY <1>1, <1>2, <1>4, <1>8, StepTyped DEF JobStarts
<1> QED
  BY <1>5, <1>6, <1>7, <1>8 DEF Worker

(* The loop, the window and the coordinator keep theirs.                   *)
LEMMA NaTypeStays == ASSUME NaTypeOK, [NaNext]_naVars PROVE NaTypeOK'
<1>0. Scheduled \in BOOLEAN
  BY DEF Scheduled
<1>1. CASE WindowMoves \/ SaveBegins \/ SaveEnds
  <2>1. moves' \in 0..MaxMoves
    BY <1>1, AgentBounds DEF WindowMoves, SaveBegins, SaveEnds, NaTypeOK
  <2>2. window' \in BOOLEAN /\ saving' \in BOOLEAN
    BY <1>1 DEF WindowMoves, SaveBegins, SaveEnds, NaTypeOK
  <2>3. UNCHANGED <<mode, scheduleActive, chaosActive, beat, work, known, queued, started, restarts>>
    BY <1>1 DEF WindowMoves, SaveBegins, SaveEnds
  <2> QED
    BY <2>1, <2>2, <2>3 DEF NaTypeOK
<1>2. CASE ChaosEnds
  BY <1>2 DEF ChaosEnds, Flags, NaTypeOK
<1>3. CASE Tick
  <2>1. scheduleActive' \in BOOLEAN /\ chaosActive' \in BOOLEAN
    BY <1>0, <1>3 DEF Tick, TickPaused, TickChaos, TickNoManifest, TickRefresh, Flags, NaTypeOK
  <2>2. started' \in [Workers -> Nat]
    BY <1>3 DEF Tick, TickPaused, TickChaos, TickNoManifest, TickRefresh, Flags, NaTypeOK
  <2>3. beat' \in Beats
    BY <1>3 DEF Tick, TickPaused, TickChaos, TickNoManifest, TickRefresh, NaTypeOK, Beats
  <2>4. UNCHANGED <<mode, window, saving, work, known, queued, moves, restarts>>
    BY <1>3 DEF Tick, TickPaused, TickChaos, TickNoManifest, TickRefresh, AtTick
  <2> QED
    BY <2>1, <2>2, <2>3, <2>4 DEF NaTypeOK
<1>4. CASE BeatEnds \/ BenchStarts
  BY <1>4 DEF BeatEnds, RefreshEnds, RegisterArrives, RegisterFails, BenchDone, BenchStarts, Beating, NaTypeOK, Beats
<1>5. CASE JobComes \/ Age \/ Evict \/ CoordinatorRestarts
  <2>1. restarts' \in 0..MaxDown
    BY <1>5, AgentBounds DEF JobComes, Age, Evict, CoordinatorRestarts, NaTypeOK
  <2>2. known' \in {"none", "live", "stale"} /\ queued' \in BOOLEAN
    BY <1>5 DEF JobComes, Age, Evict, CoordinatorRestarts, NaTypeOK
  <2>3. Remote
    BY <1>5 DEF JobComes, Age, Evict, CoordinatorRestarts
  <2> QED
    BY <2>1, <2>2, <2>3 DEF Remote, NaTypeOK
<1>6. CASE UNCHANGED naVars
  BY <1>6 DEF naVars, NaTypeOK
<1> QED
  BY <1>1, <1>2, <1>3, <1>4, <1>5, <1>6, WorkerTyped DEF NaNext

-----------------------------------------------------------------------------
(* One component moves at a time.                                          *)
RtInv ==
    /\ StInv /\ FoInv /\ FoShape /\ NaTypeOK
    /\ focus \in {"streaming", "fanout", "agent"}

(* All start as they would alone.                                          *)
LEMMA RtInvStarts == Init => RtInv
BY StInvStarts, FoInvStarts, FoShapeStarts, NaTypeStarts DEF Init, RtInv

(* A step of one component leaves the others' variables alone.             *)
LEMMA RtInvKept == ASSUME RtInv, [Next]_rtVars PROVE RtInv'
<1>1. [StNext]_stVars /\ [FoNext]_foVars /\ [NaNext]_naVars /\ UNCHANGED focus
  BY DEF Next, Streaming, Fanning, Serving, rtVars
<1>2. StInv'
  BY <1>1, StInvKept DEF RtInv
<1>3. FoInv' /\ FoShape'
  BY <1>1, FoInvStays, FoShapeStays DEF RtInv
<1>4. NaTypeOK'
  BY <1>1, NaTypeStays DEF RtInv
<1> QED
  BY <1>1, <1>2, <1>3, <1>4 DEF RtInv

(* Every variable of streams, decomposed jobs and agents keeps its type    *)
(* and its bounds.                                                         *)
THEOREM RoutingTypeCorrect == Spec => []TypeOK
<1>1. RtInv => TypeOK
  BY StInvHonest DEF RtInv, TypeOK, FoShape
<1> QED
  BY <1>1, RtInvStarts, RtInvKept, PTL DEF Spec
=============================================================================
