------------------------------ MODULE JobQueue ------------------------------
(***************************************************************************)
(* coordinator.JobQueue: requests that no node would take (X-OIM-Queue)    *)
(* wait in one channel for a small pool of workers, which retry each until *)
(* a node accepts it, its deadline passes or its caller is gone.  The      *)
(* channel is made MaxCapacity deep; admission is against a smaller        *)
(* capacity that is recomputed now and then from the live network.         *)
(* DispatchFastLane (module PullDispatch) succeeds or fails here, and      *)
(* returns because its context carries the job's deadline.                 *)
(***************************************************************************)
EXTENDS Naturals, Sequences, FiniteSets

CONSTANTS
    Callers,        \* requests, each calls Enqueue once
    Workers,
    Fleet,          \* nodes that the registry may report live
    Benchmarked,    \* nodes with a measured throughput, of
    Tps,            \*   this many tokens per second each
    TpsPerSlot,     \* tpsPerQueueSlot
    NodeFloor,      \* nodeFloorPerLiveNode
    MinCapacity,
    MaxCapacity,    \* also the depth of the channel
    InitialCapacity,
    None

ASSUME QueueConstants ==
    /\ Benchmarked \subseteq Fleet
    /\ {Tps, NodeFloor, InitialCapacity} \subseteq Nat
    /\ TpsPerSlot \in Nat \ {0}
    /\ MinCapacity \in Nat \ {0} /\ MaxCapacity \in Nat /\ MinCapacity <= MaxCapacity
    /\ IsFiniteSet(Fleet)
    /\ None \notin Callers \cup {"served", "failed"}

VARIABLES
    caller,     \* caller[c]: where its Enqueue stands
    gone,       \* callers whose context is done
    expired,    \* callers whose job's deadline has passed
    ch,         \* the channel: jobs named by their callers
    result,     \* result[c]: the job's result channel, one slot
    worker,     \* worker[w]: what the worker is at, and with whose job
    seen,       \* the live nodes at the last retarget, None before the first
    stopped     \* the coordinator is shutting down

jqVars == <<caller, gone, expired, ch, result, worker, seen, stopped>>

Idle == [at |-> "idle", job |-> None]
Stopped == [at |-> "stopped", job |-> None]

-----------------------------------------------------------------------------
clampInt(v, lo, hi) == IF v < lo THEN lo ELSE IF v > hi THEN hi ELSE v

(* Aggregate measured throughput, with a floor per live node.              *)
ComputeQueueCapacity(nodes) ==
    LET fromThroughput == (Tps * Cardinality(nodes \cap Benchmarked)) \div TpsPerSlot
        floor == NodeFloor * Cardinality(nodes)
    IN  clampInt(IF fromThroughput < floor THEN floor ELSE fromThroughput,
                 MinCapacity, MaxCapacity)

(* The capacity field is what the last retarget computed.                  *)
capacity == IF seen = None
            THEN clampInt(InitialCapacity, MinCapacity, MaxCapacity)
            ELSE ComputeQueueCapacity(seen)

(* retargetLoop, every QueueRetargetInterval until shutdown, with whatever *)
(* nodes the registry then reports live.                                   *)
Retarget(nodes) ==
    /\ ~stopped
    /\ seen' = nodes
    /\ UNCHANGED <<caller, gone, expired, ch, result, worker, stopped>>

-----------------------------------------------------------------------------
(* Enqueue: the check against capacity, and after it, on its own, the send *)
(* that only the channel's real depth can refuse.                          *)
Admit(c) ==
    /\ caller[c] = "new"
    /\ caller' = [caller EXCEPT ![c] = IF Len(ch) < capacity THEN "admitted" ELSE "refused"]
    /\ UNCHANGED <<gone, expired, ch, result, worker, seen, stopped>>

SendBlind(c) ==
    /\ caller[c] = "admitted"
    /\ ch' = Append(ch, c)
    /\ caller' = [caller EXCEPT ![c] = "queued"]
    /\ UNCHANGED <<gone, expired, result, worker, seen, stopped>>

Send(c) ==
    /\ caller[c] = "admitted"
    /\ \/ /\ Len(ch) < MaxCapacity
          /\ ch' = Append(ch, c)
          /\ caller' = [caller EXCEPT ![c] = "queued"]
       \/ /\ Len(ch) = MaxCapacity
          /\ caller' = [caller EXCEPT ![c] = "refused"]
          /\ UNCHANGED ch
    /\ UNCHANGED <<gone, expired, result, worker, seen, stopped>>

(* Enqueue's wait ends with a result or with the caller's own context; the *)
(* deadline is the workers' to watch.  (Nobody reads the contexts of a job *)
(* that is answered and returned.)                                         *)
Return(c) ==
    /\ caller[c] = "queued"
    /\ \/ /\ result[c] # None
          /\ caller' = [caller EXCEPT ![c] = result[c]]
          /\ gone' = gone \ {c}
          /\ expired' = expired \ {c}
       \/ /\ c \in gone
          /\ caller' = [caller EXCEPT ![c] = "canceled"]
          /\ UNCHANGED <<gone, expired>>
    /\ UNCHANGED <<ch, result, worker, seen, stopped>>

CallerGoes(c) ==
    /\ caller[c] = "queued"
    /\ c \notin gone
    /\ gone' = gone \cup {c}
    /\ UNCHANGED <<caller, expired, ch, result, worker, seen, stopped>>

DeadlinePasses(c) ==
    /\ caller[c] \in {"queued", "canceled"}
    /\ c \notin expired
    /\ result[c] = None
    /\ expired' = expired \cup {c}
    /\ UNCHANGED <<caller, gone, ch, result, worker, seen, stopped>>

-----------------------------------------------------------------------------
(* A worker's select: the next job, or the end of the coordinator; with    *)
(* both ready it may take either.                                          *)
TakeCopy(w) ==
    /\ worker[w] = Idle
    /\ ch # <<>>
    /\ worker' = [worker EXCEPT ![w] = [at |-> "judging", job |-> Head(ch)]]
    /\ \E keep \in BOOLEAN : ch' = IF keep THEN ch ELSE Tail(ch)
    /\ UNCHANGED <<caller, gone, expired, result, seen, stopped>>

Take(w) ==
    /\ worker[w] = Idle
    /\ ch # <<>>
    /\ worker' = [worker EXCEPT ![w] = [at |-> "judging", job |-> Head(ch)]]
    /\ ch' = Tail(ch)
    /\ UNCHANGED <<caller, gone, expired, result, seen, stopped>>

WorkerStops(w) ==
    /\ worker[w] = Idle
    /\ stopped
    /\ worker' = [worker EXCEPT ![w] = Stopped]
    /\ UNCHANGED <<caller, gone, expired, ch, result, seen, stopped>>

(* `qj.result <- ...` blocks while the slot is taken.                      *)
Answer(w, v) ==
    /\ result[worker[w].job] = None
    /\ result' = [result EXCEPT ![worker[w].job] = v]
    /\ worker' = [worker EXCEPT ![w] = Idle]
    /\ UNCHANGED <<caller, gone, expired, ch, seen, stopped>>

(* processJob, top of the loop: too late, caller gone, or another try.     *)
JudgeByCallerOnly(w) ==
    /\ worker[w].at = "judging"
    /\ LET c == worker[w].job IN
         \/ c \in gone /\ Answer(w, "failed")
         \/ /\ c \notin gone
            /\ worker' = [worker EXCEPT ![w].at = "dispatching"]
            /\ UNCHANGED <<caller, gone, expired, ch, result, seen, stopped>>

Judge(w) ==
    /\ worker[w].at = "judging"
    /\ LET c == worker[w].job IN
         \/ c \in expired \cup gone /\ Answer(w, "failed")
         \/ /\ c \notin expired \cup gone
            /\ worker' = [worker EXCEPT ![w].at = "dispatching"]
            /\ UNCHANGED <<caller, gone, expired, ch, result, seen, stopped>>

(* DispatchFastLane accepts the job ...                                    *)
Dispatched(w) ==
    /\ worker[w].at = "dispatching"
    /\ Answer(w, "served")

(* ... or no node does: back off.                                          *)
DispatchFails(w) ==
    /\ worker[w].at = "dispatching"
    /\ worker' = [worker EXCEPT ![w].at = "waiting"]
    /\ UNCHANGED <<caller, gone, expired, ch, result, seen, stopped>>

(* The back-off's select.                                                  *)
BackOffEnds(w) ==
    /\ worker[w].at = "waiting"
    /\ \/ /\ stopped \/ worker[w].job \in gone
          /\ Answer(w, "failed")
       \/ /\ worker' = [worker EXCEPT ![w].at = "judging"]
          /\ UNCHANGED <<caller, gone, expired, ch, result, seen, stopped>>

(* SIGTERM: cancelCtx.                                                     *)
Shutdown ==
    /\ ~stopped
    /\ stopped' = TRUE
    /\ UNCHANGED <<caller, gone, expired, ch, result, worker, seen>>

-----------------------------------------------------------------------------
JqInit ==
    /\ caller = [c \in Callers |-> "new"]
    /\ gone = {}
    /\ expired = {}
    /\ ch = <<>>
    /\ result = [c \in Callers |-> None]
    /\ worker = [w \in Workers |-> Idle]
    /\ seen = None
    /\ stopped = FALSE

WorkerStep(w) == Take(w) \/ WorkerStops(w) \/ Judge(w) \/ Dispatched(w)
                    \/ DispatchFails(w) \/ BackOffEnds(w)

JqNext ==
    \/ \E c \in Callers : Admit(c) \/ Send(c) \/ Return(c) \/ CallerGoes(c)
                            \/ DeadlinePasses(c)
    \/ \E w \in Workers :
          \/ Take(w)
          \/ WorkerStops(w)
          \/ Judge(w)
          \/ Dispatched(w)
          \/ DispatchFails(w)
          \/ BackOffEnds(w)
    \/ \E nodes \in SUBSET Fleet : Retarget(nodes)
    \/ Shutdown

(* Goroutines run and deadlines pass; callers need not go away, nodes need *)
(* not come, and a dispatch need never succeed.                            *)
JqFairness ==
    /\ \A c \in Callers : WF_jqVars(Send(c)) /\ WF_jqVars(Return(c)) /\ WF_jqVars(DeadlinePasses(c))
    /\ \A w \in Workers : WF_jqVars(WorkerStep(w))

JqSpec == JqInit /\ [][JqNext]_jqVars /\ JqFairness

-----------------------------------------------------------------------------
Verdicts == {"served", "failed"}

(* Type correctness; the channel is never asked to hold more than it can.  *)
JqTypeOK ==
    /\ caller \in [Callers -> {"new", "admitted", "refused", "queued", "canceled"} \cup Verdicts]
    /\ gone \subseteq Callers
    /\ expired \subseteq Callers
    /\ ch \in Seq(Callers) /\ Len(ch) <= MaxCapacity
    /\ result \in [Callers -> Verdicts \cup {None}]
    /\ worker \in [Workers -> [at : {"judging", "dispatching", "waiting"}, job : Callers]
                                \cup {Idle, Stopped}]
    /\ capacity \in MinCapacity .. MaxCapacity
    /\ seen = None \/ seen \subseteq Fleet
    /\ stopped \in BOOLEAN

Places(c) == Cardinality({i \in DOMAIN ch : ch[i] = c})
                + Cardinality({w \in Workers : worker[w].job = c})
                + (IF result[c] = None THEN 0 ELSE 1)

(* A job is in the channel, or with one worker, or answered, never twice:  *)
(* no two workers run it, and no worker can block on a result slot that is *)
(* already taken, also when the caller left long ago.                      *)
JobInOnePlace ==
    \A c \in Callers : Places(c) = IF caller[c] \in {"new", "admitted", "refused"} THEN 0 ELSE 1

(* No caller waits for ever: whatever nodes do, a queued job is answered   *)
(* (its deadline sees to that) until the coordinator shuts down.           *)
EnqueueReturns == \A c \in Callers : (caller[c] = "queued") ~> (caller[c] # "queued" \/ stopped)

(* No job, however hopeless, keeps a worker: each becomes idle again.      *)
WorkersComeBack == \A w \in Workers : []<>(worker[w] = Idle \/ worker[w] = Stopped)

(* Callers and workers come free of every job, hopeless ones included.     *)
JobsComeFree == EnqueueReturns /\ WorkersComeBack
=============================================================================
