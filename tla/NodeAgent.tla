------------------------------ MODULE NodeAgent ------------------------------
(***************************************************************************)
(* One contributor's node: the agent's heartbeat loop, its benchmark sweep *)
(* and its workers, against the coordinator that knows the node or has     *)
(* forgotten it.  Two flags pause the node, the contributor's schedule and *)
(* a simulated outage; they are read by the workers while the heartbeat    *)
(* loop writes them.  A pull node has one worker, the loop that claims     *)
(* jobs; a push node has one for each request that is being served.        *)
(***************************************************************************)
EXTENDS Naturals, FiniteSets

CONSTANTS
  Workers,    \* requests that a push node serves at once
  PullLoop,   \* the worker that stands for a pull node's loop
  MaxMoves,   \* bound: times the window moves or its configuration is saved
  MaxDown     \* bound: restarts of the coordinator

ASSUME AgentBounds == MaxMoves \in Nat /\ MaxDown \in Nat

VARIABLES
  mode,            \* "pull" or "push"
  window,          \* the schedule lets the mesh use this node now
  saving,          \* the configuration file is being written over
  scheduleActive,  \* what the last tick read of it
  chaosActive,     \* a simulated outage is under way
  beat,            \* where the heartbeat loop is
  work,            \* work[w]: where worker w is
  known,           \* what the coordinator's registry holds of the node
  queued,          \* the coordinator has a job for this node
  started,         \* started[w]: jobs that w began during the present pause
  moves, restarts

naVars == <<mode, window, saving, scheduleActive, chaosActive, beat, work, known, queued,
            started, moves, restarts>>

Beats == {"select", "refreshing", "registering", "benching"}
PullStages == {"gate", "claiming", "polling", "running"}
PushStages == {"idle", "sent", "passed", "running"}

NaTypeOK ==
  /\ mode \in {"pull", "push"}
  /\ window \in BOOLEAN /\ saving \in BOOLEAN /\ scheduleActive \in BOOLEAN /\ chaosActive \in BOOLEAN
  /\ beat \in Beats
  /\ work \in [Workers -> IF mode = "pull" THEN PullStages ELSE PushStages]
  /\ known \in {"none", "live", "stale"}
  /\ queued \in BOOLEAN
  /\ started \in [Workers -> Nat]
  /\ moves \in 0..MaxMoves /\ restarts \in 0..MaxDown

Paused == chaosActive \/ ~scheduleActive
Loop == IF mode = "pull" THEN {PullLoop} ELSE Workers

(* Run, after its first registration: available until a tick says otherwise. *)
NaInit ==
  /\ mode \in {"pull", "push"}
  /\ window \in BOOLEAN /\ saving = FALSE
  /\ scheduleActive = TRUE /\ chaosActive = FALSE
  /\ beat = "select"
  /\ work = [w \in Workers |-> IF mode = "pull" THEN "gate" ELSE "idle"]
  /\ known = "live" /\ queued = FALSE
  /\ started = [w \in Workers |-> 0]
  /\ moves = 0 /\ restarts = 0

-----------------------------------------------------------------------------
(* The flags. *)

(* Both flags are written at once only in the sense that one of them changes;
   jobs are counted anew in every pause. *)
Flags(schedule, chaos) ==
  /\ scheduleActive' = schedule
  /\ chaosActive' = chaos
  /\ started' = IF schedule /\ ~chaos THEN [w \in Workers |-> 0] ELSE started

(* The clock, or a schedule that was saved, opens or closes the window. *)
WindowMoves ==
  /\ moves < MaxMoves
  /\ moves' = moves + 1
  /\ window' = ~window
  /\ UNCHANGED <<mode, saving, scheduleActive, chaosActive, beat, work, known, queued,
                 started, restarts>>

(* POST /config and the command line truncate the file and then write it. *)
SaveBegins ==
  /\ moves < MaxMoves /\ ~saving
  /\ moves' = moves + 1
  /\ saving' = TRUE
  /\ UNCHANGED <<mode, window, scheduleActive, chaosActive, beat, work, known, queued,
                 started, restarts>>

SaveEnds ==
  /\ saving
  /\ saving' = FALSE /\ window' \in BOOLEAN
  /\ UNCHANGED <<mode, scheduleActive, chaosActive, beat, work, known, queued,
                 started, moves, restarts>>

(* Load, whose error is ignored: a file that does not parse gives the default
   configuration, which has no window. *)
Scheduled == window \/ saving

ChaosEnds ==
  /\ chaosActive
  /\ Flags(scheduleActive, FALSE)
  /\ UNCHANGED <<mode, window, saving, beat, work, known, queued, moves, restarts>>

-----------------------------------------------------------------------------
(* The heartbeat loop. *)

AtTick == beat = "select" /\ UNCHANGED <<mode, window, saving, work, known, queued, moves, restarts>>

(* The schedule is read again; outside of it, and during an outage, the beat is
   left out so that the coordinator sees the node go stale. *)
TickPaused ==
  /\ AtTick
  /\ ~Scheduled \/ chaosActive
  /\ Flags(Scheduled, chaosActive)
  /\ UNCHANGED beat

TickChaos ==
  /\ AtTick
  /\ Scheduled /\ ~chaosActive
  /\ Flags(TRUE, TRUE)
  /\ UNCHANGED beat

(* AssembleManifest asks Exo, and may fail: no beat this time. *)
TickNoManifest ==
  /\ AtTick
  /\ Scheduled /\ ~chaosActive
  /\ Flags(TRUE, FALSE)
  /\ UNCHANGED beat

TickRefresh ==
  /\ AtTick
  /\ Scheduled /\ ~chaosActive
  /\ Flags(TRUE, FALSE)
  /\ beat' = "refreshing"

Tick == TickPaused \/ TickChaos \/ TickNoManifest \/ TickRefresh

Beating == UNCHANGED <<mode, window, saving, scheduleActive, chaosActive, work, queued, started,
                       moves, restarts>>

(* Mutant: a node whose refresh is refused waits for the next tick. *)
RefreshOnly ==
  /\ beat = "refreshing"
  /\ known' = IF known /= "none" THEN "live" ELSE "none"
  /\ beat' = "select"
  /\ Beating

(* refresh: a coordinator that does not know the node refuses; a request that
   arrives counts although its answer may be lost in all four tries. *)
RefreshEnds ==
  /\ beat = "refreshing"
  /\ \/ known /= "none" /\ known' = "live" /\ beat' \in {"select", "registering"}
     \/ known' = known /\ beat' = "registering"
  /\ Beating

RegisterArrives ==
  /\ beat = "registering"
  /\ known' = "live" /\ beat' = "select"
  /\ Beating

RegisterFails ==
  /\ beat = "registering"
  /\ known' = known /\ beat' = "select"
  /\ Beating

(* The sweep over the models runs inside the loop, so no tick is taken until it
   is over.  The measures it submits do not count as a sign of life. *)
BenchStarts ==
  /\ beat = "select" /\ beat' = "benching"
  /\ UNCHANGED known /\ Beating

BenchDone ==
  /\ beat = "benching" /\ beat' = "select"
  /\ UNCHANGED known /\ Beating

-----------------------------------------------------------------------------
(* The workers. *)

Step(w, from, to) ==
  /\ w \in Loop
  /\ work[w] = from
  /\ work' = [work EXCEPT ![w] = to]
  /\ UNCHANGED <<mode, window, saving, scheduleActive, chaosActive, beat, moves, restarts>>

Begins(w) == started' = IF Paused THEN [started EXCEPT ![w] = @ + 1] ELSE started

(* Mutant: the flags are read once, before the loop. *)
GateOpen(w) ==
  /\ mode = "pull"
  /\ Step(w, "gate", "claiming")
  /\ UNCHANGED <<known, queued, started>>

(* runPullLoop: the flags are read, then a claim is sent. *)
Gate(w) ==
  /\ mode = "pull" /\ ~Paused
  /\ Step(w, "gate", "claiming")
  /\ UNCHANGED <<known, queued, started>>

(* POST /jobs/claim: for a known node an active claim is a heartbeat. *)
ClaimArrives(w) ==
  /\ mode = "pull" /\ known /= "none"
  /\ Step(w, "claiming", "polling")
  /\ known' = "live"
  /\ UNCHANGED <<queued, started>>

(* 401 for an unknown node, or the network. *)
ClaimFails(w) ==
  /\ mode = "pull"
  /\ Step(w, "claiming", "gate")
  /\ UNCHANGED <<known, queued, started>>

(* The long poll gives a job, or none in time, or its answer is lost and the
   job with it. *)
JobHanded(w) ==
  /\ mode = "pull" /\ queued
  /\ Step(w, "polling", "running")
  /\ queued' = FALSE
  /\ Begins(w)
  /\ UNCHANGED known

PollEnds(w) ==
  /\ mode = "pull"
  /\ Step(w, "polling", "gate")
  /\ queued' \in {queued, FALSE}
  /\ UNCHANGED <<known, started>>

(* executePulledJob and submitJobResult, also when either fails. *)
PulledJobEnds(w) ==
  /\ mode = "pull"
  /\ Step(w, "running", "gate")
  /\ UNCHANGED <<known, queued, started>>

(* The coordinator picks a live push node and calls it. *)
Dispatched(w) ==
  /\ mode = "push" /\ queued /\ known = "live"
  /\ Step(w, "idle", "sent")
  /\ queued' = FALSE
  /\ UNCHANGED <<known, started>>

Unreachable == known' = IF known = "live" THEN "stale" ELSE known

(* The handler reads the flags once, when the request comes in. *)
HandlerPasses(w) ==
  /\ mode = "push" /\ ~Paused
  /\ Step(w, "sent", "passed")
  /\ UNCHANGED <<known, queued, started>>

HandlerRefuses(w) ==
  /\ mode = "push" /\ Paused
  /\ Step(w, "sent", "idle")
  /\ Unreachable
  /\ UNCHANGED <<queued, started>>

(* The body is read and the payload fetched and decrypted, then the job runs. *)
JobStarts(w) ==
  /\ mode = "push"
  /\ Step(w, "passed", "running")
  /\ Begins(w)
  /\ UNCHANGED <<known, queued>>

(* 200, or an error that has the coordinator mark the node. *)
ServedJobEnds(w) ==
  /\ mode = "push"
  /\ \E from \in {"passed", "running"} :
       /\ Step(w, from, "idle")
       /\ \/ from = "running" /\ UNCHANGED known
          \/ Unreachable
  /\ UNCHANGED <<queued, started>>

-----------------------------------------------------------------------------
(* The coordinator. *)

Remote == UNCHANGED <<mode, window, saving, scheduleActive, chaosActive, beat, work, started, moves>>

JobComes ==
  /\ ~queued /\ known = "live" /\ queued' = TRUE
  /\ UNCHANGED <<known, restarts>> /\ Remote

(* The liveness TTL passes without a beat, and after it the eviction period. *)
Age ==
  /\ known = "live" /\ known' = "stale"
  /\ UNCHANGED <<queued, restarts>> /\ Remote

Evict ==
  /\ known = "stale" /\ known' = "none"
  /\ UNCHANGED <<queued, restarts>> /\ Remote

(* The registry and the queues are in memory. *)
CoordinatorRestarts ==
  /\ restarts < MaxDown /\ restarts' = restarts + 1
  /\ known' = "none" /\ queued' = FALSE
  /\ Remote

-----------------------------------------------------------------------------
Worker(w) ==
  \/ Gate(w) \/ ClaimArrives(w) \/ ClaimFails(w) \/ JobHanded(w) \/ PollEnds(w)
  \/ PulledJobEnds(w)
  \/ Dispatched(w) \/ HandlerPasses(w) \/ HandlerRefuses(w) \/ JobStarts(w) \/ ServedJobEnds(w)

BeatEnds == RefreshEnds \/ RegisterArrives \/ RegisterFails \/ BenchDone

NaNext ==
  \/ WindowMoves \/ SaveBegins \/ SaveEnds \/ ChaosEnds \/ Tick \/ BeatEnds \/ BenchStarts
  \/ \E w \in Workers : Worker(w)
  \/ JobComes \/ Age \/ Evict \/ CoordinatorRestarts

NaSafety == NaInit /\ [][NaNext]_naVars

-----------------------------------------------------------------------------
(* A pause stops a node after the work that was admitted before it: no worker
   begins a second job in one pause, however the flags moved while a claim or a
   request was under way. *)
StragglersBounded == \A w \in Workers : started[w] <= 1

(* While the contributor's window stays open the coordinator keeps seeing the
   node alive, after its own restarts and evictions too; while it stays closed,
   the node falls silent. *)
AgentsResume ==
  /\ <>[]window => []<>(known = "live")
  /\ <>[]~window => <>[](known /= "live")

(* What the agent says of its pull loop: it claims nothing while paused.  A claim
   that was sent before the pause still brings its job. *)
StartsNothingPaused == \A w \in Workers : started[w] = 0

(* A schedule is there to keep the node out of working hours.  A tick that falls
   into the saving of the configuration takes a paused node back into service. *)
OpensOnlyInWindow == [][scheduleActive' => scheduleActive \/ window]_naVars
==============================================================================
