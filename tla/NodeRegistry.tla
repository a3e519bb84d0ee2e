---------------------------- MODULE NodeRegistry ----------------------------
(***************************************************************************)
(* coordinator.NodeRegistry: the entries of a pod's nodes, kept alive by   *)
(* the agents' heartbeats, aged and evicted by time, and used by           *)
(* dispatches that count themselves in an entry's inFlight field.          *)
(*                                                                         *)
(* The registry's mutex protects the map, not the counter: IncrInFlight    *)
(* and DecrInFlight fetch the entry's pointer under the mutex and update   *)
(* it after the unlock, and Register and the eviction replace or drop the  *)
(* entry at any time.  A dispatch whose pointer is to an entry no longer   *)
(* in the map writes to garbage; held[d] says its pointer is current.      *)
(***************************************************************************)
EXTENDS Integers, FiniteSets

CONSTANTS
    Nodes,        \* node ids; their order is the order of the numbers
    Ring,         \* nodes of one physical Exo ring (same ClusterSignature)
    Dispatches    \* concurrent dispatches

ASSUME RegistryConstants ==
    /\ Nodes \subseteq Nat
    /\ Ring \subseteq Nodes
    /\ IsFiniteSet(Dispatches)

VARIABLES
    entry,      \* entry[n]: the entry of n in the map, or NoEntry
    disp,       \* disp[d]: where dispatch d stands
    held        \* dispatches whose fetched pointer is still in the map

vars == <<entry, disp, held>>

(* time.Since(lastSeen): within livenessTTL, beyond it, beyond evictionTTL *)
Ages == {"fresh", "stale", "lapsed"}

NoEntry == [age |-> "none", unreachable |-> TRUE, inFlight |-> 0]
NewEntry == [age |-> "fresh", unreachable |-> FALSE, inFlight |-> 0]

IdleDispatch == [at |-> "idle", node |-> 0, failed |-> FALSE]

Registered(n) == entry[n] # NoEntry

(* nodeEntry.isLive                                                        *)
isLive(n) == entry[n].age = "fresh" /\ ~entry[n].unreachable

(* A ring's stand-ins give way to its first node even when that is stale.  *)
StandbyIgnoringLiveness ==
    {n \in Ring : Registered(n) /\ \E m \in Ring : Registered(m) /\ m < n}

(* Of a ring only the live node with the lowest id takes work.             *)
clusterStandbyNodeIDs ==
    {n \in Ring : isLive(n) /\ \E m \in Ring : isLive(m) /\ m < n}

Candidates == {n \in Nodes : isLive(n)} \ clusterStandbyNodeIDs

(* Pointers to n's entry, once the map lets go of it.                      *)
Released(n) == {d \in Dispatches : disp[d].node = n}

-----------------------------------------------------------------------------
(* POST /nodes/register: a fresh entry over whatever was there.  An agent  *)
(* sends it at its start and whenever a refresh fails for any reason.      *)
RegisterKeepingCount(n) ==
    /\ entry' = [entry EXCEPT ![n] = [NewEntry EXCEPT !.inFlight = entry[n].inFlight]]
    /\ held' = held \ Released(n)
    /\ UNCHANGED disp

Register(n) ==
    /\ entry' = [entry EXCEPT ![n] = NewEntry]
    /\ held' = held \ Released(n)
    /\ UNCHANGED disp

(* POST /nodes/{id}/refresh and, for a pull node, the MarkSeen of a claim. *)
RefreshKeepingMark(n) ==
    /\ Registered(n)
    /\ entry' = [entry EXCEPT ![n].age = "fresh"]
    /\ UNCHANGED <<disp, held>>

Refresh(n) ==
    /\ Registered(n)
    /\ entry' = [entry EXCEPT ![n].age = "fresh", ![n].unreachable = FALSE]
    /\ UNCHANGED <<disp, held>>

(* Heartbeat of an agent's loop: refresh, and register if that failed; a   *)
(* node that was evicted has no other way back.                            *)
Heartbeat(n) == Refresh(n) \/ (~Registered(n) /\ Register(n))

(* The refresh got lost although the node is registered.                   *)
LostHeartbeat(n) == Registered(n) /\ Register(n)

(* DELETE /nodes/{id}                                                      *)
Deregister(n) ==
    /\ Registered(n)
    /\ entry' = [entry EXCEPT ![n].unreachable = TRUE]
    /\ UNCHANGED <<disp, held>>

TimePasses(n) ==
    /\ Registered(n)
    /\ entry[n].age # "lapsed"
    /\ entry' = [entry EXCEPT ![n].age = IF @ = "fresh" THEN "stale" ELSE "lapsed"]
    /\ UNCHANGED <<disp, held>>

(* runEviction                                                             *)
Evict(n) ==
    /\ Registered(n)
    /\ entry[n].age = "lapsed"
    /\ entry' = [entry EXCEPT ![n] = NoEntry]
    /\ held' = held \ Released(n)
    /\ UNCHANGED disp

-----------------------------------------------------------------------------
Move(d, at) == disp' = [disp EXCEPT ![d].at = at]

(* The pointer as the map has it now (none: the call returns at once).     *)
Fetch(d, n) == held' = IF Registered(n) THEN held \cup {d} ELSE held \ {d}

Add(d, k) ==
    entry' = IF d \in held
             THEN [entry EXCEPT ![disp[d].node].inFlight = @ + k]
             ELSE entry

(* A dispatch chooses a node from the candidates it has read; by the time  *)
(* IncrInFlight fetches the entry the node may have gone.                  *)
Choose(d, n) ==
    /\ disp[d].at = "idle"
    /\ n \in Candidates
    /\ disp' = [disp EXCEPT ![d] = [at |-> "chosen", node |-> n, failed |-> FALSE]]
    /\ UNCHANGED <<entry, held>>

IncrFetch(d) ==
    /\ disp[d].at = "chosen"
    /\ Fetch(d, disp[d].node)
    /\ Move(d, "incrementing")
    /\ UNCHANGED entry

IncrAdd(d) ==
    /\ disp[d].at = "incrementing"
    /\ Add(d, 1)
    /\ Move(d, "running")
    /\ UNCHANGED held

(* The job is delivered, or fails.                                         *)
Deliver(d, failed) ==
    /\ disp[d].at = "running"
    /\ disp' = [disp EXCEPT ![d].at = "delivered", ![d].failed = failed]
    /\ UNCHANGED <<entry, held>>

DecrFetch(d) ==
    /\ disp[d].at = "delivered"
    /\ Fetch(d, disp[d].node)
    /\ Move(d, "decrementing")
    /\ UNCHANGED entry

(* atomic.AddInt32(-1), and if that fell below zero a StoreInt32(0) of its *)
(* own, which overwrites what others added in between.                     *)
DecrAdd(d) ==
    /\ disp[d].at = "decrementing"
    /\ Add(d, -1)
    /\ Move(d, IF d \in held /\ entry[disp[d].node].inFlight - 1 < 0
               THEN "flooring" ELSE "counted")
    /\ UNCHANGED held

DecrStore(d) ==
    /\ disp[d].at = "flooring"
    /\ entry' = IF d \in held
                THEN [entry EXCEPT ![disp[d].node].inFlight = 0]
                ELSE entry
    /\ Move(d, "counted")
    /\ UNCHANGED held

(* MarkUnreachable after an error; the dispatch is over.                   *)
Finish(d) ==
    /\ disp[d].at = "counted"
    /\ entry' = IF disp[d].failed /\ Registered(disp[d].node)
                THEN [entry EXCEPT ![disp[d].node].unreachable = TRUE]
                ELSE entry
    /\ disp' = [disp EXCEPT ![d] = IdleDispatch]
    /\ held' = held \ {d}

-----------------------------------------------------------------------------
Init ==
    /\ entry = [n \in Nodes |-> NoEntry]
    /\ disp = [d \in Dispatches |-> IdleDispatch]
    /\ held = {}

Next ==
    \/ \E n \in Nodes :
          \/ Heartbeat(n)
          \/ LostHeartbeat(n)
          \/ Deregister(n)
          \/ TimePasses(n)
          \/ Evict(n)
    \/ \E d \in Dispatches :
          \/ \E n \in Nodes : Choose(d, n)
          \/ IncrFetch(d)
          \/ IncrAdd(d)
          \/ \E failed \in BOOLEAN : Deliver(d, failed)
          \/ DecrFetch(d)
          \/ DecrAdd(d)
          \/ DecrStore(d)
          \/ Finish(d)

(* Running agents tick.                                                    *)
Spec == Init /\ [][Next]_vars /\ \A n \in Nodes : WF_vars(Heartbeat(n))

-----------------------------------------------------------------------------
Stages == {"idle", "chosen", "incrementing", "running", "delivered",
           "decrementing", "flooring", "counted"}

(* Type correctness of the entries and the dispatches.                     *)
TypeOK ==
    /\ entry \in [Nodes -> [age : Ages, unreachable : BOOLEAN,
                            inFlight : -Cardinality(Dispatches) .. Cardinality(Dispatches)]
                              \cup {NoEntry}]
    /\ disp \in [Dispatches -> [at : Stages, node : Nodes \cup {0}, failed : BOOLEAN]]
    /\ held \subseteq Dispatches

At(n, stages) == {d \in Dispatches : disp[d].node = n /\ disp[d].at \in stages}

(* The load counter is never too high: it counts at most the dispatches    *)
(* that are at the node now.  Re-registrations and evictions may make it   *)
(* forget some, never keep one that is over, so no node is passed over for *)
(* work it does not have.                                                  *)
LoadNeverOverstated ==
    \A n \in Nodes :
        entry[n].inFlight <= Cardinality(At(n, {"running", "delivered", "decrementing"}))

(* Below zero it is only for the instant before DecrInFlight's own Store,  *)
(* and by no more than the dispatches that are about to do one.            *)
FloorIsRestored ==
    \A n \in Nodes :
        entry[n].inFlight >= -Cardinality(At(n, {"flooring"}) \cap held)

(* The counter stays between its floor and the work that is there.         *)
LoadBounds == LoadNeverOverstated /\ FloorIsRestored

(* A ring is never dispatched to twice and never goes dark: of the live    *)
(* registrations of one ring exactly one is a candidate, also while its    *)
(* first node is stale, unreachable or evicted.                            *)
OneOfEachRing ==
    (\E n \in Ring : isLive(n)) => Cardinality(Candidates \cap Ring) = 1

(* A node whose agent keeps ticking is live again and again, whatever      *)
(* failed dispatches, silences, evictions and restarts lie between.        *)
NodesComeBack == \A n \in Nodes : []<>isLive(n)
=============================================================================
