-------------------------- MODULE CoordinatorProofs --------------------------
(***************************************************************************)
(* Proofs about what a coordinator keeps in memory.                        *)
(*                                                                         *)
(* NodeRegistry: for any nodes, any ring among them and any finite number  *)
(* of dispatches, the load counter that is updated through a pointer       *)
(* fetched earlier, and the choice of a ring's one candidate.              *)
(*                                                                         *)
(* JobQueue: for any callers, workers and nodes and for every capacity,    *)
(* types, with them the bound on the channel, and that a job is never in   *)
(* two places.                                                             *)
(***************************************************************************)
EXTENDS NodeRegistry, JobQueue, FiniteSetTheorems, WellFoundedInduction, TLAPS

(* Entries as records whose counter is any integer, and where dispatches   *)
(* and pointers may be: a current pointer belongs to a dispatch under way  *)
(* at a node that is registered.                                           *)
Entries == [age : Ages \cup {"none"}, unreachable : BOOLEAN, inFlight : Int]

RegTyped ==
    /\ entry \in [Nodes -> Entries]
    /\ \A n \in Nodes : entry[n].age = "none" => entry[n] = NoEntry
    /\ disp \in [Dispatches -> [at : Stages, node : Nodes \cup {0}, failed : BOOLEAN]]
    /\ \A d \in Dispatches : disp[d].at # "idle" => disp[d].node \in Nodes
    /\ held \subseteq Dispatches
    /\ \A d \in held : disp[d].at # "idle" /\ Registered(disp[d].node)

(* What the counter of a node really counts: the dispatches there that     *)
(* hold a current pointer.  A decrement is of this entry's counter, or of  *)
(* garbage, by the pointer it holds and not by the one it incremented.     *)
Loaded(n) == At(n, {"running", "delivered", "decrementing"}) \cap held
Flooring(n) == At(n, {"flooring"}) \cap held

(* LoadBounds is not inductive: a dispatch whose pointer is stale leaves   *)
(* without a decrement, which is sound because it was not counted either.  *)
Within(n) ==
    /\ entry[n].inFlight <= Cardinality(Loaded(n))
    /\ entry[n].inFlight >= -Cardinality(Flooring(n))

RegInv == RegTyped /\ \A n \in Nodes : Within(n)

(* Sets of dispatches are finite, and larger ones have more elements.      *)
LEMMA Counting ==
    ASSUME NEW S \in SUBSET Dispatches
    PROVE  /\ IsFiniteSet(S) /\ Cardinality(S) \in Nat
           /\ \A T \in SUBSET S : Cardinality(T) <= Cardinality(S)
BY RegistryConstants, FS_Subset, FS_CardinalityType

(* The two sets that are counted.                                          *)
LEMMA CountedAreDispatches ==
    ASSUME NEW n PROVE Loaded(n) \subseteq Dispatches /\ Flooring(n) \subseteq Dispatches
BY DEF Loaded, Flooring, At

(* A node whose counter is reset, or kept while nobody who was counted     *)
(* leaves, stays within its bounds.                                        *)
LEMMA ResetOrKept ==
    ASSUME RegInv, NEW n \in Nodes,
           \/ entry'[n].inFlight = 0
           \/ /\ entry'[n].inFlight = entry[n].inFlight
              /\ Loaded(n) \subseteq Loaded(n)' /\ Flooring(n) \subseteq Flooring(n)'
    PROVE  Within(n)'
<1>1. Loaded(n)' \subseteq Dispatches /\ Flooring(n)' \subseteq Dispatches
  BY DEF Loaded, Flooring, At
<1>2. /\ Cardinality(Loaded(n)') \in Nat /\ Cardinality(Flooring(n)') \in Nat
  BY <1>1, Counting
<1>3. CASE entry'[n].inFlight = 0
  BY <1>2, <1>3 DEF Within
<1>4. CASE /\ entry'[n].inFlight = entry[n].inFlight
           /\ Loaded(n) \subseteq Loaded(n)' /\ Flooring(n) \subseteq Flooring(n)'
  <2>1. /\ Cardinality(Loaded(n)) <= Cardinality(Loaded(n)')
        /\ Cardinality(Flooring(n)) <= Cardinality(Flooring(n)')
    BY <1>1, <1>4, Counting
  <2>2. Cardinality(Loaded(n)) \in Nat /\ Cardinality(Flooring(n)) \in Nat
    BY CountedAreDispatches, Counting
  <2> QED
    BY <1>2, <1>4, <2>1, <2>2 DEF RegInv, RegTyped, Entries, Within
<1> QED
  BY <1>3, <1>4

-----------------------------------------------------------------------------
(* A new entry, or none, over whatever was there lets go of the pointers.  *)
LEMMA ReplacedKeeps ==
    ASSUME RegInv, NEW n \in Nodes, Register(n) \/ Evict(n)
    PROVE  RegInv'
<1>1. PICK e \in {NewEntry, NoEntry} : entry' = [entry EXCEPT ![n] = e]
  BY DEF Register, Evict
<1>2. held' = held \ Released(n) /\ disp' = disp
  BY DEF Register, Evict
<1>3. RegTyped'
  <2>1. e \in Entries /\ (e.age = "none" => e = NoEntry)
    <3>1. CASE e = NewEntry
      BY <3>1 DEF Entries, NewEntry, Ages
    <3>2. CASE e = NoEntry
      BY <3>2 DEF Entries, NoEntry
    <3> QED
      BY <3>1, <3>2
  <2>2. entry' \in [Nodes -> Entries]
    BY <1>1, <2>1 DEF RegInv, RegTyped
  <2>3. \A m \in Nodes : entry'[m].age = "none" => entry'[m] = NoEntry
    BY <1>1, <2>1 DEF RegInv, RegTyped
  <2>4. ASSUME NEW d \in held'
        PROVE  disp'[d].at # "idle" /\ entry'[disp'[d].node] # NoEntry
    <3>1. d \in held /\ disp[d].at # "idle" /\ disp[d].node \in Nodes /\ disp[d].node # n
      BY <1>2 DEF RegInv, RegTyped, Released
    <3>2. entry'[disp[d].node] = entry[disp[d].node]
      BY <1>1, <3>1 DEF RegInv, RegTyped
    <3> QED
      BY <1>2, <3>1, <3>2 DEF RegInv, RegTyped, Registered
  <2> QED
    BY <1>2, <2>2, <2>3, <2>4 DEF RegInv, RegTyped, Registered
<1>4. ASSUME NEW m \in Nodes PROVE Within(m)'
  <2>1. CASE m = n
    <3>1. entry'[m].inFlight = 0
      BY <1>1, <2>1 DEF RegInv, RegTyped, NewEntry, NoEntry
    <3> QED
      BY <3>1, ResetOrKept
  <2>2. CASE m # n
    <3>1. entry'[m] = entry[m]
      BY <1>1, <2>2 DEF RegInv, RegTyped
    <3>2. Loaded(m)' = Loaded(m) /\ Flooring(m)' = Flooring(m)
      BY <1>2, <2>2 DEF Loaded, Flooring, At, Released
    <3> QED
      BY <3>1, <3>2, ResetOrKept
  <2> QED
    BY <2>1, <2>2
<1> QED
  BY <1>3, <1>4 DEF RegInv

(* An entry that changes in age or reachability alone keeps its count.     *)
LEMMA MarkedKeeps ==
    ASSUME RegInv, NEW n \in Nodes, Refresh(n) \/ Deregister(n) \/ TimePasses(n)
    PROVE  RegInv'
<1>1. PICK age \in Ages, mark \in BOOLEAN :
          entry' = [entry EXCEPT ![n] = [entry[n] EXCEPT !.age = age, !.unreachable = mark]]
  <2>1. entry[n] \in Entries /\ entry[n].age # "none"
    BY DEF Refresh, Deregister, TimePasses, RegInv, RegTyped, Registered
  <2>2. entry[n].age \in Ages /\ entry[n].unreachable \in BOOLEAN
    BY <2>1 DEF Entries
  <2>3. entry[n] = [entry[n] EXCEPT !.age = entry[n].age]
                 /\ entry[n] = [entry[n] EXCEPT !.unreachable = entry[n].unreachable]
    BY <2>1 DEF Entries
  <2>4. CASE Refresh(n)
    BY <2>4 DEF Refresh, Ages
  <2>5. CASE Deregister(n)
    <3>1. entry' = [entry EXCEPT ![n] = [entry[n] EXCEPT !.age = entry[n].age,
                                                         !.unreachable = TRUE]]
      BY <2>1, <2>5 DEF Deregister, Entries
    <3> QED
      BY <2>2, <3>1
  <2>6. CASE TimePasses(n)
    <3> DEFINE older == IF entry[n].age = "fresh" THEN "stale" ELSE "lapsed"
    <3>1. entry' = [entry EXCEPT ![n] = [entry[n] EXCEPT
                        !.age = older, !.unreachable = entry[n].unreachable]]
      BY <2>1, <2>6 DEF TimePasses, Entries
    <3>2. older \in Ages
      BY DEF Ages
    <3> QED
      BY <2>2, <3>1, <3>2
  <2> QED
    BY <2>4, <2>5, <2>6
<1>2. held' = held /\ disp' = disp
  BY DEF Refresh, Deregister, TimePasses
<1> DEFINE e == [entry[n] EXCEPT !.age = age, !.unreachable = mark]
<1>3. e \in Entries /\ e.age # "none" /\ e.inFlight = entry[n].inFlight
  BY DEF RegInv, RegTyped, Entries, Ages
<1>4. RegTyped'
  <2>1. entry' \in [Nodes -> Entries]
    BY <1>1, <1>3 DEF RegInv, RegTyped
  <2>2. \A m \in Nodes : entry'[m].age = "none" => entry'[m] = NoEntry
    BY <1>1, <1>3 DEF RegInv, RegTyped
  <2>3. \A m \in Nodes : Registered(m) => Registered(m)'
    BY <1>1, <1>3 DEF RegInv, RegTyped, Registered, NoEntry
  <2> QED
    BY <1>2, <2>1, <2>2, <2>3 DEF RegInv, RegTyped
<1>5. ASSUME NEW m \in Nodes PROVE Within(m)'
  <2>1. entry'[m].inFlight = entry[m].inFlight
    BY <1>1, <1>3 DEF RegInv, RegTyped
  <2>2. Loaded(m)' = Loaded(m) /\ Flooring(m)' = Flooring(m)
    BY <1>2 DEF Loaded, Flooring, At
  <2> QED
    BY <2>1, <2>2, ResetOrKept
<1> QED
  BY <1>4, <1>5 DEF RegInv

-----------------------------------------------------------------------------
(* A dispatch that moves without touching an entry, and changes only its   *)
(* own place and pointer.                                                  *)
OnlyMoves(d) ==
    /\ entry' = entry
    /\ disp' \in [Dispatches -> [at : Stages, node : Nodes \cup {0}, failed : BOOLEAN]]
    /\ \A o \in Dispatches : o # d => disp'[o] = disp[o] /\ (o \in held' <=> o \in held)
    /\ held' \subseteq Dispatches
    /\ disp'[d].at # "idle" => disp'[d].node \in Nodes
    /\ d \in held' => disp'[d].at # "idle" /\ entry[disp'[d].node] # NoEntry

(* Such a step keeps the types.                                            *)
LEMMA MovesTyped ==
    ASSUME RegInv, NEW d \in Dispatches, OnlyMoves(d)
    PROVE  RegTyped'
<1>1. \A o \in held' : disp'[o].at # "idle" /\ entry'[disp'[o].node] # NoEntry
  BY DEF OnlyMoves, RegInv, RegTyped, Registered
<1>2. \A o \in Dispatches : disp'[o].at # "idle" => disp'[o].node \in Nodes
  BY DEF OnlyMoves, RegInv, RegTyped
<1> QED
  BY <1>1, <1>2 DEF OnlyMoves, RegInv, RegTyped, Registered

(* It keeps the bounds when the dispatch was not counted, or is counted    *)
(* still, or was at a node whose counter is zero.                          *)
LEMMA MovesKeep ==
    ASSUME RegInv, NEW d \in Dispatches, OnlyMoves(d),
           \A n \in Nodes :
              \/ entry[n].inFlight = 0
              \/ /\ d \in Loaded(n) => d \in Loaded(n)'
                 /\ d \in Flooring(n) => d \in Flooring(n)'
    PROVE  RegInv'
<1>1. ASSUME NEW n \in Nodes PROVE Within(n)'
  <2>1. entry'[n].inFlight = entry[n].inFlight
    BY DEF OnlyMoves
  <2>2. ASSUME NEW o \in Dispatches, o # d
        PROVE  /\ o \in Loaded(n) => o \in Loaded(n)'
               /\ o \in Flooring(n) => o \in Flooring(n)'
    BY <2>2 DEF OnlyMoves, Loaded, Flooring, At
  <2>3. CASE entry[n].inFlight = 0
    BY <2>1, <2>3, ResetOrKept
  <2>4. CASE /\ d \in Loaded(n) => d \in Loaded(n)'
             /\ d \in Flooring(n) => d \in Flooring(n)'
    <3>1. Loaded(n) \subseteq Loaded(n)'
      <4>1. ASSUME NEW o \in Loaded(n) PROVE o \in Loaded(n)'
        <5>1. o \in Dispatches
          BY CountedAreDispatches
        <5> QED
          BY <2>2, <2>4, <5>1
      <4> QED
        BY <4>1
    <3>2. Flooring(n) \subseteq Flooring(n)'
      <4>1. ASSUME NEW o \in Flooring(n) PROVE o \in Flooring(n)'
        <5>1. o \in Dispatches
          BY CountedAreDispatches
        <5> QED
          BY <2>2, <2>4, <5>1
      <4> QED
        BY <4>1
    <3> QED
      BY <2>1, <3>1, <3>2, ResetOrKept
  <2> QED
    BY <2>3, <2>4
<1> QED
  BY <1>1, MovesTyped DEF RegInv

(* The steps of a dispatch that leave the entries alone.                   *)
LEMMA QuietStepsKeep ==
    ASSUME RegInv, NEW d \in Dispatches,
           \/ \E n \in Nodes : Choose(d, n)
           \/ IncrFetch(d) \/ DecrFetch(d)
           \/ \E failed \in BOOLEAN : Deliver(d, failed)
    PROVE  RegInv'
<1> USE DEF Stages
<1>1. ASSUME NEW n \in Nodes, Choose(d, n)
      PROVE  RegInv'
  <2>1. d \notin held
    BY <1>1 DEF Choose, RegInv, RegTyped
  <2>2. OnlyMoves(d)
    BY <1>1, <2>1 DEF Choose, OnlyMoves, RegInv, RegTyped
  <2>3. \A m \in Nodes : d \notin Loaded(m) /\ d \notin Flooring(m)
    BY <2>1 DEF Loaded, Flooring
  <2> QED
    BY <2>2, <2>3, MovesKeep
<1>2. CASE IncrFetch(d)
  <2>1. OnlyMoves(d)
    BY <1>2 DEF IncrFetch, Fetch, Move, Registered, OnlyMoves, RegInv, RegTyped
  <2>2. \A m \in Nodes : d \notin Loaded(m) /\ d \notin Flooring(m)
    BY <1>2 DEF IncrFetch, Loaded, Flooring, At
  <2> QED
    BY <2>1, <2>2, MovesKeep
<1>3. CASE DecrFetch(d)
  <2>1. OnlyMoves(d)
    BY <1>3 DEF DecrFetch, Fetch, Move, Registered, OnlyMoves, RegInv, RegTyped
  <2>2. disp[d].at = "delivered" /\ disp'[d] = [disp[d] EXCEPT !.at = "decrementing"]
    BY <1>3 DEF DecrFetch, Move, RegInv, RegTyped
  <2>3. ASSUME NEW m \in Nodes
        PROVE  \/ entry[m].inFlight = 0
               \/ /\ d \in Loaded(m) => d \in Loaded(m)'
                  /\ d \in Flooring(m) => d \in Flooring(m)'
    <3>1. d \notin Flooring(m)
      BY <2>2 DEF Flooring, At
    <3>2. CASE disp[d].node # m
      BY <3>1, <3>2 DEF Loaded, At
    <3>3. CASE disp[d].node = m /\ ~Registered(m)
      BY <3>3 DEF Registered, NoEntry
    <3>4. CASE disp[d].node = m /\ Registered(m)
      <4>1. d \in held'
        BY <1>3, <3>4 DEF DecrFetch, Fetch
      <4>2. disp'[d].at = "decrementing" /\ disp'[d].node = m
        BY <2>2, <3>4 DEF RegInv, RegTyped
      <4> QED
        BY <3>1, <4>1, <4>2 DEF Loaded, At
    <3> QED
      BY <3>2, <3>3, <3>4
  <2> QED
    BY <2>1, <2>3, MovesKeep
<1>4. ASSUME NEW failed \in BOOLEAN, Deliver(d, failed)
      PROVE  RegInv'
  <2>1. OnlyMoves(d)
    BY <1>4 DEF Deliver, Registered, OnlyMoves, RegInv, RegTyped
  <2>2. /\ disp[d].at = "running" /\ held' = held
        /\ disp'[d].at = "delivered" /\ disp'[d].node = disp[d].node
    BY <1>4 DEF Deliver, RegInv, RegTyped
  <2>3. \A m \in Nodes : /\ d \in Loaded(m) => d \in Loaded(m)'
                         /\ d \notin Flooring(m)
    BY <2>2 DEF Loaded, Flooring, At
  <2> QED
    BY <2>1, <2>3, MovesKeep
<1> QED
  BY <1>1, <1>2, <1>3, <1>4

-----------------------------------------------------------------------------
(* A dispatch that writes the counter of its node through a pointer that   *)
(* is current: the counter becomes k, nothing else changes but its place.  *)
LEMMA CountedTyped ==
    ASSUME RegInv, NEW d \in held, NEW k \in Int, NEW at \in Stages \ {"idle"},
           entry' = [entry EXCEPT ![disp[d].node].inFlight = k],
           Move(d, at), held' = held
    PROVE  /\ RegTyped'
           /\ entry'[disp[d].node].inFlight = k
           /\ \A m \in Nodes : m # disp[d].node => entry'[m] = entry[m]
           /\ disp'[d].at = at
           /\ \A o \in Dispatches : disp'[o].node = disp[o].node
           /\ \A o \in Dispatches : o # d => disp'[o] = disp[o]
<1> DEFINE n == disp[d].node
           e == [entry[n] EXCEPT !.inFlight = k]
<1>1. n \in Nodes /\ entry[n] # NoEntry /\ d \in Dispatches
  BY DEF RegInv, RegTyped, Registered
<1>2. entry[n] \in Entries /\ entry[n].age # "none"
  BY <1>1 DEF RegInv, RegTyped
<1>3. e \in Entries /\ e.age # "none" /\ e.inFlight = k
  BY <1>2 DEF Entries
<1>4. /\ entry' = [entry EXCEPT ![n] = e] /\ entry' \in [Nodes -> Entries]
      /\ \A m \in Nodes : entry'[m] = IF m = n THEN e ELSE entry[m]
  BY <1>1, <1>3 DEF RegInv, RegTyped
<1>5. \A m \in Nodes : Registered(m) => entry'[m] # NoEntry
  BY <1>3, <1>4 DEF Registered, NoEntry
<1>6. \A m \in Nodes : entry'[m].age = "none" => entry'[m] = NoEntry
  BY <1>3, <1>4 DEF RegInv, RegTyped
<1>7. /\ disp' \in [Dispatches -> [at : Stages, node : Nodes \cup {0}, failed : BOOLEAN]]
      /\ disp'[d].at = at
      /\ \A o \in Dispatches : disp'[o].node = disp[o].node
      /\ \A o \in Dispatches : o # d => disp'[o] = disp[o]
  BY <1>1 DEF Move, RegInv, RegTyped
<1>8. RegTyped'
  <2>1. \A o \in Dispatches : disp'[o].at # "idle" => disp'[o].node \in Nodes
    BY <1>1, <1>7 DEF RegInv, RegTyped
  <2>2. \A o \in held' : disp'[o].at # "idle" /\ entry'[disp'[o].node] # NoEntry
    BY <1>1, <1>5, <1>7 DEF RegInv, RegTyped
  <2> QED
    BY <1>4, <1>6, <1>7, <2>1, <2>2 DEF RegInv, RegTyped, Registered
<1> QED
  BY <1>1, <1>3, <1>4, <1>7, <1>8

(* The other nodes do not notice.                                          *)
LEMMA OthersKept ==
    ASSUME RegInv, NEW d \in Dispatches, NEW m \in Nodes, m # disp[d].node,
           entry'[m] = entry[m], held' = held,
           \A o \in Dispatches : disp'[o].node = disp[o].node,
           \A o \in Dispatches : o # d => disp'[o] = disp[o]
    PROVE  Within(m)'
<1>1. Loaded(m)' = Loaded(m) /\ Flooring(m)' = Flooring(m)
  BY DEF Loaded, Flooring, At
<1> QED
  BY <1>1, ResetOrKept

(* IncrInFlight's add: the dispatch is counted from now on, or wrote to an *)
(* entry that the map has let go of.                                       *)
LEMMA IncrAddKeeps ==
    ASSUME RegInv, NEW d \in Dispatches, IncrAdd(d)
    PROVE  RegInv'
<1> USE DEF Stages
<1> DEFINE n == disp[d].node
<1>1. /\ disp[d].at = "incrementing" /\ Move(d, "running") /\ held' = held
      /\ n \in Nodes
  BY DEF IncrAdd, RegInv, RegTyped
<1>2. CASE d \notin held
  <2>1. OnlyMoves(d)
    BY <1>1, <1>2 DEF IncrAdd, Add, Move, OnlyMoves, RegInv, RegTyped
  <2>2. \A m \in Nodes : d \notin Loaded(m) /\ d \notin Flooring(m)
    BY <1>2 DEF Loaded, Flooring
  <2> QED
    BY <2>1, <2>2, MovesKeep
<1>3. CASE d \in held
  <2> DEFINE k == entry[n].inFlight + 1
  <2>1. k \in Int /\ entry[n].inFlight \in Int
    BY <1>1 DEF RegInv, RegTyped, Entries
  <2>2. entry' = [entry EXCEPT ![n].inFlight = k]
    BY <1>3 DEF IncrAdd, Add
  <2>3. /\ RegTyped' /\ entry'[n].inFlight = k
        /\ \A m \in Nodes : m # n => entry'[m] = entry[m]
        /\ disp'[d].at = "running"
        /\ \A o \in Dispatches : disp'[o].node = disp[o].node
        /\ \A o \in Dispatches : o # d => disp'[o] = disp[o]
    <3> HIDE DEF k
    <3> QED
      BY <1>1, <1>3, <2>1, <2>2, CountedTyped
  <2>4. Loaded(n)' = Loaded(n) \cup {d} /\ d \notin Loaded(n) /\ Flooring(n)' = Flooring(n)
    BY <1>1, <1>3, <2>3 DEF Loaded, Flooring, At
  <2>5. Cardinality(Loaded(n)') = Cardinality(Loaded(n)) + 1
    BY <2>4, CountedAreDispatches, Counting, FS_AddElement
  <2>6. Within(n)'
    <3>1. Cardinality(Loaded(n)) \in Nat /\ Cardinality(Flooring(n)) \in Nat
      BY CountedAreDispatches, Counting
    <3> QED
      BY <1>1, <2>1, <2>3, <2>4, <2>5, <3>1 DEF RegInv, Within
  <2>7. \A m \in Nodes : m # n => Within(m)'
    BY <1>1, <2>3, OthersKept
  <2> QED
    BY <2>3, <2>6, <2>7 DEF RegInv
<1> QED
  BY <1>2, <1>3

(* DecrInFlight's add: of a dispatch with a current pointer, which was     *)
(* counted; below zero it owes the counter a Store.                        *)
LEMMA DecrAddKeeps ==
    ASSUME RegInv, NEW d \in Dispatches, DecrAdd(d)
    PROVE  RegInv'
<1> USE DEF Stages
<1> DEFINE n == disp[d].node
           k == entry[n].inFlight + -1
           at == IF d \in held /\ entry[n].inFlight - 1 < 0 THEN "flooring" ELSE "counted"
<1>1. /\ disp[d].at = "decrementing" /\ Move(d, at) /\ held' = held
      /\ n \in Nodes
  BY DEF DecrAdd, RegInv, RegTyped
<1>2. CASE d \notin held
  <2>1. OnlyMoves(d)
    BY <1>1, <1>2 DEF DecrAdd, Add, Move, OnlyMoves, RegInv, RegTyped
  <2>2. \A m \in Nodes : d \notin Loaded(m) /\ d \notin Flooring(m)
    BY <1>2 DEF Loaded, Flooring
  <2> QED
    BY <2>1, <2>2, MovesKeep
<1>3. CASE d \in held
  <2>1. k \in Int /\ entry[n].inFlight \in Int
    BY <1>1 DEF RegInv, RegTyped, Entries
  <2>2. entry' = [entry EXCEPT ![n].inFlight = k]
    BY <1>3 DEF DecrAdd, Add
  <2>3. at \in Stages \ {"idle"} /\ at = (IF k < 0 THEN "flooring" ELSE "counted")
    BY <1>3, <2>1
  <2>4. /\ RegTyped' /\ entry'[n].inFlight = k
        /\ \A m \in Nodes : m # n => entry'[m] = entry[m]
        /\ disp'[d].at = at
        /\ \A o \in Dispatches : disp'[o].node = disp[o].node
        /\ \A o \in Dispatches : o # d => disp'[o] = disp[o]
    <3> HIDE DEF k, at
    <3> QED
      BY <1>1, <1>3, <2>1, <2>2, <2>3, CountedTyped
  <2>5. Loaded(n)' = Loaded(n) \ {d} /\ d \in Loaded(n)
    BY <1>1, <1>3, <2>3, <2>4 DEF Loaded, At
  <2>6. /\ d \notin Flooring(n)
        /\ Flooring(n)' = IF k < 0 THEN Flooring(n) \cup {d} ELSE Flooring(n)
    BY <1>1, <1>3, <2>3, <2>4 DEF Flooring, At
  <2>7. /\ Cardinality(Loaded(n)') = Cardinality(Loaded(n)) - 1
        /\ Cardinality(Loaded(n)) \in Nat /\ Cardinality(Flooring(n)) \in Nat
    BY <2>5, CountedAreDispatches, Counting, FS_RemoveElement
  <2>8. Cardinality(Flooring(n)') = IF k < 0 THEN Cardinality(Flooring(n)) + 1
                                    ELSE Cardinality(Flooring(n))
    BY <2>6, CountedAreDispatches, Counting, FS_AddElement
  <2>9. Within(n)'
    BY <1>1, <2>1, <2>4, <2>7, <2>8 DEF RegInv, Within
  <2>10. \A m \in Nodes : m # n => Within(m)'
    BY <1>1, <2>4, OthersKept
  <2> QED
    BY <2>4, <2>9, <2>10 DEF RegInv
<1> QED
  BY <1>2, <1>3

(* The Store of zero, and the end of the dispatch: whoever loses a place   *)
(* was either not counted, or was the one that owed the Store.             *)
LEMMA DecrStoreKeeps ==
    ASSUME RegInv, NEW d \in Dispatches, DecrStore(d)
    PROVE  RegInv'
<1> USE DEF Stages
<1> DEFINE n == disp[d].node
<1>1. /\ disp[d].at = "flooring" /\ Move(d, "counted") /\ held' = held
      /\ n \in Nodes
  BY DEF DecrStore, RegInv, RegTyped
<1>2. CASE d \notin held
  <2>1. OnlyMoves(d)
    BY <1>1, <1>2 DEF DecrStore, Move, OnlyMoves, RegInv, RegTyped
  <2>2. \A m \in Nodes : d \notin Loaded(m) /\ d \notin Flooring(m)
    BY <1>2 DEF Loaded, Flooring
  <2> QED
    BY <2>1, <2>2, MovesKeep
<1>3. CASE d \in held
  <2>1. entry' = [entry EXCEPT ![n].inFlight = 0]
    BY <1>3 DEF DecrStore
  <2>2. /\ RegTyped' /\ entry'[n].inFlight = 0
        /\ \A m \in Nodes : m # n => entry'[m] = entry[m]
        /\ \A o \in Dispatches : disp'[o].node = disp[o].node
        /\ \A o \in Dispatches : o # d => disp'[o] = disp[o]
    <3>1. 0 \in Int /\ "counted" \in Stages \ {"idle"}
      OBVIOUS
    <3> HIDE DEF Stages
    <3> QED
      BY <1>1, <1>3, <2>1, <3>1, CountedTyped
  <2>3. Within(n)'
    BY <1>1, <2>2, ResetOrKept
  <2>4. \A m \in Nodes : m # n => Within(m)'
    BY <1>1, <2>2, OthersKept
  <2> QED
    BY <2>2, <2>3, <2>4 DEF RegInv
<1> QED
  BY <1>2, <1>3

(* MarkUnreachable leaves every count alone, and the pointer is dropped    *)
(* only after its count was.                                               *)
LEMMA FinishKeeps ==
    ASSUME RegInv, NEW d \in Dispatches, Finish(d)
    PROVE  RegInv'
<1> USE DEF Stages
<1> DEFINE n == disp[d].node
           e == [entry[n] EXCEPT !.unreachable = TRUE]
<1>1. /\ disp[d].at = "counted" /\ disp' = [disp EXCEPT ![d] = IdleDispatch]
      /\ held' = held \ {d} /\ n \in Nodes
  BY DEF Finish, RegInv, RegTyped
<1>2. ASSUME NEW m \in Nodes
      PROVE  /\ entry'[m] = entry[m] \/ (m = n /\ Registered(n) /\ entry'[m] = e)
             /\ entry' \in [Nodes -> Entries]
  <2>1. CASE entry' = entry
    BY <2>1 DEF RegInv, RegTyped
  <2>2. CASE Registered(n) /\ entry' = [entry EXCEPT ![n] = e]
    <3>1. entry[n] \in Entries
      BY <1>1 DEF RegInv, RegTyped
    <3>2. e \in Entries
      BY <3>1 DEF Entries
    <3> QED
      BY <1>1, <2>2, <3>2 DEF RegInv, RegTyped
  <2> QED
    BY <2>1, <2>2 DEF Finish
<1>3. ASSUME NEW m \in Nodes
      PROVE  /\ entry'[m].inFlight = entry[m].inFlight
             /\ entry'[m].age = "none" => entry'[m] = NoEntry
             /\ Registered(m) => entry'[m] # NoEntry
  <2>1. CASE entry'[m] = entry[m]
    BY <2>1 DEF RegInv, RegTyped, Registered
  <2>2. CASE m = n /\ Registered(n) /\ entry'[m] = e
    <3>1. entry[n] \in Entries /\ entry[n].age # "none"
      BY <2>2 DEF RegInv, RegTyped, Registered
    <3>2. e.age = entry[n].age /\ e.inFlight = entry[n].inFlight
      BY <3>1 DEF Entries
    <3>3. NoEntry.age = "none"
      BY DEF NoEntry
    <3> QED
      BY <2>2, <3>1, <3>2, <3>3
  <2> QED
    BY <1>2, <2>1, <2>2
<1>4. RegTyped'
  <2>1. disp' \in [Dispatches -> [at : Stages, node : Nodes \cup {0}, failed : BOOLEAN]]
    BY <1>1 DEF IdleDispatch, RegInv, RegTyped
  <2>2. \A o \in Dispatches : disp'[o].at # "idle" => disp'[o].node \in Nodes
    BY <1>1 DEF IdleDispatch, RegInv, RegTyped
  <2>3. \A o \in held' : disp'[o].at # "idle" /\ entry'[disp'[o].node] # NoEntry
    BY <1>1, <1>3 DEF RegInv, RegTyped
  <2>4. held' \subseteq Dispatches /\ entry' \in [Nodes -> Entries]
    BY <1>1, <1>2 DEF RegInv, RegTyped
  <2> QED
    BY <1>3, <2>1, <2>2, <2>3, <2>4 DEF RegInv, RegTyped, Registered
<1>5. ASSUME NEW m \in Nodes PROVE Within(m)'
  <2>1. Loaded(m)' = Loaded(m) /\ Flooring(m)' = Flooring(m)
    BY <1>1 DEF Loaded, Flooring, At, IdleDispatch, RegInv, RegTyped
  <2> QED
    BY <1>3, <2>1, ResetOrKept
<1> QED
  BY <1>4, <1>5 DEF RegInv

-----------------------------------------------------------------------------
(* An empty registry and idle dispatches.                                  *)
LEMMA RegInvStarts == Init => RegInv
<1> SUFFICES ASSUME Init PROVE RegInv
  OBVIOUS
<1>1. RegTyped
  BY DEF Init, RegTyped, Entries, NoEntry, IdleDispatch, Stages
<1>2. ASSUME NEW n \in Nodes PROVE Within(n)
  <2>1. Loaded(n) = {} /\ Flooring(n) = {} /\ entry[n].inFlight = 0
    BY DEF Init, Loaded, Flooring, NoEntry
  <2> QED
    BY <2>1, FS_EmptySet DEF Within
<1> QED
  BY <1>1, <1>2 DEF RegInv

(* One lemma for each group of actions.                                    *)
LEMMA RegInvStays == ASSUME RegInv, [Next]_vars PROVE RegInv'
<1>1. ASSUME NEW n \in Nodes, Heartbeat(n) \/ LostHeartbeat(n) \/ Evict(n)
      PROVE  RegInv'
  BY <1>1, ReplacedKeeps, MarkedKeeps DEF Heartbeat, LostHeartbeat
<1>2. ASSUME NEW n \in Nodes, Deregister(n) \/ TimePasses(n)
      PROVE  RegInv'
  BY <1>2, MarkedKeeps
<1>3. ASSUME NEW d \in Dispatches,
             \/ \E n \in Nodes : Choose(d, n)
             \/ IncrFetch(d) \/ DecrFetch(d)
             \/ \E failed \in BOOLEAN : Deliver(d, failed)
      PROVE  RegInv'
  BY <1>3, QuietStepsKeep
<1>4. ASSUME NEW d \in Dispatches, IncrAdd(d) \/ DecrAdd(d) \/ DecrStore(d) \/ Finish(d)
      PROVE  RegInv'
  BY <1>4, IncrAddKeeps, DecrAddKeeps, DecrStoreKeeps, FinishKeeps
<1>5. CASE UNCHANGED vars
  <2>1. RegTyped'
    BY <1>5 DEF vars, RegInv, RegTyped, Registered
  <2>2. \A n \in Nodes : Within(n)'
    BY <1>5 DEF vars, RegInv, Within, Loaded, Flooring, At
  <2> QED
    BY <2>1, <2>2 DEF RegInv
<1> QED
  BY <1>1, <1>2, <1>3, <1>4, <1>5 DEF Next

(* So it holds throughout.                                                 *)
LEMMA RegInvAlways == Spec => []RegInv
BY RegInvStarts, RegInvStays, PTL DEF Spec

(* The load counter is never too high, and below zero only for the instant *)
(* before its floor is restored, although IncrInFlight and DecrInFlight    *)
(* each fetch their pointer under the mutex and write through it after.    *)
THEOREM LoadStaysBounded == Spec => []LoadBounds
<1>1. ASSUME RegInv, NEW n \in Nodes
      PROVE  /\ entry[n].inFlight
                    <= Cardinality(At(n, {"running", "delivered", "decrementing"}))
             /\ entry[n].inFlight >= -Cardinality(At(n, {"flooring"}) \cap held)
  <2> DEFINE here == At(n, {"running", "delivered", "decrementing"})
  <2>1. here \in SUBSET Dispatches /\ Loaded(n) \in SUBSET here
    BY DEF At, Loaded
  <2>2. Cardinality(Loaded(n)) <= Cardinality(here)
    BY <2>1, Counting
  <2>3. Cardinality(Loaded(n)) \in Nat /\ Cardinality(here) \in Nat
    BY <2>1, CountedAreDispatches, Counting
  <2>4. entry[n].inFlight \in Int
    BY <1>1 DEF RegInv, RegTyped, Entries
  <2> QED
    BY <1>1, <2>2, <2>3, <2>4 DEF RegInv, Within, Flooring
<1>2. RegInv => LoadBounds
  BY <1>1 DEF LoadBounds, LoadNeverOverstated, FloorIsRestored
<1> QED
  BY <1>2, RegInvAlways, PTL

(* Entries and dispatches are well typed, the counter within the number of *)
(* dispatches on either side of zero.                                      *)
THEOREM TypeCorrect == Spec => []TypeOK
<1>1. ASSUME RegInv, NEW n \in Nodes
      PROVE  entry[n] \in [age : Ages, unreachable : BOOLEAN,
                           inFlight : -Cardinality(Dispatches) .. Cardinality(Dispatches)]
                             \cup {NoEntry}
  <2>1. /\ Cardinality(Loaded(n)) <= Cardinality(Dispatches)
        /\ Cardinality(Flooring(n)) <= Cardinality(Dispatches)
        /\ Cardinality(Loaded(n)) \in Nat /\ Cardinality(Flooring(n)) \in Nat
        /\ Cardinality(Dispatches) \in Nat
    BY CountedAreDispatches, Counting
  <2>2. entry[n] \in Entries
    BY <1>1 DEF RegInv, RegTyped
  <2>3. entry[n].inFlight \in -Cardinality(Dispatches) .. Cardinality(Dispatches)
    BY <1>1, <2>1, <2>2 DEF RegInv, Within, Entries
  <2>4. entry[n].age \in Ages \/ entry[n] = NoEntry
    BY <1>1, <2>2 DEF RegInv, RegTyped, Entries
  <2> QED
    BY <2>2, <2>3, <2>4 DEF Entries
<1>2. RegInv => TypeOK
  BY <1>1 DEF RegInv, RegTyped, TypeOK
<1> QED
  BY <1>2, RegInvAlways, PTL

-----------------------------------------------------------------------------
(* A set of node numbers has a least one.                                  *)
LEMMA HasLeast ==
    ASSUME NEW S \in SUBSET Nat, S # {}
    PROVE  \E x \in S : \A y \in S : x <= y
<1> DEFINE R == OpToRel(<, Nat)
<1>1. IsWellFoundedOn(R, Nat)
  BY NatLessThanWellFounded
<1>2. R = {ss \in Nat \X Nat : ss[1] < ss[2]}
  BY DEF OpToRel
<1> HIDE DEF R
<1>3. PICK x \in S : \A y \in S : ~(<<y, x>> \in R)
  BY <1>1, WFMin
<1>4. ASSUME NEW y \in S, y < x
      PROVE  <<y, x>> \in R
  BY <1>2, <1>4
<1>5. \A y \in S : ~(y < x)
  BY <1>3, <1>4
<1> QED
  BY <1>5

(* Whatever is registered, stale, unreachable or evicted: of the live      *)
(* registrations of a ring the lowest one is the only candidate.           *)
THEOREM OneCandidatePerRing == Spec => []OneOfEachRing
<1>1. ASSUME NEW l \in Ring, isLive(l)
      PROVE  Cardinality(Candidates \cap Ring) = 1
  <2> DEFINE Live == {n \in Ring : isLive(n)}
  <2>1. Ring \subseteq Nodes /\ Live \in SUBSET Nat /\ Live # {}
    BY <1>1, RegistryConstants
  <2>2. PICK m \in Live : \A n \in Live : m <= n
    BY <2>1, HasLeast
  <2>3. \A n \in Live : n \in clusterStandbyNodeIDs <=> n # m
    BY <2>1, <2>2 DEF clusterStandbyNodeIDs
  <2>4. Candidates \cap Ring = {m}
    BY <2>1, <2>2, <2>3 DEF Candidates
  <2> QED
    BY <2>4, FS_Singleton
<1>2. OneOfEachRing
  BY <1>1 DEF OneOfEachRing
<1> QED
  BY <1>2, PTL

-----------------------------------------------------------------------------
(* The capacity that admission uses stays between its two limits.          *)
LEMMA ClampBounds ==
    ASSUME NEW v \in Int
    PROVE  clampInt(v, MinCapacity, MaxCapacity) \in MinCapacity .. MaxCapacity
BY QueueConstants DEF clampInt

(* currentCapacity is the clamped one or, with no report seen, the initial.*)
LEMMA CapacityBounds ==
    ASSUME seen = None \/ seen \subseteq Fleet
    PROVE  capacity \in MinCapacity .. MaxCapacity
<1>1. CASE seen = None
  BY <1>1, ClampBounds, QueueConstants DEF capacity
<1>2. CASE seen # None
  <2>1. Cardinality(seen) \in Nat
    BY <1>2, QueueConstants, FS_Subset, FS_CardinalityType
  <2>2. Cardinality(seen \cap Benchmarked) \in Nat
    <3>1. seen \cap Benchmarked \in SUBSET Fleet
      BY <1>2
    <3> QED
      BY <3>1, QueueConstants, FS_Subset, FS_CardinalityType
  <2> DEFINE through == (Tps * Cardinality(seen \cap Benchmarked)) \div TpsPerSlot
             floor == NodeFloor * Cardinality(seen)
  <2>3. through \in Int
    <3>1. Tps * Cardinality(seen \cap Benchmarked) \in Nat
      BY <2>2, QueueConstants
    <3> QED
      BY <3>1, QueueConstants
  <2>4. floor \in Int
    BY <2>1, QueueConstants
  <2> HIDE DEF through, floor
  <2>5. (IF through < floor THEN floor ELSE through) \in Int
    BY <2>3, <2>4
  <2>6. capacity = clampInt(IF through < floor THEN floor ELSE through, MinCapacity, MaxCapacity)
    BY <1>2 DEF capacity, ComputeQueueCapacity, through, floor
  <2> QED
    BY <2>5, <2>6, ClampBounds
<1> QED
  BY <1>1, <1>2

-----------------------------------------------------------------------------
Callings == {"new", "admitted", "refused", "queued", "canceled"} \cup Verdicts
Working == [at : {"judging", "dispatching", "waiting"}, job : Callers]

(* The parts of JqTypeOK that steps build.                                   *)
Typed ==
    /\ caller \in [Callers -> Callings]
    /\ gone \subseteq Callers
    /\ expired \subseteq Callers
    /\ ch \in Seq(Callers) /\ Len(ch) <= MaxCapacity
    /\ result \in [Callers -> Verdicts \cup {None}]
    /\ worker \in [Workers -> Working \cup {Idle, Stopped}]
    /\ seen = None \/ seen \subseteq Fleet
    /\ stopped \in BOOLEAN

Unsent(c) == caller[c] \in {"new", "admitted", "refused"}

NotQueued(c) == \A i \in DOMAIN ch : ch[i] # c
QueuedOnce(c) ==
    \E i \in DOMAIN ch : ch[i] = c /\ \A j \in DOMAIN ch : ch[j] = c => j = i
NotWorkedOn(c) == \A w \in Workers : worker[w].job # c
WorkedOnOnce(c) ==
    \E w \in Workers : worker[w].job = c /\ \A v \in Workers : worker[v].job = c => v = w

(* JobInOnePlace without counting.                                         *)
OnePlace(c) ==
    IF Unsent(c)
    THEN NotQueued(c) /\ NotWorkedOn(c) /\ result[c] = None
    ELSE \/ QueuedOnce(c)  /\ NotWorkedOn(c)  /\ result[c] = None
         \/ NotQueued(c)   /\ WorkedOnOnce(c) /\ result[c] = None
         \/ NotQueued(c)   /\ NotWorkedOn(c)  /\ result[c] # None

QInv == Typed /\ \A c \in Callers : OnePlace(c)

(* The counts of places.                                                   *)
LEMMA QueueCount ==
    ASSUME NEW c \in Callers
    PROVE  LET n == Cardinality({i \in DOMAIN ch : ch[i] = c})
           IN  (NotQueued(c) => n = 0) /\ (QueuedOnce(c) => n = 1)
<1> DEFINE S == {i \in DOMAIN ch : ch[i] = c}
<1>1. NotQueued(c) => S = {}
  BY DEF NotQueued
<1>2. QueuedOnce(c) => \E i : S = {i}
  BY DEF QueuedOnce
<1> HIDE DEF S
<1>3. (S = {} => Cardinality(S) = 0) /\ (\A i : S = {i} => Cardinality(S) = 1)
  BY FS_EmptySet, FS_Singleton
<1>4. (NotQueued(c) => Cardinality(S) = 0) /\ (QueuedOnce(c) => Cardinality(S) = 1)
  BY <1>1, <1>2, <1>3
<1> QED
  BY <1>4 DEF S

(* The workers that hold a job, counted.                                   *)
LEMMA WorkCount ==
    ASSUME NEW c \in Callers
    PROVE  LET n == Cardinality({w \in Workers : worker[w].job = c})
           IN  (NotWorkedOn(c) => n = 0) /\ (WorkedOnOnce(c) => n = 1)
<1> DEFINE S == {w \in Workers : worker[w].job = c}
<1>1. NotWorkedOn(c) => S = {}
  BY DEF NotWorkedOn
<1>2. WorkedOnOnce(c) => \E w : S = {w}
  BY DEF WorkedOnOnce
<1> HIDE DEF S
<1>3. (S = {} => Cardinality(S) = 0) /\ (\A w : S = {w} => Cardinality(S) = 1)
  BY FS_EmptySet, FS_Singleton
<1>4. (NotWorkedOn(c) => Cardinality(S) = 0) /\ (WorkedOnOnce(c) => Cardinality(S) = 1)
  BY <1>1, <1>2, <1>3
<1> QED
  BY <1>4 DEF S

-----------------------------------------------------------------------------
(* At the start nobody has sent a job.                                     *)
LEMMA QInvStarts == JqInit => QInv
<1> SUFFICES ASSUME JqInit PROVE QInv
  OBVIOUS
<1>1. Typed
  <2>1. <<>> \in Seq(Callers) /\ Len(<<>>) <= MaxCapacity
    BY QueueConstants
  <2>2. worker \in [Workers -> Working \cup {Idle, Stopped}]
    BY DEF JqInit
  <2>3. caller \in [Callers -> Callings] /\ result \in [Callers -> Verdicts \cup {None}]
    BY DEF JqInit, Callings
  <2> QED
    BY <2>1, <2>2, <2>3 DEF JqInit, Typed
<1>2. \A c \in Callers : OnePlace(c)
  <2> TAKE c \in Callers
  <2>1. Unsent(c) /\ result[c] = None
    BY DEF JqInit, Unsent
  <2>2. NotQueued(c)
    BY DEF JqInit, NotQueued
  <2>3. NotWorkedOn(c)
    BY QueueConstants DEF JqInit, NotWorkedOn, Idle
  <2> QED
    BY <2>1, <2>2, <2>3 DEF OnePlace
<1> QED
  BY <1>1, <1>2 DEF QInv

(* What a caller does on its own side, without entering or leaving a place. *)
LEMMA CallerKeeps ==
    ASSUME QInv, NEW c \in Callers, NEW to \in Callings,
           caller' = [caller EXCEPT ![c] = to],
           to \in {"new", "admitted", "refused"} <=> Unsent(c),
           gone' \subseteq Callers, expired' \subseteq Callers,
           UNCHANGED <<ch, result, worker, seen, stopped>>
    PROVE  QInv'
<1>1. Typed'
  BY DEF QInv, Typed
<1>2. \A d \in Callers : Unsent(d)' <=> Unsent(d)
  BY DEF QInv, Typed, Unsent
<1> QED
  BY <1>1, <1>2 DEF QInv, OnePlace, NotQueued, QueuedOnce, NotWorkedOn, WorkedOnOnce

(* Admission decides on the caller's side only.                            *)
LEMMA AdmitKeeps == ASSUME QInv, NEW c \in Callers, Admit(c) PROVE QInv'
<1>1. PICK to \in {"admitted", "refused"} : caller' = [caller EXCEPT ![c] = to]
  BY DEF Admit
<1> QED
  BY <1>1, CallerKeeps DEF Admit, Unsent, Callings, QInv, Typed

(* An appended job is in the channel once, as it was nowhere before.       *)
LEMMA SendKeeps == ASSUME QInv, NEW c \in Callers, Send(c) PROVE QInv'
<1>1. CASE UNCHANGED ch
  BY <1>1, CallerKeeps DEF Send, Unsent, Callings, QInv, Typed
<1>2. CASE /\ Len(ch) < MaxCapacity /\ ch' = Append(ch, c)
           /\ caller' = [caller EXCEPT ![c] = "queued"]
  <2>1. UNCHANGED <<gone, expired, result, worker, seen, stopped>> /\ Unsent(c)
    BY DEF Send, Unsent
  <2>2. ch \in Seq(Callers) /\ Len(ch) \in Nat
    BY DEF QInv, Typed
  <2>3. /\ ch' \in Seq(Callers) /\ Len(ch') = Len(ch) + 1 /\ ch'[Len(ch) + 1] = c
        /\ \A i \in 1..Len(ch) : ch'[i] = ch[i]
        /\ DOMAIN ch = 1..Len(ch) /\ DOMAIN ch' = 1..(Len(ch) + 1)
    BY <1>2, <2>2
  <2>4. Typed'
    BY <1>2, <2>1, <2>2, <2>3, QueueConstants DEF QInv, Typed, Callings
  <2>5. QueuedOnce(c)' /\ NotWorkedOn(c)' /\ result'[c] = None /\ ~Unsent(c)'
    <3>1. NotQueued(c) /\ NotWorkedOn(c) /\ result[c] = None
      BY <2>1 DEF QInv, OnePlace
    <3>2. QueuedOnce(c)'
      BY <2>2, <2>3, <3>1 DEF NotQueued, QueuedOnce
    <3>3. ~Unsent(c)'
      BY <1>2 DEF QInv, Typed, Unsent
    <3> QED
      BY <2>1, <3>1, <3>2, <3>3 DEF NotWorkedOn
  <2>6. ASSUME NEW d \in Callers, d # c PROVE OnePlace(d)'
    <3>0. \A i : (i \in DOMAIN ch' /\ ch'[i] = d) <=> (i \in DOMAIN ch /\ ch[i] = d)
      BY <2>2, <2>3, <2>6
    <3>1. NotQueued(d)' <=> NotQueued(d)
      BY <3>0 DEF NotQueued
    <3>2. QueuedOnce(d)' <=> QueuedOnce(d)
      BY <3>0, Zenon DEF QueuedOnce
    <3>3. Unsent(d)' <=> Unsent(d)
      BY <1>2, <2>6 DEF QInv, Typed, Unsent
    <3> QED
      BY <2>1, <3>1, <3>2, <3>3 DEF QInv, OnePlace, NotWorkedOn, WorkedOnOnce
  <2> QED
    BY <2>4, <2>5, <2>6 DEF QInv, OnePlace
<1> QED
  BY <1>1, <1>2 DEF Send

(* A caller that leaves takes its result or leaves it in the slot.         *)
LEMMA ReturnKeeps == ASSUME QInv, NEW c \in Callers, Return(c) PROVE QInv'
<1>1. PICK to \in Verdicts \cup {"canceled"} : caller' = [caller EXCEPT ![c] = to]
  BY DEF Return, QInv, Typed
<1>2. caller[c] = "queued" /\ gone' \subseteq Callers /\ expired' \subseteq Callers
      /\ UNCHANGED <<ch, result, worker, seen, stopped>>
  BY DEF Return, QInv, Typed
<1> QED
  BY <1>1, <1>2, CallerKeeps DEF Unsent, Callings, Verdicts
(* Contexts, the registry and shutdown leave jobs where they are.          *)
LEMMA OthersKeep ==
    ASSUME QInv, gone' \subseteq Callers, expired' \subseteq Callers,
           UNCHANGED <<caller, ch, result, worker>>,
           seen' = None \/ seen' \subseteq Fleet, stopped' \in BOOLEAN
    PROVE  QInv'
BY DEF QInv, Typed, OnePlace, Unsent, NotQueued, QueuedOnce, NotWorkedOn, WorkedOnOnce

-----------------------------------------------------------------------------
(* The job that is taken leaves the channel, in which it was once, for the *)
(* worker; the others move up by one.                                      *)
LEMMA TakeKeeps == ASSUME QInv, NEW w \in Workers, Take(w) PROVE QInv'
<1>0. PICK c \in Callers : c = Head(ch)
  BY DEF Take, QInv, Typed
<1>1. /\ worker[w] = Idle /\ ch # <<>> /\ ch' = Tail(ch)
      /\ worker' = [worker EXCEPT ![w] = [at |-> "judging", job |-> c]]
      /\ UNCHANGED <<caller, gone, expired, result, seen, stopped>>
  BY <1>0 DEF Take
<1>2. /\ ch \in Seq(Callers) /\ Len(ch) \in Nat /\ Len(ch) >= 1 /\ c = ch[1] /\ c \in Callers
      /\ ch' \in Seq(Callers) /\ Len(ch') = Len(ch) - 1
      /\ \A i \in 1..(Len(ch) - 1) : ch'[i] = ch[i + 1]
      /\ DOMAIN ch = 1..Len(ch) /\ DOMAIN ch' = 1..(Len(ch) - 1)
  BY <1>0, <1>1 DEF QInv, Typed
<1>3. /\ worker \in [Workers -> Working \cup {Idle, Stopped}]
      /\ worker' \in [Workers -> Working \cup {Idle, Stopped}]
      /\ worker'[w].job = c /\ worker[w].job = None
      /\ \A v \in Workers : v # w => worker'[v] = worker[v]
  BY <1>1, <1>2 DEF QInv, Typed, Working, Idle
<1>4. Typed'
  BY <1>1, <1>2, <1>3, QueueConstants DEF QInv, Typed
<1>5. \A d \in Callers : d # None
  BY QueueConstants
<1>6. OnePlace(c)'
  <2>1. 1 \in DOMAIN ch /\ ch[1] = c
    BY <1>2
  <2>2. ~NotQueued(c)
    BY <2>1 DEF NotQueued
  <2>3. ~Unsent(c) /\ QueuedOnce(c) /\ NotWorkedOn(c) /\ result[c] = None
    BY <1>2, <2>2 DEF QInv, OnePlace
  <2>4. \A j \in DOMAIN ch : ch[j] = c => j = 1
    BY <2>1, <2>3 DEF QueuedOnce
  <2>5. NotQueued(c)'
    BY <1>2, <2>4 DEF NotQueued
  <2>6. WorkedOnOnce(c)'
    BY <1>3, <2>3 DEF WorkedOnOnce, NotWorkedOn
  <2>7. ~Unsent(c)' /\ result'[c] = None
    BY <1>1, <2>3 DEF Unsent
  <2> QED
    BY <2>5, <2>6, <2>7 DEF OnePlace
<1>7. ASSUME NEW d \in Callers, d # c PROVE OnePlace(d)'
  <2>1. \A i : (i \in DOMAIN ch' /\ ch'[i] = d) => (i + 1 \in DOMAIN ch /\ ch[i + 1] = d)
    BY <1>2
  <2>2. \A i : (i \in DOMAIN ch /\ ch[i] = d) => (i - 1 \in DOMAIN ch' /\ ch'[i - 1] = d)
    BY <1>2, <1>7
  <2>3. NotQueued(d) => NotQueued(d)'
    BY <2>1 DEF NotQueued
  <2>4. QueuedOnce(d) => QueuedOnce(d)'
    <3>1. SUFFICES ASSUME QueuedOnce(d) PROVE QueuedOnce(d)'
      OBVIOUS
    <3>2. PICK i \in DOMAIN ch : ch[i] = d /\ \A j \in DOMAIN ch : ch[j] = d => j = i
      BY <3>1 DEF QueuedOnce
    <3>3. i - 1 \in DOMAIN ch' /\ ch'[i - 1] = d
      BY <2>2, <3>2
    <3>4. \A j \in DOMAIN ch' : ch'[j] = d => j = i - 1
      BY <1>2, <2>1, <3>2
    <3> QED
      BY <3>3, <3>4 DEF QueuedOnce
  <2>5. \A v \in Workers : worker'[v].job = d <=> worker[v].job = d
    BY <1>3, <1>5, <1>7
  <2>6. (NotWorkedOn(d)' <=> NotWorkedOn(d)) /\ (WorkedOnOnce(d)' <=> WorkedOnOnce(d))
    BY <2>5, Zenon DEF NotWorkedOn, WorkedOnOnce
  <2>7. (Unsent(d)' <=> Unsent(d)) /\ result'[d] = result[d]
    BY <1>1 DEF Unsent
  <2> QED
    BY <2>3, <2>4, <2>6, <2>7 DEF QInv, OnePlace
<1> QED
  BY <1>4, <1>6, <1>7 DEF QInv

(* A worker that keeps its job, or has none, is where it was.              *)
LEMMA WorkerMoves ==
    ASSUME QInv, NEW w \in Workers, NEW to \in Working \cup {Stopped},
           worker' = [worker EXCEPT ![w] = to], to.job = worker[w].job,
           UNCHANGED <<caller, gone, expired, ch, result, seen, stopped>>
    PROVE  QInv'
<1>1. Typed'
  BY DEF QInv, Typed
<1>2. \A v \in Workers : worker'[v].job = worker[v].job
  BY DEF QInv, Typed
<1>3. ASSUME NEW d \in Callers
      PROVE  (NotWorkedOn(d)' <=> NotWorkedOn(d)) /\ (WorkedOnOnce(d)' <=> WorkedOnOnce(d))
  <2>1. \A v \in Workers : worker'[v].job = d <=> worker[v].job = d
    BY <1>2
  <2> QED
    BY <2>1, Zenon DEF NotWorkedOn, WorkedOnOnce
<1> QED
  BY <1>1, <1>3 DEF QInv, OnePlace, Unsent, NotQueued, QueuedOnce

(* An answered job leaves its worker for the result slot.                  *)
LEMMA AnswerKeeps ==
    ASSUME QInv, NEW w \in Workers, worker[w] \in Working, NEW v \in Verdicts, Answer(w, v)
    PROVE  QInv'
<1>1. PICK c \in Callers : c = worker[w].job
  BY DEF Working
<1>2. /\ result[c] = None /\ result' = [result EXCEPT ![c] = v]
      /\ worker' = [worker EXCEPT ![w] = Idle]
      /\ UNCHANGED <<caller, gone, expired, ch, seen, stopped>>
  BY <1>1 DEF Answer
<1>3. worker[w].job = c
  BY <1>1
<1>4. Typed'
  BY <1>1, <1>2 DEF QInv, Typed
<1>5. v # None /\ \A d \in Callers : d # None
  BY QueueConstants DEF Verdicts
<1>6. worker'[w].job = None /\ \A u \in Workers : u # w => worker'[u] = worker[u]
  BY <1>2 DEF QInv, Typed, Idle
<1>7. OnePlace(c)'
  <2>1. ~NotWorkedOn(c)
    BY <1>3 DEF NotWorkedOn
  <2>2. ~Unsent(c) /\ NotQueued(c) /\ WorkedOnOnce(c)
    BY <1>1, <1>2, <2>1 DEF QInv, OnePlace
  <2>3. NotWorkedOn(c)'
    BY <1>3, <1>5, <1>1, <1>6, <2>2 DEF WorkedOnOnce, NotWorkedOn
  <2>4. result'[c] # None
    BY <1>1, <1>2, <1>5 DEF QInv, Typed
  <2>5. ~Unsent(c)' /\ NotQueued(c)'
    BY <1>2, <2>2 DEF Unsent, NotQueued
  <2> QED
    BY <2>3, <2>4, <2>5 DEF OnePlace
<1>8. ASSUME NEW d \in Callers, d # c PROVE OnePlace(d)'
  <2>1. \A u \in Workers : worker'[u].job = d <=> worker[u].job = d
    BY <1>3, <1>5, <1>6, <1>8
  <2>2. (NotWorkedOn(d)' <=> NotWorkedOn(d)) /\ (WorkedOnOnce(d)' <=> WorkedOnOnce(d))
    BY <2>1, Zenon DEF NotWorkedOn, WorkedOnOnce
  <2>3. result'[d] = result[d]
    BY <1>2, <1>8 DEF QInv, Typed
  <2> QED
    BY <1>2, <2>2, <2>3 DEF QInv, OnePlace, Unsent, NotQueued, QueuedOnce
<1> QED
  BY <1>4, <1>7, <1>8 DEF QInv

(* A worker's step keeps its job, or answers it once.                      *)
LEMMA WorkerKeeps == ASSUME QInv, NEW w \in Workers, WorkerStep(w) PROVE QInv'
<1>0. worker[w] \in Working \cup {Idle, Stopped}
  BY DEF QInv, Typed
<1>1. CASE Take(w)
  BY <1>1, TakeKeeps
<1>2. CASE WorkerStops(w)
  <2>1. Stopped.job = worker[w].job
    BY <1>2 DEF WorkerStops, Idle, Stopped
  <2> QED
    BY <1>2, <2>1, WorkerMoves DEF WorkerStops
<1>3. ASSUME worker[w].at \in {"judging", "dispatching", "waiting"}
      PROVE  worker[w] \in Working
  BY <1>0, <1>3 DEF Idle, Stopped
<1>4. ASSUME worker[w] \in Working, NEW at \in {"judging", "dispatching", "waiting"},
             worker' = [worker EXCEPT ![w].at = at],
             UNCHANGED <<caller, gone, expired, ch, result, seen, stopped>>
      PROVE  QInv'
  <2>1. /\ [worker[w] EXCEPT !.at = at] \in Working
        /\ [worker[w] EXCEPT !.at = at].job = worker[w].job
    BY <1>4 DEF Working
  <2>2. worker' = [worker EXCEPT ![w] = [worker[w] EXCEPT !.at = at]]
    BY <1>4
  <2> QED
    BY <1>4, <2>1, <2>2, WorkerMoves
<1>5. CASE Judge(w)
  <2>1. worker[w] \in Working
    BY <1>3, <1>5 DEF Judge
  <2> QED
    BY <1>4, <1>5, <2>1, AnswerKeeps DEF Judge, Verdicts
<1>6. CASE Dispatched(w)
  BY <1>3, <1>6, AnswerKeeps DEF Dispatched, Verdicts
<1>7. CASE DispatchFails(w)
  BY <1>3, <1>4, <1>7 DEF DispatchFails
<1>8. CASE BackOffEnds(w)
  <2>1. worker[w] \in Working
    BY <1>3, <1>8 DEF BackOffEnds
  <2> QED
    BY <1>4, <1>8, <2>1, AnswerKeeps DEF BackOffEnds, Verdicts
<1> QED
  BY <1>1, <1>2, <1>5, <1>6, <1>7, <1>8 DEF WorkerStep

(* Every step leaves each job in one place.                                *)
LEMMA QInvStays == ASSUME QInv, [JqNext]_jqVars PROVE QInv'
<1>1. ASSUME NEW c \in Callers,
             Admit(c) \/ Send(c) \/ Return(c) \/ CallerGoes(c) \/ DeadlinePasses(c)
      PROVE  QInv'
  <2>1. CASE CallerGoes(c) \/ DeadlinePasses(c)
    BY <2>1, OthersKeep DEF CallerGoes, DeadlinePasses, QInv, Typed
  <2> QED
    BY <1>1, <2>1, AdmitKeeps, SendKeeps, ReturnKeeps
<1>2. ASSUME NEW w \in Workers, WorkerStep(w) PROVE QInv'
  BY <1>2, WorkerKeeps
<1>3. ASSUME NEW nodes \in SUBSET Fleet, Retarget(nodes) PROVE QInv'
  BY <1>3, OthersKeep DEF Retarget, QInv, Typed
<1>4. CASE Shutdown
  BY <1>4, OthersKeep DEF Shutdown, QInv, Typed
<1>5. CASE UNCHANGED jqVars
  BY <1>5, OthersKeep DEF jqVars, QInv, Typed
<1> QED
  BY <1>1, <1>2, <1>3, <1>4, <1>5 DEF JqNext, WorkerStep

(* So it is there throughout.                                              *)
LEMMA QInvAlways == JqSpec => []QInv
BY QInvStarts, QInvStays, PTL DEF JqSpec

(* The queue's state stays well typed: the channel never holds more than it *)
(* was made for, and admission's capacity stays between its limits.         *)
THEOREM QueueTypeCorrect == JqSpec => []JqTypeOK
<1>1. QInv => JqTypeOK
  BY CapacityBounds DEF QInv, Typed, JqTypeOK, Callings, Working
<1> QED
  BY <1>1, QInvAlways, PTL

(* No job is in two places: no two workers run it, and no worker meets a    *)
(* result slot that is taken.                                               *)
THEOREM NeverTwice == JqSpec => []JobInOnePlace
<1>1. ASSUME QInv, NEW c \in Callers
      PROVE  Places(c) = IF Unsent(c) THEN 0 ELSE 1
  <2> DEFINE q == Cardinality({i \in DOMAIN ch : ch[i] = c})
             k == Cardinality({w \in Workers : worker[w].job = c})
  <2>1. (NotQueued(c) => q = 0) /\ (QueuedOnce(c) => q = 1)
    BY QueueCount
  <2>2. (NotWorkedOn(c) => k = 0) /\ (WorkedOnOnce(c) => k = 1)
    BY WorkCount
  <2>3. Places(c) = q + k + (IF result[c] = None THEN 0 ELSE 1)
    BY DEF Places
  <2> HIDE DEF q, k
  <2> QED
    BY <1>1, <2>1, <2>2, <2>3 DEF QInv, OnePlace
<1>2. QInv => JobInOnePlace
  BY <1>1 DEF JobInOnePlace, Unsent
<1> QED
  BY <1>2, QInvAlways, PTL
=============================================================================
