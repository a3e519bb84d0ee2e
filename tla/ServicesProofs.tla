---------------------------- MODULE ServicesProofs ---------------------------
(***************************************************************************)
(* Proofs about the components of MCServices, each for any values of its   *)
(* constants: Placement, Credentials, Deploy, Directory and, for every     *)
(* document, fleet, hint, ring and schedule, the algorithms of Planning.   *)
(***************************************************************************)
EXTENDS MCServices, Sums

(* A reservation is unused until it is gone, and a job that was sent on one *)
(* has the target that the reservation was made for.                       *)
TicketInv ==
    /\ \A t \in Tickets : /\ ticket[t].state # "gone" => ticket[t].used = 0
                          /\ ticket[t].used <= 1
                          /\ ticket[t].state \in {"held", "stale"} => ticket[t].target.node \in Hosts
    /\ \A c \in Calls : call[c].ticket # NoHost =>
         /\ call[c].ticket \in Tickets
         /\ ticket[call[c].ticket].state = "gone"
         /\ call[c].target = ticket[call[c].ticket].target

(* Of one call h and the nodes d that it saw down: every node that is down *)
(* now is in d, and so is every one that was passed over.                  *)
CallInv(h, d) ==
    /\ h.stage \in {"resolve", "resolved"} => \A n \in Hosts : ~IsLive(n) => n \in d
    /\ h.stage \notin {"resolve", "resolved"} => h.next = 1
    /\ h.next <= Len(h.nodes) + 1
    /\ h.stage = "resolved" => h.next <= Len(h.nodes)
    /\ \A i \in 1..h.next - 1 : h.nodes[i] \in d
    /\ h.stage = "sent" => h.target.node \in Hosts

PmInv ==
    /\ PmTypeOK
    /\ \A n \in Hosts : host[n].reg <= events + 1
    /\ TicketInv
    /\ \A c \in Calls : CallInv(call[c], down[c])

(* Orders are the short sequences of hosts.                                *)
LEMMA OrdersAreShort ==
    /\ \A q \in Orders : q \in Seq(Hosts) /\ Len(q) <= MaxRedundancy + 1
    /\ \A q \in Seq(Hosts) : Len(q) <= MaxRedundancy + 1 => q \in Orders
<1> USE PlacementConstants
<1>1. ASSUME NEW q \in Orders PROVE q \in Seq(Hosts) /\ Len(q) <= MaxRedundancy + 1
  <2>1. PICK k \in 0..MaxRedundancy + 1 : q \in [1..k -> Hosts]
    BY DEF Orders
  <2> QED
    BY <2>1
<1>2. ASSUME NEW q \in Seq(Hosts), Len(q) <= MaxRedundancy + 1 PROVE q \in Orders
  <2>1. Len(q) \in 0..MaxRedundancy + 1 /\ q \in [1..Len(q) -> Hosts]
    BY <1>2
  <2> QED
    BY <2>1 DEF Orders
<1> QED
  BY <1>1, <1>2

(* A list may be empty.                                                    *)
LEMMA NoOrder == <<>> \in Orders
<1>1. <<>> \in Seq(Hosts) /\ Len(<<>>) = 0
  OBVIOUS
<1>2. 0 <= MaxRedundancy + 1
  BY PlacementConstants
<1> QED
  BY <1>1, <1>2, OrdersAreShort

(* A call at rest is well formed.                                          *)
LEMMA WaitingTyped == Waiting \in Handling /\ \A d : CallInv(Waiting, d)
<1> USE PlacementConstants
<1>1. <<>> \in Orders
  BY NoOrder
<1> QED
  BY <1>1 DEF Waiting, Handling, CallInv, Targets, NoTarget, NoHost

(* With no reservation and no call the invariant holds.                    *)
LEMMA PmInvStarts == PmInit => PmInv
<1> SUFFICES ASSUME PmInit PROVE PmInv
  OBVIOUS
<1> USE PlacementConstants
<1>1. PmTypeOK
  <2>1. host \in [Hosts -> Entries]
    BY DEF PmInit, Entries
  <2>2. ticket \in [Tickets -> Reservations]
    <3>1. Cardinality(Calls) \in Nat
      BY FS_CardinalityType
    <3> QED
      BY <3>1 DEF PmInit, Reservations, Targets
  <2>3. plan \in Plans
    BY NoOrder DEF PmInit, Plans
  <2>4. call \in [Calls -> Handling]
    BY WaitingTyped DEF PmInit
  <2> QED
    BY <2>1, <2>2, <2>3, <2>4 DEF PmInit, PmTypeOK
<1>2. \A n \in Hosts : host[n].reg <= events + 1
  BY DEF PmInit
<1>3. TicketInv
  BY DEF PmInit, TicketInv, Waiting
<1>4. \A c \in Calls : CallInv(call[c], down[c])
  BY WaitingTyped DEF PmInit
<1> QED
  BY <1>1, <1>2, <1>3, <1>4 DEF PmInv

-----------------------------------------------------------------------------
(* The registry changes, and every call in progress sees who is down.      *)
LEMMA RegistryMoves ==
    ASSUME PmInv, UNCHANGED <<plan, ticket, call>>,
           host' \in [Hosts -> Entries], proof' \subseteq Targets, events' \in 0..MaxEvents,
           \A n \in Hosts : host'[n].reg <= events' + 1,
           down' \in [Calls -> SUBSET Hosts],
           \A c \in Calls : Resolving(c) =>
             down[c] \subseteq down'[c] /\ \A n \in Hosts : ~IsLive(n)' => n \in down'[c]
    PROVE  PmInv'
<1>1. PmTypeOK'
  BY DEF PmInv, PmTypeOK
<1>2. TicketInv'
  BY DEF PmInv, TicketInv
<1>3. ASSUME NEW c \in Calls PROVE CallInv(call[c], down[c])'
  <2>1. CallInv(call[c], down[c]) /\ call'[c] = call[c]
    BY DEF PmInv
  <2>2. CASE Resolving(c)
    BY <2>1, <2>2 DEF CallInv, Resolving
  <2>3. CASE ~Resolving(c)
    BY <2>1, <2>3 DEF CallInv, Resolving
  <2> QED
    BY <2>2, <2>3
<1> QED
  BY <1>1, <1>2, <1>3 DEF PmInv

(* A new entry of one node, with at most a registration more.              *)
LEMMA ChangeKeeps ==
    ASSUME PmInv, NEW n \in Hosts, NEW e \in [known: BOOLEAN, live: BOOLEAN, attested: BOOLEAN, reg: Nat],
           1 <= e.reg, e.reg <= host[n].reg + 1, Change(n, e)
    PROVE  PmInv'
<1> USE PlacementConstants
<1>1. /\ events \in 0..MaxEvents /\ events' = events + 1 /\ events' \in 0..MaxEvents
      /\ host \in [Hosts -> Entries] /\ host[n].reg <= events + 1 /\ host[n].reg \in Nat
  BY DEF Change, Spend, PmInv, PmTypeOK, Entries
<1>2. e.reg \in 1..MaxEvents + 1
  BY <1>1
<1>3. e \in Entries
  BY <1>2 DEF Entries
<1>4. host' = [host EXCEPT ![n] = e] /\ host' \in [Hosts -> Entries]
  BY <1>1, <1>3 DEF Change
<1>5. \A m \in Hosts : host'[m].reg <= events' + 1
  <2>1. \A m \in Hosts : host[m].reg <= events + 1 /\ host[m].reg \in Nat
    BY <1>1 DEF PmInv, Entries
  <2> QED
    BY <1>1, <1>4, <2>1
<1>6. down \in [Calls -> SUBSET Hosts] /\ down' \in [Calls -> SUBSET Hosts]
  BY DEF Change, PmInv, PmTypeOK
<1>7. ASSUME NEW c \in Calls, Resolving(c)
      PROVE  down[c] \subseteq down'[c] /\ \A m \in Hosts : ~IsLive(m)' => m \in down'[c]
  <2>1. \A m \in Hosts : ~IsLive(m) => m \in down[c]
    BY <1>7 DEF PmInv, CallInv, Resolving
  <2>2. CASE e.known /\ e.live
    BY <2>1, <2>2, <1>1, <1>4 DEF Change, IsLive
  <2>3. CASE ~(e.known /\ e.live)
    <3>1. down'[c] = down[c] \cup {n}
      BY <1>6, <1>7, <2>3 DEF Change
    <3> QED
      BY <2>1, <3>1, <1>1, <1>4 DEF IsLive
  <2> QED
    BY <2>2, <2>3
<1>8. UNCHANGED <<plan, ticket, call>> /\ proof' \subseteq Targets
  BY DEF Change, PmInv, PmTypeOK
<1> QED
  BY <1>1, <1>4, <1>5, <1>6, <1>7, <1>8, RegistryMoves

(* Nodes go down, are dropped, come back and register anew.                *)
LEMMA HostsKeep ==
    ASSUME PmInv, NEW n \in Hosts, GoDown(n) \/ Drop(n) \/ ComeBack(n) \/ RegisterAnew(n)
    PROVE  PmInv'
<1> DEFINE E == [known: BOOLEAN, live: BOOLEAN, attested: BOOLEAN, reg: Nat]
<1>1. host[n] \in E /\ 1 <= host[n].reg
  BY DEF PmInv, PmTypeOK, Entries
<1>2. CASE GoDown(n) \/ Drop(n) \/ ComeBack(n)
  <2>0. PICK live \in BOOLEAN, known \in BOOLEAN :
          \/ Change(n, [host[n] EXCEPT !.live = live])
          \/ Change(n, [host[n] EXCEPT !.known = known])
    BY <1>2 DEF GoDown, Drop, ComeBack
  <2> DEFINE e1 == [host[n] EXCEPT !.live = live]
             e2 == [host[n] EXCEPT !.known = known]
  <2>2. e1 \in E /\ e2 \in E /\ e1.reg = host[n].reg /\ e2.reg = host[n].reg
    BY <1>1
  <2>3. Change(n, e1) \/ Change(n, e2)
    BY <2>0
  <2> HIDE DEF e1, e2
  <2>1. PICK e \in E : Change(n, e) /\ e.reg = host[n].reg
    BY <2>2, <2>3
  <2> QED
    BY <1>1, <2>1, ChangeKeeps
<1>3. CASE RegisterAnew(n)
  <2> DEFINE f == [known |-> TRUE, live |-> TRUE, attested |-> FALSE, reg |-> host[n].reg + 1]
  <2>2. f \in E /\ f.reg = host[n].reg + 1 /\ Change(n, f)
    BY <1>1, <1>3 DEF RegisterAnew
  <2> HIDE DEF f
  <2>1. PICK e \in E : Change(n, e) /\ e.reg = host[n].reg + 1
    BY <2>2
  <2> QED
    BY <1>1, <2>1, ChangeKeeps
<1> QED
  BY <1>2, <1>3

(* Marks and proofs do not make a node live or down.                       *)
LEMMA AttestationKeeps ==
    ASSUME PmInv, \/ \E n \in Hosts : VerifyEnclaveAttestation(n)
                  \/ \E p \in proof : MarkEnclaveAttested(p)
    PROVE  PmInv'
<1> USE PlacementConstants
<1>1. CASE \E n \in Hosts : VerifyEnclaveAttestation(n)
  <2>1. PICK n \in Hosts : VerifyEnclaveAttestation(n)
    BY <1>1
  <2>2. /\ host \in [Hosts -> Entries] /\ events \in 0..MaxEvents /\ events' = events + 1
        /\ events' \in 0..MaxEvents /\ UNCHANGED <<host, plan, ticket, call, down>>
    BY <2>1 DEF VerifyEnclaveAttestation, Spend, PmInv, PmTypeOK
  <2>3. proof' \subseteq Targets
    BY <2>1, <2>2 DEF VerifyEnclaveAttestation, PmInv, PmTypeOK, Targets, Entries
  <2>4. \A m \in Hosts : host'[m].reg <= events' + 1
    BY <2>2 DEF PmInv, Entries
  <2>5. \A c \in Calls : Resolving(c) => \A m \in Hosts : ~IsLive(m)' => m \in down'[c]
    BY <2>2 DEF PmInv, CallInv, Resolving, IsLive
  <2>6. host' \in [Hosts -> Entries] /\ down' \in [Calls -> SUBSET Hosts]
    BY <2>2 DEF PmInv, PmTypeOK
  <2> QED
    BY <2>2, <2>3, <2>4, <2>5, <2>6, RegistryMoves
<1>2. CASE \E p \in proof : MarkEnclaveAttested(p)
  <2>1. PICK p \in proof : MarkEnclaveAttested(p)
    BY <1>2
  <2>2. /\ host \in [Hosts -> Entries] /\ events' \in 0..MaxEvents /\ events' = events
        /\ UNCHANGED <<plan, ticket, call, down>> /\ proof' \subseteq Targets
    BY <2>1 DEF MarkEnclaveAttested, PmInv, PmTypeOK
  <2>3. \A m \in Hosts : /\ host'[m] \in Entries /\ host'[m].reg = host[m].reg
                         /\ host'[m].known = host[m].known /\ host'[m].live = host[m].live
    <3>1. \A m \in Hosts : host[m] \in Entries
      BY <2>2
    <3>2. CASE ~host[p.node].known
      BY <2>1, <3>1, <3>2 DEF MarkEnclaveAttested
    <3>3. CASE host[p.node].known
      <4>1. host' = [host EXCEPT ![p.node].attested = TRUE]
        BY <2>1, <3>3 DEF MarkEnclaveAttested
      <4>2. \A m \in Hosts : host'[m] = host[m] \/ host'[m] = [host[m] EXCEPT !.attested = TRUE]
        BY <2>2, <4>1
      <4> QED
        BY <3>1, <4>2 DEF Entries
    <3> QED
      BY <3>2, <3>3
  <2>4. host' \in [Hosts -> Entries]
    BY <2>1, <2>2, <2>3 DEF MarkEnclaveAttested
  <2>5. \A m \in Hosts : host'[m].reg <= events' + 1
    BY <2>2, <2>3 DEF PmInv
  <2>6. \A c \in Calls : Resolving(c) => \A m \in Hosts : ~IsLive(m)' => m \in down'[c]
    BY <2>2, <2>3 DEF PmInv, CallInv, Resolving, IsLive
  <2>7. down' \in [Calls -> SUBSET Hosts]
    BY <2>2 DEF PmInv, PmTypeOK
  <2> QED
    BY <2>2, <2>4, <2>5, <2>6, <2>7, RegistryMoves
<1> QED
  BY <1>1, <1>2

(* An assignment is a short list of nodes.                                 *)
LEMMA AssignKeeps ==
    ASSUME PmInv, NEW r \in 0..MaxRedundancy, NEW s \in BOOLEAN, AssignBackgroundJob(r, s)
    PROVE  PmInv'
<1> USE PlacementConstants
<1>1. PICK order \in SetToSeqs(Eligible(s)) :
        /\ Len(order) >= 1 + r
        /\ plan' = [nodes |-> SubSeq(order, 1, 1 + r), sensitive |-> s]
  BY DEF AssignBackgroundJob
<1>2. order \in Seq(Hosts)
  <2>1. IsFiniteSet(Eligible(s))
    BY FS_Subset DEF Eligible
  <2>2. Cardinality(Eligible(s)) \in Nat
    BY <2>1, FS_CardinalityType
  <2>3. order \in [1..Cardinality(Eligible(s)) -> Eligible(s)]
    BY <1>1 DEF SetToSeqs
  <2>4. Eligible(s) \subseteq Hosts
    BY DEF Eligible
  <2> QED
    BY <2>2, <2>3, <2>4
<1>3. SubSeq(order, 1, 1 + r) \in Seq(Hosts) /\ Len(SubSeq(order, 1, 1 + r)) = 1 + r
  BY <1>1, <1>2
<1>4. plan' \in Plans
  <2>1. 1 + r <= MaxRedundancy + 1
    OBVIOUS
  <2>2. SubSeq(order, 1, 1 + r) \in Orders
    BY <1>3, <2>1, OrdersAreShort
  <2> QED
    BY <1>1, <2>2 DEF Plans
<1>5. events' \in 0..MaxEvents /\ events' >= events /\ events \in Nat
  BY DEF AssignBackgroundJob, Spend, PmInv, PmTypeOK
<1>6. UNCHANGED <<host, proof, ticket, call, down>>
  BY DEF AssignBackgroundJob
<1>7. PmTypeOK'
  BY <1>4, <1>5, <1>6 DEF PmInv, PmTypeOK
<1>8. \A n \in Hosts : host'[n].reg <= events' + 1
  BY <1>5, <1>6 DEF PmInv, PmTypeOK, Entries
<1>9. TicketInv' /\ \A c \in Calls : CallInv(call[c], down[c])'
  BY <1>6 DEF PmInv, TicketInv, CallInv, IsLive
<1> QED
  BY <1>7, <1>8, <1>9 DEF PmInv

-----------------------------------------------------------------------------
(* One call moves, with what it saw down; nothing else does but a ticket.  *)
LEMMA OneCallMoves ==
    ASSUME PmInv, NEW c \in Calls, NEW h \in Handling, NEW d \in SUBSET Hosts,
           call' = [call EXCEPT ![c] = h], down' = [down EXCEPT ![c] = d],
           UNCHANGED <<host, proof, plan, events>>,
           ticket' \in [Tickets -> Reservations], TicketInv', CallInv(h, d)
    PROVE  PmInv'
<1>1. PmTypeOK'
  BY DEF PmInv, PmTypeOK
<1>2. ASSUME NEW b \in Calls PROVE CallInv(call[b], down[b])'
  <2>1. CASE b = c
    BY <2>1 DEF PmInv, PmTypeOK, CallInv, IsLive
  <2>2. CASE b # c
    <3>1. call'[b] = call[b] /\ down'[b] = down[b]
      BY <2>2 DEF PmInv, PmTypeOK
    <3> QED
      BY <3>1 DEF PmInv, CallInv, IsLive
  <2> QED
    BY <2>1, <2>2
<1>3. \A n \in Hosts : host'[n].reg <= events' + 1
  BY DEF PmInv
<1> QED
  BY <1>1, <1>2, <1>3 DEF PmInv

(* A call that carries no ticket says nothing of one.                      *)
LEMMA NoTicketMoves ==
    ASSUME PmInv, NEW c \in Calls, NEW h, call' = [call EXCEPT ![c] = h],
           h.ticket = NoHost, ticket' = ticket
    PROVE  TicketInv' /\ ticket' \in [Tickets -> Reservations]
<1>1. \A b \in Calls : call'[b].ticket # NoHost => call'[b] = call[b]
  BY DEF PmInv, PmTypeOK
<1> QED
  BY <1>1 DEF PmInv, PmTypeOK, TicketInv

(* What a call has is typed.                                               *)
LEMMA CallTyped ==
    ASSUME PmInv, NEW c \in Calls
    PROVE  /\ call[c] \in Handling /\ CallInv(call[c], down[c])
           /\ call[c].nodes \in Seq(Hosts) /\ Len(call[c].nodes) <= MaxRedundancy + 1
           /\ down[c] \in SUBSET Hosts /\ call[c].next \in Nat /\ call[c].next >= 1
<1>1. call[c] \in Handling /\ CallInv(call[c], down[c]) /\ down[c] \in SUBSET Hosts
  BY DEF PmInv, PmTypeOK
<1>2. call[c].nodes \in Orders /\ call[c].next \in 1..MaxRedundancy + 2
  BY <1>1 DEF Handling
<1> QED
  BY <1>1, <1>2, OrdersAreShort, PlacementConstants

(* A cycle begins with every node that is down then.                       *)
LEMMA BeginKeeps == ASSUME PmInv, NEW c \in Calls, BeginCycle(c) PROVE PmInv'
<1> USE PlacementConstants
<1> DEFINE h == [Waiting EXCEPT !.stage = "resolve", !.nodes = plan.nodes,
                                !.sensitive = plan.sensitive]
           d == {n \in Hosts : ~IsLive(n)}
<1>1. plan.nodes \in Orders /\ plan.sensitive \in BOOLEAN /\ Waiting \in Handling
  BY WaitingTyped DEF PmInv, PmTypeOK, Plans
<1>2. h \in Handling
  BY <1>1 DEF Handling
<1>3. /\ h.stage = "resolve" /\ h.nodes = plan.nodes /\ h.next = 1 /\ h.ticket = NoHost
  BY DEF Waiting
<1>4. Len(plan.nodes) \in Nat
  BY <1>1, OrdersAreShort
<1>5. call' = [call EXCEPT ![c] = h] /\ down' = [down EXCEPT ![c] = d]
      /\ UNCHANGED <<host, proof, plan, ticket, events>>
  BY DEF BeginCycle
<1>6. CallInv(h, d)
  BY <1>3, <1>4 DEF CallInv
<1>7. d \in SUBSET Hosts
  OBVIOUS
<1> HIDE DEF h, d
<1>8. TicketInv' /\ ticket' \in [Tickets -> Reservations]
  BY <1>3, <1>5, NoTicketMoves
<1> QED
  BY <1>2, <1>5, <1>6, <1>7, <1>8, OneCallMoves

(* A candidate is taken if it is live, and passed over if it is down: then *)
(* it is among the nodes that the call has seen down.                      *)
LEMMA ResolveKeeps == ASSUME PmInv, NEW c \in Calls, ResolveForCycle(c) PROVE PmInv'
<1> USE PlacementConstants
<1> DEFINE h1 == [call[c] EXCEPT !.stage = "resolved"]
           h2 == [call[c] EXCEPT !.next = @ + 1]
           h == IF IsLive(Candidate(c)) THEN h1 ELSE h2
           d == down[c]
<1>0. call' = [call EXCEPT ![c] = h]
  BY DEF ResolveForCycle
<1>1. /\ call[c].stage = "resolve" /\ call[c].next <= Len(call[c].nodes)
      /\ call' = [call EXCEPT ![c] = h] /\ UNCHANGED <<host, proof, plan, ticket, down, events>>
  BY <1>0 DEF ResolveForCycle
<1>2. /\ call[c] \in Handling /\ CallInv(call[c], down[c]) /\ d \in SUBSET Hosts
      /\ call[c].nodes \in Seq(Hosts) /\ Len(call[c].nodes) <= MaxRedundancy + 1
      /\ call[c].next \in Nat /\ call[c].next >= 1
  BY CallTyped
<1>3. call[c].next + 1 \in 1..MaxRedundancy + 2
  BY <1>1, <1>2
<1>4. h1 \in Handling /\ h2 \in Handling
  BY <1>2, <1>3 DEF Handling
<1>5. /\ h1.stage = "resolved" /\ h1.next = call[c].next /\ h1.nodes = call[c].nodes
      /\ h1.ticket = call[c].ticket /\ h1.target = call[c].target
      /\ h2.stage = "resolve" /\ h2.next = call[c].next + 1 /\ h2.nodes = call[c].nodes
      /\ h2.ticket = call[c].ticket /\ h2.target = call[c].target
  BY <1>1, <1>2 DEF Handling
<1>6. Candidate(c) \in Hosts
  BY <1>1, <1>2 DEF Candidate
<1> HIDE DEF h1, h2
<1>7. CallInv(h1, d)
  BY <1>1, <1>2, <1>5 DEF CallInv
<1>8. ~IsLive(Candidate(c)) => CallInv(h2, d)
  <2> SUFFICES ASSUME ~IsLive(Candidate(c)) PROVE CallInv(h2, d)
    OBVIOUS
  <2>1. Candidate(c) \in d
    BY <1>1, <1>2, <1>6 DEF CallInv
  <2>2. \A i \in 1..h2.next - 1 : i \in 1..call[c].next - 1 \/ i = call[c].next
    BY <1>2, <1>5
  <2> QED
    BY <1>1, <1>2, <1>5, <2>1, <2>2 DEF CallInv, Candidate
<1>9. h \in Handling /\ CallInv(h, d) /\ h.ticket = call[c].ticket /\ h.target = call[c].target
  BY <1>4, <1>5, <1>7, <1>8
<1> HIDE DEF h, d
<1>10. TicketInv' /\ ticket' \in [Tickets -> Reservations]
  <2>1. \A b \in Calls : call'[b].ticket = call[b].ticket /\ call'[b].target = call[b].target
    BY <1>1, <1>9 DEF PmInv, PmTypeOK
  <2> QED
    BY <1>1, <2>1 DEF PmInv, PmTypeOK, TicketInv
<1>11. down' = [down EXCEPT ![c] = d]
  BY <1>1 DEF d, PmInv, PmTypeOK
<1> QED
  BY <1>1, <1>2, <1>9, <1>10, <1>11, OneCallMoves

(* A call that ends, or is sent on without a ticket, has passed over nobody *)
(* any more.                                                               *)
LEMMA CallEnds ==
    ASSUME PmInv, NEW c \in Calls, NEW h \in Handling, h.stage \in {"idle", "sent"},
           h.next = 1, h.nodes = <<>>, h.ticket = NoHost,
           h.stage = "sent" => h.target.node \in Hosts,
           call' = [call EXCEPT ![c] = h],
           down' = [down EXCEPT ![c] = {}], UNCHANGED <<host, proof, plan, ticket, events>>
    PROVE  PmInv'
<1>1. CallInv(h, {})
  BY DEF CallInv
<1>2. TicketInv' /\ ticket' \in [Tickets -> Reservations]
  BY NoTicketMoves
<1> QED
  BY <1>1, <1>2, OneCallMoves

(* A call that finds every candidate down, or looks the next one up.       *)
LEMMA EndsKeep == ASSUME PmInv, NEW c \in Calls, AllDown(c) \/ LookUp(c) PROVE PmInv'
<1> USE PlacementConstants
<1>1. down' = [down EXCEPT ![c] = {}] /\ UNCHANGED <<host, proof, plan, ticket, events>>
  BY DEF AllDown, LookUp
<1>2. CASE call' = [call EXCEPT ![c] = Waiting]
  <2>1. /\ Waiting.stage = "idle" /\ Waiting.next = 1 /\ Waiting.nodes = <<>>
        /\ Waiting.ticket = NoHost
    BY DEF Waiting
  <2> QED
    BY <1>1, <1>2, <2>1, WaitingTyped, CallEnds
<1>3. CASE LookUp(c) /\ call' # [call EXCEPT ![c] = Waiting]
  <2> DEFINE target == [node |-> Candidate(c), reg |-> host[Candidate(c)].reg]
  <2>1. call' = [call EXCEPT ![c] = [Waiting EXCEPT !.stage = "sent", !.target = target]]
        /\ call[c].stage = "resolved"
    BY <1>3 DEF LookUp
  <2>2. Candidate(c) \in Hosts
    BY <2>1, CallTyped DEF CallInv, Candidate
  <2>3. target \in Targets /\ target.node \in Hosts
    BY <2>2 DEF PmInv, PmTypeOK, Entries, Targets
  <2> DEFINE h == [Waiting EXCEPT !.stage = "sent", !.target = target]
  <2>4. h \in Handling
    BY <2>3, WaitingTyped DEF Handling
  <2>5. /\ h.stage = "sent" /\ h.next = 1 /\ h.nodes = <<>> /\ h.ticket = NoHost
        /\ h.target = target
    BY DEF Waiting
  <2> HIDE DEF target, h
  <2>6. call' = [call EXCEPT ![c] = h]
    BY <2>1 DEF h, target
  <2> QED
    BY <1>1, <2>3, <2>4, <2>5, <2>6, CallEnds
<1> QED
  BY <1>2, <1>3 DEF AllDown, LookUp

-----------------------------------------------------------------------------
(* Tickets change as long as those that jobs were sent on stay as they are. *)
LEMMA TicketsMove ==
    ASSUME PmInv, UNCHANGED <<host, proof, plan, call, down, events>>,
           ticket' \in [Tickets -> Reservations],
           \A t \in Tickets : /\ ticket[t].state = "gone" => ticket'[t] = ticket[t]
                              /\ \/ /\ ticket'[t].used = 0
                                    /\ ticket'[t].state \in {"held", "stale"} =>
                                         ticket'[t].target.node \in Hosts
                                 \/ ticket'[t] = ticket[t]
    PROVE  PmInv'
<1>1. PmTypeOK' /\ \A n \in Hosts : host'[n].reg <= events' + 1
  BY DEF PmInv, PmTypeOK
<1>2. TicketInv'
  BY DEF PmInv, TicketInv
<1>3. \A c \in Calls : CallInv(call[c], down[c])'
  BY DEF PmInv, CallInv, IsLive
<1> QED
  BY <1>1, <1>2, <1>3 DEF PmInv

(* Reserving, and expiry, touch only reservations that nobody redeemed.    *)
LEMMA ReserveKeeps ==
    ASSUME PmInv, NEW t \in Tickets, NEW n \in Hosts, NEW s \in BOOLEAN, Reserve(t, n, s)
    PROVE  PmInv'
<1> USE PlacementConstants
<1> DEFINE fresh == [state |-> "held", target |-> [node |-> n, reg |-> host[n].reg], used |-> 0]
<1>1. ticket \in [Tickets -> Reservations] /\ ticket[t].state = "unused"
      /\ \A u \in Tickets : ticket[u].state # "gone" => ticket[u].used = 0
  BY DEF Reserve, PmInv, PmTypeOK, TicketInv
<1>2. fresh \in Reservations
  <2>1. Cardinality(Calls) \in Nat
    BY FS_CardinalityType
  <2>2. host[n].reg \in 1..MaxEvents + 1
    BY DEF PmInv, PmTypeOK, Entries
  <2> QED
    BY <2>1, <2>2 DEF Reservations, Targets
<1>3. fresh.used = 0 /\ fresh.target.node \in Hosts
  OBVIOUS
<1>4. \A u \in Tickets : [ticket[u] EXCEPT !.state = "gone"] \in Reservations
                         /\ [ticket[u] EXCEPT !.state = "gone"].used = ticket[u].used
                         /\ [ticket[u] EXCEPT !.state = "gone"].state = "gone"
  BY <1>1 DEF Reservations
<1> HIDE DEF fresh
<1>5. ticket' = [u \in Tickets |->
         IF u = t THEN fresh
         ELSE IF ticket[u].state = "stale" THEN [ticket[u] EXCEPT !.state = "gone"] ELSE ticket[u]]
  BY DEF Reserve, fresh
<1>6. ticket' \in [Tickets -> Reservations]
  BY <1>1, <1>2, <1>4, <1>5
<1>7. \A u \in Tickets : /\ ticket[u].state = "gone" => ticket'[u] = ticket[u]
                         /\ \/ /\ ticket'[u].used = 0
                               /\ ticket'[u].state \in {"held", "stale"} =>
                                    ticket'[u].target.node \in Hosts
                            \/ ticket'[u] = ticket[u]
  BY <1>1, <1>3, <1>4, <1>5
<1> QED
  BY <1>6, <1>7, TicketsMove DEF Reserve

(* A reservation that expires was not used.                                *)
LEMMA ExpireKeeps == ASSUME PmInv, NEW t \in Tickets, Expire(t) PROVE PmInv'
<1> DEFINE e == [ticket[t] EXCEPT !.state = "stale"]
<1>1. ticket \in [Tickets -> Reservations] /\ ticket[t].state = "held" /\ ticket[t].used = 0
      /\ ticket[t].target.node \in Hosts
  BY DEF Expire, PmInv, PmTypeOK, TicketInv
<1>2. ticket' = [ticket EXCEPT ![t] = e]
  BY <1>1 DEF Expire
<1>3. e \in Reservations /\ e.used = 0 /\ e.target = ticket[t].target
  BY <1>1 DEF Reservations
<1> HIDE DEF e
<1> QED
  BY <1>1, <1>2, <1>3, TicketsMove DEF Expire

(* A reservation that is redeemed in time is gone from then on, and its    *)
(* target is the job's.                                                    *)
LEMMA RedeemKeeps == ASSUME PmInv, NEW c \in Calls, NEW t \in Tickets, Redeem(c, t) PROVE PmInv'
<1> USE PlacementConstants
<1> DEFINE held == ticket[t].state = "held"
           e == [ticket[t] EXCEPT !.state = "gone", !.used = IF held THEN @ + 1 ELSE @]
<1>1. /\ ticket \in [Tickets -> Reservations] /\ ticket[t] \in Reservations
      /\ ticket[t].state \in {"held", "stale"} /\ ticket[t].used = 0
      /\ ticket[t].target.node \in Hosts
  BY DEF Redeem, PmInv, PmTypeOK, TicketInv
<1>2. ticket' = [ticket EXCEPT ![t] = e]
  BY <1>1 DEF Redeem
<1>3. e \in Reservations
  <2>1. Cardinality(Calls) \in Nat /\ Cardinality(Calls) # 0
    BY FS_CardinalityType, FS_EmptySet
  <2> QED
    <3>1. ticket[t].used + 1 \in 0..Cardinality(Calls)
      BY <1>1, <2>1
    <3>2. (IF held THEN ticket[t].used + 1 ELSE ticket[t].used) \in 0..Cardinality(Calls)
      BY <1>1, <3>1 DEF Reservations
    <3> QED
      BY <1>1, <3>2 DEF Reservations
<1>4. e.state = "gone" /\ e.target = ticket[t].target /\ e.used <= 1
  BY <1>1 DEF Reservations
<1> HIDE DEF e
<1>5. ticket' \in [Tickets -> Reservations]
  BY <1>1, <1>2, <1>3
<1>6. \A u \in Tickets : /\ ticket'[u].state # "gone" => ticket'[u].used = 0
                         /\ ticket'[u].used <= 1
                         /\ ticket'[u].state \in {"held", "stale"} => ticket'[u].target.node \in Hosts
                         /\ ticket[u].state = "gone" => ticket'[u] = ticket[u]
  BY <1>1, <1>2, <1>4 DEF PmInv, TicketInv
<1>7. UNCHANGED <<host, proof, plan, down, events>>
  BY DEF Redeem
<1>8. CASE ~held
  <2>1. call' = call
    BY <1>8 DEF Redeem
  <2>2. PmTypeOK' /\ \A n \in Hosts : host'[n].reg <= events' + 1
    BY <1>5, <1>7, <2>1 DEF PmInv, PmTypeOK
  <2>3. TicketInv'
    BY <1>6, <2>1 DEF PmInv, TicketInv
  <2>4. \A b \in Calls : CallInv(call[b], down[b])'
    BY <1>7, <2>1 DEF PmInv, CallInv, IsLive
  <2> QED
    BY <2>2, <2>3, <2>4 DEF PmInv
<1>9. CASE held
  <2> DEFINE h == [Waiting EXCEPT !.stage = "sent", !.ticket = t, !.target = ticket[t].target]
             d == down[c]
  <2>1. call' = [call EXCEPT ![c] = h] /\ d \in SUBSET Hosts
    BY <1>9, CallTyped DEF Redeem, Sent
  <2>2. h \in Handling
    BY <1>1, WaitingTyped DEF Handling, Reservations
  <2>3. h.stage = "sent" /\ h.next = 1 /\ h.nodes = <<>> /\ h.ticket = t /\ h.target = ticket[t].target
    BY DEF Waiting
  <2>4. CallInv(h, d)
    BY <1>1, <2>3 DEF CallInv
  <2>5. down' = [down EXCEPT ![c] = d]
    BY <1>7 DEF PmInv, PmTypeOK
  <2> HIDE DEF h, d
  <2>6. \A b \in Calls : call'[b].ticket # NoHost =>
            /\ call'[b].ticket \in Tickets
            /\ ticket'[call'[b].ticket].state = "gone"
            /\ call'[b].target = ticket'[call'[b].ticket].target
    <3>1. TicketInv /\ call \in [Calls -> Handling]
      BY DEF PmInv, PmTypeOK
    <3> TAKE b \in Calls
    <3>2. CASE b = c
      BY <3>1, <3>2, <2>1, <2>3, <1>1, <1>2, <1>4
    <3>3. CASE b # c
      BY <3>1, <3>3, <2>1, <1>6 DEF TicketInv
    <3> QED
      BY <3>2, <3>3
  <2>7. TicketInv'
    BY <1>6, <2>6 DEF TicketInv
  <2> QED
    BY <1>5, <1>7, <2>1, <2>2, <2>4, <2>5, <2>7, OneCallMoves
<1> QED
  BY <1>8, <1>9

(* The dispatch is back; a node that failed is down for every call that is *)
(* being resolved.                                                         *)
LEMMA ReturnKeeps ==
    ASSUME PmInv, NEW c \in Calls, NEW failed \in BOOLEAN, Return(c, failed)
    PROVE  PmInv'
<1> DEFINE n == call[c].target.node
<1>1. /\ call \in [Calls -> Handling] /\ call[c].stage = "sent" /\ call' = [call EXCEPT ![c] = Waiting]
      /\ UNCHANGED <<proof, plan, ticket, events>> /\ host \in [Hosts -> Entries]
      /\ down \in [Calls -> SUBSET Hosts]
  BY DEF Return, PmInv, PmTypeOK
<1>0. n \in Hosts
  BY <1>1, CallTyped DEF CallInv
<1>2. TicketInv' /\ ticket' \in [Tickets -> Reservations]
  <2>1. Waiting.ticket = NoHost
    BY DEF Waiting
  <2> QED
    BY <1>1, <2>1, NoTicketMoves
<1>3. \A m \in Hosts : /\ host'[m] \in Entries /\ host'[m].reg = host[m].reg
                       /\ ~IsLive(m)' => ~IsLive(m) \/ (failed /\ m = n)
  <2>1. CASE ~failed
    BY <1>1, <2>1 DEF Return, IsLive
  <2>2. CASE failed
    <3>1. host' = [host EXCEPT ![n].live = FALSE]
      BY <2>2 DEF Return
    <3>2. \A m \in Hosts : host'[m] = IF m = n THEN [host[m] EXCEPT !.live = FALSE] ELSE host[m]
      BY <1>1, <3>1
    <3>3. \A m \in Hosts : host[m] \in Entries
      BY <1>1
    <3> HIDE DEF n
    <3> QED
      BY <2>2, <3>2, <3>3 DEF IsLive, Entries
  <2> QED
    BY <2>1, <2>2
<1>4. host' \in [Hosts -> Entries]
  BY <1>1, <1>3 DEF Return
<1>5. down' \in [Calls -> SUBSET Hosts]
  BY <1>0, <1>1 DEF Return
<1>6. ASSUME NEW b \in Calls PROVE CallInv(call[b], down[b])'
  <2>1. CASE b = c
    <3>1. call'[b] = Waiting
      BY <1>1, <2>1
    <3> QED
      BY <3>1 DEF CallInv, Waiting
  <2>2. CASE b # c
    <3>1. call'[b] = call[b] /\ CallInv(call[b], down[b])
      BY <1>1, <2>2 DEF PmInv
    <3>2. CASE Resolving(b)
      <4>1. down'[b] = IF failed THEN down[b] \cup {n} ELSE down[b]
        BY <1>1, <3>2 DEF Return
      <4> HIDE DEF n
      <4> QED
        BY <1>3, <3>1, <3>2, <4>1 DEF CallInv, Resolving
    <3>3. CASE ~Resolving(b)
      BY <3>1, <3>3 DEF CallInv, Resolving
    <3> QED
      BY <3>2, <3>3
  <2> QED
    BY <2>1, <2>2
<1>7. call' \in [Calls -> Handling]
  BY <1>1, WaitingTyped
<1>8. PmTypeOK'
  BY <1>1, <1>2, <1>4, <1>5, <1>7 DEF PmInv, PmTypeOK
<1>9. \A m \in Hosts : host'[m].reg <= events' + 1
  BY <1>1, <1>3 DEF PmInv
<1> QED
  BY <1>2, <1>6, <1>8, <1>9 DEF PmInv

-----------------------------------------------------------------------------
(* Every step keeps the invariant.                                         *)
LEMMA PmInvKept == ASSUME PmInv, [PmNext]_pmVars PROVE PmInv'
<1>1. ASSUME NEW n \in Hosts, GoDown(n) \/ Drop(n) \/ ComeBack(n) \/ RegisterAnew(n) PROVE PmInv'
  BY <1>1, HostsKeep
<1>2. CASE \/ \E n \in Hosts : VerifyEnclaveAttestation(n)
           \/ \E p \in proof : MarkEnclaveAttested(p)
  BY <1>2, AttestationKeeps
<1>3. ASSUME NEW r \in 0..MaxRedundancy, NEW s \in BOOLEAN, AssignBackgroundJob(r, s) PROVE PmInv'
  BY <1>3, AssignKeeps
<1>4. ASSUME NEW c \in Calls, BeginCycle(c) \/ ResolveForCycle(c) \/ AllDown(c) \/ LookUp(c)
      PROVE  PmInv'
  BY <1>4, BeginKeeps, ResolveKeeps, EndsKeep
<1>5. ASSUME NEW c \in Calls, NEW t \in Tickets, Redeem(c, t) PROVE PmInv'
  BY <1>5, RedeemKeeps
<1>6. ASSUME NEW c \in Calls, NEW failed \in BOOLEAN, Return(c, failed) PROVE PmInv'
  BY <1>6, ReturnKeeps
<1>7. ASSUME NEW t \in Tickets, Expire(t) \/ \E n \in Hosts, s \in BOOLEAN : Reserve(t, n, s)
      PROVE  PmInv'
  BY <1>7, ExpireKeeps, ReserveKeeps
<1>8. CASE UNCHANGED pmVars
  BY <1>8 DEF pmVars, PmInv, PmTypeOK, TicketInv, CallInv, IsLive
<1> QED
  BY <1>1, <1>2, <1>3, <1>4, <1>5, <1>6, <1>7, <1>8 DEF PmNext

(* A reservation buys one job, of the registration whose key the client    *)
(* has, and a cycle leaves an assigned node only when it was down while    *)
(* that was being found out: whatever the registry does in between, and    *)
(* however many requests bring the same ticket.                            *)
THEOREM SoundPlacement == PmSpec => []PlacementIsSound
<1>1. PmInv => PlacementIsSound
  BY DEF PmInv, TicketInv, CallInv, PlacementIsSound, TicketsHold, PromotionJustified
<1> QED
  BY <1>1, PmInvStarts, PmInvKept, PTL DEF PmSpec

-----------------------------------------------------------------------------
(* The books: beside what they promise, no key is older than the last one  *)
(* drawn, and the table has no key for two accounts.                       *)
KeyInv ==
    /\ byUser \in [Users -> 0..MaxKeys]
    /\ byKey \in [Keys -> Users \cup {NoUser}]
    /\ stored \in [Users -> 0..MaxKeys]
    /\ drawn \in 0..MaxKeys
    /\ dead \subseteq Keys
    /\ undeleted \subseteq Users
    /\ \A u \in Users : byUser[u] <= drawn /\ stored[u] <= drawn
    /\ \A k \in dead : k <= drawn
    /\ \A u, v \in Users : stored[u] = stored[v] /\ stored[u] # 0 => u = v
    /\ KeyBooksAgree
    /\ DeadStaysDead

(* A handler between the check of a nonce and the writing of what it buys. *)
Buying(r) == req[r].stage \in {"auth", "login"}

(* The nonces: one that was consumed in time is in the hands of at most one *)
(* handler, and then has bought nothing yet.                               *)
NonceInv ==
    /\ nonce \in [Nonces -> Challenges]
    /\ session \in [Nonces -> {"none", "live", "gone"}]
    /\ req \in [Requests -> CredentialHandlers]
    /\ bought \in [Nonces -> Nat]
    /\ \A n \in Nonces :
         /\ nonce[n].owner = NoUser <=> nonce[n].state = "unissued"
         /\ bought[n] > 0 => Requests # {}
    /\ \A r \in Requests :
         /\ req[r].stage \in {"first", "rotate", "revoke", "auth"} => req[r].user \in Users
         /\ req[r].nonce \in Nonces <=> Buying(r)
         /\ Buying(r) => bought[req[r].nonce] = 0 /\ nonce[req[r].nonce].state = "spent"
         /\ req[r].stage = "login" => nonce[req[r].nonce].owner = Admin
    /\ \A r, q \in Requests : Buying(r) /\ Buying(q) /\ req[r].nonce = req[q].nonce => r = q
    /\ NonceBuysOnce

CrInv == KeyInv /\ NonceInv /\ restarts \in 0..MaxRestarts

(* With no key, nonce or session the invariant holds.                      *)
LEMMA CrInvStarts == CrInit => CrInv
<1> SUFFICES ASSUME CrInit PROVE CrInv
  OBVIOUS
<1> USE CredentialConstants
<1>1. KeyInv
  BY DEF CrInit, KeyInv, KeyBooksAgree, DeadStaysDead, Keys
<1>2. NonceInv
  BY DEF CrInit, NonceInv, NonceBuysOnce, Challenges, CredentialHandlers, Done, Buying, NoUser, Admin
<1> QED
  BY <1>1, <1>2 DEF CrInv, CrInit

-----------------------------------------------------------------------------
(* The books.                                                              *)

(* A new key: the account's old ones are dead with it, in memory and in    *)
(* the table, and it is nobody else's.                                     *)
LEMMA GenerateKeepsBooks ==
    ASSUME KeyInv, NEW r \in Requests, req[r].user \in Users, Generate(r)
    PROVE  KeyInv'
<1> USE CredentialConstants
<1> DEFINE u == req[r].user
           k == drawn + 1
<1>1. /\ drawn \in Nat /\ drawn < MaxKeys /\ k \in Keys /\ k \in 0..MaxKeys /\ k > drawn
      /\ stored' = [stored EXCEPT ![u] = k] /\ byUser' = [byUser EXCEPT ![u] = k] /\ drawn' = k
      /\ byKey' = [b \in Keys |-> IF b = k THEN u ELSE IF b = byUser[u] THEN NoUser ELSE byKey[b]]
      /\ dead' = dead \cup ({byUser[u], stored[u]} \ {0}) /\ undeleted' = undeleted \ {u}
  BY DEF Generate, KeyInv, Keys
<1>2. /\ byUser \in [Users -> 0..MaxKeys] /\ stored \in [Users -> 0..MaxKeys]
      /\ byKey \in [Keys -> Users \cup {NoUser}] /\ dead \subseteq Keys /\ undeleted \subseteq Users
      /\ \A v \in Users : byUser[v] <= drawn /\ stored[v] <= drawn
      /\ \A b \in dead : b <= drawn
      /\ \A v, w \in Users : stored[v] = stored[w] /\ stored[v] # 0 => v = w
      /\ \A v \in Users, b \in Keys : byUser[v] = b <=> byKey[b] = v
      /\ \A v \in Users : IF v \in undeleted THEN byUser[v] = 0 ELSE byUser[v] = stored[v]
      /\ \A b \in dead : byKey[b] = NoUser /\ \A v \in Users : stored[v] # b
  BY DEF KeyInv, KeyBooksAgree, DeadStaysDead
<1>3. u \in Users
  OBVIOUS
<1> HIDE DEF u, k
<1>4. /\ byUser' \in [Users -> 0..MaxKeys] /\ stored' \in [Users -> 0..MaxKeys]
      /\ drawn' \in 0..MaxKeys /\ undeleted' \subseteq Users
  BY <1>1, <1>2
<1>5. byKey' \in [Keys -> Users \cup {NoUser}]
  BY <1>1, <1>2, <1>3
<1>6. dead' \subseteq Keys /\ \A b \in dead' : b <= drawn
  <2>1. \A b \in {byUser[u], stored[u]} \ {0} : b \in 1..MaxKeys /\ b <= drawn
    BY <1>2, <1>3
  <2>2. \A b \in dead' : b \in dead \/ b \in {byUser[u], stored[u]} \ {0}
    BY <1>1
  <2>3. \A b \in dead' : b \in Keys /\ b <= drawn
    BY <1>2, <2>1, <2>2 DEF Keys
  <2> QED
    BY <1>1, <2>3
<1>7. \A v \in Users : byUser'[v] <= k /\ stored'[v] <= k
  BY <1>1, <1>2
<1>8. \A v, w \in Users : stored'[v] = stored'[w] /\ stored'[v] # 0 => v = w
  BY <1>1, <1>2
<1>9. \A v \in Users, b \in Keys : byUser'[v] = b <=> byKey'[b] = v
  <2> TAKE v \in Users, b \in Keys
  <2>1. CASE b = k
    BY <1>1, <1>2, <1>3, <2>1
  <2>2. CASE b # k /\ b = byUser[u]
    BY <1>1, <1>2, <1>3, <2>2
  <2>3. CASE b # k /\ b # byUser[u]
    BY <1>1, <1>2, <1>3, <2>3
  <2> QED
    BY <2>1, <2>2, <2>3
<1>10. \A v \in Users : IF v \in undeleted' THEN byUser'[v] = 0 ELSE byUser'[v] = stored'[v]
  BY <1>1, <1>2
<1>11. \A b \in dead' : byKey'[b] = NoUser
  <2> TAKE b \in dead'
  <2>1. b \in Keys /\ b # k
    BY <1>1, <1>6
  <2>2. byKey'[b] = IF b = byUser[u] THEN NoUser ELSE byKey[b]
    BY <1>1, <2>1
  <2>3. CASE b \in dead \/ b = byUser[u]
    BY <1>2, <2>2, <2>3
  <2>4. CASE b = stored[u] /\ b # byUser[u]
    <3>1. u \in undeleted /\ byUser[u] = 0
      BY <1>2, <1>3, <2>4
    <3>2. \A v \in Users : byKey[b] # v
      <4> SUFFICES ASSUME NEW v \in Users, byKey[b] = v PROVE FALSE
        OBVIOUS
      <4>1. byUser[v] = b /\ b # 0
        BY <1>2, <2>1 DEF Keys
      <4>2. stored[v] = b
        BY <1>2, <4>1
      <4>3. v = u
        BY <1>2, <1>3, <2>4, <4>1, <4>2
      <4> QED
        BY <3>1, <4>1, <4>3
    <3> QED
      BY <1>2, <2>1, <2>2, <2>4, <3>2
  <2> QED
    BY <1>1, <2>3, <2>4
<1>12. \A b \in dead', v \in Users : stored'[v] # b
  <2> TAKE b \in dead', v \in Users
  <2>1. b # k /\ b \in Keys
    BY <1>1, <1>6
  <2>2. CASE v = u
    BY <1>1, <1>2, <1>3, <2>1, <2>2
  <2>3. CASE v # u
    <3>1. stored'[v] = stored[v]
      BY <1>1, <1>2, <2>3
    <3>2. CASE b \in dead
      BY <1>2, <3>1, <3>2
    <3>3. CASE b = stored[u] /\ b # 0
      BY <1>2, <1>3, <2>3, <3>1, <3>3
    <3>4. CASE b = byUser[u] /\ b # 0
      <4>1. b = stored[u]
        BY <1>2, <1>3, <3>4
      <4> QED
        BY <1>2, <1>3, <2>3, <3>1, <3>4, <4>1
    <3> QED
      BY <1>1, <3>2, <3>3, <3>4
  <2> QED
    BY <2>2, <2>3
<1>13. drawn' = k /\ \A b \in dead' : b <= drawn'
  BY <1>1, <1>6 DEF Keys
<1> QED
  BY <1>4, <1>5, <1>6, <1>7, <1>8, <1>9, <1>10, <1>11, <1>12, <1>13
     DEF KeyInv, KeyBooksAgree, DeadStaysDead

(* A revoked key goes from memory, and from the table unless that fails.   *)
LEMMA RevokeKeepsBooks ==
    ASSUME KeyInv, NEW r \in Requests, NEW deleted \in BOOLEAN, req[r].user \in Users,
           Revoke(r, deleted)
    PROVE  KeyInv'
<1> USE CredentialConstants
<1> DEFINE u == req[r].user
<1>1. /\ stored' = (IF deleted THEN [stored EXCEPT ![u] = 0] ELSE stored)
      /\ byUser' = [byUser EXCEPT ![u] = 0] /\ drawn' = drawn
      /\ byKey' = [b \in Keys |-> IF b = byUser[u] THEN NoUser ELSE byKey[b]]
      /\ dead' = (IF deleted THEN dead \cup ({byUser[u], stored[u]} \ {0}) ELSE dead)
      /\ undeleted' = (IF deleted \/ stored[u] = 0 THEN undeleted \ {u} ELSE undeleted \cup {u})
  BY DEF Revoke
<1>2. /\ byUser \in [Users -> 0..MaxKeys] /\ stored \in [Users -> 0..MaxKeys]
      /\ byKey \in [Keys -> Users \cup {NoUser}] /\ dead \subseteq Keys /\ undeleted \subseteq Users
      /\ \A v \in Users : byUser[v] <= drawn /\ stored[v] <= drawn
      /\ \A b \in dead : b <= drawn
      /\ \A v, w \in Users : stored[v] = stored[w] /\ stored[v] # 0 => v = w
      /\ \A v \in Users, b \in Keys : byUser[v] = b <=> byKey[b] = v
      /\ \A v \in Users : IF v \in undeleted THEN byUser[v] = 0 ELSE byUser[v] = stored[v]
      /\ \A b \in dead : byKey[b] = NoUser /\ \A v \in Users : stored[v] # b
      /\ drawn \in 0..MaxKeys
  BY DEF KeyInv, KeyBooksAgree, DeadStaysDead
<1>3. u \in Users
  OBVIOUS
<1> HIDE DEF u
<1>4. /\ byUser' \in [Users -> 0..MaxKeys] /\ drawn' \in 0..MaxKeys /\ undeleted' \subseteq Users
      /\ byKey' \in [Keys -> Users \cup {NoUser}]
  BY <1>1, <1>2, <1>3
<1>5. /\ stored' \in [Users -> 0..MaxKeys]
      /\ \A v \in Users : stored'[v] = IF deleted /\ v = u THEN 0 ELSE stored[v]
  BY <1>1, <1>2, <1>3
<1>6. dead' \subseteq Keys /\ \A b \in dead' : b <= drawn'
  <2>1. \A b \in {byUser[u], stored[u]} \ {0} : b \in 1..MaxKeys /\ b <= drawn
    BY <1>2, <1>3
  <2>2. \A b \in dead' : b \in dead \/ b \in {byUser[u], stored[u]} \ {0}
    BY <1>1
  <2>3. \A b \in dead' : b \in Keys /\ b <= drawn
    BY <1>2, <2>1, <2>2 DEF Keys
  <2> QED
    BY <1>1, <2>3
<1>7. \A v \in Users : byUser'[v] <= drawn' /\ stored'[v] <= drawn'
  BY <1>1, <1>2, <1>5
<1>8. \A v, w \in Users : stored'[v] = stored'[w] /\ stored'[v] # 0 => v = w
  BY <1>2, <1>5
<1>9. \A v \in Users, b \in Keys : byUser'[v] = b <=> byKey'[b] = v
  <2> TAKE v \in Users, b \in Keys
  <2>1. b # 0
    BY DEF Keys
  <2>2. CASE b = byUser[u]
    BY <1>1, <1>2, <1>3, <2>1, <2>2
  <2>3. CASE b # byUser[u]
    BY <1>1, <1>2, <1>3, <2>1, <2>3
  <2> QED
    BY <2>2, <2>3
<1>10. \A v \in Users : IF v \in undeleted' THEN byUser'[v] = 0 ELSE byUser'[v] = stored'[v]
  BY <1>1, <1>2, <1>3, <1>5
<1>11. \A b \in dead' : byKey'[b] = NoUser
  <2> TAKE b \in dead'
  <2>1. b \in Keys /\ b # 0
    BY <1>6 DEF Keys
  <2>2. byKey'[b] = IF b = byUser[u] THEN NoUser ELSE byKey[b]
    BY <1>1, <2>1
  <2>3. CASE b \in dead \/ b = byUser[u]
    BY <1>2, <2>2, <2>3
  <2>4. CASE b = stored[u] /\ b # byUser[u]
    <3>1. u \in undeleted /\ byUser[u] = 0
      BY <1>2, <1>3, <2>4
    <3>2. \A v \in Users : byKey[b] # v
      <4> SUFFICES ASSUME NEW v \in Users, byKey[b] = v PROVE FALSE
        OBVIOUS
      <4>1. byUser[v] = b
        BY <1>2, <2>1
      <4>2. stored[v] = b
        BY <1>2, <2>1, <4>1
      <4>3. v = u
        BY <1>2, <1>3, <2>1, <2>4, <4>2
      <4> QED
        BY <2>1, <3>1, <4>1, <4>3
    <3> QED
      BY <1>2, <2>1, <2>2, <2>4, <3>2
  <2> QED
    BY <1>1, <2>3, <2>4
<1>12. \A b \in dead', v \in Users : stored'[v] # b
  <2> TAKE b \in dead', v \in Users
  <2>1. b # 0
    BY <1>6 DEF Keys
  <2>2. CASE b \in dead
    BY <1>2, <1>5, <2>1, <2>2
  <2>3. CASE deleted /\ b \in {byUser[u], stored[u]}
    <3>1. b = stored[u]
      BY <1>2, <1>3, <2>1, <2>3
    <3> QED
      BY <1>2, <1>3, <1>5, <2>1, <2>3, <3>1
  <2> QED
    BY <1>1, <2>2, <2>3
<1> QED
  BY <1>4, <1>5, <1>6, <1>7, <1>8, <1>9, <1>10, <1>11, <1>12
     DEF KeyInv, KeyBooksAgree, DeadStaysDead

(* A restart reads the table back; no dead key is in it.                   *)
LEMMA RestartKeepsBooks == ASSUME KeyInv, Restart PROVE KeyInv'
<1> USE CredentialConstants
<1>1. /\ byUser' = stored /\ undeleted' = {} /\ UNCHANGED <<stored, drawn, dead>>
      /\ byKey' = [k \in Keys |-> IF \E u \in Users : stored[u] = k
                                  THEN CHOOSE u \in Users : stored[u] = k ELSE NoUser]
  BY DEF Restart
<1>2. ASSUME NEW k \in Keys, NEW u \in Users, stored[u] = k PROVE byKey'[k] = u
  <2>1. k # 0
    BY DEF Keys
  <2>2. \A v \in Users : stored[v] = k => v = u
    BY <1>2, <2>1 DEF KeyInv
  <2>3. (CHOOSE v \in Users : stored[v] = k) = u
    BY <1>2, <2>2
  <2> QED
    BY <1>1, <1>2, <2>3
<1>3. ASSUME NEW k \in Keys, \A u \in Users : stored[u] # k PROVE byKey'[k] = NoUser
  BY <1>1, <1>3
<1>4. byKey' \in [Keys -> Users \cup {NoUser}]
  <2>1. \A k \in Keys : byKey'[k] \in Users \cup {NoUser}
    BY <1>2, <1>3
  <2> QED
    BY <1>1, <2>1
<1>5. \A u \in Users, k \in Keys : byUser'[u] = k <=> byKey'[k] = u
  BY <1>1, <1>2, <1>3
<1>6. \A k \in dead : byKey'[k] = NoUser
  BY <1>3 DEF KeyInv, DeadStaysDead
<1> QED
  BY <1>1, <1>4, <1>5, <1>6 DEF KeyInv, KeyBooksAgree, DeadStaysDead

-----------------------------------------------------------------------------
(* The nonces.                                                             *)

(* A handler ends, and what its nonce has bought is counted.               *)
LEMMA HandlerEnds ==
    ASSUME NonceInv, NEW r \in Requests, Finish(r), nonce' = nonce,
           \/ bought' = bought /\ session' = session
           \/ Buying(r) /\ Purchase(r) /\ session' = session
           \/ /\ req[r].stage = "login" /\ Purchase(r)
              /\ session' = [session EXCEPT ![req[r].nonce] = "live"]
    PROVE  NonceInv'
<1> USE CredentialConstants
<1>1. /\ nonce \in [Nonces -> Challenges] /\ session \in [Nonces -> {"none", "live", "gone"}]
      /\ req \in [Requests -> CredentialHandlers] /\ bought \in [Nonces -> Nat]
      /\ req' = [req EXCEPT ![r] = Done]
  BY DEF NonceInv, Finish
<1>2. Done \in CredentialHandlers /\ Done.stage = "idle" /\ Done.nonce = NoUser
  BY DEF Done, CredentialHandlers
<1>3. req' \in [Requests -> CredentialHandlers]
  BY <1>1, <1>2
<1>4. ~Buying(r)' /\ req'[r].stage = "idle" /\ req'[r].nonce \notin Nonces
  BY <1>1, <1>2 DEF Buying
<1>5. \A q \in Requests : q # r => req'[q] = req[q] /\ (Buying(q)' <=> Buying(q))
  BY <1>1 DEF Buying
<1>6. \A n \in Nonces : bought'[n] = bought[n] \/ (Buying(r) /\ n = req[r].nonce /\ bought'[n] = bought[n] + 1)
  <2>1. CASE bought' = bought
    BY <2>1
  <2>2. CASE Buying(r) /\ Purchase(r)
    <3>1. req[r].nonce \in Nonces
      BY <2>2 DEF NonceInv
    <3>2. bought' = [bought EXCEPT ![req[r].nonce] = bought[req[r].nonce] + 1]
      BY <2>2, <3>1 DEF Purchase
    <3> QED
      BY <1>1, <2>2, <3>1, <3>2
  <2>3. req[r].stage = "login" => Buying(r)
    BY DEF Buying
  <2> QED
    BY <2>1, <2>2, <2>3
<1>7. bought' \in [Nonces -> Nat]
  BY <1>1 DEF Purchase
<1>8. session' \in [Nonces -> {"none", "live", "gone"}]
  BY <1>1
<1>9. \A n \in Nonces : /\ nonce'[n].owner = NoUser <=> nonce'[n].state = "unissued"
                        /\ bought'[n] > 0 => Requests # {}
  BY DEF NonceInv
<1>10. ASSUME NEW q \in Requests
       PROVE  /\ req'[q].stage \in {"first", "rotate", "revoke", "auth"} => req'[q].user \in Users
              /\ req'[q].nonce \in Nonces <=> Buying(q)'
              /\ Buying(q)' => bought'[req'[q].nonce] = 0 /\ nonce'[req'[q].nonce].state = "spent"
              /\ req'[q].stage = "login" => nonce'[req'[q].nonce].owner = Admin
  <2>1. CASE q = r
    BY <1>4, <2>1
  <2>2. CASE q # r
    <3>1. Buying(q) => req[q].nonce \in Nonces /\ ~(Buying(r) /\ req[q].nonce = req[r].nonce)
      BY <2>2 DEF NonceInv
    <3>2. Buying(q) => bought'[req[q].nonce] = bought[req[q].nonce]
      BY <1>6, <3>1
    <3> QED
      BY <1>5, <2>2, <3>1, <3>2 DEF NonceInv
  <2> QED
    BY <2>1, <2>2
<1>11. \A q, p \in Requests : (Buying(q) /\ Buying(p) /\ req[q].nonce = req[p].nonce => q = p)'
  BY <1>4, <1>5 DEF NonceInv
<1>12. NonceBuysOnce'
  <2> SUFFICES ASSUME NEW n \in Nonces
               PROVE  /\ bought'[n] <= 1
                      /\ bought'[n] = 1 => nonce'[n].state = "spent"
                      /\ session'[n] # "none" => nonce'[n].owner = Admin
    BY DEF NonceBuysOnce
  <2>1. /\ bought[n] <= 1 /\ (bought[n] = 1 => nonce[n].state = "spent") /\ bought[n] \in Nat
        /\ (session[n] # "none" => nonce[n].owner = Admin)
    BY <1>1 DEF NonceInv, NonceBuysOnce
  <2>2. Buying(r) /\ n = req[r].nonce => bought[n] = 0 /\ nonce[n].state = "spent"
    BY DEF NonceInv
  <2>3. bought'[n] <= 1 /\ (bought'[n] = 1 => nonce'[n].state = "spent")
    BY <1>6, <2>1, <2>2
  <2>4. session'[n] # session[n] => nonce[n].owner = Admin
    BY <1>1 DEF NonceInv
  <2> QED
    BY <2>1, <2>3, <2>4
<1> QED
  BY <1>1, <1>3, <1>7, <1>8, <1>9, <1>10, <1>11, <1>12 DEF NonceInv

(* A handler that is no buyer begins.                                      *)
LEMMA OtherBegins ==
    ASSUME NonceInv, NEW r \in Requests, NEW u \in Users, NEW stage \in {"first", "rotate", "revoke"},
           req' = [req EXCEPT ![r] = [stage |-> stage, user |-> u, nonce |-> NoUser]],
           UNCHANGED <<nonce, session, bought>>
    PROVE  NonceInv'
<1> USE CredentialConstants
<1> DEFINE h == [stage |-> stage, user |-> u, nonce |-> NoUser]
<1>1. h \in CredentialHandlers /\ h.stage = stage /\ h.user = u /\ h.nonce = NoUser
  BY DEF CredentialHandlers
<1> HIDE DEF h
<1>2. /\ req \in [Requests -> CredentialHandlers] /\ req' = [req EXCEPT ![r] = h]
      /\ req' \in [Requests -> CredentialHandlers]
  BY <1>1 DEF NonceInv, h
<1>3. ~Buying(r)' /\ req'[r] = h
  BY <1>1, <1>2 DEF Buying
<1>4. \A q \in Requests : q # r => req'[q] = req[q] /\ (Buying(q)' <=> Buying(q))
  BY <1>2 DEF Buying
<1>5. ASSUME NEW q \in Requests
      PROVE  /\ req'[q].stage \in {"first", "rotate", "revoke", "auth"} => req'[q].user \in Users
             /\ req'[q].nonce \in Nonces <=> Buying(q)'
             /\ Buying(q)' => bought'[req'[q].nonce] = 0 /\ nonce'[req'[q].nonce].state = "spent"
             /\ req'[q].stage = "login" => nonce'[req'[q].nonce].owner = Admin
  <2>1. CASE q = r
    BY <1>1, <1>3, <2>1
  <2>2. CASE q # r
    BY <1>4, <2>2 DEF NonceInv
  <2> QED
    BY <2>1, <2>2
<1>6. \A q, p \in Requests : (Buying(q) /\ Buying(p) /\ req[q].nonce = req[p].nonce => q = p)'
  BY <1>3, <1>4 DEF NonceInv
<1>7. NonceBuysOnce'
  BY DEF NonceInv, NonceBuysOnce
<1> QED
  BY <1>2, <1>5, <1>6, <1>7 DEF NonceInv

(* Nonces change state, and are issued, without a handler that holds them. *)
LEMMA NoncesMove ==
    ASSUME NonceInv, UNCHANGED <<req, bought>>,
           nonce' \in [Nonces -> Challenges], session' \in [Nonces -> {"none", "live", "gone"}],
           \A n \in Nonces :
             /\ nonce'[n].owner = NoUser <=> nonce'[n].state = "unissued"
             /\ nonce[n].state = "spent" => nonce'[n] = nonce[n]
             /\ session'[n] # "none" => session[n] # "none"
             /\ nonce[n].owner = Admin => nonce'[n].owner = Admin
    PROVE  NonceInv'
<1>1. ASSUME NEW q \in Requests
      PROVE  /\ Buying(q) => nonce'[req[q].nonce].state = "spent"
             /\ req[q].stage = "login" => nonce'[req[q].nonce].owner = Admin
  <2>1. Buying(q) => req[q].nonce \in Nonces /\ nonce[req[q].nonce].state = "spent"
    BY DEF NonceInv
  <2>2. req[q].stage = "login" => Buying(q) /\ nonce[req[q].nonce].owner = Admin
    BY DEF NonceInv, Buying
  <2> QED
    BY <2>1, <2>2
<1>2. NonceBuysOnce'
  BY DEF NonceInv, NonceBuysOnce
<1> QED
  BY <1>1, <1>2 DEF NonceInv, Buying

(* A nonce is issued once: another account never comes by it.              *)
LEMMA IssueKeeps ==
    ASSUME NonceInv, NEW n \in Nonces, NEW o \in Owners, IssueChallenge(n, o)
    PROVE  NonceInv'
<1> USE CredentialConstants
<1>1. /\ nonce[n].state = "unissued" /\ UNCHANGED <<session, req, bought>>
      /\ nonce' = [m \in Nonces |->
           IF m = n THEN [owner |-> o, state |-> "live"]
           ELSE IF nonce[m].state = "stale" /\ SameMap(nonce[m].owner, o)
                THEN [nonce[m] EXCEPT !.state = "late"] ELSE nonce[m]]
  BY DEF IssueChallenge
<1>2. nonce \in [Nonces -> Challenges] /\ session \in [Nonces -> {"none", "live", "gone"}]
      /\ \A m \in Nonces : nonce[m].owner = NoUser <=> nonce[m].state = "unissued"
  BY DEF NonceInv
<1>3. o # NoUser
  BY DEF Owners, Admin, NoUser
<1>4. ASSUME NEW m \in Nonces
      PROVE  /\ nonce'[m] \in Challenges
             /\ nonce'[m].owner = NoUser <=> nonce'[m].state = "unissued"
             /\ nonce[m].state = "spent" => nonce'[m] = nonce[m]
             /\ nonce[m].owner = Admin => nonce'[m].owner = Admin
  <2>1. CASE m = n
    <3>1. nonce'[m] = [owner |-> o, state |-> "live"] /\ nonce[m].owner = NoUser
      BY <1>1, <1>2, <2>1
    <3> QED
      BY <1>1, <1>3, <2>1, <3>1 DEF Challenges, Admin, NoUser
  <2>2. CASE m # n
    <3>1. nonce'[m] = nonce[m] \/ (nonce[m].state = "stale" /\ nonce'[m] = [nonce[m] EXCEPT !.state = "late"])
      BY <1>1, <2>2
    <3> QED
      BY <1>2, <3>1 DEF Challenges
  <2> QED
    BY <2>1, <2>2
<1>5. nonce' \in [Nonces -> Challenges]
  BY <1>1, <1>4
<1> QED
  BY <1>1, <1>2, <1>4, <1>5, NoncesMove

(* What lapses is not in anybody's hands.                                  *)
LEMMA LapseKeeps == ASSUME NonceInv, NEW n \in Nonces, Lapse(n) PROVE NonceInv'
<1>1. /\ nonce \in [Nonces -> Challenges] /\ session \in [Nonces -> {"none", "live", "gone"}]
      /\ \A m \in Nonces : nonce[m].owner = NoUser <=> nonce[m].state = "unissued"
  BY DEF NonceInv
<1>2. UNCHANGED <<req, bought>>
  BY DEF Lapse
<1>3. CASE nonce[n].state = "live" /\ nonce' = [nonce EXCEPT ![n].state = "stale"] /\ UNCHANGED session
  <2>1. \A m \in Nonces : /\ nonce'[m] \in Challenges /\ nonce'[m].owner = nonce[m].owner
                          /\ nonce'[m] = nonce[m] \/ (nonce[m].state = "live" /\ nonce'[m].state = "stale")
    BY <1>1, <1>3 DEF Challenges
  <2>2. nonce' \in [Nonces -> Challenges]
    BY <1>1, <1>3, <2>1
  <2> QED
    BY <1>1, <1>2, <1>3, <2>1, <2>2, NoncesMove
<1>4. CASE session[n] = "live" /\ session' = [session EXCEPT ![n] = "gone"] /\ UNCHANGED nonce
  BY <1>1, <1>2, <1>4, NoncesMove
<1> QED
  BY <1>3, <1>4 DEF Lapse

(* A nonce in time is consumed by the one handler that then holds it.      *)
LEMMA VerifyKeeps ==
    ASSUME NonceInv, NEW r \in Requests, NEW n \in Nonces, NEW good \in BOOLEAN,
           VerifyChallenge(r, n, good)
    PROVE  NonceInv'
<1> USE CredentialConstants
<1>1. /\ nonce \in [Nonces -> Challenges] /\ session \in [Nonces -> {"none", "live", "gone"}]
      /\ req \in [Requests -> CredentialHandlers]
      /\ \A m \in Nonces : nonce[m].owner = NoUser <=> nonce[m].state = "unissued"
  BY DEF NonceInv
<1>2. /\ nonce[n].state \in {"live", "stale"} /\ UNCHANGED <<session, bought>>
      /\ nonce' = [nonce EXCEPT ![n].state = IF @ = "live" THEN "spent" ELSE "late"]
  BY DEF VerifyChallenge
<1>3. \A m \in Nonces :
        /\ nonce'[m] \in Challenges /\ nonce'[m].owner = nonce[m].owner
        /\ m # n => nonce'[m] = nonce[m]
        /\ nonce'[n].state = IF nonce[n].state = "live" THEN "spent" ELSE "late"
  BY <1>1, <1>2 DEF Challenges
<1>4. nonce' \in [Nonces -> Challenges]
  BY <1>1, <1>2, <1>3
<1>5. \A m \in Nonces : nonce'[m].owner = NoUser <=> nonce'[m].state = "unissued"
  BY <1>1, <1>2, <1>3
<1>6. \A m \in Nonces : nonce[m].state = "spent" => nonce'[m] = nonce[m]
  BY <1>2, <1>3
<1>7. CASE UNCHANGED req
  BY <1>1, <1>2, <1>3, <1>4, <1>5, <1>6, <1>7, NoncesMove
<1>8. CASE nonce[n].state = "live" /\ Verified(r, n)
  <2> DEFINE o == nonce[n].owner
             h == IF o = Admin THEN [stage |-> "login", user |-> NoUser, nonce |-> n]
                  ELSE [stage |-> "auth", user |-> o, nonce |-> n]
  <2>1. o \in Owners /\ (o # Admin => o \in Users)
    BY <1>1, <1>2 DEF Challenges, Owners
  <2>2. /\ h \in CredentialHandlers /\ h.nonce = n /\ h.stage \in {"auth", "login"}
        /\ h.stage = "auth" => h.user \in Users
        /\ h.stage = "login" => o = Admin
    BY <2>1 DEF CredentialHandlers
  <2>3. req' = [req EXCEPT ![r] = h]
    BY <1>8 DEF Verified
  <2> HIDE DEF h, o
  <2>4. req' \in [Requests -> CredentialHandlers] /\ req'[r] = h
        /\ \A q \in Requests : q # r => req'[q] = req[q] /\ (Buying(q)' <=> Buying(q))
    BY <1>1, <2>2, <2>3 DEF Buying
  <2>5. bought[n] = 0
    BY <1>8 DEF NonceInv, NonceBuysOnce
  <2>6. \A q \in Requests : Buying(q) => req[q].nonce # n /\ req[q].nonce \in Nonces
    BY <1>8 DEF NonceInv
  <2>7. ASSUME NEW q \in Requests
        PROVE  /\ req'[q].stage \in {"first", "rotate", "revoke", "auth"} => req'[q].user \in Users
               /\ req'[q].nonce \in Nonces <=> Buying(q)'
               /\ Buying(q)' => bought'[req'[q].nonce] = 0 /\ nonce'[req'[q].nonce].state = "spent"
               /\ req'[q].stage = "login" => nonce'[req'[q].nonce].owner = Admin
    <3>1. CASE q = r
      BY <1>2, <1>3, <1>8, <2>2, <2>4, <2>5, <3>1 DEF Buying, o
    <3>2. CASE q # r
      <4>1. req'[q] = req[q] /\ (Buying(q)' <=> Buying(q))
        BY <2>4, <3>2
      <4>2. Buying(q) => nonce'[req[q].nonce] = nonce[req[q].nonce]
        BY <1>3, <2>6
      <4>3. req[q].stage = "login" => Buying(q)
        BY DEF Buying
      <4> QED
        BY <1>2, <4>1, <4>2, <4>3 DEF NonceInv
    <3> QED
      BY <3>1, <3>2
  <2>8. \A q, p \in Requests : (Buying(q) /\ Buying(p) /\ req[q].nonce = req[p].nonce => q = p)'
    BY <2>2, <2>4, <2>6 DEF NonceInv
  <2>9. NonceBuysOnce'
    BY <1>2, <1>3, <1>6 DEF NonceInv, NonceBuysOnce
  <2>10. bought' \in [Nonces -> Nat] /\ \A m \in Nonces : bought'[m] > 0 => Requests # {}
    BY <1>2 DEF NonceInv
  <2>11. session' \in [Nonces -> {"none", "live", "gone"}]
    BY <1>1, <1>2
  <2> QED
    BY <1>4, <1>5, <2>4, <2>7, <2>8, <2>9, <2>10, <2>11 DEF NonceInv
<1> QED
  BY <1>7, <1>8 DEF VerifyChallenge

(* After a restart nobody holds a nonce.                                   *)
LEMMA RestartKeepsNonces == ASSUME NonceInv, Restart PROVE NonceInv'
<1> USE CredentialConstants
<1>1. /\ bought' = bought /\ req' = [r \in Requests |-> Done]
      /\ nonce' = [n \in Nonces |-> IF nonce[n].state \in {"live", "stale"}
                                    THEN [nonce[n] EXCEPT !.state = "late"] ELSE nonce[n]]
      /\ session' = [n \in Nonces |-> IF session[n] = "live" THEN "gone" ELSE session[n]]
  BY DEF Restart
<1>2. Done \in CredentialHandlers /\ Done.stage = "idle" /\ Done.nonce = NoUser
  BY DEF Done, CredentialHandlers
<1>3. \A n \in Nonces :
        /\ nonce'[n] \in Challenges /\ nonce'[n].owner = nonce[n].owner
        /\ nonce[n].state = "spent" => nonce'[n].state = "spent"
        /\ nonce'[n].state = "unissued" <=> nonce[n].state = "unissued"
  BY <1>1 DEF NonceInv, Challenges
<1>4. nonce' \in [Nonces -> Challenges] /\ session' \in [Nonces -> {"none", "live", "gone"}]
      /\ req' \in [Requests -> CredentialHandlers]
  BY <1>1, <1>2, <1>3 DEF NonceInv
<1>5. \A r \in Requests : req'[r].stage = "idle" /\ req'[r].nonce \notin Nonces /\ ~Buying(r)'
  BY <1>1, <1>2 DEF Buying
<1>6. NonceBuysOnce'
  BY <1>1, <1>3 DEF NonceInv, NonceBuysOnce
<1> QED
  BY <1>1, <1>3, <1>4, <1>5, <1>6 DEF NonceInv

-----------------------------------------------------------------------------
(* Every step keeps both, and the bound on restarts.                       *)
LEMMA CrInvKept == ASSUME CrInv, [CrNext]_crVars PROVE CrInv'
<1> USE CredentialConstants
<1>1. ASSUME NEW r \in Requests, NEW u \in Users,
             NEW shown \in {"static", "session", "own key"},
             BeginRotate(r, u, shown) \/ BeginRevoke(r, u, shown)
      PROVE  CrInv'
  <2>1. PICK stage \in {"first", "rotate", "revoke"} :
          req' = [req EXCEPT ![r] = [stage |-> stage, user |-> u, nonce |-> NoUser]]
    BY <1>1 DEF BeginRotate, BeginRevoke
  <2>2. UNCHANGED <<keyVars, nonce, session, bought, restarts>>
    BY <1>1 DEF BeginRotate, BeginRevoke
  <2>3. NonceInv'
    BY <2>1, <2>2, OtherBegins DEF CrInv
  <2> QED
    BY <2>2, <2>3 DEF CrInv, keyVars, KeyInv, KeyBooksAgree, DeadStaysDead
<1>2. ASSUME NEW r \in Requests, Generate(r) PROVE CrInv'
  <2>1. req[r].user \in Users
    BY <1>2 DEF Generate, CrInv, NonceInv
  <2>2. Finish(r) /\ Purchase(r) /\ UNCHANGED <<nonce, session, restarts>>
    BY <1>2 DEF Generate
  <2>3. ~Buying(r) => bought' = bought
    BY <2>2 DEF Purchase, CrInv, NonceInv
  <2>4. NonceInv'
    BY <2>2, <2>3, HandlerEnds DEF CrInv
  <2> QED
    BY <1>2, <2>1, <2>2, <2>4, GenerateKeepsBooks DEF CrInv
<1>3. ASSUME NEW r \in Requests, InsertFails(r) PROVE CrInv'
  <2>1. Finish(r) /\ UNCHANGED <<keyVars, nonce, session, bought, restarts>>
    BY <1>3 DEF InsertFails
  <2>2. NonceInv'
    BY <2>1, HandlerEnds DEF CrInv
  <2> QED
    BY <2>1, <2>2 DEF CrInv, keyVars, KeyInv, KeyBooksAgree, DeadStaysDead
<1>4. ASSUME NEW r \in Requests, MintSession(r) PROVE CrInv'
  <2>1. /\ Finish(r) /\ Purchase(r) /\ req[r].stage = "login" /\ UNCHANGED <<keyVars, nonce, restarts>>
        /\ session' = [session EXCEPT ![req[r].nonce] = "live"]
    BY <1>4 DEF MintSession
  <2>2. NonceInv'
    BY <2>1, HandlerEnds DEF CrInv
  <2> QED
    BY <2>1, <2>2 DEF CrInv, keyVars, KeyInv, KeyBooksAgree, DeadStaysDead
<1>5. ASSUME NEW r \in Requests, NEW deleted \in BOOLEAN, Revoke(r, deleted) PROVE CrInv'
  <2>1. req[r].user \in Users
    BY <1>5 DEF Revoke, CrInv, NonceInv
  <2>2. Finish(r) /\ UNCHANGED <<nonce, session, bought, restarts>>
    BY <1>5 DEF Revoke
  <2>3. NonceInv'
    BY <2>2, HandlerEnds DEF CrInv
  <2> QED
    BY <1>5, <2>1, <2>2, <2>3, RevokeKeepsBooks DEF CrInv
<1>6. ASSUME NEW r \in Requests, NEW n \in Nonces, NEW good \in BOOLEAN, VerifyChallenge(r, n, good)
      PROVE  CrInv'
  <2>1. UNCHANGED <<keyVars, restarts>>
    BY <1>6 DEF VerifyChallenge
  <2>2. NonceInv'
    BY <1>6, VerifyKeeps DEF CrInv
  <2> QED
    BY <2>1, <2>2 DEF CrInv, keyVars, KeyInv, KeyBooksAgree, DeadStaysDead
<1>7. ASSUME NEW n \in Nonces, Lapse(n) \/ \E o \in Owners : IssueChallenge(n, o) PROVE CrInv'
  <2>1. UNCHANGED <<keyVars, restarts>>
    BY <1>7 DEF Lapse, IssueChallenge
  <2>2. NonceInv'
    BY <1>7, LapseKeeps, IssueKeeps DEF CrInv
  <2> QED
    BY <2>1, <2>2 DEF CrInv, keyVars, KeyInv, KeyBooksAgree, DeadStaysDead
<1>8. CASE Restart
  <2>1. restarts' \in 0..MaxRestarts
    BY <1>8 DEF Restart, CrInv
  <2> QED
    BY <1>8, <2>1, RestartKeepsBooks, RestartKeepsNonces DEF CrInv
<1>9. CASE UNCHANGED crVars
  BY <1>9 DEF crVars, CrInv, KeyInv, KeyBooksAgree, DeadStaysDead, NonceInv, NonceBuysOnce, Buying
<1> QED
  BY <1>1, <1>2, <1>3, <1>4, <1>5, <1>6, <1>7, <1>8, <1>9 DEF CrNext

(* Both maps and the table agree, a key that was replaced or deleted opens *)
(* nothing any more, also after a restart, and a nonce buys one credential *)
(* at most: with any number of handlers between check and write, and with  *)
(* writes that the table refuses.                                          *)
THEOREM SoundCredentials == CrSpec => []CredentialsAreSound
<1>1. CrInv => CredentialsAreSound
  BY DEF CrInv, KeyInv, NonceInv, CredentialsAreSound
<1> QED
  BY <1>1, CrInvStarts, CrInvKept, PTL DEF CrSpec

-----------------------------------------------------------------------------
(* A file that cannot be read is no list of records.                       *)
LEMMA UnreadableIsNone == Unreadable \notin Seq(Records)
<1> SUFFICES ASSUME Unreadable \in Seq(Records) PROVE FALSE
  OBVIOUS
<1>1. Len(Unreadable) = 1 /\ Unreadable[1].action = "none"
  BY DEF Unreadable
<1>2. \A q \in Seq(Records) : \A i \in 1..Len(q) : q[i] \in Records
  OBVIOUS
<1>3. Unreadable[1] \in Records
  BY <1>1, <1>2
<1> QED
  BY <1>1, <1>3 DEF Records

(* Every verdict in the records h is the one that v holds of the image.    *)
OwnUnder(h, v) ==
    h = Unreadable \/
      \A i \in 1..Len(h) : (h[i].action = "deploy" /\ h[i].health # "unknown")
                             => h[i].health = v[h[i].image]

(* A push whose check is still to come.                                    *)
Unchecked == {"tagDeploy", "tagLatest", "redeploy", "record", "save", "check"}
Pushing(o) == op[o].action = "deploy" /\ op[o].stage \in Unchecked

(* One command h: a push has no verdict yet, and its own record is the     *)
(* last of its copy; a rollback goes to an image that has passed.          *)
CommandInv(h) ==
    /\ OwnUnder(h.view, verdict)
    /\ h.stage # "idle" => h.image \in 1..built
    /\ h.action = "deploy" /\ h.stage \in Unchecked =>
         verdict[h.image] = "unknown"
    /\ h.action = "deploy" /\ h.stage \in {"save", "check"} =>
         /\ Len(h.view) >= 1
         /\ h.view[Len(h.view)].action = "deploy" /\ h.view[Len(h.view)].image = h.image
    /\ h.stage = "retag" => h.action = "rollback"
    /\ h.action = "rollback" /\ h.stage # "idle" => verdict[h.image] = "healthy"

DpInv ==
    /\ DpTypeOK
    /\ OwnUnder(history, verdict)
    /\ \A o \in Operators : CommandInv(op[o])
    /\ \A o, p \in Operators : Pushing(o) /\ Pushing(p) /\ op[o].image = op[p].image => o = p
    /\ \A i \in Images : i > built => verdict[i] = "unknown"

(* An idle command is one.                                                 *)
LEMMA NoCommandTyped == NoCommand \in Commands /\ CommandInv(NoCommand)
<1> USE DeployBounds
<1>1. NoCommand \in Commands
  BY DEF NoCommand, Commands, Stages, Histories
<1>2. OwnUnder(<<>>, verdict)
  BY DEF OwnUnder
<1> QED
  BY <1>1, <1>2 DEF NoCommand, CommandInv, Unchecked

(* Before any command the invariant holds.                                 *)
LEMMA DpInvStarts == DpInit => DpInv
<1> SUFFICES ASSUME DpInit PROVE DpInv
  OBVIOUS
<1> USE DeployBounds
<1>1. DpTypeOK
  BY NoCommandTyped DEF DpInit, DpTypeOK, Histories, Healths
<1>2. OwnUnder(history, verdict)
  BY DEF DpInit, OwnUnder
<1>3. \A o \in Operators : CommandInv(op[o]) /\ ~Pushing(o)
  BY NoCommandTyped DEF DpInit, Pushing, Unchecked, NoCommand
<1> QED
  BY <1>1, <1>2, <1>3 DEF DpInv, DpInit

(* One command moves, and nothing that the others rely on.                 *)
LEMMA OneCommandMoves ==
    ASSUME DpInv, NEW o \in Operators, NEW h \in Commands, op' = [op EXCEPT ![o] = h],
           UNCHANGED <<verdict, built>>, CommandInv(h),
           history' \in Histories \/ history' = Unreadable, OwnUnder(history', verdict),
           latest' \in 0..MaxImages, deployTag' \in 0..MaxImages, running' \in 0..MaxImages,
           rollbacks' \in 0..MaxRollbacks,
           h.action = "deploy" /\ h.stage \in Unchecked =>
             Pushing(o) /\ h.image = op[o].image
    PROVE  DpInv'
<1>1. DpTypeOK'
  BY DEF DpInv, DpTypeOK
<1>2. op'[o] = h /\ \A p \in Operators : p # o => op'[p] = op[p]
  BY DEF DpInv, DpTypeOK
<1>3. ASSUME NEW p \in Operators PROVE CommandInv(op[p])'
  <2>1. CASE p = o
    BY <1>2, <2>1 DEF CommandInv, Unchecked
  <2>2. CASE p # o
    BY <1>2, <2>2 DEF CommandInv, DpInv, Unchecked
  <2> QED
    BY <2>1, <2>2
<1>4. \A p \in Operators : Pushing(p)' => Pushing(p) /\ op'[p].image = op[p].image
  BY <1>2 DEF Pushing, Unchecked
<1>5. \A p, q \in Operators : (Pushing(p) /\ Pushing(q) /\ op[p].image = op[q].image => p = q)'
  BY <1>4 DEF DpInv
<1> QED
  BY <1>1, <1>3, <1>5 DEF DpInv

(* What a command and the target hold is typed.                            *)
LEMMA DpTyped ==
    ASSUME DpInv, NEW o \in Operators
    PROVE  /\ op[o] \in Commands /\ CommandInv(op[o]) /\ op[o].view \in Seq(Records)
           /\ op \in [Operators -> Commands]
           /\ history \in Histories \/ history = Unreadable
           /\ OwnUnder(history, verdict)
           /\ latest \in 0..MaxImages /\ deployTag \in 0..MaxImages /\ running \in 0..MaxImages
           /\ rollbacks \in 0..MaxRollbacks /\ built \in 0..MaxImages
           /\ verdict \in [Images -> Healths]
BY DEF DpInv, DpTypeOK, Commands, Stages, Histories

(* Giving up leaves what was done so far.                                  *)
LEMMA AbandonKeeps == ASSUME DpInv, NEW o \in Operators, Abandon(o) PROVE DpInv'
<1>1. /\ op' = [op EXCEPT ![o] = NoCommand]
      /\ UNCHANGED <<history, latest, deployTag, running, verdict, built, rollbacks>>
  BY DEF Abandon, Quit
<1>2. NoCommand.stage \notin Unchecked
  BY DEF NoCommand, Unchecked
<1> QED
  BY <1>1, <1>2, NoCommandTyped, DpTyped, OneCommandMoves

(* A build gives a new image, of which no verdict is known.                *)
LEMMA BuildKeeps == ASSUME DpInv, NEW o \in Operators, RemoteBuild(o) PROVE DpInv'
<1> USE DeployBounds
<1> DEFINE h == [NoCommand EXCEPT !.stage = "tagDeploy", !.image = built + 1]
<1>1. /\ op' = [op EXCEPT ![o] = h] /\ built' = built + 1 /\ built < MaxImages
      /\ UNCHANGED <<history, latest, deployTag, running, verdict, rollbacks>>
  BY DEF RemoteBuild
<1>2. op \in [Operators -> Commands] /\ built \in Nat /\ built + 1 \in Images /\ built' \in 0..MaxImages
  BY <1>1, DpTyped DEF Images
<1>3. /\ h.stage = "tagDeploy" /\ h.image = built + 1 /\ h.action = "deploy" /\ h.view = <<>>
  BY DEF NoCommand
<1>4. h \in Commands
  BY <1>1, <1>2, NoCommandTyped DEF Commands, Stages
<1>5. verdict[built + 1] = "unknown"
  BY <1>2 DEF DpInv
<1> HIDE DEF h
<1>6. op'[o] = h /\ \A p \in Operators : p # o => op'[p] = op[p]
  BY <1>1, <1>2
<1>7. DpTypeOK'
  BY <1>1, <1>2, <1>4 DEF DpInv, DpTypeOK
<1>8. ASSUME NEW p \in Operators PROVE CommandInv(op[p])'
  <2>1. CASE p = o
    BY <1>1, <1>2, <1>3, <1>5, <1>6, <2>1 DEF CommandInv, OwnUnder, Unchecked
  <2>2. CASE p # o
    BY <1>1, <1>2, <1>6, <2>2 DEF CommandInv, DpInv, Unchecked
  <2> QED
    BY <2>1, <2>2
<1>9. \A p \in Operators : Pushing(p) => op[p].image <= built
  BY <1>2 DEF DpInv, CommandInv, Pushing, Unchecked
<1>10. \A p, q \in Operators : (Pushing(p) /\ Pushing(q) /\ op[p].image = op[q].image => p = q)'
  <2> TAKE p, q \in Operators
  <2>1. CASE p # o /\ q # o
    BY <1>6, <2>1 DEF DpInv, Pushing, Unchecked
  <2>2. CASE p = o /\ q # o
    BY <1>2, <1>3, <1>6, <1>9, <2>2 DEF Pushing, Unchecked
  <2>3. CASE p # o /\ q = o
    BY <1>2, <1>3, <1>6, <1>9, <2>3 DEF Pushing, Unchecked
  <2>4. CASE p = o /\ q = o
    BY <2>4
  <2> QED
    BY <2>1, <2>2, <2>3, <2>4
<1>11. OwnUnder(history, verdict)' /\ \A i \in Images : i > built' => verdict'[i] = "unknown"
  BY <1>1, <1>2 DEF DpInv, Images
<1> QED
  BY <1>7, <1>8, <1>10, <1>11 DEF DpInv

(* The containers and the floating tags move; records and verdicts do not. *)
LEMMA RedeployKeeps ==
    ASSUME DpInv, NEW o \in Operators,
           TagLatestDeploy(o) \/ TagLatest(o) \/ Redeploy(o) \/ RemoteRetag(o)
    PROVE  DpInv'
<1> USE DeployBounds
<1>1. PICK stage \in {"tagLatest", "redeploy", "record", "check"} :
        /\ op' = [op EXCEPT ![o].stage = stage]
        /\ op[o].stage \in {"tagDeploy", "tagLatest", "redeploy", "retag"}
        /\ op[o].action = "deploy" => stage # "check"
  BY DEF TagLatestDeploy, TagLatest, Redeploy, RemoteRetag, Step
<1> DEFINE h == [op[o] EXCEPT !.stage = stage]
<1>2. op[o] \in Commands /\ CommandInv(op[o]) /\ op \in [Operators -> Commands]
  BY DpTyped
<1>3. h \in Commands
  BY <1>2 DEF Commands, Stages
<1>4. op' = [op EXCEPT ![o] = h]
  BY <1>1, <1>2
<1>5. h.stage = stage /\ h.action = op[o].action /\ h.image = op[o].image /\ h.view = op[o].view
  BY <1>2 DEF Commands, Stages
<1> HIDE DEF h
<1>6. CommandInv(h)
  BY <1>1, <1>2, <1>5 DEF CommandInv, Unchecked
<1>7. h.action = "deploy" => Pushing(o)
  BY <1>1, <1>2, <1>5 DEF CommandInv, Pushing, Unchecked
<1>8. /\ UNCHANGED <<history, verdict, built, rollbacks>>
      /\ latest' \in 0..MaxImages /\ deployTag' \in 0..MaxImages /\ running' \in 0..MaxImages
  BY <1>2, DpTyped DEF TagLatestDeploy, TagLatest, Redeploy, RemoteRetag, Commands, Stages
<1> QED
  BY <1>3, <1>4, <1>5, <1>6, <1>7, <1>8, DpTyped, OneCommandMoves

(* A push appends a record without a verdict to the copy it has fetched.   *)
LEMMA AppendKeeps ==
    ASSUME DpInv, NEW o \in Operators, NEW ok \in BOOLEAN, AppendRecord(o, ok)
    PROVE  DpInv'
<1> USE DeployBounds
<1> DEFINE base == IF ok /\ history # Unreadable THEN history ELSE <<>>
           own == [action |-> "deploy", image |-> op[o].image, health |-> "unknown"]
           view == Append(base, own)
           h == [op[o] EXCEPT !.stage = "save", !.view = view]
<1>1. op[o].stage = "record" /\ op' = [op EXCEPT ![o].stage = "save", ![o].view = view]
      /\ UNCHANGED <<history, latest, deployTag, running, verdict, built, rollbacks>>
  BY DEF AppendRecord
<1>2. op[o] \in Commands /\ CommandInv(op[o]) /\ op \in [Operators -> Commands]
  BY DpTyped
<1>3. op[o].image \in Images
  BY <1>1, <1>2, DpTyped DEF CommandInv, Images, Unchecked
<1>4. own \in Records
  BY <1>3 DEF Records, Healths
<1>5. base \in Seq(Records) /\ OwnUnder(base, verdict) /\ base # Unreadable
  <2>1. CASE ok /\ history # Unreadable
    BY <2>1, DpTyped DEF Histories
  <2>2. CASE ~(ok /\ history # Unreadable)
    BY <2>2 DEF OwnUnder, Unreadable
  <2> QED
    BY <2>1, <2>2
<1>6. own.action = "deploy" /\ own.image = op[o].image /\ own.health = "unknown"
  OBVIOUS
<1> HIDE DEF base, own
<1>7. /\ view \in Seq(Records) /\ Len(view) = Len(base) + 1 /\ view[Len(view)] = own
      /\ Len(base) \in Nat /\ \A i \in 1..Len(base) : view[i] = base[i]
  BY <1>4, <1>5
<1> HIDE DEF view
<1>8. OwnUnder(view, verdict)
  <2>1. \A i \in 1..Len(view) : i \in 1..Len(base) \/ view[i] = own
    BY <1>7
  <2> QED
    BY <1>5, <1>6, <1>7, <2>1 DEF OwnUnder
<1>9. h \in Commands
  BY <1>2, <1>7 DEF Commands, Stages, Histories
<1>10. op' = [op EXCEPT ![o] = h]
  BY <1>1, <1>2
<1>11. h.stage = "save" /\ h.action = op[o].action /\ h.image = op[o].image /\ h.view = view
  BY <1>2 DEF Commands, Stages
<1> HIDE DEF h
<1>12. CommandInv(h)
  BY <1>1, <1>2, <1>6, <1>7, <1>8, <1>11 DEF CommandInv, Unchecked
<1>13. h.action = "deploy" => Pushing(o)
  BY <1>1, <1>11 DEF Pushing, Unchecked
<1> QED
  BY <1>1, <1>9, <1>10, <1>11, <1>12, <1>13, DpTyped, OneCommandMoves

(* Whatever of the copy reaches the file, its verdicts are its own.        *)
LEMMA SaveKeeps == ASSUME DpInv, NEW o \in Operators, SaveRemoteHistory(o) PROVE DpInv'
<1> USE DeployBounds
<1>1. /\ op[o].stage \in {"save", "update"} /\ history' \in {op[o].view, history, Unreadable}
      /\ UNCHANGED <<latest, deployTag, running, verdict, built, rollbacks>>
  BY DEF SaveRemoteHistory
<1>2. /\ op[o] \in Commands /\ CommandInv(op[o]) /\ op \in [Operators -> Commands]
      /\ op[o].view \in Seq(Records)
  BY DpTyped
<1>3. (history' \in Histories \/ history' = Unreadable) /\ OwnUnder(history', verdict)
  <2>1. CASE history' = op[o].view
    BY <1>2, <2>1 DEF CommandInv, Histories, Unchecked
  <2>2. CASE history' = history
    BY <2>2, DpTyped
  <2>3. CASE history' = Unreadable
    BY <2>3 DEF OwnUnder
  <2> QED
    BY <1>1, <2>1, <2>2, <2>3
<1>4. CASE op[o].stage = "save"
  <2> DEFINE h == [op[o] EXCEPT !.stage = "check"]
  <2>1. op' = [op EXCEPT ![o] = h]
    BY <1>2, <1>4 DEF SaveRemoteHistory, Step
  <2>2. h \in Commands
    BY <1>2 DEF Commands, Stages
  <2>3. h.stage = "check" /\ h.action = op[o].action /\ h.image = op[o].image /\ h.view = op[o].view
    BY <1>2 DEF Commands, Stages
  <2> HIDE DEF h
  <2>4. CommandInv(h)
    BY <1>2, <1>4, <2>3 DEF CommandInv, Unchecked
  <2>5. h.action = "deploy" => Pushing(o)
    BY <1>4, <2>3 DEF Pushing, Unchecked
  <2> QED
    BY <1>1, <1>3, <2>1, <2>2, <2>3, <2>4, <2>5, DpTyped, OneCommandMoves
<1>5. CASE op[o].stage = "update"
  <2>1. op' = [op EXCEPT ![o] = NoCommand]
    BY <1>5 DEF SaveRemoteHistory, Quit
  <2>2. NoCommand.stage \notin Unchecked
    BY DEF NoCommand, Unchecked
  <2> QED
    BY <1>1, <1>3, <2>1, <2>2, NoCommandTyped, DpTyped, OneCommandMoves
<1> QED
  BY <1>1, <1>4, <1>5

(* The verdict of a push concerns no record that has one: until then every *)
(* record of its image says unknown.                                       *)
LEMMA VerdictConcernsOwn ==
    ASSUME NEW h, NEW i \in Images, NEW x, verdict \in [Images -> Healths], verdict[i] = "unknown",
           OwnUnder(h, verdict), h = Unreadable \/ h \in Seq(Records)
    PROVE  OwnUnder(h, [verdict EXCEPT ![i] = x])
<1> SUFFICES ASSUME h # Unreadable, NEW k \in 1..Len(h),
                    h[k].action = "deploy", h[k].health # "unknown"
             PROVE  h[k].health = [verdict EXCEPT ![i] = x][h[k].image]
  BY DEF OwnUnder
<1>1. h[k].health = verdict[h[k].image]
  BY DEF OwnUnder
<1>2. h[k].image # i
  BY <1>1
<1>3. h[k].image \in Images
  <2>1. h[k] \in Records
    OBVIOUS
  <2> QED
    BY <2>1 DEF Records
<1> QED
  BY <1>1, <1>2, <1>3

(* The check enters its verdict in the one record that is the push's.      *)
LEMMA CheckKeepsPush ==
    ASSUME DpInv, NEW o \in Operators, NEW ok \in BOOLEAN, GoldenSignals(o, ok),
           op[o].action = "deploy"
    PROVE  DpInv'
<1> USE DeployBounds
<1> DEFINE health == IF ok THEN "healthy" ELSE "unhealthy"
           i == op[o].image
           old == op[o].view
           view == [old EXCEPT ![Len(old)].health = health]
           h == [op[o] EXCEPT !.stage = "update", !.view = view]
<1>1. /\ op[o].stage = "check" /\ verdict' = [verdict EXCEPT ![i] = health]
      /\ op' = [op EXCEPT ![o].stage = "update", ![o].view[OwnRecord(op[o].view)].health = health]
      /\ UNCHANGED <<history, latest, deployTag, running, built, rollbacks>>
  BY DEF GoldenSignals
<1>2. /\ op[o] \in Commands /\ CommandInv(op[o]) /\ op \in [Operators -> Commands]
      /\ old \in Seq(Records) /\ verdict \in [Images -> Healths] /\ Pushing(o)
  BY <1>1, DpTyped DEF Pushing, Unchecked
<1>3. i \in Images /\ verdict[i] = "unknown" /\ health \in Healths /\ health # "unknown"
  BY <1>1, <1>2, DpTyped DEF CommandInv, Images, Healths, Unchecked
<1>4. /\ Len(old) >= 1 /\ Len(old) \in Nat /\ old[Len(old)].action = "deploy" /\ old[Len(old)].image = i
      /\ old[Len(old)] \in Records
  BY <1>1, <1>2 DEF CommandInv, Unchecked
<1>5. op' = [op EXCEPT ![o] = h]
  BY <1>1, <1>2 DEF OwnRecord
<1> DEFINE own == [old[Len(old)] EXCEPT !.health = health]
<1>6. own \in Records /\ own.action = "deploy" /\ own.image = i /\ own.health = health
  BY <1>3, <1>4 DEF Records
<1> HIDE DEF own, health
<1>7. /\ view = [old EXCEPT ![Len(old)] = own]
  BY DEF own
<1>8. /\ view \in Seq(Records) /\ Len(view) = Len(old)
      /\ \A k \in 1..Len(old) : view[k] = IF k = Len(old) THEN own ELSE old[k]
  BY <1>2, <1>4, <1>6, <1>7
<1> HIDE DEF view
<1>9. h \in Commands
  BY <1>2, <1>8 DEF Commands, Stages, Histories
<1>10. h.stage = "update" /\ h.action = "deploy" /\ h.image = i /\ h.view = view
  BY <1>2 DEF Commands, Stages
<1> HIDE DEF h
<1>11. \A g : (g = Unreadable \/ g \in Seq(Records)) /\ OwnUnder(g, verdict) => OwnUnder(g, verdict')
  BY <1>1, <1>2, <1>3, VerdictConcernsOwn
<1>12. OwnUnder(view, verdict')
  <2>1. CASE old = Unreadable
    BY <1>4, <2>1 DEF Unreadable
  <2>2. CASE old # Unreadable
    <3>1. OwnUnder(old, verdict')
      BY <1>2, <1>11 DEF CommandInv, Unchecked
    <3>2. verdict'[i] = health
      BY <1>1, <1>2, <1>3
    <3> QED
      BY <1>6, <1>8, <2>2, <3>1, <3>2 DEF OwnUnder
  <2> QED
    BY <2>1, <2>2
<1>13. op'[o] = h /\ \A p \in Operators : p # o => op'[p] = op[p]
  BY <1>2, <1>5
<1>14. \A j \in Images : j # i => verdict'[j] = verdict[j]
  BY <1>1, <1>2
<1>15. DpTypeOK'
  BY <1>1, <1>2, <1>3, <1>5, <1>9 DEF DpInv, DpTypeOK
<1>16. ASSUME NEW p \in Operators PROVE CommandInv(op[p])'
  <2>1. CASE p = o
    BY <1>1, <1>2, <1>10, <1>12, <1>13, <2>1 DEF CommandInv, Unchecked
  <2>2. CASE p # o
    <3>1. op'[p] = op[p] /\ CommandInv(op[p]) /\ op[p].view \in Seq(Records)
      BY <1>13, <2>2, DpTyped
    <3>2. OwnUnder(op[p].view, verdict')
      BY <1>11, <3>1 DEF CommandInv, Unchecked
    <3>3. op[p].stage # "idle" => op[p].image \in Images
      BY <3>1, DpTyped DEF CommandInv, Images, Unchecked
    <3>4. Pushing(p) => op[p].image # i
      BY <1>2, <2>2 DEF DpInv
    <3>5. op[p].action = "rollback" /\ op[p].stage # "idle" => op[p].image # i
      BY <1>3, <3>1 DEF CommandInv, Unchecked
    <3>6. op[p].action = "deploy" /\ op[p].stage \in Unchecked =>
             verdict'[op[p].image] = "unknown"
      BY <1>14, <3>1, <3>3, <3>4 DEF CommandInv, Pushing, Unchecked
    <3>7. op[p].action = "rollback" /\ op[p].stage # "idle" => verdict'[op[p].image] = "healthy"
      BY <1>14, <3>1, <3>3, <3>5 DEF CommandInv, Unchecked
    <3> QED
      BY <1>1, <3>1, <3>2, <3>6, <3>7 DEF CommandInv, Unchecked
  <2> QED
    BY <2>1, <2>2
<1>17. \A p, q \in Operators : (Pushing(p) /\ Pushing(q) /\ op[p].image = op[q].image => p = q)'
  <2>1. \A p \in Operators : Pushing(p)' => Pushing(p) /\ op'[p].image = op[p].image
    BY <1>10, <1>13 DEF Pushing, Unchecked
  <2> QED
    BY <2>1 DEF DpInv
<1>18. OwnUnder(history, verdict)'
  BY <1>1, <1>11, DpTyped DEF Histories
<1>19. \A j \in Images : j > built' => verdict'[j] = "unknown"
  <2>1. i <= built
    BY <1>1, <1>2, DpTyped DEF CommandInv, Unchecked
  <2> QED
    BY <1>1, <1>14, <2>1, DpTyped DEF DpInv, Images
<1> QED
  BY <1>15, <1>16, <1>17, <1>18, <1>19 DEF DpInv

(* The record of a rollback is nobody's verdict.                           *)
LEMMA CheckKeepsRollback ==
    ASSUME DpInv, NEW o \in Operators, NEW ok \in BOOLEAN, GoldenSignals(o, ok),
           op[o].action # "deploy"
    PROVE  DpInv'
<1> USE DeployBounds
<1> DEFINE health == IF ok THEN "healthy" ELSE "unhealthy"
           own == [action |-> "rollback", image |-> op[o].image, health |-> health]
           old == op[o].view
           view == Append(old, own)
           h == [op[o] EXCEPT !.stage = "update", !.view = view]
<1>1. /\ op[o].stage = "check" /\ op' = [op EXCEPT ![o].stage = "update", ![o].view = Append(@, own)]
      /\ UNCHANGED <<verdict, history, latest, deployTag, running, built, rollbacks>>
  BY DEF GoldenSignals
<1>2. op[o] \in Commands /\ CommandInv(op[o]) /\ op \in [Operators -> Commands] /\ old \in Seq(Records)
  BY DpTyped
<1>3. op[o].image \in Images
  BY <1>1, <1>2, DpTyped DEF CommandInv, Images, Unchecked
<1>4. own \in Records /\ own.action = "rollback"
  BY <1>3 DEF Records, Healths
<1>5. op' = [op EXCEPT ![o] = h]
  BY <1>1, <1>2
<1> HIDE DEF own
<1>6. /\ view \in Seq(Records) /\ Len(view) = Len(old) + 1 /\ view[Len(view)] = own
      /\ Len(old) \in Nat /\ \A i \in 1..Len(old) : view[i] = old[i]
  BY <1>2, <1>4
<1> HIDE DEF view
<1>7. OwnUnder(view, verdict)
  <2>1. \A i \in 1..Len(view) : i \in 1..Len(old) \/ view[i] = own
    BY <1>6
  <2>2. CASE old # Unreadable
    BY <1>2, <1>4, <1>6, <2>1, <2>2 DEF OwnUnder, CommandInv, Unchecked
  <2>3. CASE old = Unreadable
    BY <1>2, <2>3, UnreadableIsNone
  <2> QED
    BY <2>2, <2>3
<1>8. h \in Commands
  BY <1>2, <1>6 DEF Commands, Stages, Histories
<1>9. h.stage = "update" /\ h.action = op[o].action /\ h.image = op[o].image /\ h.view = view
  BY <1>2 DEF Commands, Stages
<1> HIDE DEF h
<1>10. CommandInv(h)
  BY <1>1, <1>2, <1>7, <1>9 DEF CommandInv, Unchecked
<1> QED
  BY <1>1, <1>5, <1>8, <1>9, <1>10, DpTyped, OneCommandMoves

-----------------------------------------------------------------------------
(* A non-empty set of positions has a last one.                            *)
LEMMA HasLast ==
    ASSUME NEW n \in Nat, NEW S \in SUBSET (1..n), S # {}
    PROVE  \E x \in S : \A y \in S : y <= x
<1> DEFINE R == OpToRel(<, Nat)
           D == {n - y : y \in S}
<1>1. IsWellFoundedOn(R, Nat)
  BY NatLessThanWellFounded
<1>2. R = {ss \in Nat \X Nat : ss[1] < ss[2]}
  BY DEF OpToRel
<1>3. D \in SUBSET Nat /\ D # {}
  <2>1. \A y \in S : n - y \in Nat
    OBVIOUS
  <2>2. \A e \in D : e \in Nat
    BY <2>1
  <2>3. PICK y \in S : TRUE
    OBVIOUS
  <2>4. n - y \in D
    BY <2>3
  <2> HIDE DEF D
  <2> QED
    BY <2>2, <2>4
<1> HIDE DEF R, D
<1>4. PICK d \in D : \A e \in D : ~(<<e, d>> \in R)
  BY <1>1, <1>3, WFMin
<1>5. \A e \in D : d <= e
  <2>1. ASSUME NEW e \in D, e < d
        PROVE  <<e, d>> \in R
    BY <1>2, <1>3, <2>1
  <2>2. \A e \in D : ~(e < d)
    BY <1>4, <2>1
  <2> QED
    BY <1>3, <2>2
<1>6. PICK x \in S : d = n - x
  BY DEF D
<1>7. \A y \in S : n - y \in D
  BY DEF D
<1>8. \A y \in S : y <= x
  BY <1>5, <1>6, <1>7
<1> QED
  BY <1>8

(* A rollback's target is a record with a healthy verdict.                 *)
LEMMA TargetIsProven ==
    ASSUME NEW h \in Seq(Records), Proven(h) # {}
    PROVE  \E k \in Proven(h) : RollbackTarget(h) = h[k].image
<1>1. Len(h) \in Nat /\ Proven(h) \in SUBSET (1..Len(h))
  BY DEF Proven
<1>2. \E x \in Proven(h) : \A y \in Proven(h) : y <= x
  BY <1>1, HasLast
<1> QED
  BY <1>2 DEF RollbackTarget

(* So a rollback goes to an image whose own push has passed.               *)
LEMMA FetchKeeps == ASSUME DpInv, NEW o \in Operators, FetchForRollback(o) PROVE DpInv'
<1> USE DeployBounds
<1> DEFINE h == [stage |-> "retag", action |-> "rollback", image |-> RollbackTarget(history),
                 view |-> history]
<1>1. /\ history # Unreadable /\ Proven(history) # {} /\ rollbacks' = rollbacks + 1
      /\ rollbacks < MaxRollbacks /\ op' = [op EXCEPT ![o] = h]
      /\ UNCHANGED <<history, latest, deployTag, running, verdict, built>>
  BY DEF FetchForRollback
<1>2. /\ history \in Seq(Records) /\ OwnUnder(history, verdict) /\ rollbacks \in 0..MaxRollbacks
      /\ verdict \in [Images -> Healths] /\ built \in 0..MaxImages
  BY <1>1, DpTyped DEF Histories
<1>3. PICK k \in Proven(history) : RollbackTarget(history) = history[k].image
  BY <1>1, <1>2, TargetIsProven
<1>4. k \in 1..Len(history) /\ history[k].action = "deploy" /\ history[k].health = "healthy"
  BY <1>2, <1>3 DEF Proven
<1>5. history[k] \in Records
  BY <1>2, <1>4
<1>6. RollbackTarget(history) \in Images /\ verdict[RollbackTarget(history)] = "healthy"
  BY <1>1, <1>2, <1>3, <1>4, <1>5 DEF OwnUnder, Records
<1>7. RollbackTarget(history) <= built
  BY <1>2, <1>6 DEF DpInv, Images
<1>8. h \in Commands
  BY <1>2, <1>6 DEF Commands, Stages, Histories, Images
<1>9. /\ h.stage = "retag" /\ h.action = "rollback" /\ h.image = RollbackTarget(history)
      /\ h.view = history
  OBVIOUS
<1> HIDE DEF h
<1>10. CommandInv(h)
  BY <1>2, <1>6, <1>7, <1>9 DEF CommandInv, Images, Unchecked
<1>11. rollbacks' \in 0..MaxRollbacks
  BY <1>1, <1>2
<1> QED
  BY <1>1, <1>8, <1>9, <1>10, <1>11, DpTyped, OneCommandMoves

(* Every step of a command keeps the invariant.                            *)
LEMMA DpInvKept == ASSUME DpInv, [DpNext]_dpVars PROVE DpInv'
<1>1. ASSUME NEW o \in Operators,
             \/ RemoteBuild(o) \/ TagLatestDeploy(o) \/ TagLatest(o)
             \/ Redeploy(o) \/ SaveRemoteHistory(o) \/ FetchForRollback(o)
             \/ RemoteRetag(o) \/ Abandon(o)
      PROVE  DpInv'
  BY <1>1, BuildKeeps, RedeployKeeps, SaveKeeps, FetchKeeps, AbandonKeeps
<1>2. ASSUME NEW o \in Operators, NEW ok \in BOOLEAN, AppendRecord(o, ok) \/ GoldenSignals(o, ok)
      PROVE  DpInv'
  BY <1>2, AppendKeeps, CheckKeepsPush, CheckKeepsRollback
<1>3. CASE UNCHANGED dpVars
  BY <1>3 DEF dpVars, DpInv, DpTypeOK, CommandInv, Pushing, Unchecked
<1> QED
  BY <1>1, <1>2, <1>3 DEF DpNext

(* No record carries the verdict of another push, and no rollback goes to  *)
(* an image that has not passed its own check, however many operators      *)
(* overwrite each other's copies of the history file.                      *)
THEOREM OwnVerdicts == DpSpec => []VerdictsAreOwn
<1>1. DpInv => VerdictsAreOwn
  BY DEF DpInv, CommandInv, OwnUnder, VerdictsAreOwn, Unchecked
<1> QED
  BY <1>1, DpInvStarts, DpInvKept, PTL DEF DpSpec

-----------------------------------------------------------------------------
(* A directory's shelf and file agree with its pins while it runs; a strict one
   has the operator's list; one that is down has nothing on its shelf. *)
PinInv ==
  /\ \A d \in Directories, p \in Pods :
       /\ shelf[d][p].seq > 0 => d \in up /\ shelf[d][p].key = pins[d][p]
       /\ (d \in up \ strict /\ file[d] /= Torn /\ p \notin unsaved[d]) => pins[d][p] = file[d][p]
       /\ d \in up \cap strict => pins[d][p] = Listed[p]

(* What a directory has heard for a pod is in its pins, in its file while it is
   down, in the list of a strict one, or forgotten. *)
HeardInv ==
  \A h \in heard :
    LET d == h.to
        p == h.digest.pod
        k == h.digest.key
    IN /\ d \in strict => k = Listed[p]
       /\ (d \in up /\ p \notin forgot[d]) => pins[d][p] = k
       /\ (d \notin up \cup strict /\ p \notin forgot[d] \cup unsaved[d] /\ file[d] /= Torn) =>
            file[d][p] = k

(* One key to a pod and a directory, until it has forgotten. *)
OneKeyInv ==
  \A h1, h2 \in heard :
    (/\ h1.to = h2.to /\ h1.digest.pod = h2.digest.pod
     /\ h1.digest.pod \notin forgot[h1.to]) => h1.digest.key = h2.digest.key

(* The answer that RegisterPod has is that of the endpoint it asked. *)
ReportInv ==
  \A p \in Pods :
    /\ ~Returned(p) => report[p].seq > 0
    /\ (report[p].seq > 0 /\ report[p].next > 1 /\ ~report[p].error) =>
         \E m \in heard : m.digest = Current(p)

DiInv == DiTypeOK /\ PinInv /\ HeardInv /\ OneKeyInv /\ OneHop /\ ReportInv

-----------------------------------------------------------------------------
(* Either directory is the other's only peer. *)
LEMMA PeerOfPeer ==
    ASSUME NEW d \in Directories
    PROVE  /\ Peer(d) \in Directories /\ Peer(d) /= d /\ Peer(Peer(d)) = d
           /\ Directories = {Endpoints[1], Endpoints[2]}
<1>1. Directories = {Endpoints[1], Endpoints[2]}
  <2>1. 1..Len(Endpoints) = {1, 2}
    BY DirectoryConstants
  <2> QED
    BY <2>1 DEF Directories
<1>2. \A x \in Directories : \E e \in Directories : e /= x
  BY <1>1, DirectoryConstants
<1>3. \A x \in Directories : Peer(x) \in Directories /\ Peer(x) /= x
  BY <1>2 DEF Peer
<1> QED
  BY <1>1, <1>3

(* A request that passes a digest on has the request it came by as its source. *)
LEMMA PassedOn ==
    ASSUME NEW m \in Sendings, ~m.gossip, NEW x \in PassOn(m)
    PROVE  x \in Sendings /\ x.gossip /\ [x EXCEPT !.to = Peer(x.to), !.gossip = FALSE] = m
<1>1. x = [m EXCEPT !.to = Peer(m.to), !.gossip = TRUE]
  BY DEF PassOn
<1>2. m.to \in Directories /\ m = [to |-> m.to, gossip |-> FALSE, digest |-> m.digest]
  BY DEF Sendings
<1>3. x = [to |-> Peer(m.to), gossip |-> TRUE, digest |-> m.digest]
  BY <1>1, <1>2
<1>4. Peer(m.to) \in Directories /\ Peer(Peer(m.to)) = m.to
  BY <1>2, PeerOfPeer
<1>5. x \in Sendings
  BY <1>3, <1>4 DEF Sendings
<1>6. x.to = Peer(m.to) /\ x.gossip /\ x.digest = m.digest
  BY <1>3
<1> DEFINE y == [x EXCEPT !.to = Peer(x.to), !.gossip = FALSE]
<1>7. y \in Sendings
  BY <1>2, <1>4, <1>5, <1>6 DEF Sendings
<1>8. y.to = m.to /\ y.gossip = FALSE /\ y.digest = m.digest
  BY <1>4, <1>5, <1>6 DEF Sendings
<1> HIDE DEF y
<1>9. y = [to |-> y.to, gossip |-> y.gossip, digest |-> y.digest]
  BY <1>7 DEF Sendings
<1>10. y = m
  BY <1>2, <1>8, <1>9
<1> QED
  BY <1>5, <1>6, <1>10 DEF y

(* The digest of a report that is under way, and the request to its next endpoint. *)
LEMMA NextIsSending ==
    ASSUME DiTypeOK, NEW p \in Pods, report[p].seq > 0, NEW sent \in SUBSET Sendings, ~Returned(p)
    PROVE  /\ AskNext(p, sent) \in SUBSET Sendings
           /\ \A x \in AskNext(p, sent) : x \in sent \/ ~x.gossip
<1>1. report[p].seq \in Nat \ {0} /\ report[p].key \in SigningKeys /\ report[p].next \in {1, 2}
  BY DirectoryConstants DEF DiTypeOK, Reports, Returned
<1>2. Current(p) \in Digests
  BY <1>1 DEF Current, Digests
<1>3. CASE report[p].next < Len(Endpoints)
  <2> DEFINE x == [to |-> Endpoints[report[p].next + 1], gossip |-> FALSE, digest |-> Current(p)]
  <2>1. Endpoints[report[p].next + 1] = Endpoints[2] /\ Endpoints[2] \in Directories
    BY <1>1, <1>3, DirectoryConstants DEF Directories
  <2>2. x \in Sendings /\ ~x.gossip
    BY <1>2, <2>1 DEF Sendings
  <2>3. AskNext(p, sent) = sent \cup {x}
    BY <1>3 DEF AskNext
  <2> HIDE DEF x
  <2> QED
    BY <2>2, <2>3
<1>4. CASE ~(report[p].next < Len(Endpoints))
  BY <1>4 DEF AskNext
<1> QED
  BY <1>3, <1>4

(* An answer moves RegisterPod to the next endpoint and keeps its digest. *)
LEMMA AnswerMoves ==
    ASSUME DiTypeOK, NEW p \in Pods, ~Returned(p), NEW ok \in BOOLEAN, Answered(p, ok)
    PROVE  /\ report' \in [Pods -> Reports]
           /\ \A q \in Pods \ {p} : report'[q] = report[q]
           /\ report'[p].seq = report[p].seq /\ report'[p].key = report[p].key
           /\ report'[p].error = ~ok
<1> DEFINE r == report[p]
           n == [seq |-> r.seq, key |-> r.key, next |-> r.next + 1, error |-> ~ok, some |-> r.some \/ ok]
<1>1. r \in Reports
  BY DEF DiTypeOK
<1>2. r.next + 1 \in 1..Len(Endpoints) + 1 /\ (r.some \/ ok) \in BOOLEAN
  BY <1>1, DirectoryConstants DEF Reports, Returned
<1>3. n \in Reports
  BY <1>1, <1>2 DEF Reports
<1>4. report' = [report EXCEPT ![p] = n]
  <2>1. r = [seq |-> r.seq, key |-> r.key, next |-> r.next, error |-> r.error, some |-> r.some]
    BY <1>1 DEF Reports
  <2>2. report' = [report EXCEPT ![p] = [r EXCEPT !.next = r.next + 1, !.error = ~ok, !.some = r.some \/ ok]]
    BY DEF Answered, DiTypeOK
  <2> DEFINE e == [r EXCEPT !.next = r.next + 1, !.error = ~ok, !.some = r.some \/ ok]
  <2>3. e \in Reports
    BY <1>1, <1>2 DEF Reports
  <2>4. /\ e.seq = r.seq /\ e.key = r.key /\ e.next = r.next + 1
        /\ e.error = ~ok /\ e.some = (r.some \/ ok)
    BY <1>1 DEF Reports
  <2>5. report' = [report EXCEPT ![p] = e]
    BY <2>2
  <2> HIDE DEF e
  <2>6. e = [seq |-> e.seq, key |-> e.key, next |-> e.next, error |-> e.error, some |-> e.some]
    BY <2>3 DEF Reports
  <2>7. e = n
    BY <2>4, <2>6
  <2> QED
    BY <2>5, <2>7
<1>5. n.seq = report[p].seq /\ n.key = report[p].key /\ n.error = ~ok
  OBVIOUS
<1> HIDE DEF n
<1> QED
  BY <1>3, <1>4, <1>5 DEF DiTypeOK

-----------------------------------------------------------------------------
(* Directories start with the list, or without pins, and have heard nothing. *)
LEMMA DiInvStarts == DiInit => DiInv
<1> SUFFICES ASSUME DiInit PROVE DiInv
  OBVIOUS
<1>1. Directories = {Endpoints[1], Endpoints[2]}
  BY DirectoryConstants, PeerOfPeer DEF Directories
<1>2. strict \subseteq Directories /\ up = Directories /\ wire = {} /\ heard = {} /\ crashes = 0
  BY <1>1 DEF DiInit
<1>3. NoDigest \in Shelved /\ NoPins \in Pinnings /\ Listed \in Pinnings /\ NoDigest.seq = 0
  BY DirectoryConstants DEF NoDigest, Shelved, NoPins, Pinnings
<1>4. \A p \in Pods : [seq |-> 0, key |-> Listed[p], next |-> Len(Endpoints) + 1, error |-> FALSE, some |-> FALSE] \in Reports
  BY DirectoryConstants DEF Reports
<1>5. /\ report \in [Pods -> Reports]
      /\ \A p \in Pods : report[p].seq = 0 /\ report[p].next = Len(Endpoints) + 1
  BY <1>4 DEF DiInit
<1>6. shelf \in [Directories -> [Pods -> Shelved]] /\ pins \in [Directories -> Pinnings]
      /\ file \in [Directories -> Pinnings]
  BY <1>3 DEF DiInit
<1>7. DiTypeOK
  BY <1>2, <1>5, <1>6, DirectoryConstants DEF DiInit, DiTypeOK
<1>8. PinInv
  <2> SUFFICES ASSUME NEW d \in Directories, NEW p \in Pods
               PROVE  /\ ~(shelf[d][p].seq > 0)
                      /\ d \notin strict => pins[d][p] = file[d][p]
                      /\ d \in strict => pins[d][p] = Listed[p]
    BY DEF PinInv
  <2> QED
    BY <1>3 DEF DiInit
<1>9. ReportInv
  BY <1>5, DirectoryConstants DEF ReportInv, Returned
<1> QED
  BY <1>2, <1>7, <1>8, <1>9 DEF DiInv, HeardInv, OneKeyInv, OneHop

(* A new report leaves the directories alone. *)
LEMMA ReportKeeps == ASSUME DiInv, NEW p \in Pods, NEW k \in SigningKeys, BeginReport(p, k) PROVE DiInv'
<1> DEFINE n == [seq |-> report[p].seq + 1, key |-> k, next |-> 1, error |-> FALSE, some |-> FALSE]
           g == [pod |-> p, seq |-> report[p].seq + 1, key |-> k]
           x == [to |-> Endpoints[1], gossip |-> FALSE, digest |-> g]
<1>1. /\ report' = [report EXCEPT ![p] = n] /\ wire' = wire \cup {x}
      /\ UNCHANGED <<strict, up, shelf, pins, file, unsaved, forgot, heard, crashes>>
  BY DEF BeginReport, DiInv, DiTypeOK
<1>2. report[p].seq \in Nat
  BY DEF DiInv, DiTypeOK, Reports
<1>3. n \in Reports /\ n.seq > 0 /\ n.next = 1
  BY <1>2, DirectoryConstants DEF Reports
<1>4. Endpoints[1] \in Directories
  BY DirectoryConstants DEF Directories
<1>5. x \in Sendings /\ ~x.gossip
  BY <1>2, <1>4 DEF Sendings, Digests
<1> HIDE DEF n, x
<1>6. DiTypeOK'
  BY <1>1, <1>3, <1>5 DEF DiInv, DiTypeOK
<1>7. ReportInv'
  <2> SUFFICES ASSUME NEW q \in Pods
               PROVE  /\ ~(report'[q].next > Len(Endpoints)) => report'[q].seq > 0
                      /\ (report'[q].seq > 0 /\ report'[q].next > 1 /\ ~report'[q].error) =>
                           \E m \in heard : m.digest = [pod |-> q, seq |-> report'[q].seq, key |-> report'[q].key]
    BY <1>1 DEF ReportInv, Returned, Current
  <2>1. CASE q = p
    BY <1>1, <1>3, <2>1 DEF DiInv, DiTypeOK
  <2>2. CASE q # p
    <3>1. report'[q] = report[q]
      BY <1>1, <2>2 DEF DiInv, DiTypeOK
    <3> QED
      BY <3>1 DEF DiInv, ReportInv, Returned, Current
  <2> QED
    BY <2>1, <2>2
<1>8. OneHop'
  BY <1>1, <1>5 DEF DiInv, OneHop
<1>9. PinInv' /\ HeardInv' /\ OneKeyInv'
  BY <1>1 DEF DiInv, PinInv, HeardInv, OneKeyInv
<1> QED
  BY <1>6, <1>7, <1>8, <1>9 DEF DiInv

(* An answer that accepts is of a directory that has heard the digest. *)
LEMMA AnswerIsTrue ==
    ASSUME DiTypeOK, ReportInv, heard \subseteq heard', NEW p \in Pods, ~Returned(p),
           NEW ok \in BOOLEAN, Answered(p, ok), ok => \E m \in heard' : m.digest = Current(p)
    PROVE  ReportInv'
<1>1. /\ \A q \in Pods \ {p} : report'[q] = report[q]
      /\ report'[p].seq = report[p].seq /\ report'[p].key = report[p].key
      /\ report'[p].error = ~ok
  BY AnswerMoves
<1> SUFFICES ASSUME NEW q \in Pods
             PROVE  /\ ~(report'[q].next > Len(Endpoints)) => report'[q].seq > 0
                    /\ (report'[q].seq > 0 /\ report'[q].next > 1 /\ ~report'[q].error) =>
                         \E m \in heard' : m.digest = [pod |-> q, seq |-> report'[q].seq, key |-> report'[q].key]
  BY DEF ReportInv, Returned, Current
<1>2. CASE q = p
  <2>1. report[p].seq > 0
    BY DEF ReportInv
  <2> QED
    BY <1>1, <1>2, <2>1 DEF Current
<1>3. CASE q # p
  <2>1. report'[q] = report[q]
    BY <1>1, <1>3
  <2> QED
    BY <2>1 DEF ReportInv, Returned, Current
<1> QED
  BY <1>2, <1>3

(* Without an answer RegisterPod knows what it knew. *)
LEMMA NoAnswer ==
    ASSUME ReportInv, heard \subseteq heard', UNCHANGED report
    PROVE  ReportInv'
  BY DEF ReportInv, Returned, Current

(* A request whose answer does not come counts as refused. *)
LEMMA TimeOutKeeps == ASSUME DiInv, NEW p \in Pods, TimeOut(p) PROVE DiInv'
<1>1. PICK lost \in SUBSET wire : wire' = AskNext(p, wire \ lost)
  BY DEF TimeOut
<1>2. /\ ~Returned(p) /\ Answered(p, FALSE)
      /\ UNCHANGED <<strict, up, shelf, pins, file, unsaved, forgot, heard, crashes>>
  BY DEF TimeOut
<1>3. DiTypeOK /\ ReportInv /\ wire \ lost \in SUBSET Sendings /\ report[p].seq > 0
  BY <1>2 DEF DiInv, DiTypeOK, ReportInv
<1>4. wire' \in SUBSET Sendings /\ \A x \in wire' : x \in wire \/ ~x.gossip
  BY <1>1, <1>2, <1>3, NextIsSending
<1>5. report' \in [Pods -> Reports]
  BY <1>2, <1>3, AnswerMoves
<1>6. DiTypeOK'
  BY <1>2, <1>4, <1>5 DEF DiInv, DiTypeOK
<1>7. ReportInv'
  BY <1>2, <1>3, AnswerIsTrue
<1>8. OneHop'
  BY <1>2, <1>4 DEF DiInv, OneHop
<1>9. PinInv' /\ HeardInv' /\ OneKeyInv'
  BY <1>2 DEF DiInv, PinInv, HeardInv, OneKeyInv
<1> QED
  BY <1>6, <1>7, <1>8, <1>9 DEF DiInv

(* Nobody waits for a lost gossip. *)
LEMMA LoseGossipKeeps == ASSUME DiInv, NEW m \in wire, LoseGossip(m) PROVE DiInv'
<1>1. /\ wire' = wire \ {m}
      /\ UNCHANGED <<strict, up, shelf, pins, file, report, unsaved, forgot, heard, crashes>>
  BY DEF LoseGossip
<1>2. DiTypeOK'
  BY <1>1 DEF DiInv, DiTypeOK
<1>3. ReportInv'
  BY <1>1, NoAnswer DEF DiInv
<1>4. PinInv' /\ HeardInv' /\ OneKeyInv' /\ OneHop'
  BY <1>1 DEF DiInv, PinInv, HeardInv, OneKeyInv, OneHop
<1> QED
  BY <1>2, <1>3, <1>4 DEF DiInv

(* A crash takes the pins; the file has those that were written. *)
LEMMA CrashKeeps == ASSUME DiInv, NEW d \in Directories, Crash(d) PROVE DiInv'
<1>1. /\ d \in up /\ crashes < MaxCrashes /\ crashes' = crashes + 1 /\ up' = up \ {d}
      /\ shelf' = [shelf EXCEPT ![d] = [p \in Pods |-> NoDigest]]
      /\ pins' = [pins EXCEPT ![d] = NoPins]
      /\ UNCHANGED <<strict, file, wire, report, unsaved, forgot, heard>>
  BY DEF Crash
<1>2. [p \in Pods |-> NoDigest] \in [Pods -> Shelved] /\ NoDigest.seq = 0 /\ NoPins \in Pinnings
  BY DEF NoDigest, Shelved, NoPins, Pinnings
<1>3. DiTypeOK'
  <2>1. crashes' \in 0..MaxCrashes
    BY <1>1, DirectoryConstants DEF DiInv, DiTypeOK
  <2>2. shelf' \in [Directories -> [Pods -> Shelved]] /\ pins' \in [Directories -> Pinnings]
    BY <1>1, <1>2 DEF DiInv, DiTypeOK
  <2> QED
    BY <1>1, <2>1, <2>2 DEF DiInv, DiTypeOK
<1>4. \A e \in Directories \ {d} : shelf'[e] = shelf[e] /\ pins'[e] = pins[e] /\ (e \in up' <=> e \in up)
  BY <1>1 DEF DiInv, DiTypeOK
<1>5. d \notin up' /\ \A p \in Pods : ~(shelf'[d][p].seq > 0)
  BY <1>1, <1>2 DEF DiInv, DiTypeOK
<1>6. PinInv'
  <2> SUFFICES ASSUME NEW e \in Directories, NEW p \in Pods
               PROVE  /\ shelf'[e][p].seq > 0 => e \in up' /\ shelf'[e][p].key = pins'[e][p]
                      /\ (e \in up' \ strict /\ file[e] /= Torn /\ p \notin unsaved[e]) =>
                           pins'[e][p] = file[e][p]
                      /\ e \in up' \cap strict => pins'[e][p] = Listed[p]
    BY <1>1 DEF PinInv
  <2>1. CASE e = d
    BY <1>5, <2>1
  <2>2. CASE e # d
    BY <1>4, <2>2 DEF DiInv, PinInv
  <2> QED
    BY <2>1, <2>2
<1>7. HeardInv'
  <2> SUFFICES ASSUME NEW h \in heard
               PROVE  /\ h.to \in strict => h.digest.key = Listed[h.digest.pod]
                      /\ (h.to \in up' /\ h.digest.pod \notin forgot[h.to]) =>
                           pins'[h.to][h.digest.pod] = h.digest.key
                      /\ (/\ h.to \notin up' \cup strict /\ file[h.to] /= Torn
                          /\ h.digest.pod \notin forgot[h.to] \cup unsaved[h.to]) =>
                           file[h.to][h.digest.pod] = h.digest.key
    BY <1>1 DEF HeardInv
  <2>1. h.to \in Directories /\ h.digest.pod \in Pods
    BY DEF DiInv, DiTypeOK, Sendings, Digests
  <2>2. CASE h.to = d
    <3>1. d \notin strict /\ file[d] /= Torn /\ h.digest.pod \notin unsaved[d] =>
            pins[d][h.digest.pod] = file[d][h.digest.pod]
      BY <1>1, <2>1, <2>2 DEF DiInv, PinInv
    <3> QED
      BY <1>1, <1>5, <2>2, <3>1 DEF DiInv, HeardInv
  <2>3. CASE h.to # d
    BY <1>4, <2>1, <2>3 DEF DiInv, HeardInv
  <2> QED
    BY <2>2, <2>3
<1>8. OneKeyInv' /\ OneHop'
  BY <1>1 DEF DiInv, OneKeyInv, OneHop
<1>9. ReportInv'
  BY <1>1, NoAnswer DEF DiInv
<1> QED
  BY <1>3, <1>6, <1>7, <1>8, <1>9 DEF DiInv

(* A directory starts with its file or its list, never from a torn file. *)
LEMMA StartKeeps == ASSUME DiInv, NEW d \in Directories, Start(d) PROVE DiInv'
<1>1. /\ d \notin up /\ up' = up \cup {d}
      /\ forgot' = [forgot EXCEPT ![d] = forgot[d] \cup unsaved[d]]
      /\ unsaved' = [unsaved EXCEPT ![d] = {}]
      /\ UNCHANGED <<strict, shelf, file, wire, report, heard, crashes>>
  BY DEF Start
<1>2. PICK now \in Pinnings :
        /\ pins' = [pins EXCEPT ![d] = now]
        /\ d \in strict => now = Listed
        /\ d \notin strict => file[d] /= Torn /\ now = file[d]
  <2>1. CASE d \in strict
    <3>1. Listed \in Pinnings
      BY DirectoryConstants DEF Pinnings
    <3> QED
      BY <2>1, <3>1 DEF Start
  <2>2. CASE d \notin strict
    <3>1. file[d] /= Torn /\ pins' = [pins EXCEPT ![d] = file[d]]
      BY <2>2 DEF Start
    <3>2. file[d] \in Pinnings
      BY <3>1 DEF DiInv, DiTypeOK
    <3> QED
      BY <2>2, <3>1, <3>2
  <2> QED
    BY <2>1, <2>2
<1>3. /\ pins'[d] = now /\ d \in up' /\ forgot'[d] = forgot[d] \cup unsaved[d] /\ unsaved'[d] = {}
      /\ \A e \in Directories \ {d} : /\ pins'[e] = pins[e] /\ (e \in up' <=> e \in up)
                                      /\ forgot'[e] = forgot[e] /\ unsaved'[e] = unsaved[e]
  BY <1>1, <1>2 DEF DiInv, DiTypeOK
<1>4. DiTypeOK'
  BY <1>1, <1>2 DEF DiInv, DiTypeOK
<1>5. PinInv'
  <2> SUFFICES ASSUME NEW e \in Directories, NEW p \in Pods
               PROVE  /\ shelf[e][p].seq > 0 => e \in up' /\ shelf[e][p].key = pins'[e][p]
                      /\ (e \in up' \ strict /\ file[e] /= Torn /\ p \notin unsaved'[e]) =>
                           pins'[e][p] = file[e][p]
                      /\ e \in up' \cap strict => pins'[e][p] = Listed[p]
    BY <1>1 DEF PinInv
  <2>1. CASE e = d
    <3>1. ~(shelf[d][p].seq > 0)
      BY <1>1 DEF DiInv, PinInv
    <3> QED
      BY <1>2, <1>3, <2>1, <3>1
  <2>2. CASE e # d
    BY <1>3, <2>2 DEF DiInv, PinInv
  <2> QED
    BY <2>1, <2>2
<1>6. HeardInv'
  <2> SUFFICES ASSUME NEW h \in heard
               PROVE  /\ h.to \in strict => h.digest.key = Listed[h.digest.pod]
                      /\ (h.to \in up' /\ h.digest.pod \notin forgot'[h.to]) =>
                           pins'[h.to][h.digest.pod] = h.digest.key
                      /\ (/\ h.to \notin up' \cup strict /\ file[h.to] /= Torn
                          /\ h.digest.pod \notin forgot'[h.to] \cup unsaved'[h.to]) =>
                           file[h.to][h.digest.pod] = h.digest.key
    BY <1>1 DEF HeardInv
  <2>1. h.to \in Directories /\ h.digest.pod \in Pods
    BY DEF DiInv, DiTypeOK, Sendings, Digests
  <2>2. CASE h.to = d
    <3>1. d \in strict => h.digest.key = Listed[h.digest.pod]
      BY <2>2 DEF DiInv, HeardInv
    <3>2. d \notin strict /\ h.digest.pod \notin forgot[d] \cup unsaved[d] =>
            file[d][h.digest.pod] = h.digest.key
      BY <1>1, <1>2, <2>2 DEF DiInv, HeardInv
    <3> QED
      BY <1>2, <1>3, <2>2, <3>1, <3>2
  <2>3. CASE h.to # d
    BY <1>3, <2>1, <2>3 DEF DiInv, HeardInv
  <2> QED
    BY <2>2, <2>3
<1>7. OneKeyInv'
  <2>1. \A e \in Directories : forgot[e] \subseteq forgot'[e]
    BY <1>1, <1>3
  <2>2. \A h \in heard : h.to \in Directories
    BY DEF DiInv, DiTypeOK, Sendings
  <2> QED
    BY <1>1, <2>1, <2>2 DEF DiInv, OneKeyInv
<1>8. OneHop'
  BY <1>1 DEF DiInv, OneHop
<1>9. ReportInv'
  BY <1>1, NoAnswer DEF DiInv
<1> QED
  BY <1>4, <1>5, <1>6, <1>7, <1>8, <1>9 DEF DiInv

(* A digest that a directory accepts speaks with its pin, or pins. *)
LEMMA PinMoves ==
    ASSUME DiTypeOK, NEW d \in Directories, NEW g \in Digests, Speaks(d, g), Pin(d, g)
    PROVE  /\ pins' \in [Directories -> Pinnings]
           /\ file' \in [Directories -> Pinnings \cup {Torn}]
           /\ unsaved' \in [Directories -> SUBSET Pods]
           /\ pins'[d][g.pod] = g.key
           /\ pins[d][g.pod] \in {g.key} \cup (IF d \in strict THEN {} ELSE {NoKey})
           /\ \A p \in Pods \ {g.pod} : pins'[d][p] = pins[d][p]
           /\ \A e \in Directories \ {d} :
                pins'[e] = pins[e] /\ file'[e] = file[e] /\ unsaved'[e] = unsaved[e]
           /\ \/ UNCHANGED <<pins, file, unsaved>>
              \/ d \notin strict /\ file'[d] = pins'[d]
              \/ file'[d] \in {file[d], Torn} /\ unsaved'[d] = unsaved[d] \cup {g.pod}
<1>1. pins \in [Directories -> Pinnings] /\ g.pod \in Pods /\ g.key \in SigningKeys
  BY DEF DiTypeOK, Digests
<1>2. pins[d][g.pod] \in {g.key} \cup (IF d \in strict THEN {} ELSE {NoKey})
  BY DEF Speaks
<1>3. CASE pins[d][g.pod] = g.key
  <2>1. UNCHANGED <<pins, file, unsaved>>
    BY <1>3 DEF Pin
  <2> QED
    BY <1>2, <1>3, <2>1 DEF DiTypeOK
<1>4. CASE pins[d][g.pod] # g.key
  <2> DEFINE learned == [pins[d] EXCEPT ![g.pod] = g.key]
  <2>1. learned \in Pinnings /\ learned[g.pod] = g.key /\ \A p \in Pods \ {g.pod} : learned[p] = pins[d][p]
    BY <1>1 DEF Pinnings
  <2>2. /\ pins' = [pins EXCEPT ![d] = learned]
        /\ \/ file' = [file EXCEPT ![d] = learned] /\ unsaved' = [unsaved EXCEPT ![d] = {}]
           \/ /\ file' = file \/ file' = [file EXCEPT ![d] = Torn]
              /\ unsaved' = [unsaved EXCEPT ![d] = unsaved[d] \cup {g.pod}]
    BY <1>4 DEF Pin
  <2> HIDE DEF learned
  <2>3. d \notin strict
    BY <1>2, <1>4
  <2>4. /\ pins' \in [Directories -> Pinnings] /\ pins'[d] = learned
        /\ \A e \in Directories \ {d} : pins'[e] = pins[e]
    BY <1>1, <2>1, <2>2
  <2>5. CASE file' = [file EXCEPT ![d] = learned] /\ unsaved' = [unsaved EXCEPT ![d] = {}]
    BY <1>2, <2>1, <2>3, <2>4, <2>5 DEF DiTypeOK
  <2>6. CASE /\ file' = file \/ file' = [file EXCEPT ![d] = Torn]
             /\ unsaved' = [unsaved EXCEPT ![d] = unsaved[d] \cup {g.pod}]
    BY <1>1, <1>2, <2>1, <2>4, <2>6 DEF DiTypeOK
  <2> QED
    BY <2>2, <2>5, <2>6
<1> QED
  BY <1>3, <1>4

(* What accepting a digest does to a directory. *)
Accepts(m) ==
  /\ m.to \in up /\ Speaks(m.to, m.digest) /\ Pin(m.to, m.digest)
  /\ shelf' = [shelf EXCEPT ![m.to][m.digest.pod] = [seq |-> m.digest.seq, key |-> m.digest.key]]
  /\ heard' = heard \cup {m}
  /\ UNCHANGED <<strict, up, forgot, crashes>>

(* The directory shelves the digest under the key that it has pinned. *)
LEMMA AcceptPins ==
    ASSUME DiInv, NEW m \in Sendings, Accepts(m)
    PROVE  PinInv' /\ shelf' \in [Directories -> [Pods -> Shelved]]
<1> DEFINE d == m.to
           g == m.digest
           x == [seq |-> g.seq, key |-> g.key]
<1>1. d \in Directories /\ g \in Digests /\ g.pod \in Pods /\ x \in Shelved
  BY DEF Sendings, Digests, Shelved
<1>2. /\ shelf' = [shelf EXCEPT ![d] = [shelf[d] EXCEPT ![g.pod] = x]]
      /\ shelf \in [Directories -> [Pods -> Shelved]]
  BY DEF Accepts, DiInv, DiTypeOK
<1>3. /\ shelf' \in [Directories -> [Pods -> Shelved]] /\ shelf'[d][g.pod] = x
      /\ \A p \in Pods \ {g.pod} : shelf'[d][p] = shelf[d][p]
      /\ \A e \in Directories \ {d} : shelf'[e] = shelf[e]
  BY <1>1, <1>2
<1>4. x.key = g.key
  OBVIOUS
<1>5. d \in up /\ DiTypeOK /\ Speaks(d, g) /\ Pin(d, g) /\ UNCHANGED <<strict, up, forgot>>
  BY DEF Accepts, DiInv
<1> HIDE DEF x, d, g
<1>6. /\ pins'[d][g.pod] = g.key
      /\ pins[d][g.pod] \in {g.key} \cup (IF d \in strict THEN {} ELSE {NoKey})
      /\ \A p \in Pods \ {g.pod} : pins'[d][p] = pins[d][p]
      /\ \A e \in Directories \ {d} :
           pins'[e] = pins[e] /\ file'[e] = file[e] /\ unsaved'[e] = unsaved[e]
      /\ \/ UNCHANGED <<pins, file, unsaved>>
         \/ d \notin strict /\ file'[d] = pins'[d]
         \/ file'[d] \in {file[d], Torn} /\ unsaved'[d] = unsaved[d] \cup {g.pod}
  BY <1>1, <1>5, PinMoves
<1>7. PinInv'
  <2> SUFFICES ASSUME NEW e \in Directories, NEW p \in Pods
               PROVE  /\ shelf'[e][p].seq > 0 => e \in up /\ shelf'[e][p].key = pins'[e][p]
                      /\ (e \in up \ strict /\ file'[e] /= Torn /\ p \notin unsaved'[e]) =>
                           pins'[e][p] = file'[e][p]
                      /\ e \in up \cap strict => pins'[e][p] = Listed[p]
    BY <1>5 DEF PinInv
  <2>0. /\ shelf[e][p].seq > 0 => e \in up /\ shelf[e][p].key = pins[e][p]
        /\ (e \in up \ strict /\ file[e] /= Torn /\ p \notin unsaved[e]) => pins[e][p] = file[e][p]
        /\ e \in up \cap strict => pins[e][p] = Listed[p]
    BY DEF DiInv, PinInv
  <2>1. CASE e # d
    BY <1>3, <1>6, <2>0, <2>1
  <2>2. CASE e = d
    <3>1. shelf'[d][p].seq > 0 => d \in up /\ shelf'[d][p].key = pins'[d][p]
      <4>1. CASE p = g.pod
        BY <1>3, <1>4, <1>5, <1>6, <4>1
      <4>2. CASE p # g.pod
        BY <1>3, <1>6, <2>0, <2>2, <4>2
      <4> QED
        BY <4>1, <4>2
    <3>2. d \in strict => pins'[d][p] = Listed[p]
      BY <1>5, <1>6, <2>0, <2>2
    <3>3. d \notin strict /\ file'[d] /= Torn /\ p \notin unsaved'[d] => pins'[d][p] = file'[d][p]
      BY <1>5, <1>6, <2>0, <2>2
    <3> QED
      BY <2>2, <3>1, <3>2, <3>3
  <2> QED
    BY <2>1, <2>2
<1> QED
  BY <1>3, <1>7

(* A key is heard for the first time, or is the one that was heard. *)
LEMMA AcceptHears ==
    ASSUME DiInv, NEW m \in Sendings, Accepts(m)
    PROVE  HeardInv' /\ OneKeyInv'
<1> DEFINE d == m.to
           g == m.digest
<1>1. d \in Directories /\ g \in Digests /\ g.pod \in Pods /\ g.key \in SigningKeys
  BY DEF Sendings, Digests
<1>2. d \in up /\ DiTypeOK /\ Speaks(d, g) /\ Pin(d, g)
      /\ UNCHANGED <<strict, up, forgot>> /\ heard' = heard \cup {m}
  BY DEF Accepts, DiInv
<1>3. /\ pins'[d][g.pod] = g.key
      /\ pins[d][g.pod] \in {g.key} \cup (IF d \in strict THEN {} ELSE {NoKey})
      /\ \A p \in Pods \ {g.pod} : pins'[d][p] = pins[d][p]
      /\ \A e \in Directories \ {d} :
           pins'[e] = pins[e] /\ file'[e] = file[e] /\ unsaved'[e] = unsaved[e]
  BY <1>1, <1>2, PinMoves
<1>4. \A h \in heard : h.to \in Directories /\ h.digest.pod \in Pods /\ h.digest.key \in SigningKeys
  BY DEF DiInv, DiTypeOK, Sendings, Digests
<1>5. \A h \in heard : (h.to = d /\ h.digest.pod = g.pod /\ g.pod \notin forgot[d]) => h.digest.key = g.key
  <2> SUFFICES ASSUME NEW h \in heard, h.to = d, h.digest.pod = g.pod, g.pod \notin forgot[d]
               PROVE  h.digest.key = g.key
    OBVIOUS
  <2>1. pins[d][g.pod] = h.digest.key
    BY <1>2 DEF DiInv, HeardInv
  <2>2. h.digest.key # NoKey
    BY <1>4, DirectoryConstants DEF NoKey
  <2> QED
    BY <1>3, <2>1, <2>2
<1>6. d \in strict => g.key = Listed[g.pod]
  BY <1>1, <1>2, <1>3 DEF DiInv, PinInv
<1>7. HeardInv'
  <2> SUFFICES ASSUME NEW h \in heard \cup {m}
               PROVE  /\ h.to \in strict => h.digest.key = Listed[h.digest.pod]
                      /\ (h.to \in up /\ h.digest.pod \notin forgot[h.to]) =>
                           pins'[h.to][h.digest.pod] = h.digest.key
                      /\ (/\ h.to \notin up \cup strict /\ file'[h.to] /= Torn
                          /\ h.digest.pod \notin forgot[h.to] \cup unsaved'[h.to]) =>
                           file'[h.to][h.digest.pod] = h.digest.key
    BY <1>2 DEF HeardInv
  <2>1. CASE h = m
    BY <1>2, <1>3, <1>6, <2>1
  <2>2. CASE h \in heard /\ h.to # d
    BY <1>3, <1>4, <2>2 DEF DiInv, HeardInv
  <2>3. CASE h \in heard /\ h.to = d
    <3>1. /\ d \in strict => h.digest.key = Listed[h.digest.pod]
          /\ h.digest.pod \notin forgot[d] => pins[d][h.digest.pod] = h.digest.key
      BY <1>2, <2>3 DEF DiInv, HeardInv
    <3>2. h.digest.pod \notin forgot[d] => pins'[d][h.digest.pod] = h.digest.key
      <4>1. CASE h.digest.pod = g.pod
        BY <1>3, <1>5, <2>3, <4>1
      <4>2. CASE h.digest.pod # g.pod
        BY <1>3, <1>4, <2>3, <3>1, <4>2
      <4> QED
        BY <4>1, <4>2
    <3> QED
      BY <1>2, <2>3, <3>1, <3>2
  <2> QED
    BY <2>1, <2>2, <2>3
<1>8. OneKeyInv'
  <2> SUFFICES ASSUME NEW h1 \in heard \cup {m}, NEW h2 \in heard \cup {m},
                      h1.to = h2.to, h1.digest.pod = h2.digest.pod,
                      h1.digest.pod \notin forgot[h1.to]
               PROVE  h1.digest.key = h2.digest.key
    BY <1>2 DEF OneKeyInv
  <2>1. CASE h1 \in heard /\ h2 \in heard
    BY <2>1 DEF DiInv, OneKeyInv
  <2>2. CASE h1 = m \/ h2 = m
    BY <1>5, <2>2
  <2> QED
    BY <2>1, <2>2
<1> QED
  BY <1>7, <1>8

(* What is left on the wire: what was there, and the digest for the peer. *)
Left(m, ok) == (wire \ {m}) \cup (IF ok THEN PassOn(m) ELSE {})

(* All of it has one hop behind it or ahead. *)
LEMMA LeftOnWire ==
    ASSUME DiInv, NEW m \in wire, NEW ok \in BOOLEAN,
           heard' = IF ok THEN heard \cup {m} ELSE heard
    PROVE  /\ Left(m, ok) \in SUBSET Sendings
           /\ \A x \in Left(m, ok) \cup heard' : x.gossip =>
                [x EXCEPT !.to = Peer(x.to), !.gossip = FALSE] \in heard'
<1>1. m \in Sendings /\ wire \subseteq Sendings
  BY DEF DiInv, DiTypeOK
<1>2. \A x \in wire \cup heard : x.gossip => [x EXCEPT !.to = Peer(x.to), !.gossip = FALSE] \in heard'
  BY DEF DiInv, OneHop
<1>3. CASE ok /\ ~m.gossip
  <2>1. \A x \in PassOn(m) : x \in Sendings /\ [x EXCEPT !.to = Peer(x.to), !.gossip = FALSE] = m
    BY <1>1, <1>3, PassedOn
  <2> QED
    BY <1>1, <1>2, <1>3, <2>1 DEF Left
<1>4. CASE ~(ok /\ ~m.gossip)
  <2>1. Left(m, ok) = wire \ {m}
    BY <1>4 DEF PassOn, Left
  <2> QED
    BY <1>1, <1>2, <1>4, <2>1
<1> QED
  BY <1>3, <1>4

(* A request arrives: the directory accepts it or not, the coordinator learns *)
(* it or not.                                                               *)
LEMMA ReceiveKeeps == ASSUME DiInv, NEW m \in wire, Receive(m) PROVE DiInv'
<1> DEFINE d == m.to
           g == m.digest
           ok == Speaks(d, g)
           left == Left(m, ok)
<1>1. /\ m \in Sendings /\ d \in up /\ UNCHANGED <<strict, up, forgot, crashes>>
      /\ g.pod \in Pods /\ DiTypeOK /\ ReportInv /\ ok \in BOOLEAN
  BY DEF Receive, DiInv, DiTypeOK, Sendings, Digests, Speaks
<1>2. /\ IF ok THEN Accepts(m) ELSE UNCHANGED <<pins, file, unsaved, shelf, heard>>
      /\ \/ /\ ~Returned(g.pod) /\ g = Current(g.pod)
            /\ Answered(g.pod, ok) /\ wire' = AskNext(g.pod, left)
         \/ UNCHANGED report /\ wire' = left
  BY DEF Receive, Accepts, Left
<1>3. heard' = IF ok THEN heard \cup {m} ELSE heard
  BY <1>2 DEF Accepts
<1> HIDE DEF ok
<1>4. /\ left \in SUBSET Sendings
      /\ \A x \in left \cup heard' : x.gossip =>
           [x EXCEPT !.to = Peer(x.to), !.gossip = FALSE] \in heard'
  BY <1>1, <1>3, LeftOnWire
<1> HIDE DEF left
<1>5. /\ wire' \in SUBSET Sendings /\ report' \in [Pods -> Reports] /\ ReportInv'
      /\ \A x \in wire' : x \in left \/ ~x.gossip
  <2>1. CASE /\ ~Returned(g.pod) /\ g = Current(g.pod)
             /\ Answered(g.pod, ok) /\ wire' = AskNext(g.pod, left)
    <3>1. report[g.pod].seq > 0
      BY <1>1, <2>1 DEF ReportInv
    <3>2. wire' \in SUBSET Sendings /\ \A x \in wire' : x \in left \/ ~x.gossip
      BY <1>1, <1>4, <2>1, <3>1, NextIsSending
    <3>3. report' \in [Pods -> Reports]
      BY <1>1, <2>1, AnswerMoves
    <3>4. ok => \E n \in heard' : n.digest = Current(g.pod)
      BY <1>3, <2>1
    <3>5. heard \subseteq heard'
      BY <1>3
    <3>6. ReportInv'
      BY <1>1, <2>1, <3>4, <3>5, AnswerIsTrue
    <3> QED
      BY <3>2, <3>3, <3>6
  <2>2. CASE UNCHANGED report /\ wire' = left
    <3>1. heard \subseteq heard'
      BY <1>3
    <3>2. ReportInv'
      BY <1>1, <2>2, <3>1, NoAnswer
    <3> QED
      BY <1>1, <1>4, <2>2, <3>2 DEF DiTypeOK
  <2> QED
    BY <1>2, <2>1, <2>2
<1>6. OneHop'
  BY <1>4, <1>5 DEF OneHop
<1>7. /\ shelf' \in [Directories -> [Pods -> Shelved]] /\ pins' \in [Directories -> Pinnings]
      /\ file' \in [Directories -> Pinnings \cup {Torn}]
      /\ unsaved' \in [Directories -> SUBSET Pods]
      /\ heard' \subseteq Sendings /\ PinInv' /\ HeardInv' /\ OneKeyInv'
  <2>1. CASE ok
    <3>1. Accepts(m)
      BY <1>2, <2>1
    <3>2. d \in Directories /\ g \in Digests /\ Speaks(d, g) /\ Pin(d, g)
      BY <1>1, <3>1 DEF Sendings, Accepts
    <3>3. /\ pins' \in [Directories -> Pinnings] /\ file' \in [Directories -> Pinnings \cup {Torn}]
          /\ unsaved' \in [Directories -> SUBSET Pods]
      BY <1>1, <3>2, PinMoves
    <3>4. heard' \subseteq Sendings
      BY <1>1, <1>3 DEF DiTypeOK
    <3> QED
      BY <1>1, <3>1, <3>3, <3>4, AcceptPins, AcceptHears
  <2>2. CASE ~ok
    <3>1. UNCHANGED <<pins, file, unsaved, shelf, heard>>
      BY <1>2, <2>2
    <3> QED
      BY <1>1, <3>1 DEF DiInv, DiTypeOK, PinInv, HeardInv, OneKeyInv
  <2> QED
    BY <2>1, <2>2
<1>8. DiTypeOK'
  BY <1>1, <1>5, <1>7 DEF DiTypeOK
<1> QED
  BY <1>5, <1>6, <1>7, <1>8 DEF DiInv

-----------------------------------------------------------------------------
(* The invariant is inductive. *)
LEMMA DiInvKept == DiInv /\ [DiNext]_diVars => DiInv'
<1> SUFFICES ASSUME DiInv, [DiNext]_diVars PROVE DiInv'
  OBVIOUS
<1>1. ASSUME NEW p \in Pods, TimeOut(p) PROVE DiInv'
  BY <1>1, TimeOutKeeps
<1>2. ASSUME NEW p \in Pods, NEW k \in SigningKeys, BeginReport(p, k) PROVE DiInv'
  BY <1>2, ReportKeeps
<1>3. ASSUME NEW m \in wire, Receive(m) PROVE DiInv'
  BY <1>3, ReceiveKeeps
<1>4. ASSUME NEW m \in wire, LoseGossip(m) PROVE DiInv'
  BY <1>4, LoseGossipKeeps
<1>5. ASSUME NEW d \in Directories, Crash(d) PROVE DiInv'
  BY <1>5, CrashKeeps
<1>6. ASSUME NEW d \in Directories, Start(d) PROVE DiInv'
  BY <1>6, StartKeeps
<1>7. CASE UNCHANGED diVars
  BY <1>7 DEF diVars, DiInv, DiTypeOK, PinInv, HeardInv, OneKeyInv, OneHop, ReportInv, Returned, Current
<1> QED
  BY <1>1, <1>2, <1>3, <1>4, <1>5, <1>6, <1>7 DEF DiNext

(* A set whose elements are all the same has at most one. *)
LEMMA AtMostOne ==
    ASSUME NEW S, \A x, y \in S : x = y
    PROVE  Cardinality(S) <= 1
<1>1. CASE S = {}
  BY <1>1, FS_EmptySet
<1>2. ASSUME NEW x \in S
      PROVE  Cardinality(S) <= 1
  <2>1. S = {x}
    BY <1>2
  <2> QED
    BY <2>1, FS_Singleton
<1> QED
  BY <1>1, <1>2

(* Whatever is late, lost, torn or restarted: a pod has one key at a directory *)
(* as long as no crash took the pin, nothing is passed on twice, and           *)
(* RegisterPod says "accepted" only of a digest that was.                      *)
THEOREM SoundDirectory == DiSpec => []DirectoryIsSound
<1>1. DiInit => DiInv
  BY DiInvStarts
<1>2. DiInv /\ [DiNext]_diVars => DiInv'
  BY DiInvKept
<1>3. DiInv => DirectoryIsSound
  <2> SUFFICES ASSUME DiInv PROVE DirectoryIsSound
    OBVIOUS
  <2>1. ASSUME NEW d \in Directories, NEW p \in Pods, p \notin forgot[d]
        PROVE  Cardinality({m.digest.key : m \in {h \in heard : h.to = d /\ h.digest.pod = p}}) <= 1
    <3>1. \A x, y \in {m.digest.key : m \in {h \in heard : h.to = d /\ h.digest.pod = p}} : x = y
      BY <2>1 DEF DiInv, OneKeyInv
    <3> QED
      BY <3>1, AtMostOne
  <2>2. PinsHold
    BY <2>1 DEF PinsHold, DiInv, PinInv
  <2>3. SuccessIsTrue
    <3> SUFFICES ASSUME NEW p \in Pods, Returned(p), report[p].seq > 0, ~report[p].error
                 PROVE  \E m \in heard : m.digest = Current(p)
      BY DEF SuccessIsTrue
    <3>1. report[p].next > 1
      BY DirectoryConstants DEF Returned, DiInv, DiTypeOK, Reports
    <3> QED
      BY <3>1 DEF DiInv, ReportInv
  <2> QED
    BY <2>2, <2>3 DEF DirectoryIsSound, DiInv
<1> QED
  BY <1>1, <1>2, <1>3, PTL DEF DiSpec

-----------------------------------------------------------------------------
(* Experts.  Everything a node declares counts for something.              *)
LEMMA SharesAreNat ==
    ASSUME NEW n \in Nat \ {0}, NEW caps \in [1..n -> Int], NEW e \in Nat
    PROVE  /\ Total(caps) \in Nat \ {0}
           /\ \A i \in 1..n : Floor(caps, e, i) \in Nat
<1> DEFINE f == [i \in DOMAIN caps |-> Cap(caps[i])]
<1>1. DOMAIN caps = 1..n /\ IsFiniteSet(1..n) /\ 1 \in 1..n
  BY FS_Interval
<1>2. \A i \in 1..n : f[i] \in Nat /\ f[i] > 0
  BY <1>1 DEF Cap
<1>3. Total(caps) = SumFunctionOnSet(f, 1..n)
  BY <1>1 DEF Total
<1> HIDE DEF f
<1>4. IsFiniteSet((1..n) \ {1}) /\ \A i \in (1..n) \ {1} : f[i] \in Nat
  BY <1>1, <1>2, FS_RemoveElement
<1>5. SumFunctionOnSet(f, (1..n) \ {1}) \in Nat
  BY <1>4, SumIsNat
<1>6. SumFunctionOnSet(f, 1..n) = f[1] + SumFunctionOnSet(f, (1..n) \ {1})
  <2> DEFINE D == 1..n
  <2>1. IsFiniteSet(D) /\ 1 \in D /\ \A x \in D : f[x] \in Nat
    BY <1>1, <1>2
  <2> HIDE DEF D
  <2>2. SumFunctionOnSet(f, D) = f[1] + SumFunctionOnSet(f, D \ {1})
    BY <2>1, SumTakes
  <2> QED
    BY <2>2 DEF D
<1>7. Total(caps) \in Nat \ {0}
  BY <1>1, <1>2, <1>3, <1>5, <1>6
<1>8. ASSUME NEW i \in 1..n
      PROVE  Floor(caps, e, i) \in Nat
  <2>1. Cap(caps[i]) \in Nat
    BY DEF Cap
  <2>2. Cap(caps[i]) * e \in Nat
    BY <2>1
  <2>3. \A a \in Nat, b \in Nat \ {0} : a \div b \in Nat
    OBVIOUS
  <2> QED
    BY <1>7, <2>2, <2>3 DEF Floor
<1> QED
  BY <1>7, <1>8

(* The runs of experts follow one another without a gap, from 0 to e.      *)
LEMMA RunsAreGapless ==
    ASSUME NEW n \in Nat \ {0}, NEW caps \in [1..n -> Int], NEW e \in Nat,
           NEW S \in Favoured(caps, e)
    PROVE  /\ \A i \in 1..n + 1 : FirstExpert(caps, e, S, i) \in Nat
           /\ FirstExpert(caps, e, S, 1) = 0
           /\ FirstExpert(caps, e, S, n + 1) = e
           /\ \A i \in 1..n :
                 /\ Count(caps, e, S, i) \in Nat
                 /\ FirstExpert(caps, e, S, i + 1)
                        = FirstExpert(caps, e, S, i) + Count(caps, e, S, i)
           /\ \A i, j \in 1..n + 1 : i <= j =>
                 FirstExpert(caps, e, S, i) <= FirstExpert(caps, e, S, j)
<1> DEFINE f == [j \in DOMAIN caps |-> Count(caps, e, S, j)]
           w == [j \in DOMAIN caps |-> Floor(caps, e, j)]
           m == [j \in 1..n |-> IF j \in S THEN 1 ELSE 0]
           F(i) == FirstExpert(caps, e, S, i)
<1>1. DOMAIN caps = 1..n /\ IsFiniteSet(1..n) /\ S \subseteq 1..n
      /\ Cardinality(S) = Spare(caps, e)
  BY FS_Interval DEF Favoured
<1>2. \A i \in 1..n : Floor(caps, e, i) \in Nat
  BY SharesAreNat
<1>3. \A i \in 1..n : /\ Count(caps, e, S, i) \in Nat
                      /\ Count(caps, e, S, i) = Floor(caps, e, i) + (IF i \in S THEN 1 ELSE 0)
  BY <1>2 DEF Count
<1>4. \A i \in 1..n : /\ f[i] \in Nat /\ w[i] \in Nat /\ m[i] \in Nat
                      /\ f[i] = w[i] + m[i] /\ f[i] = Count(caps, e, S, i)
  BY <1>1, <1>2, <1>3
<1>5. \A i : F(i) = SumFunctionOnSet(f, 1..i - 1)
  BY DEF FirstExpert
<1>6. SumFunctionOnSet(f, 1..n) = e
  <2>1. SumFunctionOnSet(m, 1..n) = Cardinality(S)
    BY <1>1, SumOfMarks
  <2>2. Spare(caps, e) = e - SumFunctionOnSet(w, 1..n)
    BY <1>1 DEF Spare
  <2> HIDE DEF f, w, m
  <2>3. SumFunctionOnSet(f, 1..n) = SumFunctionOnSet(w, 1..n) + SumFunctionOnSet(m, 1..n)
    <3> DEFINE D == 1..n
    <3>1. IsFiniteSet(D) /\ \A x \in D : w[x] \in Nat /\ m[x] \in Nat /\ f[x] = w[x] + m[x]
      BY <1>1, <1>4
    <3> HIDE DEF D
    <3>2. SumFunctionOnSet(f, D) = SumFunctionOnSet(w, D) + SumFunctionOnSet(m, D)
      BY <3>1, SumOfBoth
    <3> QED
      BY <3>2 DEF D
  <2>4. SumFunctionOnSet(w, 1..n) \in Nat
    BY <1>1, <1>4, SumIsNat
  <2> QED
    BY <1>1, <2>1, <2>2, <2>3, <2>4
<1> HIDE DEF f, w, m
<1>7. ASSUME NEW i \in 1..n + 1
      PROVE  /\ IsFiniteSet(1..i - 1) /\ 1..i - 1 \subseteq 1..n
             /\ \A x \in 1..i - 1 : f[x] \in Nat
             /\ F(i) \in Nat
  <2>1. IsFiniteSet(1..i - 1) /\ 1..i - 1 \subseteq 1..n
    BY <1>1, FS_Subset
  <2>2. \A x \in 1..i - 1 : f[x] \in Nat
    BY <1>4, <2>1
  <2>3. SumFunctionOnSet(f, 1..i - 1) \in Nat
    BY <2>1, <2>2, SumIsNat
  <2> QED
    BY <1>5, <2>1, <2>2, <2>3
<1>8. F(1) = 0
  <2>1. 1..1 - 1 = {}
    OBVIOUS
  <2>2. SumFunctionOnSet(f, {}) = 0
    BY SumFirst, FS_EmptySet
  <2> QED
    BY <1>5, <2>1, <2>2
<1>9. F(n + 1) = e
  <2>1. 1..(n + 1) - 1 = 1..n
    OBVIOUS
  <2> QED
    BY <1>5, <1>6, <2>1
<1>10. ASSUME NEW i \in 1..n
       PROVE  F(i + 1) = F(i) + Count(caps, e, S, i)
  <2>1. i + 1 \in 1..n + 1 /\ (i + 1) - 1 = i /\ i \in 1..i /\ (1..i) \ {i} = 1..i - 1
    OBVIOUS
  <2>2. IsFiniteSet(1..i) /\ \A x \in 1..i : f[x] \in Nat
    BY <1>7, <2>1
  <2>3. SumFunctionOnSet(f, 1..i) = f[i] + SumFunctionOnSet(f, 1..i - 1)
    <3> DEFINE D == 1..i
    <3>1. IsFiniteSet(D) /\ i \in D /\ \A x \in D : f[x] \in Nat
      BY <2>1, <2>2
    <3>2. D \ {i} = 1..i - 1
      BY <2>1
    <3> HIDE DEF D
    <3>3. \A T : \A y \in T : IsFiniteSet(T) /\ (\A x \in T : f[x] \in Nat) =>
             SumFunctionOnSet(f, T) = f[y] + SumFunctionOnSet(f, T \ {y})
      BY SumTakes
    <3>4. SumFunctionOnSet(f, D) = f[i] + SumFunctionOnSet(f, D \ {i})
      BY <3>3, <3>1
    <3>5. SumFunctionOnSet(f, D) = f[i] + SumFunctionOnSet(f, 1..i - 1)
      BY <3>2, <3>4
    <3> QED
      BY <3>5 DEF D
  <2>4. F(i) \in Nat /\ F(i) = SumFunctionOnSet(f, 1..i - 1)
    BY <1>5, <1>7
  <2>5. F(i + 1) = SumFunctionOnSet(f, 1..i)
    BY <1>5, <2>1
  <2>6. f[i] \in Nat /\ f[i] = Count(caps, e, S, i)
    BY <1>4
  <2> HIDE DEF F
  <2> QED
    BY <2>3, <2>4, <2>5, <2>6
<1>11. ASSUME NEW i \in 1..n + 1, NEW j \in 1..n + 1, i <= j
       PROVE  F(i) <= F(j)
  <2>1. 1..i - 1 \subseteq 1..j - 1
    BY <1>11
  <2>2. SumFunctionOnSet(f, 1..i - 1) <= SumFunctionOnSet(f, 1..j - 1)
    BY <1>7, <2>1, SumOfPart
  <2> QED
    BY <1>5, <2>2
<1> QED
  BY <1>3, <1>7, <1>8, <1>9, <1>10, <1>11

(* Every set of naturals has a least member.                               *)
LEMMA HasFirst ==
    ASSUME NEW S, S \subseteq Nat, S # {}
    PROVE  \E x \in S : \A y \in S : x <= y
<1>1. PICK x \in S : \A y \in S : ~(<<y, x>> \in OpToRel(<, Nat))
  BY NatLessThanWellFounded, WFMin
<1>2. \A y \in S : ~(y < x)
  BY <1>1 DEF OpToRel
<1> QED
  BY <1>2

(* So every expert is held by exactly one node, for any number of nodes,   *)
(* whatever they declare and whichever ties the sort breaks.               *)
LEMMA EveryExpertHeldOnce ==
    ASSUME NEW n \in Nat \ {0}, NEW caps \in [1..n -> Int], NEW e \in Nat,
           NEW S \in Favoured(caps, e), NEW x \in 0..e - 1
    PROVE  Cardinality(Holders(caps, e, S, x)) = 1
<1> DEFINE F(i) == FirstExpert(caps, e, S, i)
<1>1. /\ \A i \in 1..n + 1 : F(i) \in Nat
      /\ F(1) = 0 /\ F(n + 1) = e
      /\ \A i \in 1..n : Count(caps, e, S, i) \in Nat /\ F(i + 1) = F(i) + Count(caps, e, S, i)
      /\ \A i, j \in 1..n + 1 : i <= j => F(i) <= F(j)
  BY RunsAreGapless
<1>2. ASSUME NEW i \in 1..n
      PROVE  x \in Dealt(caps, e, S, i) <=> F(i) <= x /\ x < F(i + 1)
  <2>1. Dealt(caps, e, S, i) = F(i)..F(i) + Count(caps, e, S, i) - 1
    BY DEF Dealt
  <2>2. F(i) \in Nat /\ Count(caps, e, S, i) \in Nat /\ F(i + 1) = F(i) + Count(caps, e, S, i)
    BY <1>1
  <2> HIDE DEF F
  <2> QED
    BY <2>1, <2>2
<1> HIDE DEF F
<1>3. PICK k \in {i \in 1..n + 1 : x < F(i)} : \A j \in {i \in 1..n + 1 : x < F(i)} : k <= j
  <2>1. n + 1 \in {i \in 1..n + 1 : x < F(i)}
    BY <1>1
  <2>2. {i \in 1..n + 1 : x < F(i)} \subseteq Nat
    OBVIOUS
  <2> QED
    BY <2>1, <2>2, HasFirst
<1>4. k # 1
  BY <1>1, <1>3
<1> DEFINE i == k - 1
<1>5. i \in 1..n /\ i + 1 = k /\ i \in 1..n + 1
  BY <1>3, <1>4
<1>6. F(i) <= x
  <2>1. ~(x < F(i))
    BY <1>3, <1>5
  <2>2. F(i) \in Nat
    BY <1>1, <1>5
  <2> QED
    BY <2>1, <2>2
<1>7. x \in Dealt(caps, e, S, i)
  BY <1>2, <1>3, <1>5, <1>6
<1>8. ASSUME NEW j \in 1..n, x \in Dealt(caps, e, S, j)
      PROVE  j = i
  <2>1. F(j) <= x /\ x < F(j + 1)
    BY <1>2, <1>8
  <2>2. F(j) \in Nat /\ F(j + 1) \in Nat /\ F(i) \in Nat /\ F(i + 1) \in Nat
    BY <1>1, <1>5
  <2>3. x < F(i + 1)
    BY <1>3, <1>5
  <2>4. CASE j < i
    <3>1. F(j + 1) <= F(i)
      BY <1>1, <1>5, <2>4
    <3> QED
      BY <1>6, <2>1, <2>2, <3>1
  <2>5. CASE i < j
    <3>1. F(i + 1) <= F(j)
      BY <1>1, <1>5, <2>5
    <3> QED
      BY <2>1, <2>2, <2>3, <3>1
  <2> QED
    BY <1>5, <2>4, <2>5
<1>9. Holders(caps, e, S, x) = {i}
  BY <1>5, <1>7, <1>8 DEF Holders
<1> QED
  BY <1>9, FS_Singleton

(* Every expert is dealt to exactly one node, and none is left over.       *)
LEMMA DealIsSound == ASSUME input \in DealCases PROVE DealSound
<1>1. PICK n \in 1..MaxFleet : input.caps \in [1..n -> Capacities]
  BY DEF DealCases
<1>2. input.caps \in [1..n -> Int] /\ n \in Nat \ {0} /\ Len(input.caps) = n
  <2> DEFINE caps == input.caps
  <2>1. caps \in [1..n -> Capacities] /\ Capacities \subseteq Int
    BY <1>1, PlanningConstants
  <2> HIDE DEF caps
  <2>2. caps \in [1..n -> Int] /\ Len(caps) = n
    <3>1. caps \in Seq(Capacities) /\ Len(caps) = n
      BY <2>1
    <3>2. \A i \in 1..n : caps[i] \in Int
      BY <2>1
    <3> QED
      BY <2>1, <3>1, <3>2
  <2>3. n \in Nat \ {0}
    OBVIOUS
  <2> QED
    BY <2>2, <2>3 DEF caps
<1>3. input.experts \in Nat
  BY PlanningConstants DEF DealCases
<1>4. ASSUME NEW S \in Favoured(input.caps, input.experts)
      PROVE  /\ \A x \in 0..input.experts - 1 :
                  Cardinality(Holders(input.caps, input.experts, S, x)) = 1
             /\ FirstExpert(input.caps, input.experts, S, Len(input.caps) + 1)
                  = input.experts
  <2>1. \A x \in 0..input.experts - 1 :
           Cardinality(Holders(input.caps, input.experts, S, x)) = 1
    BY <1>2, <1>3, EveryExpertHeldOnce
  <2>2. FirstExpert(input.caps, input.experts, S, n + 1) = input.experts
    BY <1>2, <1>3, RunsAreGapless
  <2> QED
    BY <1>2, <2>1, <2>2
<1> QED
  BY <1>4 DEF DealSound

-----------------------------------------------------------------------------
(* Hints.  The larger and the smaller of two integers.                     *)
LEMMA TwoExtremes ==
    ASSUME NEW a \in Int, NEW b \in Int
    PROVE  /\ Max({a, b}) = IF a >= b THEN a ELSE b
           /\ Min({a, b}) = IF a <= b THEN a ELSE b
<1>1. /\ \E x \in {a, b} : \A y \in {a, b} : x >= y
      /\ \E x \in {a, b} : \A y \in {a, b} : x <= y
  OBVIOUS
<1>2. Max({a, b}) \in {a, b} /\ \A y \in {a, b} : Max({a, b}) >= y
  BY <1>1 DEF Max
<1>3. Min({a, b}) \in {a, b} /\ \A y \in {a, b} : Min({a, b}) <= y
  BY <1>1 DEF Min
<1> QED
  BY <1>2, <1>3

(* A weight of more than 70 per cent, or just as much, needs a history of  *)
(* being right more than 80 times in a hundred.                            *)
LEMMA WeightNeedsHistory ==
    ASSUME NEW h, h.accuracy \in -1..100, h.version \in Int, h.confidence \in Nat,
           h.ml \in BOOLEAN
    PROVE  HintWeight(h) \in Int /\ (HintWeight(h) >= Weight(70) => h.accuracy > 80)
<1> DEFINE a == h.accuracy
           x == (25 * a) \div 2 - 325
           past == Max({0, Min({1000, x})})
           v == versionFactor(h.version)
           c == Min({100, h.confidence})
           m == IF h.ml THEN 100 ELSE 70
           product == past * v * c * m
<1>1. x \in Int /\ (a <= 80 => x <= 675)
  OBVIOUS
<1>2. past \in 0..1000 /\ (a <= 80 => past <= 675)
  <2>1. \A p, q \in Int : /\ Max({p, q}) = IF p >= q THEN p ELSE q
                          /\ Min({p, q}) = IF p <= q THEN p ELSE q
    BY TwoExtremes
  <2> HIDE DEF x
  <2>2. Min({1000, x}) = IF 1000 <= x THEN 1000 ELSE x
    <3> DEFINE k == 1000
    <3>1. x \in Int /\ k \in Int
      BY <1>1
    <3> HIDE DEF k
    <3>2. Min({k, x}) = IF k <= x THEN k ELSE x
      BY <2>1, <3>1
    <3> QED
      BY <3>2 DEF k
  <2>3. Max({0, Min({1000, x})}) = IF 0 >= Min({1000, x}) THEN 0 ELSE Min({1000, x})
    BY <1>1, <2>1, <2>2
  <2> QED
    BY <1>1, <2>2, <2>3
<1>3. v \in {20, 40, 80, 100} /\ m \in {70, 100} /\ c \in 0..100
  <2>1. \A p, q \in Int : Min({p, q}) = IF p <= q THEN p ELSE q
    BY TwoExtremes
  <2> DEFINE k == 100
  <2>2. k \in Int /\ h.confidence \in Int
    OBVIOUS
  <2> HIDE DEF k
  <2>3. Min({k, h.confidence}) = IF k <= h.confidence THEN k ELSE h.confidence
    BY <2>1, <2>2
  <2>4. c \in 0..100
    BY <2>3 DEF k
  <2>5. m \in {70, 100}
    OBVIOUS
  <2>6. v \in {20, 40, 80, 100}
    <3> DEFINE V == h.version
    <3> HIDE DEF V
    <3>1. versionFactor(V) \in {20, 40, 80, 100}
      BY SMT DEF versionFactor
    <3> QED
      BY <3>1 DEF V
  <2> QED
    BY <2>4, <2>5, <2>6
<1>4. HintWeight(h) = IF a = NoHistory \/ h.confidence < 50 THEN 0
                      ELSE Min({product, Weight(95)})
  BY DEF HintWeight
<1> HIDE DEF past, v, m, x, c
<1>5. product \in Nat /\ (a <= 80 => product < Weight(70))
  <2>1. \A p, q \in Nat, r, s \in Nat : p <= q /\ r <= s => p * r \in Nat /\ p * r <= q * s
    <3> SUFFICES ASSUME NEW p \in Nat, NEW q \in Nat, NEW r \in Nat, NEW s \in Nat,
                        p <= q, r <= s
                 PROVE  p * r \in Nat /\ p * r <= q * s
      OBVIOUS
    <3>1. p * r \in Nat /\ q * r \in Nat /\ q * s \in Nat
      OBVIOUS
    <3>2. \A i, j, k \in Nat : i <= j => k * i <= k * j
      OBVIOUS
    <3>3. r * p <= r * q /\ q * r <= q * s
      BY <3>2
    <3>4. r * p = p * r /\ r * q = q * r
      OBVIOUS
    <3> QED
      BY <3>1, <3>3, <3>4
  <2>2. /\ past \in Nat /\ past <= 1000 /\ (a <= 80 => past <= 675)
        /\ v \in Nat /\ v <= 100 /\ m \in Nat /\ m <= 100
        /\ c \in Nat /\ c <= 100
    BY <1>2, <1>3
  <2>3. /\ past * v \in Nat /\ (a <= 80 => past * v <= 675 * 100)
    BY <2>1, <2>2
  <2>4. /\ (past * v) * c \in Nat
        /\ (a <= 80 => (past * v) * c <= 67500 * 100)
    BY <2>1, <2>2, <2>3
  <2>5. /\ ((past * v) * c) * m \in Nat
        /\ (a <= 80 => ((past * v) * c) * m <= 6750000 * 100)
    BY <2>1, <2>2, <2>4
  <2> QED
    BY <2>5 DEF Weight
<1> HIDE DEF product
<1>6. Weight(95) \in Nat /\ Weight(70) \in Nat /\ Weight(70) > 0
  BY SMT DEF Weight
<1>7. Min({product, Weight(95)}) = IF product <= Weight(95) THEN product ELSE Weight(95)
  <2>1. \A p, q \in Int : Min({p, q}) = IF p <= q THEN p ELSE q
    BY TwoExtremes
  <2> QED
    BY <1>5, <1>6, <2>1
<1>8. HintWeight(h) \in Int /\ (HintWeight(h) = 0 \/ HintWeight(h) <= product)
  BY <1>4, <1>5, <1>6, <1>7
<1>9. a > 80 \/ HintWeight(h) < Weight(70)
  BY <1>5, <1>6, <1>8
<1> QED
  BY <1>6, <1>8, <1>9

(* No hint and no override lowers a tier, and a hint is believed only with *)
(* a history.                                                              *)
LEMMA HintIsSound == ASSUME input \in HintCases PROVE HintNeverLowers
<1> DEFINE weight == HintWeight(input)
           tier == ValidateSensitivity(input.hinted, input.own, input.override, weight)
<1>1. /\ input.hinted \in -1..3 /\ input.own \in 1..3 /\ input.override \in -1..3
      /\ input.accuracy \in -1..100 /\ input.version \in Int
      /\ input.confidence \in Nat /\ input.ml \in BOOLEAN
  <2>1. /\ input.hinted \in Tiers \cup {NoTier} /\ input.own \in 1..3
        /\ input.override \in Tiers \cup {NoTier} /\ input.accuracy \in Accuracies \cup {NoHistory}
        /\ input.version \in Versions \cup {NoVersion} /\ input.confidence \in Confidences
        /\ input.ml \in BOOLEAN
    BY DEF HintCases
  <2>2. Accuracies \subseteq 0..100 /\ Versions \subseteq Nat /\ Confidences \subseteq Nat
    BY PlanningConstants
  <2>3. input.accuracy \in -1..100 /\ input.version \in Int /\ input.confidence \in Nat
    <3>1. NoHistory \in -1..100 /\ NoVersion \in Int
      BY DEF NoHistory, NoVersion
    <3>2. (\A i \in 0..100 : i \in -1..100) /\ (\A i \in Nat : i \in Int)
      OBVIOUS
    <3>3. input.accuracy \in -1..100
      BY <2>1, <2>2, <3>1, <3>2, Zenon
    <3>4. input.version \in Int /\ input.confidence \in Nat
      BY <2>1, <2>2, <3>1, <3>2, Zenon
    <3> QED
      BY <3>3, <3>4
  <2>4. input.hinted \in -1..3 /\ input.override \in -1..3
    BY <2>1 DEF Tiers, NoTier
  <2> QED
    BY <2>1, <2>3, <2>4
<1>2. weight \in Int /\ (weight >= Weight(70) => input.accuracy > 80)
  BY <1>1, WeightNeedsHistory
<1> HIDE DEF weight
<1>3. Max({input.override, input.own})
        = IF input.override >= input.own THEN input.override ELSE input.own
  BY <1>1, TwoExtremes
<1>4. \/ input.override # NoTier /\ tier = Max({input.override, input.own})
      \/ /\ input.override = NoTier
         /\ \/ input.hinted > input.own /\ weight > Weight(70) /\ tier = input.hinted
            \/ tier = input.own
  BY DEF ValidateSensitivity
<1>5. tier >= input.own
  BY <1>1, <1>3, <1>4
<1>6. tier > input.own /\ tier > input.override
         => input.override = NoTier /\ weight > Weight(70)
  BY <1>1, <1>3, <1>4
<1>7. ~ShouldReclassify(input.hinted, weight) => weight >= Weight(70)
  BY <1>2 DEF ShouldReclassify, Weight
<1>8. weight > Weight(70) => input.accuracy > 80
  BY <1>2 DEF Weight
<1> QED
  BY <1>2, <1>5, <1>6, <1>7, <1>8 DEF HintNeverLowers, weight

-----------------------------------------------------------------------------
(* The ring.  The least of a set of naturals is its Min.                   *)
LEMMA MinIsFirst ==
    ASSUME NEW S, S \subseteq Nat, S # {}
    PROVE  Min(S) \in S /\ \A y \in S : Min(S) <= y
BY HasFirst DEF Min

(* The point that a key falls on, and the member that owns it.             *)
LEMMA OwnerOfPoint ==
    ASSUME NEW ring \in Rings, NEW members, members \subseteq Members,
           NEW p, NEW m \in members, p \in ring[m], NEW key \in Points,
           \A o \in members : \A q \in ring[o] :
              \/ p >= key /\ (q >= key => p <= q)
              \/ q < key /\ p <= q
    PROVE  Owner(ring, members, key) = m
<1> DEFINE points == UNION {ring[o] : o \in members}
           after == {q \in points : q >= key}
           pick == IF after = {} THEN Min(points) ELSE Min(after)
<1>1. points \subseteq Nat /\ p \in points /\ after \subseteq Nat /\ key \in Nat
  <2>1. \A o \in members : ring[o] \subseteq Points
    BY DEF Rings
  <2>2. Points \subseteq Nat
    BY PlanningConstants
  <2> QED
    BY <2>1, <2>2
<1>2. pick = p
  <2>1. CASE p >= key
    <3>1. p \in after /\ \A q \in after : p <= q
      BY <1>1, <2>1
    <3>2. Min(after) \in after /\ \A q \in after : Min(after) <= q
      BY <1>1, <3>1, MinIsFirst
    <3>3. Min(after) = p
      <4>1. Min(after) \in Nat /\ p \in Nat
        BY <1>1, <3>2
      <4>2. p <= Min(after) /\ Min(after) <= p
        BY <3>1, <3>2
      <4> QED
        BY <4>1, <4>2
    <3> QED
      BY <3>1, <3>3
  <2>2. CASE ~(p >= key)
    <3>1. after = {} /\ \A q \in points : p <= q
      BY <1>1, <2>2
    <3>2. Min(points) \in points /\ \A q \in points : Min(points) <= q
      BY <1>1, MinIsFirst
    <3>3. Min(points) = p
      <4>1. Min(points) \in Nat /\ p \in Nat
        BY <1>1, <3>2
      <4>2. p <= Min(points) /\ Min(points) <= p
        BY <1>1, <3>1, <3>2
      <4> QED
        BY <4>1, <4>2
    <3> QED
      BY <3>1, <3>3
  <2> QED
    BY <2>1, <2>2
<1>3. Owner(ring, members, key) = CHOOSE o \in members : pick \in ring[o]
  BY DEF Owner
<1>4. \A o \in members : p \in ring[o] => o = m
  BY DEF Rings
<1> HIDE DEF pick
<1> QED
  BY <1>2, <1>3, <1>4

(* A key falls on some point of somebody.                                  *)
LEMMA SomebodyOwns ==
    ASSUME NEW ring \in Rings, NEW members, members \subseteq Members, members # {},
           NEW key \in Points
    PROVE  \E m \in members : \E p \in ring[m] :
              \A o \in members : \A q \in ring[o] :
                 \/ p >= key /\ (q >= key => p <= q)
                 \/ q < key /\ p <= q
<1> DEFINE points == UNION {ring[o] : o \in members}
           after == {q \in points : q >= key}
<1>1. points \subseteq Nat /\ after \subseteq Nat /\ key \in Nat /\ points # {}
  <2>1. \A o \in members : ring[o] \subseteq Points /\ ring[o] # {}
    BY DEF Rings
  <2>2. Points \subseteq Nat
    BY PlanningConstants
  <2> QED
    BY <2>1, <2>2
<1>2. PICK p \in points : \/ p \in after /\ \A q \in after : p <= q
                          \/ after = {} /\ \A q \in points : p <= q
  BY <1>1, HasFirst
<1>3. PICK m \in members : p \in ring[m]
  BY <1>2
<1>4. ASSUME NEW o \in members, NEW q \in ring[o]
      PROVE  \/ p >= key /\ (q >= key => p <= q)
             \/ q < key /\ p <= q
  <2>1. q \in points /\ q \in Nat /\ p \in Nat
    BY <1>1, <1>2
  <2> QED
    BY <1>1, <1>2, <2>1
<1> QED
  BY <1>3, <1>4

(* When a member leaves the ring, only the keys that it owned move.        *)
LEMMA RingIsSound == ASSUME input \in RingCases PROVE OnlyItsKeysMove
<1> DEFINE ring == input.ring
           key == input.key
           gone == input.gone
           rest == Members \ {gone}
<1>1. ring \in Rings /\ key \in Points /\ gone \in Members
  BY DEF RingCases
<1> HIDE DEF ring, key, gone
<1>2. PICK m \in Members : \E p \in ring[m] :
          \A o \in Members : \A q \in ring[o] :
             \/ p >= key /\ (q >= key => p <= q)
             \/ q < key /\ p <= q
  BY <1>1, SomebodyOwns
<1>3. PICK p \in ring[m] :
          \A o \in Members : \A q \in ring[o] :
             \/ p >= key /\ (q >= key => p <= q)
             \/ q < key /\ p <= q
  BY <1>2
<1>4. Owner(ring, Members, key) = m
  BY <1>1, <1>3, OwnerOfPoint
<1>5. ASSUME m # gone
      PROVE  Owner(ring, rest, key) = m
  <2>1. m \in rest /\ rest \subseteq Members
    BY <1>5
  <2> HIDE DEF rest
  <2>2. \A o \in rest : \A q \in ring[o] :
             \/ p >= key /\ (q >= key => p <= q)
             \/ q < key /\ p <= q
    BY <1>3, <2>1
  <2> QED
    BY <1>1, <1>3, <2>1, <2>2, OwnerOfPoint
<1> QED
  BY <1>4, <1>5 DEF OnlyItsKeysMove, ring, key, gone

-----------------------------------------------------------------------------
(* Schedules.  A minute of the week is a day and a minute of that day, in  *)
(* one way; a week is seven days.                                          *)
LEMMA OneDayOneMinute ==
    ASSUME NEW D \in Nat \ {0}, NEW t \in 0..7 * D - 1
    PROVE  /\ t \div D \in 0..6 /\ t % D \in 0..D - 1
           /\ \A d \in 0..6, y \in 0..D - 1 :
                 t = (d * D + y) % (7 * D) <=> t \div D = d /\ t % D = y
           /\ \A d \in 0..6, y \in D..2 * D - 1 :
                 t = (d * D + y) % (7 * D) <=> t \div D = (d + 1) % 7 /\ t % D = y - D
<1> DEFINE w == t \div D
           m == t % D
<1>1. w \in Nat /\ m \in 0..D - 1 /\ t = w * D + m
  OBVIOUS
<1>2. \A a \in Nat, b \in Nat : a < b => a * D \in Nat /\ b * D \in Nat /\ a * D + D <= b * D
  <2> SUFFICES ASSUME NEW a \in Nat, NEW b \in Nat, a < b
               PROVE  a * D \in Nat /\ b * D \in Nat /\ a * D + D <= b * D
    OBVIOUS
  <2>1. PICK c \in Nat : b = a + 1 + c
    <3>1. b - a - 1 \in Nat /\ b = a + 1 + (b - a - 1)
      OBVIOUS
    <3> QED
      BY <3>1
  <2>2. a * D \in Nat /\ c * D \in Nat /\ (a + 1 + c) * D = a * D + D + c * D
    OBVIOUS
  <2> QED
    BY <2>1, <2>2
<1>3. \A d \in Nat : d * D \in Nat
  OBVIOUS
<1> HIDE DEF w, m
<1>4. w \in 0..6
  <2>1. w * D \in Nat /\ 7 * D \in Nat /\ t < 7 * D
    BY <1>1, <1>3
  <2>2. ~(7 * D <= w * D)
    BY <1>1, <2>1
  <2>3. 7 < w => 7 * D + D <= w * D
    BY <1>1, <1>2
  <2> QED
    BY <1>1, <2>1, <2>2, <2>3
<1>5. ASSUME NEW d \in 0..6, NEW y \in 0..D - 1
      PROVE  t = d * D + y <=> w = d /\ m = y
  <2>1. d < w => d * D + D <= w * D
    BY <1>1, <1>2
  <2>2. w < d => w * D + D <= d * D
    BY <1>1, <1>2
  <2>3. d * D \in Nat /\ w * D \in Nat
    BY <1>1, <1>3
  <2>4. t = d * D + y => w = d
    BY <1>1, <2>1, <2>2, <2>3
  <2> QED
    BY <1>1, <2>3, <2>4
<1>6. \A x \in Nat, c \in Nat \ {0} : x < c => x % c = x /\ (c + x) % c = x
  OBVIOUS
<1>7. \A d \in 0..6 : d * D \in Nat /\ d * D + D <= 7 * D /\ 7 * D \in Nat \ {0}
  <2>1. \A d \in 0..6 : d \in Nat /\ d < 7 /\ 7 \in Nat
    OBVIOUS
  <2> QED
    BY <1>2, <2>1
<1>8. \A d \in 0..6, y \in 0..D - 1 : (d * D + y) % (7 * D) = d * D + y
  BY <1>6, <1>7
<1>9. ASSUME NEW d \in 0..6, NEW y \in D..2 * D - 1
      PROVE  t = (d * D + y) % (7 * D) <=> w = (d + 1) % 7 /\ m = y - D
  <2>1. y - D \in 0..D - 1 /\ d * D + y = d * D + D + (y - D) /\ d * D + D = (d + 1) * D
    OBVIOUS
  <2>2. CASE d = 6
    <3>1. d * D + y = 7 * D + (y - D)
      BY <2>1, <2>2
    <3>2. (d * D + y) % (7 * D) = y - D
      BY <1>6, <1>7, <2>1, <3>1
    <3>3. t = 0 * D + (y - D) <=> w = 0 /\ m = y - D
      BY <1>5, <2>1
    <3>4. (d + 1) % 7 = 0 /\ 0 * D + (y - D) = y - D
      BY <2>2
    <3> QED
      BY <3>2, <3>3, <3>4
  <2>3. CASE d # 6
    <3>1. d + 1 \in 0..6 /\ (d + 1) % 7 = d + 1
      BY <2>3
    <3>2. d * D + y = (d + 1) * D + (y - D)
      BY <2>1
    <3>3. (d * D + y) % (7 * D) = (d + 1) * D + (y - D)
      BY <1>8, <2>1, <3>1, <3>2
    <3> QED
      BY <1>5, <2>1, <3>1, <3>3
  <2> QED
    BY <2>2, <2>3
<1>10. \A d \in 0..6, y \in 0..D - 1 :
          t = (d * D + y) % (7 * D) <=> w = d /\ m = y
  BY <1>5, <1>8
<1>11. \A d \in 0..6, y \in D..2 * D - 1 :
          t = (d * D + y) % (7 * D) <=> w = (d + 1) % 7 /\ m = y - D
  BY <1>9
<1> QED
  BY <1>1, <1>4, <1>10, <1>11, Zenon DEF w, m

(* A well-formed window is the stretch that begins on each named day.      *)
LEMMA ScheduleIsSound == ASSUME input \in ScheduleCases PROVE ScheduleIsItsNights
<1> DEFINE s == input.start
           e == input.end
           t == input.time
           days == input.days
           w == Weekday(t)
           m == Minute(t)
           length == (e - s + DayLen) % DayLen
           nights == {d \in Weekdays : days = {} \/ d \in days}
           Covered == \E d \in nights, k \in 0..length - 1 :
                         t = (d * DayLen + s + k) % (7 * DayLen)
<1> SUFFICES ASSUME input.window, Malformed \notin {s, e}
             PROVE  IsActiveNow(input, t) <=> Covered
  BY DEF ScheduleIsItsNights, IsActiveNow
<1>1. /\ DayLen \in Nat \ {0} /\ s \in 0..DayLen - 1 /\ e \in 0..DayLen - 1
      /\ t \in 0..7 * DayLen - 1
  BY PlanningConstants DEF ScheduleCases, Malformed
<1>2. /\ w \in 0..6 /\ m \in 0..DayLen - 1
      /\ \A d \in 0..6, y \in 0..DayLen - 1 :
            t = (d * DayLen + y) % (7 * DayLen) <=> w = d /\ m = y
      /\ \A d \in 0..6, y \in DayLen..2 * DayLen - 1 :
            t = (d * DayLen + y) % (7 * DayLen) <=> w = (d + 1) % 7 /\ m = y - DayLen
  BY <1>1, OneDayOneMinute DEF Weekday, Minute
<1>3. length = IF s <= e THEN e - s ELSE e - s + DayLen
  <2>1. \A x \in Nat, c \in Nat \ {0} : x < c => x % c = x /\ (x + c) % c = x
    OBVIOUS
  <2>2. s <= e => e - s \in Nat /\ e - s < DayLen
    BY <1>1
  <2>3. ~(s <= e) => e - s + DayLen \in Nat /\ e - s + DayLen < DayLen
    BY <1>1
  <2> QED
    BY <1>1, <2>1, <2>2, <2>3
<1>4. IsActiveNow(input, t)
        <=> \/ /\ s <= e /\ dayAllowed(days, w) /\ m >= s /\ m < e
            \/ /\ s > e /\ m >= s /\ dayAllowed(days, w)
            \/ /\ s > e /\ m < e /\ dayAllowed(days, w - 1)
  BY DEF IsActiveNow
<1>5. \A d \in 0..6 : /\ d \in nights <=> dayAllowed(days, d)
                      /\ w = (d + 1) % 7 <=> d = (w - 1) % 7
  BY <1>2 DEF dayAllowed, Weekdays
<1>6. nights \subseteq 0..6 /\ (w - 1) % 7 \in 0..6
      /\ (dayAllowed(days, w - 1) <=> (w - 1) % 7 \in nights)
  BY <1>2 DEF dayAllowed, Weekdays
<1>7. \A d \in 0..6, k \in Nat : d * DayLen + s + k = d * DayLen + (s + k)
  BY <1>1
<1> HIDE DEF s, e, t, days, w, m, length, nights
<1>8. ASSUME NEW d \in nights, NEW k \in 0..length - 1,
             t = (d * DayLen + s + k) % (7 * DayLen)
      PROVE  \/ /\ s <= e /\ dayAllowed(days, w) /\ m >= s /\ m < e
             \/ /\ s > e /\ m >= s /\ dayAllowed(days, w)
             \/ /\ s > e /\ m < e /\ dayAllowed(days, w - 1)
  <2>1. d \in 0..6 /\ k \in Nat /\ t = (d * DayLen + (s + k)) % (7 * DayLen)
    BY <1>1, <1>3, <1>6, <1>7, <1>8
  <2>2. CASE s + k < DayLen
    <3>1. s + k \in 0..DayLen - 1 /\ s + k >= s /\ (s <= e => s + k < e)
      BY <1>1, <1>3, <2>1, <2>2
    <3>2. w = d /\ m = s + k
      BY <1>2, <2>1, <3>1
    <3> QED
      BY <1>1, <1>5, <2>1, <3>1, <3>2
  <2>3. CASE ~(s + k < DayLen)
    <3>1. s > e /\ s + k \in DayLen..2 * DayLen - 1 /\ s + k - DayLen < e
      BY <1>1, <1>3, <2>1, <2>3
    <3> DEFINE y == s + k
    <3>2. y \in DayLen..2 * DayLen - 1 /\ t = (d * DayLen + y) % (7 * DayLen)
      BY <2>1, <3>1
    <3> HIDE DEF y
    <3>3. w = (d + 1) % 7 /\ m = y - DayLen
      BY <1>2, <2>1, <3>2, Zenon
    <3>4. d = (w - 1) % 7
      BY <1>5, <2>1, <3>3
    <3>5. dayAllowed(days, w - 1)
      BY <1>6, <3>4
    <3>6. m < e
      BY <1>1, <2>1, <3>1, <3>3 DEF y
    <3> QED
      BY <3>1, <3>5, <3>6
  <2> QED
    BY <2>2, <2>3
<1>9. ASSUME dayAllowed(days, w), m >= s, s <= e => m < e
      PROVE  Covered
  <2>1. m - s \in 0..length - 1 /\ s + (m - s) = m /\ m - s \in Nat
    BY <1>1, <1>2, <1>3, <1>9
  <2>2. w \in nights
    BY <1>2, <1>5, <1>9
  <2>3. t = (w * DayLen + m) % (7 * DayLen)
    BY <1>2
  <2>4. w * DayLen + s + (m - s) = w * DayLen + m
    BY <1>2, <1>7, <2>1
  <2> QED
    BY <2>1, <2>2, <2>3, <2>4
<1>10. ASSUME dayAllowed(days, w - 1), s > e, m < e
       PROVE  Covered
  <2> DEFINE d == (w - 1) % 7
             k == m + DayLen - s
             y == s + k
  <2>1. k \in 0..length - 1 /\ k \in Nat /\ s + k = m + DayLen
        /\ y \in DayLen..2 * DayLen - 1 /\ y - DayLen = m
    BY <1>1, <1>2, <1>3, <1>10
  <2>2. d \in nights /\ d \in 0..6 /\ w = (d + 1) % 7
    BY <1>5, <1>6, <1>10
  <2> HIDE DEF d, k, y
  <2>3. t = (d * DayLen + y) % (7 * DayLen)
    BY <1>2, <2>1, <2>2, Zenon
  <2>4. t = (d * DayLen + s + k) % (7 * DayLen)
    BY <1>7, <2>1, <2>2, <2>3 DEF y
  <2> QED
    BY <2>1, <2>2, <2>4
<1>11. IsActiveNow(input, t) => Covered
  BY <1>1, <1>4, <1>9, <1>10
<1>12. Covered => IsActiveNow(input, t)
  BY <1>4, <1>8
<1> QED
  BY <1>11, <1>12

-----------------------------------------------------------------------------
(* Splitting.  Where a boundary is in reach, the search stops behind one   *)
(* of those nearest to the middle.                                         *)
LEMMA SearchFindsNearest ==
    ASSUME NEW n \in Nat, NEW doc \in Seq(Chars), NEW strategy \in Strategies,
           Len(doc) = n,
           NEW near, near = {i \in 0..n - 1 : /\ IsBoundary(doc, strategy, i)
                                              /\ Distance(i, n \div 2) < Reach(doc, strategy)},
           near # {}
    PROVE  \E i \in near : /\ \A j \in near : Distance(i, n \div 2) <= Distance(j, n \div 2)
                           /\ Nearest(doc, strategy) = i + Width(strategy)
<1> DEFINE mid == n \div 2
           R == Reach(doc, strategy)
           hits(d) == {i \in {mid + d, mid - d} : i \in 0..n - 1 /\ IsBoundary(doc, strategy, i)}
           found == {d \in 0..R - 1 : hits(d) /= {}}
<1>1. mid \in Nat /\ R \in Int
  BY DEF Reach
<1>2. Nearest(doc, strategy) = IF found = {} THEN mid ELSE Max(hits(Min(found))) + Width(strategy)
  BY DEF Nearest
<1>3. \A i \in near : /\ i \in Nat /\ i \in 0..n - 1 /\ IsBoundary(doc, strategy, i)
                      /\ Distance(i, mid) \in Nat /\ Distance(i, mid) < R
                      /\ i \in {mid + Distance(i, mid), mid - Distance(i, mid)}
  BY <1>1 DEF Distance
<1>4. \A i \in near : i \in hits(Distance(i, mid)) /\ Distance(i, mid) \in found
  BY <1>1, <1>3
<1>5. found \subseteq Nat /\ found # {}
  BY <1>1, <1>4
<1>6. PICK d \in found : d = Min(found) /\ \A e \in found : d <= e
  BY <1>5, MinIsFirst
<1>7. d \in Nat /\ d < R /\ hits(d) # {} /\ hits(d) \subseteq {mid + d, mid - d}
  <2>1. d \in 0..R - 1 /\ hits(d) # {}
    BY <1>6
  <2>2. hits(d) \subseteq {mid + d, mid - d}
    OBVIOUS
  <2> HIDE DEF hits, mid, R
  <2> QED
    BY <1>1, <2>1, <2>2
<1>8. PICK i \in hits(d) : i = Max(hits(d))
  <2> HIDE DEF hits, mid
  <2>1. \E x \in hits(d) : \A y \in hits(d) : x >= y
    BY <1>1, <1>7
  <2> QED
    BY <2>1 DEF Max
<1>9. i \in near /\ Distance(i, mid) = d
  <2>1. i \in 0..n - 1 /\ IsBoundary(doc, strategy, i) /\ i \in {mid + d, mid - d}
    BY <1>8
  <2>2. Distance(i, mid) = d
    <3> HIDE DEF mid
    <3> QED
      BY <1>1, <1>7, <2>1 DEF Distance
  <2> QED
    BY <1>7, <2>1, <2>2
<1>10. Nearest(doc, strategy) = i + Width(strategy)
  <2> HIDE DEF found, hits
  <2> QED
    BY <1>2, <1>5, <1>6, <1>8
<1>11. \A j \in near : Distance(i, mid) <= Distance(j, mid)
  BY <1>4, <1>6, <1>9
<1> QED
  BY <1>9, <1>10, <1>11

(* Both halves have content, and the cut is at a boundary if it can be.    *)
LEMMA SplitIsSound == ASSUME input \in SplitCases PROVE SplitSound
<1> DEFINE doc == input.doc
           strategy == input.strategy
           n == Len(doc)
           mid == n \div 2
           cut == Cut(doc, strategy)
           near == {i \in 0..n - 1 : /\ IsBoundary(doc, strategy, i)
                                     /\ Distance(i, mid) < Reach(doc, strategy)}
<1>1. doc \in Seq(Chars) /\ n \in Nat /\ n >= 2 /\ strategy \in Strategies
  BY PlanningConstants DEF SplitCases, Documents
<1>2. mid \in 1..n - 1
  <2> HIDE DEF n
  <2> QED
    BY <1>1
<1>3. cut = IF FindMidpoint(doc, strategy) \in 1..n - 1 THEN FindMidpoint(doc, strategy) ELSE mid
  BY DEF Cut
<1>4. cut \in 1..n - 1
  BY <1>2, <1>3
<1>5. ASSUME near # {}
      PROVE  \E i \in near : /\ \A j \in near : Distance(i, mid) <= Distance(j, mid)
                             /\ cut = (IF i + Width(strategy) < n
                                       THEN i + Width(strategy) ELSE mid)
  <2>1. FindMidpoint(doc, strategy) = Nearest(doc, strategy)
    <3>1. \A i \in 0..n - 1 : Distance(i, mid) < Reach(doc, strategy)
             => i - mid < Reach(doc, strategy) /\ mid - i < Reach(doc, strategy)
      <4>1. mid \in Int /\ Reach(doc, strategy) \in Int
        BY <1>1, <1>2 DEF Reach
      <4> HIDE DEF mid
      <4> QED
        BY <4>1 DEF Distance
    <3>2. \E i \in 0..n - 1 : /\ IsBoundary(doc, strategy, i)
                              /\ i - mid < Reach(doc, strategy)
                              /\ mid - i < Reach(doc, strategy)
      BY <1>5, <3>1
    <3> QED
      BY <3>2 DEF FindMidpoint
  <2>2. PICK i \in near : /\ \A j \in near : Distance(i, mid) <= Distance(j, mid)
                          /\ Nearest(doc, strategy) = i + Width(strategy)
    <3> HIDE DEF doc, strategy
    <3> QED
      BY <1>1, <1>5, SearchFindsNearest
  <2>3. i \in Nat /\ Width(strategy) \in {1, 2}
    BY DEF Width
  <2>4. cut = IF i + Width(strategy) < n THEN i + Width(strategy) ELSE mid
    <3> HIDE DEF cut, near, mid
    <3> QED
      BY <1>1, <1>3, <2>1, <2>2, <2>3
  <2> QED
    BY <2>2, <2>4
<1> QED
  BY <1>4, <1>5 DEF SplitSound

-----------------------------------------------------------------------------
(* One service moves at a time and the others rest, so what each keeps they *)
(* keep together.                                                          *)
SvInv ==
    /\ PmInv /\ CrInv /\ DpInv /\ DiInv /\ PlTypeOK
    /\ focus = "planning" => PlInit
    /\ focus \in {"placement", "credentials", "directory", "deploy", "planning"}

(* Every case of the planning functions names one of them.                 *)
LEMMA KindOfCase ==
    /\ \A c \in SplitCases : c.kind = "split"
    /\ \A c \in DealCases : c.kind = "deal"
    /\ \A c \in HintCases : c.kind = "hint"
    /\ \A c \in RingCases : c.kind = "ring"
    /\ \A c \in ScheduleCases : c.kind = "schedule"
BY DEF SplitCases, DealCases, HintCases, RingCases, ScheduleCases

(* So the kind of a case is one of the five.                               *)
LEMMA CasesAreNamed == PlInit => PlTypeOK
BY KindOfCase DEF PlInit, PlTypeOK

(* On every case the algorithm that it names answers as it should.         *)
LEMMA PlansKeepPromises ==
    ASSUME PlInit
    PROVE  SplitSound /\ DealSound /\ HintNeverLowers /\ OnlyItsKeysMove /\ ScheduleIsItsNights
<1>1. input.kind = "split" => input \in SplitCases
  BY KindOfCase DEF PlInit
<1>2. input.kind = "deal" => input \in DealCases
  BY KindOfCase DEF PlInit
<1>3. input.kind = "hint" => input \in HintCases
  BY KindOfCase DEF PlInit
<1>4. input.kind = "ring" => input \in RingCases
  BY KindOfCase DEF PlInit
<1>5. input.kind = "schedule" => input \in ScheduleCases
  BY KindOfCase DEF PlInit
<1>6. SplitSound
  BY <1>1, SplitIsSound DEF SplitSound
<1>7. DealSound
  BY <1>2, DealIsSound DEF DealSound
<1>8. HintNeverLowers
  BY <1>3, HintIsSound DEF HintNeverLowers
<1>9. OnlyItsKeysMove
  BY <1>4, RingIsSound DEF OnlyItsKeysMove
<1>10. ScheduleIsItsNights
  BY <1>5, ScheduleIsSound DEF ScheduleIsItsNights
<1> QED
  BY <1>6, <1>7, <1>8, <1>9, <1>10

(* All services start as they would alone.                                 *)
LEMMA SvInvStarts == Init => SvInv
<1> SUFFICES ASSUME Init PROVE SvInv
  OBVIOUS
<1>1. PlTypeOK
  <2>1. CASE focus = "planning"
    BY <2>1, CasesAreNamed DEF Init
  <2>2. CASE focus # "planning"
    <3>1. input = RestingInput
      BY <2>2 DEF Init
    <3> QED
      BY <3>1 DEF RestingInput, PlTypeOK
  <2> QED
    BY <2>1, <2>2
<1> QED
  BY <1>1, PmInvStarts, CrInvStarts, DpInvStarts, DiInvStarts DEF Init, SvInv

(* A step of one service leaves the others' variables alone.               *)
LEMMA SvInvKept == ASSUME SvInv, [Next]_svVars PROVE SvInv'
<1>1. [PmNext]_pmVars /\ [CrNext]_crVars /\ [DpNext]_dpVars /\ [DiNext]_diVars
  BY DEF Next, svVars
<1>2. UNCHANGED <<focus, input>>
  BY DEF Next, svVars, plVars, PlNext
<1>3. PmInv'
  BY <1>1, PmInvKept DEF SvInv
<1>4. CrInv'
  BY <1>1, CrInvKept DEF SvInv
<1>5. DpInv'
  BY <1>1, DpInvKept DEF SvInv
<1>6. DiInv'
  BY <1>1, DiInvKept DEF SvInv
<1> QED
  BY <1>2, <1>3, <1>4, <1>5, <1>6 DEF SvInv, PlTypeOK, PlInit

(* A nonce buys at most one key or session, which some request has got.    *)
LEMMA CredentialsTyped == ASSUME CrInv PROVE CrTypeOK
<1>1. \A n \in Nonces : bought[n] \in 0..Cardinality(Requests)
  <2> SUFFICES ASSUME NEW n \in Nonces PROVE bought[n] \in 0..Cardinality(Requests)
    OBVIOUS
  <2>1. bought[n] \in Nat /\ bought[n] <= 1 /\ (bought[n] > 0 => Requests # {})
    BY DEF CrInv, NonceInv, NonceBuysOnce
  <2>2. Cardinality(Requests) \in Nat /\ (Requests # {} => Cardinality(Requests) # 0)
    BY CredentialConstants, FS_CardinalityType, FS_EmptySet
  <2> QED
    BY <2>1, <2>2
<1>2. bought \in [Nonces -> 0..Cardinality(Requests)]
  BY <1>1 DEF CrInv, NonceInv
<1> QED
  BY <1>2 DEF CrInv, KeyInv, NonceInv, CrTypeOK

(* Every variable of every service keeps its type and its bounds.          *)
THEOREM ServicesTypeCorrect == Spec => []TypeOK
<1>1. SvInv => TypeOK
  BY CredentialsTyped DEF SvInv, TypeOK, PmInv, DpInv, DiInv
<1> QED
  BY <1>1, SvInvStarts, SvInvKept, PTL DEF Spec

(* Whatever the document, fleet, hint, ring or schedule: both parts of a   *)
(* cut document have content and the cut is behind the boundary nearest to *)
(* the middle; every expert is dealt to one node; a hint lowers no tier    *)
(* and is believed only with a history; a leaving member moves only its    *)
(* own keys; and a schedule's window belongs to the day it begins on.      *)
THEOREM PlansStaySound == Spec => []PlansAreSound
<1>1. SvInv => PlansAreSound
  BY PlansKeepPromises DEF SvInv, PlansAreSound
<1> QED
  BY <1>1, SvInvStarts, SvInvKept, PTL DEF Spec
=============================================================================
