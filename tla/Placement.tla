------------------------------ MODULE Placement ------------------------------
(***************************************************************************)
(* Work that is bound to a node before it runs: the sticky assignment of a *)
(* recurring background job, with a primary and backups, and the           *)
(* reservation of a node by a client that encrypts its payload to that     *)
(* node's key.  Both are made at one time and used at a later one; in      *)
(* between nodes age, fail, register again with another endpoint and key,  *)
(* and lose or earn their enclave attestation.                             *)
(*                                                                         *)
(* The manifest of a node is the number of its registration: endpoint, TLS *)
(* fingerprint and ECDH key all come with it.                              *)
(***************************************************************************)
EXTENDS Naturals, FiniteSets, Sequences, SequencesExt

CONSTANTS
  Hosts,         \* node ids
  Calls,         \* execute requests and redemptions in progress at once
  Tickets,       \* reservation ids
  MaxRedundancy, \* bound: backups that a job asks for
  MaxEvents      \* bound: attestations, changes of the registry and of the assignment

ASSUME PlacementConstants ==
  /\ IsFiniteSet(Hosts) /\ IsFiniteSet(Calls)
  /\ MaxRedundancy \in Nat /\ MaxEvents \in Nat

VARIABLES
  host,       \* host[n]: the registry's entry
  proof,      \* verified attestations not yet marked, with the entry verified against
  plan,       \* the stored assignment of the job, primary first
  ticket,     \* ticket[t]: the reservation, and how often it was used
  call,       \* call[c]: one handler
  down,       \* down[c]: nodes that were down at some moment of call c
  events

pmVars == <<host, proof, plan, ticket, call, down, events>>

NoHost == "none"
NoTarget == [node |-> NoHost, reg |-> 0]
Targets == [node: Hosts, reg: 1..MaxEvents + 1] \cup {NoTarget}
Orders == UNION {[1..k -> Hosts] : k \in 0..MaxRedundancy + 1}

Entries == [known: BOOLEAN, live: BOOLEAN, attested: BOOLEAN, reg: 1..MaxEvents + 1]
Plans == [nodes: Orders, sensitive: BOOLEAN]

(* "stale" is a reservation past its 30 seconds that still is in the map. *)
Reservations == [state: {"unused", "held", "stale", "gone"}, target: Targets,
                 used: 0..Cardinality(Calls)]

(* A call that executes a cycle carries the assignment as it read it; one that
   redeems carries the ticket.  "resolve" is looking at nodes[next]. *)
Handling == [stage: {"idle", "resolve", "resolved", "sent"}, nodes: Orders,
             sensitive: BOOLEAN, next: 1..MaxRedundancy + 2,
             ticket: Tickets \cup {NoHost}, target: Targets]

PmTypeOK ==
  /\ host \in [Hosts -> Entries]
  /\ proof \subseteq Targets
  /\ plan \in Plans
  /\ ticket \in [Tickets -> Reservations]
  /\ call \in [Calls -> Handling]
  /\ down \in [Calls -> SUBSET Hosts]
  /\ events \in 0..MaxEvents

Waiting == [stage |-> "idle", nodes |-> <<>>, sensitive |-> FALSE, next |-> 1,
            ticket |-> NoHost, target |-> NoTarget]

PmInit ==
  /\ host = [n \in Hosts |-> [known |-> TRUE, live |-> TRUE, attested |-> FALSE, reg |-> 1]]
  /\ proof = {}
  /\ plan = [nodes |-> <<>>, sensitive |-> FALSE]
  /\ ticket = [t \in Tickets |-> [state |-> "unused", target |-> NoTarget, used |-> 0]]
  /\ call = [c \in Calls |-> Waiting]
  /\ down = [c \in Calls |-> {}]
  /\ events = 0

-----------------------------------------------------------------------------
(* The registry, seen from here. *)

IsLive(n) == host[n].known /\ host[n].live
Resolving(c) == call[c].stage \in {"resolve", "resolved"}

Spend == events < MaxEvents /\ events' = events + 1

(* The new entry of n; a node that goes down does so for every call in progress. *)
Change(n, e) ==
  /\ Spend
  /\ host' = [host EXCEPT ![n] = e]
  /\ down' = IF e.known /\ e.live THEN down
             ELSE [c \in Calls |-> IF Resolving(c) THEN down[c] \cup {n} ELSE {}]
  /\ UNCHANGED <<proof, plan, ticket, call>>

(* Missed heartbeats, or a failed dispatch of someone else. *)
GoDown(n) == IsLive(n) /\ Change(n, [host[n] EXCEPT !.live = FALSE])

(* Evicted: its assignments and reservations name it still. *)
Drop(n) == host[n].known /\ ~host[n].live /\ Change(n, [host[n] EXCEPT !.known = FALSE])

(* A refresh; or, after an eviction or a restart of the agent, a new
   registration, which may bring another endpoint and loses the attestation. *)
ComeBack(n) == host[n].known /\ ~host[n].live /\ Change(n, [host[n] EXCEPT !.live = TRUE])

RegisterAnew(n) ==
  Change(n, [known |-> TRUE, live |-> TRUE, attested |-> FALSE, reg |-> host[n].reg + 1])

(* POST /nodes/{id}/attest-enclave: both signatures are checked against the
   entry of now; the mark is set in a second critical section. *)
VerifyEnclaveAttestation(n) ==
  /\ host[n].known /\ ~host[n].attested
  /\ proof' = proof \cup {[node |-> n, reg |-> host[n].reg]}
  /\ Spend
  /\ UNCHANGED <<host, plan, ticket, call, down>>

MarkEnclaveAttested(p) ==
  /\ proof' = proof \ {p}
  /\ host' = IF host[p.node].known THEN [host EXCEPT ![p.node].attested = TRUE] ELSE host
  /\ UNCHANGED <<plan, ticket, call, down, events>>

-----------------------------------------------------------------------------
(* Background assignments. *)

Eligible(sensitive) == {n \in Hosts : IsLive(n) /\ (sensitive => host[n].attested)}

(* POST /jobs/background/assign: the best 1 + redundancy nodes, in some order
   of score; a second assignment of the job replaces the first. *)
AssignBackgroundJob(redundancy, sensitive) ==
  /\ \E order \in SetToSeqs(Eligible(sensitive)) :
       /\ Len(order) >= 1 + redundancy
       /\ plan' = [nodes |-> SubSeq(order, 1, 1 + redundancy), sensitive |-> sensitive]
  /\ IF plan.nodes = <<>> THEN UNCHANGED events ELSE Spend
  /\ UNCHANGED <<host, proof, ticket, call, down>>

(* POST /jobs/background/execute and /cycle: the assignment is read once. *)
BeginCycle(c) ==
  /\ call[c].stage = "idle"
  /\ plan.nodes /= <<>>
  /\ call' = [call EXCEPT ![c] = [Waiting EXCEPT !.stage = "resolve", !.nodes = plan.nodes,
                                                 !.sensitive = plan.sensitive]]
  /\ down' = [down EXCEPT ![c] = {n \in Hosts : ~IsLive(n)}]
  /\ UNCHANGED <<host, proof, plan, ticket, events>>

Candidate(c) == call[c].nodes[call[c].next]

(* ResolveForCycle asks IsLive of the primary and then of each backup, one
   critical section each. *)
ResolveForCycle(c) ==
  /\ call[c].stage = "resolve"
  /\ call[c].next <= Len(call[c].nodes)
  /\ call' = IF IsLive(Candidate(c)) THEN [call EXCEPT ![c].stage = "resolved"]
             ELSE [call EXCEPT ![c].next = @ + 1]
  /\ UNCHANGED <<host, proof, plan, ticket, down, events>>

(* All of them were down: HTTP 503. *)
AllDown(c) ==
  /\ call[c].stage = "resolve"
  /\ call[c].next > Len(call[c].nodes)
  /\ call' = [call EXCEPT ![c] = Waiting]
  /\ down' = [down EXCEPT ![c] = {}]
  /\ UNCHANGED <<host, proof, plan, ticket, events>>

(* The manifest of now gives the target; /cycle, and a node that has been
   evicted since, end the call here. *)
LookUp(c) ==
  /\ call[c].stage = "resolved"
  /\ \/ call' = [call EXCEPT ![c] = Waiting]
     \/ /\ host[Candidate(c)].known
        /\ call' = [call EXCEPT ![c] = [Waiting EXCEPT !.stage = "sent",
                      !.target = [node |-> Candidate(c), reg |-> host[Candidate(c)].reg]]]
  /\ down' = [down EXCEPT ![c] = {}]
  /\ UNCHANGED <<host, proof, plan, ticket, events>>

-----------------------------------------------------------------------------
(* Reservations. *)

(* POST /v1/reserve-node: the client gets the node's key; Create also drops
   what has expired. *)
Reserve(t, n, sensitive) ==
  /\ ticket[t].state = "unused"
  /\ n \in Eligible(sensitive)
  /\ ticket' = [u \in Tickets |->
       IF u = t THEN [state |-> "held", target |-> [node |-> n, reg |-> host[n].reg], used |-> 0]
       ELSE IF ticket[u].state = "stale" THEN [ticket[u] EXCEPT !.state = "gone"] ELSE ticket[u]]
  /\ UNCHANGED <<host, proof, plan, call, down, events>>

Expire(t) ==
  /\ ticket[t].state = "held"
  /\ ticket' = [ticket EXCEPT ![t].state = "stale"]
  /\ UNCHANGED <<host, proof, plan, call, down, events>>

Sent(c, t, target) ==
  call' = [call EXCEPT ![c] = [Waiting EXCEPT !.stage = "sent", !.ticket = t, !.target = target]]

(* Mutant: the reservation stays in the map until it expires. *)
RedeemKeeping(c, t) ==
  /\ call[c].stage = "idle"
  /\ ticket[t].state = "held"
  /\ ticket' = [ticket EXCEPT ![t].used = IF @ < Cardinality(Calls) THEN @ + 1 ELSE @]
  /\ Sent(c, t, ticket[t].target)
  /\ UNCHANGED <<host, proof, plan, down, events>>

(* A chat request with oim_reservation_id: Resolve deletes the reservation,
   expired or not; only in time does the job go to the pinned target. *)
Redeem(c, t) ==
  /\ call[c].stage = "idle"
  /\ ticket[t].state \in {"held", "stale"}
  /\ ticket' = [ticket EXCEPT ![t].state = "gone",
                              ![t].used = IF ticket[t].state = "held" THEN @ + 1 ELSE @]
  /\ IF ticket[t].state = "held" THEN Sent(c, t, ticket[t].target) ELSE UNCHANGED call
  /\ UNCHANGED <<host, proof, plan, down, events>>

(* DispatchToResolvedNode is back; a failure marks the node, under the id it
   has now, whatever endpoint was called. *)
Return(c, failed) ==
  /\ call[c].stage = "sent"
  /\ LET n == call[c].target.node IN
     /\ host' = IF failed THEN [host EXCEPT ![n].live = FALSE] ELSE host
     /\ down' = IF failed THEN [d \in Calls |-> IF Resolving(d) THEN down[d] \cup {n} ELSE {}]
                ELSE down
  /\ call' = [call EXCEPT ![c] = Waiting]
  /\ UNCHANGED <<proof, plan, ticket, events>>

-----------------------------------------------------------------------------
PmNext ==
  \/ \E n \in Hosts : \/ GoDown(n) \/ Drop(n) \/ ComeBack(n) \/ RegisterAnew(n)
                      \/ VerifyEnclaveAttestation(n)
  \/ \E p \in proof : MarkEnclaveAttested(p)
  \/ \E r \in 0..MaxRedundancy, s \in BOOLEAN : AssignBackgroundJob(r, s)
  \/ \E c \in Calls : \/ BeginCycle(c) \/ ResolveForCycle(c) \/ AllDown(c) \/ LookUp(c)
                      \/ \E t \in Tickets : Redeem(c, t)
                      \/ \E failed \in BOOLEAN : Return(c, failed)
  \/ \E t \in Tickets : \/ Expire(t)
                        \/ \E n \in Hosts, s \in BOOLEAN : Reserve(t, n, s)

PmSpec == PmInit /\ [][PmNext]_pmVars

-----------------------------------------------------------------------------
(* A reservation is good for one job, also when two requests bring it at once,
   and that job goes to the registration whose key the client was given, never
   to what the node has become since. *)
TicketsHold ==
  /\ \A t \in Tickets : ticket[t].used <= 1
  /\ \A c \in Calls : call[c].ticket /= NoHost => call[c].target = ticket[call[c].ticket].target

(* A cycle leaves its primary, passes over a backup, or gives the job up only
   for nodes that have each been down while it was being resolved. *)
PromotionJustified ==
  \A c \in Calls :
    \A i \in 1..call[c].next - 1 : call[c].nodes[i] \in down[c]

(* Work that was bound to a node reaches that node, or another one only with
   reason. *)
PlacementIsSound == TicketsHold /\ PromotionJustified

(* What the attestation gate promises: a sensitive job is sent to a node that
   is attested at that moment.  The code checks at the assignment only. *)
SensitiveAtDispatch ==
  [][\A c \in Calls : (call[c].stage = "resolved" /\ call'[c].stage = "sent" /\ call[c].sensitive)
       => host[Candidate(c)].attested]_pmVars

(* What the registry's comment promises: after a node has registered again it
   has to prove its enclave again.  A mark on its way gets past that. *)
MarkIsOfThisEntry ==
  [][\A n \in Hosts : (~host[n].attested /\ host'[n].attested)
       => [node |-> n, reg |-> host[n].reg] \in proof]_pmVars
=============================================================================
