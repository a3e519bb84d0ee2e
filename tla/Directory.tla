------------------------------ MODULE Directory ------------------------------
(***************************************************************************)
(* The directory servers.  Every coordinator reports a signed digest of    *)
(* its pod to each of them in turn; a directory that accepts one passes it *)
(* to its peer, once.  A directory pins the first key that spoke for a pod *)
(* (or has an operator's list), writes the pins to a file, and forgets the *)
(* digests, but not the pins, when it restarts.                            *)
(*                                                                         *)
(* Requests are delayed, lost and overtaken; answers are lost; the file is *)
(* written in place, and a write that fails half-way leaves it torn.       *)
(***************************************************************************)
EXTENDS Naturals, Sequences, FiniteSets

CONSTANTS
  Pods,
  Endpoints,   \* the directories, in the order a coordinator reports to them
  SigningKeys, \* keys that coordinators sign with
  Listed,      \* Listed[p]: the key the operator's list has for pod p
  MaxReports,  \* bound: MaxReports[p] digests that pod p signs
  MaxCrashes   \* bound: directory crashes

(* Directories run as one pair, each with the other for its --peer: "one
   configured peer max" (gossip.go). *)
ASSUME DirectoryConstants ==
  /\ Len(Endpoints) = 2 /\ Endpoints[1] /= Endpoints[2]
  /\ Listed \in [Pods -> SigningKeys]
  /\ {"none", "torn"} \cap SigningKeys = {}
  /\ MaxReports \in [Pods -> Nat] /\ MaxCrashes \in Nat

VARIABLES
  strict,  \* directories started with --authorized-pods
  up,      \* running directories
  shelf,   \* shelf[d][p]: the digest that d answers for p
  pins,    \* pins[d][p]: the key that speaks for p at d
  file,    \* file[d]: the pins as last written, or Torn
  wire,    \* requests to the directories that have not arrived
  report,  \* report[p]: RegisterPod at p's coordinator
  unsaved, \* unsaved[d]: pods pinned since a write last succeeded
  forgot,  \* forgot[d]: pods whose pin a crash took
  heard,   \* heard[d]: the digests d accepted, and how they came
  crashes

diVars == <<strict, up, shelf, pins, file, wire, report, unsaved, forgot, heard, crashes>>

Directories == {Endpoints[i] : i \in 1..Len(Endpoints)}
Peer(d) == CHOOSE e \in Directories : e /= d
NoKey == "none"
Torn == [p \in Pods |-> "torn"]
Pinnings == [Pods -> SigningKeys \cup {NoKey}]
NoPins == [p \in Pods |-> NoKey]

(* A digest: who, the how-manieth, signed with what. *)
Digests == [pod: Pods, seq: Nat \ {0}, key: SigningKeys]
Shelved == [seq: Nat, key: SigningKeys \cup {NoKey}]
NoDigest == [seq |-> 0, key |-> NoKey]
Sendings == [to: Directories, gossip: BOOLEAN, digest: Digests]

(* next > Len(Endpoints) means that RegisterPod has returned; `error` is
   lastErr, `some` says that an endpoint has accepted. *)
Reports == [seq: Nat, key: SigningKeys, next: 1..Len(Endpoints) + 1, error: BOOLEAN,
            some: BOOLEAN]

DiTypeOK ==
  /\ strict \subseteq Directories /\ up \subseteq Directories
  /\ shelf \in [Directories -> [Pods -> Shelved]]
  /\ pins \in [Directories -> Pinnings]
  /\ file \in [Directories -> Pinnings \cup {Torn}]
  /\ wire \subseteq Sendings
  /\ report \in [Pods -> Reports]
  /\ unsaved \in [Directories -> SUBSET Pods] /\ forgot \in [Directories -> SUBSET Pods]
  /\ heard \subseteq Sendings
  /\ crashes \in 0..MaxCrashes

DiInit ==
  /\ strict \in {{}, {Endpoints[1]}}
  /\ up = Directories
  /\ shelf = [d \in Directories |-> [p \in Pods |-> NoDigest]]
  /\ pins = [d \in Directories |-> IF d \in strict THEN Listed ELSE NoPins]
  /\ file = [d \in Directories |-> NoPins]
  /\ wire = {}
  /\ report = [p \in Pods |-> [seq |-> 0, key |-> Listed[p], next |-> Len(Endpoints) + 1,
                               error |-> FALSE, some |-> FALSE]]
  /\ unsaved = [d \in Directories |-> {}] /\ forgot = [d \in Directories |-> {}]
  /\ heard = {}
  /\ crashes = 0

-----------------------------------------------------------------------------
(* The coordinator's side. *)

Returned(p) == report[p].next > Len(Endpoints)
Current(p) == [pod |-> p, seq |-> report[p].seq, key |-> report[p].key]

(* reportToDirectory, from the ticker: a new digest.  A coordinator that lost
   its identity file signs with another key from then on. *)
BeginReport(p, k) ==
  /\ Returned(p) /\ report[p].seq < MaxReports[p]
  /\ report' = [report EXCEPT ![p] = [seq |-> @.seq + 1, key |-> k, next |-> 1, error |-> FALSE, some |-> FALSE]]
  /\ wire' = wire \cup {[to |-> Endpoints[1], gossip |-> FALSE,
                         digest |-> [pod |-> p, seq |-> report[p].seq + 1, key |-> k]]}
  /\ UNCHANGED <<strict, up, shelf, pins, file, unsaved, forgot, heard, crashes>>

(* RegisterPod has its answer from one endpoint, or none, and asks the next:
   the last endpoint decides what it returns. *)
Answered(p, accepted) ==
  report' = [report EXCEPT ![p].next = @ + 1, ![p].error = ~accepted,
                                 ![p].some = @ \/ accepted]

AskNext(p, sent) ==
  IF report[p].next < Len(Endpoints)
  THEN sent \cup {[to |-> Endpoints[report[p].next + 1], gossip |-> FALSE, digest |-> Current(p)]}
  ELSE sent

(* The request, or its answer, did not come in time; a request may still be
   on its way. *)
TimeOut(p) ==
  /\ ~Returned(p)
  /\ Answered(p, FALSE)
  /\ \E lost \in SUBSET {m \in wire : m.digest.pod = p /\ ~m.gossip /\ m.to = Endpoints[report[p].next]} :
       wire' = AskNext(p, wire \ lost)
  /\ UNCHANGED <<strict, up, shelf, pins, file, unsaved, forgot, heard, crashes>>

-----------------------------------------------------------------------------
(* The directory's side. *)

(* PinStore.Verify, the binding of pod and key; the signature is sound. *)
Speaks(d, g) == pins[d][g.pod] \in {g.key} \cup (IF d \in strict THEN {} ELSE {NoKey})

(* saveLocked after a first sighting: written, not opened, or torn. *)
Pin(d, g) ==
  IF pins[d][g.pod] = g.key THEN UNCHANGED <<pins, file, unsaved>>
  ELSE LET learned == [pins[d] EXCEPT ![g.pod] = g.key] IN
       /\ pins' = [pins EXCEPT ![d] = learned]
       /\ \/ file' = [file EXCEPT ![d] = learned] /\ unsaved' = [unsaved EXCEPT ![d] = {}]
          \/ /\ \/ UNCHANGED file
                \/ file' = [file EXCEPT ![d] = Torn]
             /\ unsaved' = [unsaved EXCEPT ![d] = @ \cup {g.pod}]

(* Mutant: what came by gossip is passed on too. *)
PassOnAlways(m) == {[m EXCEPT !.to = Peer(m.to), !.gossip = TRUE]}

(* ReceivePodDigest passes it on, the gossip endpoint does not. *)
PassOn(m) == IF m.gossip THEN {} ELSE {[m EXCEPT !.to = Peer(m.to), !.gossip = TRUE]}

(* POST /pods/register and POST /gossip/digest.  A coordinator still waiting
   for this answer gets it, or loses it. *)
Receive(m) ==
  /\ m \in wire /\ m.to \in up
  /\ LET d == m.to
         g == m.digest
         waiting == ~m.gossip /\ ~Returned(g.pod) /\ g = Current(g.pod)
                      /\ Endpoints[report[g.pod].next] = d
         accepted == Speaks(d, g)
     IN
     /\ IF accepted
        THEN /\ Pin(d, g)
             /\ shelf' = [shelf EXCEPT ![d][g.pod] = [seq |-> g.seq, key |-> g.key]]
             /\ heard' = heard \cup {m}
        ELSE UNCHANGED <<pins, file, unsaved, shelf, heard>>
     /\ LET left == (wire \ {m}) \cup (IF accepted THEN PassOn(m) ELSE {}) IN
        \/ waiting /\ Answered(g.pod, accepted) /\ wire' = AskNext(g.pod, left)
        \/ UNCHANGED report /\ wire' = left
  /\ UNCHANGED <<strict, up, forgot, crashes>>

(* A gossip POST is tried once, and only logged when it fails. *)
LoseGossip(m) ==
  /\ m.gossip
  /\ wire' = wire \ {m}
  /\ UNCHANGED <<strict, up, shelf, pins, file, report, unsaved, forgot, heard, crashes>>

Crash(d) ==
  /\ d \in up /\ crashes < MaxCrashes
  /\ crashes' = crashes + 1
  /\ up' = up \ {d}
  /\ shelf' = [shelf EXCEPT ![d] = [p \in Pods |-> NoDigest]]
  /\ pins' = [pins EXCEPT ![d] = NoPins]
  /\ UNCHANGED <<strict, file, wire, report, unsaved, forgot, heard>>

(* Mutant: what could be read of a torn file is taken for the pins. *)
StartAnyhow(d) ==
  /\ d \notin up
  /\ pins' = [pins EXCEPT ![d] = IF d \in strict THEN Listed ELSE file[d]]
  /\ up' = up \cup {d}
  /\ forgot' = [forgot EXCEPT ![d] = @ \cup unsaved[d]]
  /\ unsaved' = [unsaved EXCEPT ![d] = {}]
  /\ UNCHANGED <<strict, shelf, file, wire, report, heard, crashes>>

(* NewPinStore: a file that does not parse keeps the directory from starting. *)
Start(d) ==
  /\ d \notin up
  /\ \/ d \in strict /\ pins' = [pins EXCEPT ![d] = Listed]
     \/ d \notin strict /\ file[d] /= Torn /\ pins' = [pins EXCEPT ![d] = file[d]]
  /\ up' = up \cup {d}
  /\ forgot' = [forgot EXCEPT ![d] = @ \cup unsaved[d]]
  /\ unsaved' = [unsaved EXCEPT ![d] = {}]
  /\ UNCHANGED <<strict, shelf, file, wire, report, heard, crashes>>

DiNext ==
  \/ \E p \in Pods : \/ TimeOut(p)
                     \/ \E k \in SigningKeys : BeginReport(p, k)
  \/ \E m \in wire : Receive(m) \/ LoseGossip(m)
  \/ \E d \in Directories : Crash(d) \/ Start(d)

DiSpec == DiInit /\ [][DiNext]_diVars

-----------------------------------------------------------------------------
(* A directory answers only with digests of the key it has pinned, its pins
   are those of the file but for what no write has reached, and it hears a
   second key for a pod only after a crash took such a pin. *)
PinsHold ==
  \A d \in Directories, p \in Pods :
    /\ shelf[d][p].seq > 0 => shelf[d][p].key = pins[d][p]
    /\ (d \in up \ strict /\ file[d] /= Torn /\ p \notin unsaved[d]) => pins[d][p] = file[d][p]
    /\ p \notin forgot[d] =>
         Cardinality({m.digest.key : m \in {h \in heard : h.to = d /\ h.digest.pod = p}}) <= 1

(* No loops: a digest comes by gossip only to the peer of a directory that
   accepted it from the coordinator, so at most once to each. *)
OneHop ==
  \A m \in wire \cup heard :
    m.gossip => [m EXCEPT !.to = Peer(m.to), !.gossip = FALSE] \in heard

(* RegisterPod returns no error only for a digest that a directory accepted. *)
SuccessIsTrue ==
  \A p \in Pods :
    (Returned(p) /\ report[p].seq > 0 /\ ~report[p].error) =>
      \E m \in heard : m.digest = Current(p)

DirectoryIsSound == PinsHold /\ OneHop /\ SuccessIsTrue

(* What main.go says of RegisterPod: an error only if all of them rejected it.
   The code returns what the last endpoint said. *)
ErrorMeansNobody ==
  \A p \in Pods : (Returned(p) /\ report[p].error) => ~report[p].some

(* What saveLocked says of a failed write: not fatal.  A torn file is. *)
RestartsAgain == \A d \in Directories : d \in up \/ d \in strict \/ file[d] /= Torn

(* What nobody promises and heartbeats repair: an entry never goes back to an
   older digest. *)
NewestStays ==
  [][\A d \in Directories, p \in Pods :
       (d \in up /\ d \in up') => shelf'[d][p].seq >= shelf[d][p].seq]_diVars
=============================================================================
