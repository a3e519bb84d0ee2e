----------------------------- MODULE Federation -----------------------------
(***************************************************************************)
(* Federated ledger witnessing (internal/federation and the coordinator    *)
(* code around it): one issuing pod signs an event for every credit it     *)
(* writes, a witnessing pod pulls those events and keeps verified copies.  *)
(*                                                                         *)
(* Issuer.  The ledger's on-credit callback runs outside the ledger's lock *)
(* in the goroutine that wrote the credit.  It reads the next sequence     *)
(* number, signs, and appends; the last two are separate critical sections *)
(* of the store.  Every credit of the model is a member of PodCredits, and *)
(* its callback is a process.                                              *)
(*                                                                         *)
(* Witness.  Two activities pull from the issuer: the poll loop and the    *)
(* audit handler.  Each reads the high watermark, fetches the events above *)
(* it, and stores them one by one.  Another pod that presents the issuer's *)
(* pod_id under its own key may answer a pull.                             *)
(*                                                                         *)
(* A signature covers all fields of an event, pod_id included; an event is *)
(* named by (seq, credit, key), and intact says that its fields still are  *)
(* the signed ones.                                                        *)
(***************************************************************************)
EXTENDS Naturals, FiniteSets, FiniteSetsExt

CONSTANTS
    PodCredits,    \* credits the issuing pod writes
    Pollers,       \* activities of the witness that pull: poll loop, audit
    MaxRestarts,   \* bound: restarts of the issuing coordinator
    MaxFaults      \* bound: writes of a federation database that fail

ASSUME FederationConstants ==
    /\ IsFiniteSet(PodCredits)
    /\ MaxRestarts \in Nat
    /\ MaxFaults \in Nat

VARIABLES
    pc,         \* pc[c]: where the credit c and its callback are
    held,       \* held[c]: the sequence number the callback of c read
    selfDisk,   \* rows of federation_self_events: <<seq, credit>>
    selfEvents, \* the issuer's in-memory events, which it serves
    nextSeq,    \* the issuer's next sequence number
    restarts,   \* restarts of the issuer so far
    pinned,     \* the key the witness pinned for the issuer's pod_id
    witnessed,  \* events the witness verified and stored
    pull,       \* pull[q]: the pull under way in q
    forked,     \* the witness has reported ErrForkedHistory
    skipped,    \* own sequence numbers whose event the witness failed to store
                \* or rejected: what the log lines and the audit's
                \* rejected_events_detected name, which nothing reads back
    faults      \* failed database writes so far

issuerVars  == <<pc, held, selfDisk, selfEvents, nextSeq, restarts>>
witnessVars == <<pinned, witnessed, pull, forked, skipped>>
fdVars == <<issuerVars, witnessVars, faults>>

Seqs == 1..Cardinality(PodCredits)
Events == [seq : Seqs, credit : PodCredits, key : {"own", "other"}, intact : BOOLEAN]
NoPull == [stage |-> "idle", since |-> 0, batch |-> {}]

-----------------------------------------------------------------------------
(* The issuing pod.                                                        *)

(* CreditAccount or ClaimStartupGrantOnce has committed; the callback is   *)
(* about to run.                                                           *)
WriteCredit(c) ==
    /\ pc[c] = "none"
    /\ pc' = [pc EXCEPT ![c] = "credited"]
    /\ UNCHANGED <<held, selfDisk, selfEvents, nextSeq, restarts, witnessVars, faults>>

(* fedStore.NextSequence(), then Sign.                                     *)
NextSequence(c) ==
    /\ pc[c] = "credited"
    /\ held' = [held EXCEPT ![c] = nextSeq]
    /\ pc' = [pc EXCEPT ![c] = "signed"]
    /\ UNCHANGED <<selfDisk, selfEvents, nextSeq, restarts, witnessVars, faults>>

(* Whatever AppendSelfEvent returns, the callback ends; an error is logged *)
(* and the event is gone.                                                  *)
AppendUnchecked(c) ==
    /\ pc[c] = "signed"
    /\ selfDisk' = selfDisk \cup {<<held[c], c>>}
    /\ selfEvents' = selfEvents \cup
          {[seq |-> held[c], credit |-> c, key |-> "own", intact |-> TRUE]}
    /\ nextSeq' = nextSeq + 1
    /\ pc' = [pc EXCEPT ![c] = "done"]
    /\ UNCHANGED <<held, restarts, witnessVars, faults>>

AppendSelfEvent(c) ==
    /\ pc[c] = "signed"
    /\ held[c] = nextSeq
    /\ selfDisk' = selfDisk \cup {<<held[c], c>>}
    /\ selfEvents' = selfEvents \cup
          {[seq |-> held[c], credit |-> c, key |-> "own", intact |-> TRUE]}
    /\ nextSeq' = nextSeq + 1
    /\ pc' = [pc EXCEPT ![c] = "done"]
    /\ UNCHANGED <<held, restarts, witnessVars, faults>>

(* evt.Sequence != s.nextSeq: another callback appended meanwhile.         *)
AppendRefused(c) ==
    /\ pc[c] = "signed"
    /\ held[c] # nextSeq
    /\ pc' = [pc EXCEPT ![c] = "done"]
    /\ UNCHANGED <<held, selfDisk, selfEvents, nextSeq, restarts, witnessVars, faults>>

AppendFails(c) ==
    /\ pc[c] = "signed"
    /\ held[c] = nextSeq
    /\ faults < MaxFaults
    /\ faults' = faults + 1
    /\ pc' = [pc EXCEPT ![c] = "done"]
    /\ UNCHANGED <<held, selfDisk, selfEvents, nextSeq, restarts, witnessVars>>

(* A restart kills the callbacks under way and reloads the events.  The    *)
(* table has no pod_id column: a reloaded event has an empty pod_id, under *)
(* which its signature no longer verifies.                                 *)
Reload(seqAfter) ==
    /\ restarts < MaxRestarts
    /\ restarts' = restarts + 1
    /\ pc' = [c \in PodCredits |-> IF pc[c] \in {"credited", "signed"} THEN "done" ELSE pc[c]]
    /\ selfEvents' = {[seq |-> r[1], credit |-> r[2], key |-> "own", intact |-> FALSE] :
                         r \in selfDisk}
    /\ nextSeq' = seqAfter
    /\ UNCHANGED <<held, selfDisk, witnessVars, faults>>

(* Mutant: the last sequence number is used again.                         *)
RestartAtLast == Reload(Max({r[1] : r \in selfDisk} \cup {0}))

Restart == Reload(Max({r[1] : r \in selfDisk} \cup {0}) + 1)

-----------------------------------------------------------------------------
(* The witnessing pod.                                                     *)

WitnessedHighWatermark == Max({e.seq : e \in witnessed} \cup {0})

PollStart(q) ==
    /\ pull[q].stage = "idle"
    /\ pull' = [pull EXCEPT ![q] = [stage |-> "asked", since |-> WitnessedHighWatermark,
                                    batch |-> {}]]
    /\ UNCHANGED <<issuerVars, pinned, witnessed, forked, skipped, faults>>

FetchSkipsOne(q) ==
    /\ pull[q].stage = "asked"
    /\ pull' = [pull EXCEPT ![q] = [stage |-> "storing", since |-> 0,
                  batch |-> {e \in selfEvents : e.seq > pull[q].since + 1}]]
    /\ UNCHANGED <<issuerVars, pinned, witnessed, forked, skipped, faults>>

FetchEventsSince(q) ==
    /\ pull[q].stage = "asked"
    /\ pull' = [pull EXCEPT ![q] = [stage |-> "storing", since |-> 0,
                  batch |-> {e \in selfEvents : e.seq > pull[q].since}]]
    /\ UNCHANGED <<issuerVars, pinned, witnessed, forked, skipped, faults>>

(* A pod under the same pod_id and another key answers, or nobody does.    *)
FetchFromOther(q) ==
    /\ pull[q].stage = "asked"
    /\ \E c \in PodCredits :
          pull' = [pull EXCEPT ![q] = [stage |-> "storing", since |-> 0, batch |->
              {[seq |-> pull[q].since + 1, credit |-> c, key |-> "other", intact |-> TRUE]}]]
    /\ pull[q].since + 1 \in Seqs
    /\ UNCHANGED <<issuerVars, pinned, witnessed, forked, skipped, faults>>

FetchFails(q) ==
    /\ pull[q].stage = "asked"
    /\ pull' = [pull EXCEPT ![q] = NoPull]
    /\ UNCHANGED <<issuerVars, pinned, witnessed, forked, skipped, faults>>

(* The lowest event of the batch is the next one to store.                 *)
NextOf(q) == CHOOSE e \in pull[q].batch : \A f \in pull[q].batch : e.seq <= f.seq

Taken(q) == pull' = [pull EXCEPT ![q].batch = @ \ {NextOf(q)}]

Storing(q) == pull[q].stage = "storing" /\ pull[q].batch # {}

SameSeq(e) == {f \in witnessed : f.seq = e.seq}

(* StoreWitnessedEvent, by outcome.  The first valid event pins its key.   *)
StoreAnyKey(q) ==
    /\ Storing(q)
    /\ LET e == NextOf(q) IN
         /\ e.intact
         /\ pinned' = IF pinned = "none" THEN e.key ELSE pinned
         /\ SameSeq(e) = {}
         /\ witnessed' = witnessed \cup {e}
    /\ Taken(q)
    /\ UNCHANGED <<issuerVars, forked, skipped, faults>>

StoreNew(q) ==
    /\ Storing(q)
    /\ LET e == NextOf(q) IN
         /\ e.intact
         /\ pinned \in {"none", e.key}
         /\ pinned' = e.key
         /\ SameSeq(e) = {}
         /\ witnessed' = witnessed \cup {e}
    /\ Taken(q)
    /\ UNCHANGED <<issuerVars, forked, skipped, faults>>

StoreKnown(q) ==
    /\ Storing(q)
    /\ LET e == NextOf(q) IN
         /\ e.intact
         /\ pinned = e.key
         /\ SameSeq(e) # {}
         /\ forked' = (forked \/ e \notin witnessed)
    /\ Taken(q)
    /\ UNCHANGED <<issuerVars, pinned, witnessed, skipped, faults>>

(* The loop over a batch goes on after an event it could not store; the    *)
(* watermark of the next pull may then be above it.                        *)
Skipped(e) == skipped' = skipped \cup (IF e.key = "own" THEN {e.seq} ELSE {})

(* An invalid signature, or another key than the pinned one: rejected.     *)
StoreRejects(q) ==
    /\ Storing(q)
    /\ LET e == NextOf(q) IN
         /\ ~e.intact \/ pinned \notin {"none", e.key}
         /\ Skipped(e)
    /\ Taken(q)
    /\ UNCHANGED <<issuerVars, pinned, witnessed, forked, faults>>

(* The INSERT fails: the event is skipped, the rest of the batch is not.   *)
(* The key may have been pinned before.                                    *)
StoreFails(q) ==
    /\ Storing(q)
    /\ faults < MaxFaults
    /\ faults' = faults + 1
    /\ LET e == NextOf(q) IN
         /\ e.intact
         /\ pinned \in {"none", e.key}
         /\ SameSeq(e) = {}
         /\ pinned' \in {pinned, e.key}
         /\ Skipped(e)
    /\ Taken(q)
    /\ UNCHANGED <<issuerVars, witnessed, forked>>

PollEnd(q) ==
    /\ pull[q].stage = "storing"
    /\ pull[q].batch = {}
    /\ pull' = [pull EXCEPT ![q] = NoPull]
    /\ UNCHANGED <<issuerVars, pinned, witnessed, forked, skipped, faults>>

(* GET /federation/audit ends like a pull, with the issuer's balance read  *)
(* once the events are stored: a pod is consistent when its balance does   *)
(* not exceed what was witnessed.                                          *)
Balance == Cardinality({c \in PodCredits : pc[c] # "none"})
WitnessedGrossCredits == Cardinality(witnessed)
Consistent == Balance <= WitnessedGrossCredits

-----------------------------------------------------------------------------
FdInit ==
    /\ pc = [c \in PodCredits |-> "none"]
    /\ held = [c \in PodCredits |-> 0]
    /\ selfDisk = {}
    /\ selfEvents = {}
    /\ nextSeq = 1
    /\ restarts = 0
    /\ pinned = "none"
    /\ witnessed = {}
    /\ pull = [q \in Pollers |-> NoPull]
    /\ forked = FALSE
    /\ skipped = {}
    /\ faults = 0

Callback(c) == NextSequence(c) \/ AppendSelfEvent(c) \/ AppendRefused(c)

Store(q) == StoreNew(q) \/ StoreKnown(q) \/ StoreRejects(q)

FdNext ==
    \/ \E c \in PodCredits :
          \/ WriteCredit(c)
          \/ NextSequence(c)
          \/ AppendSelfEvent(c)
          \/ AppendRefused(c)
          \/ AppendFails(c)
    \/ Restart
    \/ \E q \in Pollers :
          \/ PollStart(q)
          \/ FetchEventsSince(q)
          \/ FetchFromOther(q)
          \/ FetchFails(q)
          \/ StoreNew(q)
          \/ StoreKnown(q)
          \/ StoreRejects(q)
          \/ StoreFails(q)
          \/ PollEnd(q)

(* Callbacks and a pull that has started run to their end; the poll loop   *)
(* ticks for ever, and the network lets a pull through again and again.    *)
FdFairness ==
    /\ \A c \in PodCredits : WF_fdVars(Callback(c))
    /\ \A q \in Pollers : /\ WF_fdVars(PollStart(q))
                          /\ WF_fdVars(Store(q))
                          /\ WF_fdVars(PollEnd(q))
                          /\ SF_fdVars(FetchEventsSince(q))

FdSpec == FdInit /\ [][FdNext]_fdVars /\ FdFairness

-----------------------------------------------------------------------------
(* Type correctness of issuer and witness.                                 *)
FdTypeOK ==
    /\ pc \in [PodCredits -> {"none", "credited", "signed", "done"}]
    /\ held \in [PodCredits -> Nat]
    /\ selfDisk \subseteq Seqs \X PodCredits
    /\ selfEvents \subseteq Events
    /\ nextSeq \in Nat \ {0}
    /\ restarts \in Nat
    /\ pinned \in {"none", "own", "other"}
    /\ witnessed \subseteq Events
    /\ pull \in [Pollers -> [stage : {"idle", "asked", "storing"}, since : Nat,
                             batch : SUBSET Events]]
    /\ forked \in BOOLEAN
    /\ skipped \subseteq Seqs
    /\ faults \in Nat

(* The signed history has no hole and no sequence number signed twice,     *)
(* however callbacks race and wherever a restart cuts in; and a credit     *)
(* loses its event to a race only, never for nothing: while no write fails *)
(* and the process stays up, the number its callback had read is in the    *)
(* history when it ends.                                                   *)
HistoryIsDense ==
    /\ {r[1] : r \in selfDisk} = 1..(nextSeq - 1)
    /\ Cardinality(selfDisk) = nextSeq - 1
    /\ (faults = 0 /\ restarts = 0) =>
         \A c \in PodCredits : pc[c] = "done" => \E r \in selfDisk : r[1] = held[c]

(* An honest pod is never accused: the witness reports a forked history    *)
(* of no pod that keeps its federation database and whose key it pinned.   *)
NoFalseFork == pinned = "own" => ~forked

(* What counts in an audit: the witness holds at most one event per        *)
(* sequence number, all under the pinned key, and those of the issuer's    *)
(* own key are distinct credits the issuer really wrote; so the gross      *)
(* credits it sums never exceed what was issued.                           *)
WitnessedIsBacked ==
    /\ \A e, f \in witnessed : e.seq = f.seq => e = f
    /\ \A e \in witnessed : e.key = pinned
    /\ pinned = "own" =>
         /\ \A e \in witnessed : <<e.seq, e.credit>> \in selfDisk /\ pc[e.credit] = "done"
         /\ \A e, f \in witnessed : e.credit = f.credit => e = f

(* A hole in what the witness holds is an event it could not store or      *)
(* could not verify, that very one: neither the watermark, nor two pulls   *)
(* storing at once, nor the failure of one event of a batch costs it       *)
(* another.                                                                *)
NoSelfInflictedGap ==
    pinned = "own" =>
        1..WitnessedHighWatermark \subseteq {e.seq : e \in witnessed} \cup skipped

(* What the witness holds, and what it says of the issuer, is the truth:   *)
(* it never accuses an honest pod, never counts a credit that was not      *)
(* issued, and never makes a gap of its own.                               *)
WitnessTellsTruth == NoFalseFork /\ WitnessedIsBacked /\ NoSelfInflictedGap

(* What the audit is said to show: a pod whose every credit is signed is   *)
(* found consistent.  A credit between the pull and the reading of the     *)
(* balance has its honest issuer accused.                                  *)
AuditAcquits ==
    \A q \in Pollers :
        (pull[q].stage = "storing" /\ pull[q].batch = {}
           /\ pinned = "own" /\ faults = 0 /\ restarts = 0) => Consistent

(* An appended event reaches the witness, whatever happens to the events   *)
(* beside it; an event is given up only when its own INSERT failed, its    *)
(* own signature does not verify, or another key was pinned.               *)
EventsGetWitnessed ==
    \A c \in PodCredits :
        (\E e \in selfEvents : e.credit = c)
            ~> \/ \E e \in witnessed : e.credit = c
               \/ \E r \in selfDisk : r[2] = c /\ r[1] \in skipped
               \/ pinned = "other"

(* event.go: a gap in a history is evidence of tampering, "not something a *)
(* witness should paper over".  The store accepts any higher number, so    *)
(* the watermark passes a skipped event and nobody asks for it again.      *)
WitnessHoldsPrefix ==
    pinned = "own" => {e.seq : e \in witnessed} = 1..WitnessedHighWatermark

(* cmd/coordinator/main.go: "Every credit this pod issues ... becomes a    *)
(* signed, sequenced federation event", while no write fails and the       *)
(* process stays up.                                                       *)
EveryCreditHasEvent ==
    (faults = 0 /\ restarts = 0) =>
        \A c \in PodCredits : pc[c] = "done" => \E r \in selfDisk : r[2] = c

(* store.go: the store persists this pod's own signed history "so peers    *)
(* can pull it even across a restart": what it serves can be verified.     *)
ServedEventsVerify == \A e \in selfEvents : e.intact
=============================================================================
