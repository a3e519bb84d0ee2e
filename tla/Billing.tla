------------------------------ MODULE Billing ------------------------------
(***************************************************************************)
(* Who pays and who is paid for a job: the handlers of cmd/coordinator     *)
(* that move credit (chat completions, buffered, streamed and reserved;    *)
(* background execution; the availability probe), run concurrently on one  *)
(* credit book.  Each handler makes several ledger calls with other        *)
(* requests, a changing queue and a crash of the coordinator in between.   *)
(* Dispatch itself is modelled in PullDispatch; here it returns tokens     *)
(* served by some node, or fails.  The ledger's writes succeed here (their *)
(* failures are in Ledger): the handlers ignore the error of a credit, so  *)
(* one that fails only lowers what is minted.                              *)
(***************************************************************************)
EXTENDS CreditTotals, Economics, FiniteSetsExt

CONSTANTS
    Requests,
    Jobs,           \* job ids; a client may send one twice
    NoJob,          \* the id of a job that is not deduplicated by it
    Users,          \* consumers with an account
    Anonymous,      \* a caller without one (--allow-anonymous-inference)
    Nodes,          \* nodes, and the accounts their earnings go to
    Simulated,      \* the demo nodes
    Host,           \* a coordination device's account
    Treasury,
    Kinds,          \* the handlers that run
    Sensitivities,
    Reported,       \* completion tokens a node's answer may report, 0: none
    MaxTokens,      \* max_tokens of a request
    StartupGrant,   \* what each user has at first
    Depths,         \* queue depths seen, and the queue's capacity
    Capacity,
    CoordinationReward,
    MaxCrashes

ASSUME BillingConstants ==
    /\ Simulated \subseteq Nodes
    /\ Kinds \subseteq {"fast", "stream", "reserved", "background", "probe"}
    /\ Reported \subseteq Nat
    /\ MaxTokens \in Nat \ {0}
    /\ Depths \subseteq Nat /\ 0 \in Depths
    /\ Capacity \in Nat \ {0}
    /\ {StartupGrant, CoordinationReward, MaxCrashes} \subseteq Nat

VARIABLES
    book,       \* the ledger's sums for every account (module Ledger)
    req,        \* req[r]: the handler of request r
    credited,   \* creditedJobs
    depth,      \* jobs in the queue
    crashes

vars == <<book, req, credited, depth, crashes>>

Accounts == Users \cup Nodes \cup {Host, Treasury}
Chat == {"fast", "stream", "reserved"}

NewRequest == [phase |-> "new"]

(* One ledger call: each is atomic (modules Ledger and PgLedger).          *)
Credit(a, amount) == book' = [book EXCEPT ![a] = Posted(@, "earn", amount)]

TryDebit(a, amount) ==
    book' = IF Affords(book[a], amount)
            THEN [book EXCEPT ![a] = Posted(@, "debit", amount)]
            ELSE book

-----------------------------------------------------------------------------
(* The credit gate: an identified caller needs a balance that covers       *)
(* max_tokens at the price of this moment.                                 *)
EstimateIgnoringTier(s) ==
    ConsumerCostWithActivityDiscount("fast", "low", MaxTokens, depth, Capacity)

Estimate(s) ==
    ConsumerCostWithActivityDiscount("fast", s, MaxTokens, depth, Capacity)

Begun(kind, j, u, s, phase) ==
    [phase |-> phase,
     kind |-> kind, job |-> j, user |-> u, sens |-> s, node |-> Treasury,
     tokens |-> 0, charge |-> 0, gateDepth |-> depth,
     disturbed |-> FALSE, paid |-> FALSE, earned |-> FALSE]

(* A handler that returned or died: what nobody reads any more is gone.    *)
Ended(q, phase) == [q EXCEPT !.phase = phase, !.node = Treasury, !.gateDepth = 0]

(* Any of them may ride an encrypted pointer that a linked device serves.  *)
Gate(r, kind, j, u, s) ==
    /\ req[r].phase = "new"
    /\ kind \in Kinds \cap Chat
    /\ u # Anonymous => balanceFromTotals(book[u]).total >= Estimate(s)
    /\ \E phase \in {"pointer", "routed"} :
          req' = [req EXCEPT ![r] = Begun(kind, j, u, s, phase)]
    /\ UNCHANGED <<book, credited, depth, crashes>>

(* /jobs/background/execute and probeOneNode: no consumer, no gate.  The   *)
(* queue is looked at once per round of probes, so it may be busy by now.  *)
StartUnbilled(r, kind, s) ==
    /\ req[r].phase = "new"
    /\ kind \in Kinds \ Chat
    /\ req' = [req EXCEPT ![r] = Begun(kind, NoJob, Anonymous,
                                       IF kind = "probe" THEN "low" ELSE s, "routed")]
    /\ UNCHANGED <<book, credited, depth, crashes>>

(* creditPointerHost: the host is paid first, then the treasury charged if *)
(* it has enough.                                                          *)
CreditPointerHost(r) ==
    /\ req[r].phase = "pointer"
    /\ Credit(Host, CoordinationReward)
    /\ req' = [req EXCEPT ![r].phase = "hostPaid"]
    /\ UNCHANGED <<credited, depth, crashes>>

ChargeTreasury(r) ==
    /\ req[r].phase = "hostPaid"
    /\ TryDebit(Treasury, CoordinationReward)
    /\ req' = [req EXCEPT ![r].phase = "routed"]
    /\ UNCHANGED <<credited, depth, crashes>>

-----------------------------------------------------------------------------
(* extractCompletionTokens falls back to max_tokens when the answer has no *)
(* usage; a stream without a usage frame counts as 0.                      *)
ObservedTokens(kind, reported) ==
    IF reported = 0 /\ kind # "stream" THEN MaxTokens ELSE reported

LaneOf(kind) == IF kind \in {"background", "probe"} THEN "background" ELSE "fast"

(* What the consumer is charged: discounted on the fast lane, by the queue *)
(* of the moment the answer came back.                                     *)
Charge(kind, s, tokens) ==
    CASE kind = "probe" -> ProviderReward("background", s, tokens)
      [] kind = "background" -> ConsumerCost("background", s, tokens)
      [] OTHER -> ConsumerCostWithActivityDiscount("fast", s, tokens, depth, Capacity)

Served(r, n, reported) ==
    /\ req[r].phase = "routed"
    /\ req[r].kind = "probe" => n \notin Simulated
    /\ LET t == ObservedTokens(req[r].kind, reported) IN
         req' = [req EXCEPT ![r].phase = "served", ![r].node = n, ![r].tokens = t,
                            ![r].charge = Charge(req[r].kind, req[r].sens, t),
                            ![r].disturbed = @ \/ depth > req[r].gateDepth,
                            ![r].gateDepth = 0]
    /\ UNCHANGED <<book, credited, depth, crashes>>

DispatchFails(r) ==
    /\ req[r].phase = "routed"
    /\ req' = [req EXCEPT ![r] = Ended(@, "done")]
    /\ UNCHANGED <<book, credited, depth, crashes>>

(* An answer that earns: tagged with its node (a reserved one is not),     *)
(* with tokens, and not from a demo node.                                  *)
Earns(r) ==
    /\ req[r].kind # "reserved"
    /\ req[r].tokens > 0
    /\ req[r].node \notin Simulated

Deduped(r) == req[r].kind \in Chat

(* creditedJobs.LoadOrStore, then creditNodeEarning's first credit.        *)
CreditUnclaimed(r) ==
    /\ req[r].phase = "served"
    /\ Earns(r)
    /\ credited' = IF Deduped(r) THEN credited \cup {req[r].job} ELSE credited
    /\ Credit(req[r].node, ProviderReward(LaneOf(req[r].kind), req[r].sens, req[r].tokens))
    /\ req' = [req EXCEPT ![r].phase = "rewarded", ![r].earned = TRUE]
    /\ UNCHANGED <<depth, crashes>>

CreditKeyedByRequest(r) ==
    /\ req[r].phase = "served"
    /\ Earns(r)
    /\ credited' = credited \cup {r}
    /\ Credit(req[r].node, ProviderReward(LaneOf(req[r].kind), req[r].sens, req[r].tokens))
    /\ req' = [req EXCEPT ![r].phase = "rewarded", ![r].earned = TRUE]
    /\ UNCHANGED <<depth, crashes>>

CreditReward(r) ==
    /\ req[r].phase = "served"
    /\ Earns(r)
    /\ Deduped(r) => req[r].job \notin credited
    /\ credited' = IF Deduped(r) THEN credited \cup {req[r].job} ELSE credited
    /\ Credit(req[r].node, ProviderReward(LaneOf(req[r].kind), req[r].sens, req[r].tokens))
    /\ req' = [req EXCEPT ![r].phase = "rewarded", ![r].earned = TRUE]
    /\ UNCHANGED <<depth, crashes>>

(* A demo node, a reserved job, no tokens, or a job id credited before.    *)
(* (A demo node's LoadOrStore still marks the job.)                        *)
NoReward(r) ==
    /\ req[r].phase = "served"
    /\ ~Earns(r) \/ (Deduped(r) /\ req[r].job \in credited)
    /\ credited' = IF Deduped(r) /\ req[r].kind # "reserved" /\ req[r].tokens > 0
                   THEN credited \cup {req[r].job} ELSE credited
    /\ req' = [req EXCEPT ![r].phase = "billing", ![r].node = Treasury]
    /\ UNCHANGED <<book, depth, crashes>>

(* creditNodeEarning's second credit: the margin is what was charged less  *)
(* the reward, so a discount comes out of the treasury's share alone.      *)
UndiscountedMargin(r) ==
    Excess(ConsumerCost(LaneOf(req[r].kind), req[r].sens, req[r].tokens),
           ProviderReward(LaneOf(req[r].kind), req[r].sens, req[r].tokens))

Margin(r) ==
    Excess(req[r].charge,
           ProviderReward(LaneOf(req[r].kind), req[r].sens, req[r].tokens))

CreditMargin(r) ==
    /\ req[r].phase = "rewarded"
    /\ Credit(Treasury, Margin(r))
    /\ req' = [req EXCEPT ![r].phase = "billing", ![r].node = Treasury]
    /\ UNCHANGED <<credited, depth, crashes>>

(* The debit, of an identified caller and (streamed) of observed tokens.   *)
(* When it is refused the job is served all the same: "debit race".        *)
Billed(r) == req[r].user # Anonymous /\ req[r].tokens > 0

Debit(r) ==
    /\ req[r].phase = "billing"
    /\ Billed(r)
    /\ LET u == req[r].user IN
         /\ TryDebit(u, req[r].charge)
         /\ req' = [s \in Requests |->
                      IF s = r THEN [Ended(req[r], "done") EXCEPT
                                        !.paid = Affords(book[u], req[r].charge)]
                      ELSE IF req[s].phase \notin {"new", "done", "crashed"} /\ req[s].user = u
                           THEN [req[s] EXCEPT !.disturbed = TRUE]
                           ELSE req[s]]
    /\ UNCHANGED <<credited, depth, crashes>>

NotBilled(r) ==
    /\ req[r].phase = "billing"
    /\ ~Billed(r)
    /\ req' = [req EXCEPT ![r] = Ended(@, "done")]
    /\ UNCHANGED <<book, credited, depth, crashes>>

-----------------------------------------------------------------------------
QueueMoves(d) ==
    /\ depth' = d
    /\ d # depth
    /\ UNCHANGED <<book, req, credited, crashes>>

(* A crash ends every handler where it stands; the ledger is on disk, the  *)
(* set of credited jobs is not.                                            *)
Crash ==
    /\ crashes < MaxCrashes
    /\ crashes' = crashes + 1
    /\ credited' = {}
    /\ req' = [r \in Requests |->
                 IF req[r].phase \in {"new", "done"} THEN req[r]
                 ELSE Ended([req[r] EXCEPT !.disturbed = FALSE], "crashed")]
    /\ UNCHANGED <<book, depth>>

-----------------------------------------------------------------------------
Init ==
    /\ book = [a \in Accounts |->
                 IF a \in Users THEN Posted(NoTotals, "grant", StartupGrant) ELSE NoTotals]
    /\ req = [r \in Requests |-> NewRequest]
    /\ credited = {}
    /\ depth = 0
    /\ crashes = 0

Next ==
    \/ \E r \in Requests :
          \/ \E kind \in Kinds, s \in Sensitivities :
                \/ \E j \in Jobs, u \in Users \cup {Anonymous} : Gate(r, kind, j, u, s)
                \/ StartUnbilled(r, kind, s)
          \/ CreditPointerHost(r)
          \/ ChargeTreasury(r)
          \/ \E n \in Nodes, reported \in Reported : Served(r, n, reported)
          \/ DispatchFails(r)
          \/ CreditReward(r)
          \/ NoReward(r)
          \/ CreditMargin(r)
          \/ Debit(r)
          \/ NotBilled(r)
    \/ \E d \in Depths : QueueMoves(d)
    \/ Crash

Spec == Init /\ [][Next]_vars

-----------------------------------------------------------------------------
(* Type correctness of the book and the handlers.                          *)
TypeOK ==
    /\ book \in [Accounts -> Totals]
    /\ \A r \in Requests :
          req[r] = NewRequest \/
          /\ req[r].phase \in {"pointer", "hostPaid", "routed", "served", "rewarded",
                               "billing", "done", "crashed"}
          /\ req[r].charge \in Nat /\ req[r].tokens \in Nat
    /\ credited \subseteq Jobs
    /\ depth \in Depths
    /\ crashes \in 0 .. MaxCrashes

Started == {r \in Requests : req[r].phase # "new"}

(* The charge of a job whose node was credited and whose consumer has not  *)
(* been debited: not yet, never (anonymous, background, probe), or in vain.*)
UnpaidOf(h) == IF h.phase # "new" /\ h.earned /\ ~h.paid THEN h.charge ELSE 0

Unpaid == SumFunctionOnSet([r \in Requests |-> UnpaidOf(req[r])], Requests)

(* What nodes and the treasury have earned, and consumers been debited.    *)
Minted(b) == SumFunctionOnSet([a \in Accounts |-> b[a].earned], Nodes \cup {Treasury})

Collected(b) == SumFunctionOnSet([a \in Accounts |-> b[a].debited], Users)

(* Jobs mint no more than consumers are charged: all that nodes and the    *)
(* treasury have earned is covered by the debits of those jobs, but for    *)
(* the charges still unpaid.  It holds at every step of every handler,     *)
(* under discounts that change meanwhile, ids sent twice, and a crash      *)
(* between a credit and its debit.                                         *)
MintIsBacked == Minted(book) <= Collected(book) + Unpaid

(* A job id earns one reward, however many requests carry it at once; only *)
(* a restart, which forgets creditedJobs, can let it earn again.           *)
OneRewardPerJob ==
    crashes = 0 =>
        \A r, s \in Started :
            r # s /\ req[r].earned /\ req[s].earned /\ Deduped(r) /\ Deduped(s)
                => req[r].job # req[s].job

(* The gate is honest: a caller who passed it and whose answer is within   *)
(* max_tokens is debited in full, unless the queue got busier or another   *)
(* request of the same caller was debited in the meantime.                 *)
GateCoversDebit ==
    \A r \in Started :
        /\ req[r].phase = "done" /\ Billed(r) /\ ~req[r].paid
        /\ req[r].tokens <= MaxTokens
        => req[r].disturbed

(* The house edge survives every discount: a charge never falls below the  *)
(* node's reward nor rises above the undiscounted price.                   *)
ChargeWithinEdge ==
    \A r \in Started : req[r].phase \in {"served", "rewarded", "billing"} =>
        /\ req[r].charge >= ProviderReward(LaneOf(req[r].kind), req[r].sens, req[r].tokens)
        /\ req[r].charge <= ConsumerCost(LaneOf(req[r].kind), req[r].sens, req[r].tokens)
=============================================================================
