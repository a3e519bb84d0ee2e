--------------------------- MODULE BillingProofs ---------------------------
(***************************************************************************)
(* Proofs about Economics and Billing, for any requests, users, nodes,     *)
(* token counts, queue depths and capacity: reward <= charge <= list       *)
(* price, roundings included; the state is well typed; no discount ever    *)
(* takes a charge out of the house edge; one job earns one reward; the     *)
(* credit gate lets in nobody who cannot pay, unless disturbed; and nodes  *)
(* and treasury earn no credit that no user has paid or is about to pay.   *)
(***************************************************************************)
EXTENDS Billing, Sums

(* An integer division stays at or below c when the product stays below.   *)
LEMMA DivAtMost ==
    ASSUME NEW x \in Int, NEW y \in Nat \ {0}, NEW c \in Int, x < (c + 1) * y
    PROVE  x \div y <= c
OBVIOUS

(* ConsumerCost is never negative.                                         *)
LEMMA CostIsNat ==
    ASSUME NEW lane, NEW s, NEW tokens \in Nat
    PROVE  ConsumerCost(lane, s, tokens) \in Nat
BY DEF ConsumerCost, round4, laneMultiplier2, sensitivityMultiplier2

(* ProviderReward, rounded, is at most the list price.                     *)
LEMMA RewardAtMostCost ==
    ASSUME NEW lane, NEW s, NEW tokens \in Nat
    PROVE  /\ ProviderReward(lane, s, tokens) \in Nat
           /\ ProviderReward(lane, s, tokens) <= ConsumerCost(lane, s, tokens)
BY CostIsNat DEF ProviderReward, round4

(* ActivityDiscount never raises a price, at any backpressure.             *)
LEMMA DiscountAtMostCost ==
    ASSUME NEW cost \in Nat, NEW load \in Nat, NEW capacity \in Nat \ {0}
    PROVE  /\ Discounted(cost, load, capacity) \in Nat
           /\ Discounted(cost, load, capacity) <= cost
<1>1. CASE AtCeiling(load, capacity)
  BY <1>1 DEF Discounted
<1>2. CASE ~AtCeiling(load, capacity)
  <2> DEFINE num == cost * (120 * capacity + 100 * load)
             den == 160 * capacity
  <2>1. den \in Nat \ {0} /\ num \in Nat /\ num <= cost * den
    <3>1. den \in Nat \ {0} /\ 120 * capacity + 100 * load \in Nat
      OBVIOUS
    <3>2. 120 * capacity + 100 * load <= den
      BY <1>2 DEF AtCeiling
    <3> HIDE DEF den
    <3>3. \A a, b, c \in Nat : a <= b => c * a \in Nat /\ c * a <= c * b
      OBVIOUS
    <3> QED
      BY <3>1, <3>2, <3>3
  <2>2. Discounted(cost, load, capacity) = (2 * num + den) \div (2 * den)
    BY <1>2 DEF Discounted, round4
  <2> HIDE DEF num, den
  <2>3. 2 * num + den < (cost + 1) * (2 * den)
    <3>1. cost * den \in Nat /\ (cost + 1) * (2 * den) = 2 * (cost * den) + 2 * den
      BY <2>1
    <3> QED
      BY <2>1, <3>1
  <2>4. 2 * num + den \in Nat /\ 2 * den \in Nat \ {0}
    BY <2>1
  <2>5. (2 * num + den) \div (2 * den) \in Nat
    BY <2>4
  <2> QED
    BY <2>2, <2>3, <2>4, <2>5, DivAtMost
<1> QED
  BY <1>1, <1>2

(* ConsumerCostWithActivityDiscount: the clamp to the reward keeps the     *)
(* house edge at any discount.                                             *)
THEOREM DiscountWithinEdge ==
    ASSUME NEW lane, NEW s, NEW tokens \in Nat, NEW load \in Nat,
           NEW capacity \in Nat \ {0}
    PROVE  LET charge == ConsumerCostWithActivityDiscount(lane, s, tokens, load, capacity)
           IN  /\ charge \in Nat
               /\ charge >= ProviderReward(lane, s, tokens)
               /\ charge <= ConsumerCost(lane, s, tokens)
<1> DEFINE cost == ConsumerCost(lane, s, tokens)
<1>1. cost \in Nat
  BY CostIsNat
<1>2. Discounted(cost, load, capacity) \in Nat /\ Discounted(cost, load, capacity) <= cost
  BY <1>1, DiscountAtMostCost
<1> QED
  BY <1>1, <1>2, RewardAtMostCost DEF ConsumerCostWithActivityDiscount

-----------------------------------------------------------------------------
Phases == {"pointer", "hostPaid", "routed", "served", "rewarded", "billing",
           "done", "crashed"}

AllKinds == {"fast", "stream", "reserved", "background", "probe"}

Handlers == [phase : Phases, kind : AllKinds, job : Jobs \cup {NoJob},
             user : Users \cup {Anonymous}, sens : Sensitivities \cup {"low"},
             node : Accounts, tokens : Nat, charge : Nat, gateDepth : Nat,
             disturbed : BOOLEAN, paid : BOOLEAN, earned : BOOLEAN]

(* ChargeWithinEdge of one handler.                                        *)
WithinEdge(h) ==
    h.phase \in {"served", "rewarded", "billing"} =>
        /\ h.charge >= ProviderReward(LaneOf(h.kind), h.sens, h.tokens)
        /\ h.charge <= ConsumerCost(LaneOf(h.kind), h.sens, h.tokens)

Sound(h) == h \in Handlers /\ WithinEdge(h) /\ (h.kind \in Chat => h.job \in Jobs)

(* The inductive invariant: every handler that has begun is sound.         *)
IInv ==
    /\ book \in [Accounts -> Totals]
    /\ credited \subseteq Jobs
    /\ depth \in Depths
    /\ crashes \in 0 .. MaxCrashes
    /\ DOMAIN req = Requests
    /\ req = [r \in Requests |-> req[r]]
    /\ \A r \in Requests : req[r] = NewRequest \/ Sound(req[r])

(* A request past its beginning is a sound handler.                        *)
LEMMA BegunIsSound ==
    ASSUME IInv, NEW r \in Requests, req[r].phase # "new"
    PROVE  Sound(req[r]) /\ req[r] \in Handlers
BY DEF IInv, NewRequest, Sound

(* What every action that only moves one handler has to show.              *)
LEMMA OneHandlerMoves ==
    ASSUME IInv, NEW r \in Requests, NEW h, Sound(h), req' = [req EXCEPT ![r] = h],
           book' \in [Accounts -> Totals], credited' \subseteq Jobs,
           depth' = depth, crashes' = crashes
    PROVE  IInv'
<1>1. \A s \in Requests : req'[s] = IF s = r THEN h ELSE req[s]
  BY DEF IInv
<1>2. DOMAIN req' = Requests /\ req' = [s \in Requests |-> req'[s]]
  BY DEF IInv
<1>3. \A s \in Requests : req'[s] = NewRequest \/ Sound(req'[s])
  BY <1>1 DEF IInv
<1> QED
  BY <1>2, <1>3 DEF IInv

(* A row of natural amount keeps the book a book.                          *)
LEMMA BookType ==
    ASSUME NEW b \in [Accounts -> Totals], NEW a \in Accounts, NEW kind,
           NEW amount \in Nat
    PROVE  [b EXCEPT ![a] = Posted(@, kind, amount)] \in [Accounts -> Totals]
<1>1. Posted(b[a], kind, amount) \in Totals
  BY DEF Posted, Totals
<1> QED
  BY <1>1

(* Treasury, host, nodes and users have accounts.                          *)
LEMMA AccountsHold == /\ Treasury \in Accounts /\ Host \in Accounts
                      /\ Users \subseteq Accounts /\ Nodes \subseteq Accounts
BY DEF Accounts

(* Whatever the queue does, what a handler charges is within the edge.     *)
LEMMA ChargeInEdge ==
    ASSUME NEW kind \in AllKinds, NEW s, NEW tokens \in Nat, depth \in Depths
    PROVE  /\ Charge(kind, s, tokens) \in Nat
           /\ Charge(kind, s, tokens) >= ProviderReward(LaneOf(kind), s, tokens)
           /\ Charge(kind, s, tokens) <= ConsumerCost(LaneOf(kind), s, tokens)
<1>1. depth \in Nat /\ Capacity \in Nat \ {0}
  BY BillingConstants
<1>2. CASE kind = "probe"
  <2>1. Charge(kind, s, tokens) = ProviderReward("background", s, tokens)
    BY <1>2 DEF Charge
  <2>2. LaneOf(kind) = "background"
    BY <1>2 DEF LaneOf
  <2> QED
    BY <2>1, <2>2, RewardAtMostCost, CostIsNat
<1>3. CASE kind = "background"
  <2>1. Charge(kind, s, tokens) = ConsumerCost("background", s, tokens)
    BY <1>3 DEF Charge
  <2>2. LaneOf(kind) = "background"
    BY <1>3 DEF LaneOf
  <2> QED
    BY <2>1, <2>2, RewardAtMostCost, CostIsNat
<1>4. CASE kind \notin {"probe", "background"}
  <2>1. Charge(kind, s, tokens)
            = ConsumerCostWithActivityDiscount("fast", s, tokens, depth, Capacity)
    BY <1>4 DEF Charge
  <2>2. LaneOf(kind) = "fast"
    BY <1>4 DEF LaneOf
  <2> QED
    BY <1>1, <2>1, <2>2, DiscountWithinEdge
<1> QED
  BY <1>2, <1>3, <1>4

-----------------------------------------------------------------------------
(* The steps, one lemma for each group of ledger calls.                    *)

(* A gated or ungated start puts a handler on its way.                     *)
LEMMA StartKeepsIInv ==
    ASSUME IInv, NEW r \in Requests, NEW kind \in Kinds, NEW s \in Sensitivities,
           \/ \E j \in Jobs, u \in Users \cup {Anonymous} : Gate(r, kind, j, u, s)
           \/ StartUnbilled(r, kind, s)
    PROVE  IInv'
<1>1. kind \in AllKinds /\ depth \in Nat
  BY BillingConstants DEF AllKinds, IInv
<1>2. CASE \E j \in Jobs, u \in Users \cup {Anonymous} : Gate(r, kind, j, u, s)
  <2>1. PICK j \in Jobs, u \in Users \cup {Anonymous} : Gate(r, kind, j, u, s)
    BY <1>2
  <2>2. PICK phase \in {"pointer", "routed"} :
            req' = [req EXCEPT ![r] = Begun(kind, j, u, s, phase)]
    BY <2>1 DEF Gate
  <2>3. Sound(Begun(kind, j, u, s, phase))
    BY <1>1, AccountsHold DEF Sound, Handlers, Begun, Phases, WithinEdge
  <2> QED
    BY <2>1, <2>2, <2>3, OneHandlerMoves DEF Gate, IInv
<1>3. CASE StartUnbilled(r, kind, s)
  <2> DEFINE h == Begun(kind, NoJob, Anonymous, IF kind = "probe" THEN "low" ELSE s,
                        "routed")
  <2>1. req' = [req EXCEPT ![r] = h]
    BY <1>3 DEF StartUnbilled
  <2>2. kind \notin Chat
    BY <1>3 DEF StartUnbilled
  <2>3. Sound(h)
    BY <1>1, <2>2, AccountsHold DEF Sound, Handlers, Begun, Phases, WithinEdge
  <2> QED
    BY <1>3, <2>1, <2>3, OneHandlerMoves DEF StartUnbilled, IInv
<1> QED
  BY <1>2, <1>3

(* The pointer host is paid, the treasury charged.                         *)
LEMMA PointerKeepsIInv ==
    ASSUME IInv, NEW r \in Requests, CreditPointerHost(r) \/ ChargeTreasury(r)
    PROVE  IInv'
<1>1. PICK phase \in {"hostPaid", "routed"} :
          req' = [req EXCEPT ![r] = [req[r] EXCEPT !.phase = phase]]
  BY DEF CreditPointerHost, ChargeTreasury
<1>2. Sound(req[r]) /\ req[r] \in Handlers
  BY BegunIsSound DEF CreditPointerHost, ChargeTreasury
<1>3. Sound([req[r] EXCEPT !.phase = phase])
  BY <1>2 DEF Sound, Handlers, Phases, WithinEdge
<1>4. CoordinationReward \in Nat
  BY BillingConstants
<1>5. /\ [book EXCEPT ![Host] = Posted(@, "earn", CoordinationReward)]
            \in [Accounts -> Totals]
      /\ [book EXCEPT ![Treasury] = Posted(@, "debit", CoordinationReward)]
            \in [Accounts -> Totals]
      /\ book \in [Accounts -> Totals]
  BY <1>4, BookType, AccountsHold DEF IInv
<1>6. book' \in [Accounts -> Totals]
  BY <1>5 DEF CreditPointerHost, ChargeTreasury, Credit, TryDebit
<1> QED
  BY <1>1, <1>3, <1>6, OneHandlerMoves DEF CreditPointerHost, ChargeTreasury, IInv

(* An answer comes back and is priced.                                     *)
LEMMA ServedKeepsIInv ==
    ASSUME IInv, NEW r \in Requests, NEW n \in Nodes, NEW reported \in Reported,
           Served(r, n, reported)
    PROVE  IInv'
<1> DEFINE q == req[r]
           t == ObservedTokens(q.kind, reported)
           c == Charge(q.kind, q.sens, t)
           h == [q EXCEPT !.phase = "served", !.node = n, !.tokens = t, !.charge = c,
                          !.disturbed = @ \/ depth > q.gateDepth, !.gateDepth = 0]
<1>1. Sound(q) /\ q \in Handlers
  BY BegunIsSound DEF Served
<1>2. t \in Nat
  BY BillingConstants DEF ObservedTokens
<1>3. q.kind \in AllKinds /\ depth \in Depths
  BY <1>1 DEF Handlers, IInv
<1>4. /\ c \in Nat
      /\ c >= ProviderReward(LaneOf(q.kind), q.sens, t)
      /\ c <= ConsumerCost(LaneOf(q.kind), q.sens, t)
  BY <1>2, <1>3, ChargeInEdge
<1>5. (q.disturbed \/ depth > q.gateDepth) \in BOOLEAN
  OBVIOUS
<1>6. n \in Accounts
  BY AccountsHold
<1>7. h \in Handlers
  BY <1>1, <1>2, <1>4, <1>5, <1>6 DEF Handlers, Phases
<1>8. h.kind = q.kind /\ h.sens = q.sens /\ h.job = q.job /\ h.tokens = t /\ h.charge = c
  BY <1>1 DEF Handlers
<1>9. Sound(h)
  BY <1>1, <1>4, <1>7, <1>8 DEF Sound, WithinEdge
<1>10. req' = [req EXCEPT ![r] = h]
  BY DEF Served
<1> QED
  BY <1>9, <1>10, OneHandlerMoves DEF Served, IInv

(* The node is rewarded, or not, and the treasury takes its margin.        *)
LEMMA RewardKeepsIInv ==
    ASSUME IInv, NEW r \in Requests,
           CreditReward(r) \/ NoReward(r) \/ CreditMargin(r)
    PROVE  IInv'
<1> DEFINE q == req[r]
<1>1. Sound(q) /\ q \in Handlers /\ q.phase \in {"served", "rewarded"}
  BY BegunIsSound DEF CreditReward, NoReward, CreditMargin
<1>2. ProviderReward(LaneOf(q.kind), q.sens, q.tokens) \in Nat
  BY <1>1, RewardAtMostCost DEF Handlers
<1>3. q.charge \in Nat /\ q.node \in Accounts
  BY <1>1 DEF Handlers
<1>4. Deduped(r) => q.job \in Jobs
  BY <1>1 DEF Deduped, Sound
<1>5. CASE CreditReward(r)
  <2>1. req' = [req EXCEPT ![r] = [q EXCEPT !.phase = "rewarded", !.earned = TRUE]]
    BY <1>5 DEF CreditReward
  <2>2. Sound([q EXCEPT !.phase = "rewarded", !.earned = TRUE])
    BY <1>1 DEF Sound, Handlers, Phases, WithinEdge
  <2>3. book' \in [Accounts -> Totals]
    BY <1>2, <1>3, <1>5, BookType DEF CreditReward, Credit, IInv
  <2>4. credited' \subseteq Jobs
    BY <1>4, <1>5 DEF CreditReward, IInv
  <2> QED
    BY <1>5, <2>1, <2>2, <2>3, <2>4, OneHandlerMoves DEF CreditReward
<1>6. CASE NoReward(r) \/ CreditMargin(r)
  <2>1. req' = [req EXCEPT ![r] = [q EXCEPT !.phase = "billing", !.node = Treasury]]
    BY <1>6 DEF NoReward, CreditMargin
  <2>2. Sound([q EXCEPT !.phase = "billing", !.node = Treasury])
    BY <1>1, AccountsHold DEF Sound, Handlers, Phases, WithinEdge
  <2>3. Margin(r) \in Nat
    BY <1>2, <1>3 DEF Margin, Excess
  <2>4. book' \in [Accounts -> Totals]
    <3>1. /\ [book EXCEPT ![Treasury] = Posted(@, "earn", Margin(r))]
                \in [Accounts -> Totals]
          /\ book \in [Accounts -> Totals]
      BY <2>3, BookType, AccountsHold DEF IInv
    <3> QED
      BY <1>6, <3>1 DEF NoReward, CreditMargin, Credit
  <2>5. credited' \subseteq Jobs
    BY <1>4, <1>6 DEF NoReward, CreditMargin, IInv
  <2> QED
    BY <1>6, <2>1, <2>2, <2>4, <2>5, OneHandlerMoves DEF NoReward, CreditMargin
<1> QED
  BY <1>5, <1>6

(* A handler that ends leaves a sound record of what it did.               *)
LEMMA EndedIsSound ==
    ASSUME NEW q \in Handlers, Sound(q), NEW phase \in {"done", "crashed"}
    PROVE  Sound(Ended(q, phase)) /\ Ended(q, phase) \in Handlers
BY AccountsHold DEF Sound, Handlers, Phases, WithinEdge, Ended

(* The dispatch failed, or there is nobody to bill.                        *)
LEMMA EndKeepsIInv ==
    ASSUME IInv, NEW r \in Requests, DispatchFails(r) \/ NotBilled(r)
    PROVE  IInv'
<1>1. Sound(req[r]) /\ req[r] \in Handlers
  BY BegunIsSound DEF DispatchFails, NotBilled
<1>2. Sound(Ended(req[r], "done"))
  BY <1>1, EndedIsSound
<1>3. req' = [req EXCEPT ![r] = Ended(req[r], "done")]
  BY DEF DispatchFails, NotBilled
<1> QED
  BY <1>2, <1>3, OneHandlerMoves DEF DispatchFails, NotBilled, IInv

(* The debit, which also disturbs the caller's other requests.             *)
LEMMA DebitKeepsIInv ==
    ASSUME IInv, NEW r \in Requests, Debit(r)
    PROVE  IInv'
<1> DEFINE q == req[r]
<1>1. Sound(q) /\ q \in Handlers
  BY BegunIsSound DEF Debit
<1>2. q.user \in Accounts /\ q.charge \in Nat
  BY <1>1, AccountsHold DEF Debit, Billed, Handlers
<1>3. book' \in [Accounts -> Totals]
  BY <1>2, BookType DEF Debit, TryDebit, IInv
<1>4. ASSUME NEW s \in Requests
      PROVE  req'[s] = NewRequest \/ Sound(req'[s])
  <2>1. CASE s = r
    <3>1. req'[s] = [Ended(q, "done") EXCEPT !.paid = Affords(book[q.user], q.charge)]
      BY <2>1 DEF Debit
    <3>2. Affords(book[q.user], q.charge) \in BOOLEAN
      BY DEF Affords
    <3>3. Sound(Ended(q, "done")) /\ Ended(q, "done") \in Handlers
      BY <1>1, EndedIsSound
    <3> QED
      BY <3>1, <3>2, <3>3 DEF Sound, Handlers, Phases, WithinEdge
  <2>2. CASE s # r
    <3>1. \/ req'[s] = req[s]
          \/ req[s].phase # "new" /\ req'[s] = [req[s] EXCEPT !.disturbed = TRUE]
      BY <2>2 DEF Debit
    <3>2. CASE req'[s] = req[s]
      BY <3>2 DEF IInv
    <3>3. CASE req[s].phase # "new" /\ req'[s] = [req[s] EXCEPT !.disturbed = TRUE]
      <4>1. Sound(req[s]) /\ req[s] \in Handlers
        BY <3>3, BegunIsSound
      <4> QED
        BY <3>3, <4>1 DEF Sound, Handlers, WithinEdge
    <3> QED
      BY <3>1, <3>2, <3>3
  <2> QED
    BY <2>1, <2>2
<1>5. DOMAIN req' = Requests /\ req' = [s \in Requests |-> req'[s]]
  BY DEF Debit
<1> QED
  BY <1>3, <1>4, <1>5 DEF Debit, IInv

(* A crash ends the handlers under way and forgets the credited jobs.      *)
LEMMA CrashKeepsIInv ==
    ASSUME IInv, Crash
    PROVE  IInv'
<1>1. crashes' \in 0 .. MaxCrashes
  BY BillingConstants DEF Crash, IInv
<1>2. ASSUME NEW s \in Requests
      PROVE  req'[s] = NewRequest \/ Sound(req'[s])
  <2>1. CASE req[s].phase \in {"new", "done"}
    BY <2>1 DEF Crash, IInv
  <2>2. CASE req[s].phase \notin {"new", "done"}
    <3>1. Sound(req[s]) /\ req[s] \in Handlers
      BY <2>2, BegunIsSound
    <3>2. req'[s] = Ended([req[s] EXCEPT !.disturbed = FALSE], "crashed")
      BY <2>2 DEF Crash
    <3>3. /\ Sound([req[s] EXCEPT !.disturbed = FALSE])
          /\ [req[s] EXCEPT !.disturbed = FALSE] \in Handlers
      BY <3>1 DEF Sound, Handlers, WithinEdge
    <3> QED
      BY <3>2, <3>3, EndedIsSound
  <2> QED
    BY <2>1, <2>2
<1>3. DOMAIN req' = Requests /\ req' = [s \in Requests |-> req'[s]]
  BY DEF Crash
<1> QED
  BY <1>1, <1>2, <1>3 DEF Crash, IInv

-----------------------------------------------------------------------------
(* Where the handlers begin: grants in the book, nothing under way.        *)
LEMMA InitIsSound == ASSUME Init PROVE IInv
<1>1. StartupGrant \in Nat /\ MaxCrashes \in Nat /\ 0 \in Depths
  BY BillingConstants
<1>2. book \in [Accounts -> Totals]
  <2>1. NoTotals \in Totals
    BY DEF NoTotals, Totals
  <2>2. Posted(NoTotals, "grant", StartupGrant) \in Totals
    BY <1>1, <2>1 DEF Posted, Totals
  <2> QED
    BY <2>1, <2>2 DEF Init
<1> QED
  BY <1>1, <1>2 DEF Init, IInv

(* One lemma for each action of Next.                                      *)
LEMMA NextKeepsIInv == ASSUME IInv, [Next]_vars PROVE IInv'
<1>1. ASSUME NEW r \in Requests, NEW kind \in Kinds, NEW s \in Sensitivities,
             \/ \E j \in Jobs, u \in Users \cup {Anonymous} : Gate(r, kind, j, u, s)
             \/ StartUnbilled(r, kind, s)
      PROVE  IInv'
  BY <1>1, StartKeepsIInv
<1>2. ASSUME NEW r \in Requests, CreditPointerHost(r) \/ ChargeTreasury(r)
      PROVE  IInv'
  BY <1>2, PointerKeepsIInv
<1>3. ASSUME NEW r \in Requests, NEW n \in Nodes, NEW reported \in Reported,
             Served(r, n, reported)
      PROVE  IInv'
  BY <1>3, ServedKeepsIInv
<1>4. ASSUME NEW r \in Requests, CreditReward(r) \/ NoReward(r) \/ CreditMargin(r)
      PROVE  IInv'
  BY <1>4, RewardKeepsIInv
<1>5. ASSUME NEW r \in Requests, DispatchFails(r) \/ NotBilled(r)
      PROVE  IInv'
  BY <1>5, EndKeepsIInv
<1>6. ASSUME NEW r \in Requests, Debit(r)
      PROVE  IInv'
  BY <1>6, DebitKeepsIInv
<1>7. ASSUME NEW d \in Depths, QueueMoves(d)
      PROVE  IInv'
  BY <1>7 DEF QueueMoves, IInv
<1>8. CASE Crash
  BY <1>8, CrashKeepsIInv
<1>9. CASE UNCHANGED vars
  BY <1>9 DEF vars, IInv
<1> QED
  BY <1>1, <1>2, <1>3, <1>4, <1>5, <1>6, <1>7, <1>8, <1>9 DEF Next

(* The invariant of every behaviour of the handlers.                       *)
LEMMA IInvAlways == Spec => []IInv
<1>1. Init => IInv
  BY InitIsSound
<1>2. IInv /\ [Next]_vars => IInv'
  BY NextKeepsIInv
<1> QED
  BY <1>1, <1>2, PTL DEF Spec

(* The book and the handlers are well typed in every state.                *)
THEOREM TypeCorrect == Spec => []TypeOK
<1>1. IInv => TypeOK
  BY DEF IInv, TypeOK, Sound, Handlers, Phases
<1> QED
  BY <1>1, IInvAlways, PTL

(* The house edge survives every discount, for every price, queue depth    *)
(* and capacity, and whatever happens between the gate and the debit.      *)
THEOREM EdgeSafety == Spec => []ChargeWithinEdge
<1>1. IInv => ChargeWithinEdge
  BY DEF IInv, ChargeWithinEdge, Started, NewRequest, Sound, WithinEdge
<1> QED
  BY <1>1, IInvAlways, PTL

-----------------------------------------------------------------------------
(* Before any crash, creditedJobs holds the job of every request whose     *)
(* node was rewarded under the dedup, and no two of those share a job:     *)
(* the first part is what makes the second one inductive, since a handler  *)
(* that finds its job unclaimed then knows that nobody was paid for it.    *)
ClaimsHold ==
    crashes = 0 =>
        \A r \in Started : req[r].earned /\ Deduped(r) => req[r].job \in credited

OnceInv == IInv /\ ClaimsHold /\ OneRewardPerJob

(* A step that rewards nobody anew, drops no claim and crashes nothing:    *)
(* whoever has earned after it had earned before, for the same job.        *)
LEMMA NobodyNewEarns ==
    ASSUME OnceInv, IInv', crashes' = crashes, credited \subseteq credited',
           \A s \in Requests : req'[s].phase # "new" /\ req'[s].earned =>
              /\ req[s].phase # "new" /\ req[s].earned
              /\ req'[s].kind = req[s].kind /\ req'[s].job = req[s].job
    PROVE  OnceInv'
<1>1. ASSUME NEW s \in Started', req'[s].earned, Deduped(s)'
      PROVE  /\ s \in Started /\ req[s].earned /\ Deduped(s)
             /\ req'[s].job = req[s].job
  BY <1>1 DEF Started, Deduped
<1>2. ClaimsHold'
  BY <1>1 DEF OnceInv, ClaimsHold
<1>3. OneRewardPerJob'
  BY <1>1 DEF OnceInv, OneRewardPerJob
<1> QED
  BY <1>2, <1>3 DEF OnceInv

(* The one step that rewards: the claim is taken with the reward.          *)
LEMMA RewardOnce ==
    ASSUME OnceInv, IInv', NEW r \in Requests, CreditReward(r)
    PROVE  OnceInv'
<1> DEFINE h == [req[r] EXCEPT !.phase = "rewarded", !.earned = TRUE]
<1>1. req[r] \in Handlers /\ req[r].phase = "served" /\ r \in Started
  BY BegunIsSound DEF CreditReward, OnceInv, Started
<1>2. /\ crashes' = crashes
      /\ Deduped(r) => /\ req[r].job \notin credited
                       /\ credited' = credited \cup {req[r].job}
      /\ credited \subseteq credited'
  BY DEF CreditReward
<1>3. \A s \in Requests : req'[s] = IF s = r THEN h ELSE req[s]
  BY DEF CreditReward, OnceInv, IInv
<1>4. h.kind = req[r].kind /\ h.job = req[r].job
  BY <1>1 DEF Handlers
<1>5. ASSUME NEW s \in Started'
      PROVE  /\ s \in Started /\ req'[s].job = req[s].job
             /\ Deduped(s)' = Deduped(s)
             /\ s # r => req'[s].earned = req[s].earned
  BY <1>1, <1>3, <1>4, <1>5 DEF Started, Deduped
<1>6. ClaimsHold'
  <2> SUFFICES ASSUME crashes = 0, NEW s \in Started', req'[s].earned, Deduped(s)'
               PROVE  req'[s].job \in credited'
    BY <1>2 DEF ClaimsHold
  <2>1. CASE s = r
    BY <2>1, <1>2, <1>5
  <2>2. CASE s # r
    BY <2>2, <1>2, <1>5 DEF OnceInv, ClaimsHold
  <2> QED
    BY <2>1, <2>2
<1>7. OneRewardPerJob'
  <2> SUFFICES ASSUME crashes = 0, NEW s \in Started', NEW t \in Started', s # t,
                      req'[s].earned, req'[t].earned, Deduped(s)', Deduped(t)'
               PROVE  req'[s].job # req'[t].job
    BY <1>2 DEF OneRewardPerJob
  <2>1. CASE s # r /\ t # r
    BY <2>1, <1>5 DEF OnceInv, OneRewardPerJob
  <2>2. CASE s = r
    <3>1. req[t].job \in credited
      BY <2>2, <1>5 DEF OnceInv, ClaimsHold
    <3> QED
      BY <2>2, <3>1, <1>2, <1>5
  <2>3. CASE t = r
    <3>1. req[s].job \in credited
      BY <2>3, <1>5 DEF OnceInv, ClaimsHold
    <3> QED
      BY <2>3, <3>1, <1>2, <1>5
  <2> QED
    BY <2>1, <2>2, <2>3
<1> QED
  BY <1>6, <1>7 DEF OnceInv

(* A step that replaces one handler by another that has not earned, or     *)
(* has earned no more than it had and is for the same job.                 *)
LEMMA OneHandlerOnce ==
    ASSUME OnceInv, IInv', NEW r \in Requests, NEW h, req' = [req EXCEPT ![r] = h],
           crashes' = crashes, credited \subseteq credited',
           \/ ~h.earned
           \/ /\ req[r].phase # "new" /\ h.earned = req[r].earned
              /\ h.kind = req[r].kind /\ h.job = req[r].job
    PROVE  OnceInv'
<1>1. \A s \in Requests : req'[s] = IF s = r THEN h ELSE req[s]
  BY DEF OnceInv, IInv
<1> QED
  BY <1>1, NobodyNewEarns

(* The steps of one handler other than the reward and the debit.           *)
LEMMA QuietStepsOnce ==
    ASSUME OnceInv, IInv', NEW r \in Requests,
           \/ \E kind \in Kinds, s \in Sensitivities :
                 \/ \E j \in Jobs, u \in Users \cup {Anonymous} : Gate(r, kind, j, u, s)
                 \/ StartUnbilled(r, kind, s)
           \/ CreditPointerHost(r) \/ ChargeTreasury(r)
           \/ \E n \in Nodes, reported \in Reported : Served(r, n, reported)
           \/ DispatchFails(r) \/ NoReward(r) \/ CreditMargin(r) \/ NotBilled(r)
    PROVE  OnceInv'
<1>1. CASE \E kind \in Kinds, s \in Sensitivities :
              \/ \E j \in Jobs, u \in Users \cup {Anonymous} : Gate(r, kind, j, u, s)
              \/ StartUnbilled(r, kind, s)
  <2>1. PICK kind, j, u, s, phase : req' = [req EXCEPT ![r] = Begun(kind, j, u, s, phase)]
    BY <1>1 DEF Gate, StartUnbilled
  <2>3. ~Begun(kind, j, u, s, phase).earned
    BY DEF Begun
  <2>2. crashes' = crashes /\ credited' = credited
    BY <1>1 DEF Gate, StartUnbilled
  <2> QED
    BY <2>1, <2>2, <2>3, OneHandlerOnce
<1>2. CASE \/ CreditPointerHost(r) \/ ChargeTreasury(r)
           \/ \E n \in Nodes, reported \in Reported : Served(r, n, reported)
           \/ DispatchFails(r) \/ NoReward(r) \/ CreditMargin(r) \/ NotBilled(r)
  <2>1. req[r].phase # "new"
    BY <1>2 DEF CreditPointerHost, ChargeTreasury, Served, DispatchFails, NoReward,
                CreditMargin, NotBilled
  <2>2. req[r] \in Handlers
    BY <2>1, BegunIsSound DEF OnceInv
  <2>3. crashes' = crashes /\ credited \subseteq credited'
    BY <1>2 DEF CreditPointerHost, ChargeTreasury, Served, DispatchFails, NoReward,
                CreditMargin, NotBilled
  <2>4. \E h : /\ req' = [req EXCEPT ![r] = h]
               /\ h.earned = req[r].earned
               /\ h.kind = req[r].kind /\ h.job = req[r].job
    <3>1. CASE CreditPointerHost(r)
      <4> DEFINE h == [req[r] EXCEPT !.phase = "hostPaid"]
      <4>1. req' = [req EXCEPT ![r] = h]
        BY <3>1 DEF CreditPointerHost
      <4>2. h.earned = req[r].earned /\ h.kind = req[r].kind /\ h.job = req[r].job
        BY <2>2 DEF Handlers
      <4> QED
        BY <4>1, <4>2
    <3>2. CASE ChargeTreasury(r)
      <4> DEFINE h == [req[r] EXCEPT !.phase = "routed"]
      <4>1. req' = [req EXCEPT ![r] = h]
        BY <3>2 DEF ChargeTreasury
      <4>2. h.earned = req[r].earned /\ h.kind = req[r].kind /\ h.job = req[r].job
        BY <2>2 DEF Handlers
      <4> QED
        BY <4>1, <4>2
    <3>3. CASE \E n \in Nodes, reported \in Reported : Served(r, n, reported)
      <4>1. PICK n \in Nodes, reported \in Reported : Served(r, n, reported)
        BY <3>3
      <4> DEFINE t == ObservedTokens(req[r].kind, reported)
                 h == [req[r] EXCEPT
                         !.phase = "served", !.node = n, !.tokens = t,
                         !.charge = Charge(req[r].kind, req[r].sens, t),
                         !.disturbed = @ \/ depth > req[r].gateDepth, !.gateDepth = 0]
      <4>2. req' = [req EXCEPT ![r] = h]
        BY <4>1 DEF Served
      <4>3. h.earned = req[r].earned /\ h.kind = req[r].kind /\ h.job = req[r].job
        BY <2>2 DEF Handlers
      <4> QED
        BY <4>2, <4>3
    <3>4. CASE DispatchFails(r) \/ NotBilled(r)
      <4> DEFINE h == Ended(req[r], "done")
      <4>1. req' = [req EXCEPT ![r] = h]
        BY <3>4 DEF DispatchFails, NotBilled
      <4>2. h.earned = req[r].earned /\ h.kind = req[r].kind /\ h.job = req[r].job
        BY <2>2 DEF Handlers, Ended
      <4> QED
        BY <4>1, <4>2
    <3>5. CASE NoReward(r) \/ CreditMargin(r)
      <4> DEFINE h == [req[r] EXCEPT !.phase = "billing", !.node = Treasury]
      <4>1. req' = [req EXCEPT ![r] = h]
        BY <3>5 DEF NoReward, CreditMargin
      <4>2. h.earned = req[r].earned /\ h.kind = req[r].kind /\ h.job = req[r].job
        BY <2>2 DEF Handlers
      <4> QED
        BY <4>1, <4>2
    <3> QED
      BY <1>2, <3>1, <3>2, <3>3, <3>4, <3>5
  <2> QED
    BY <2>1, <2>3, <2>4, OneHandlerOnce
<1> QED
  BY <1>1, <1>2

(* A debit ends its own handler and marks the caller's others disturbed.   *)
LEMMA DebitOnce ==
    ASSUME OnceInv, IInv', NEW r \in Requests, Debit(r)
    PROVE  OnceInv'
<1>1. crashes' = crashes /\ credited' = credited /\ req[r].phase # "new"
  BY DEF Debit
<1>2. ASSUME NEW s \in Requests, req'[s].phase # "new", req'[s].earned
      PROVE  /\ req[s].phase # "new" /\ req[s].earned
             /\ req'[s].kind = req[s].kind /\ req'[s].job = req[s].job
  <2>1. CASE s = r
    <3>1. req'[r] = [Ended(req[r], "done") EXCEPT
                        !.paid = Affords(book[req[r].user], req[r].charge)]
      BY DEF Debit
    <3>2. req[r] \in Handlers
      BY <1>1, BegunIsSound DEF OnceInv
    <3> QED
      BY <2>1, <1>1, <1>2, <3>1, <3>2 DEF Ended, Handlers
  <2>2. CASE s # r
    <3>1. \/ req'[s] = req[s]
          \/ req[s].phase # "new" /\ req'[s] = [req[s] EXCEPT !.disturbed = TRUE]
      BY <2>2 DEF Debit
    <3>2. CASE req'[s] = req[s]
      BY <3>2, <1>2
    <3>3. CASE req[s].phase # "new" /\ req'[s] = [req[s] EXCEPT !.disturbed = TRUE]
      <4>1. req[s] \in Handlers
        BY <3>3, BegunIsSound DEF OnceInv
      <4> QED
        BY <3>3, <4>1, <1>2 DEF Handlers
    <3> QED
      BY <3>1, <3>2, <3>3
  <2> QED
    BY <2>1, <2>2
<1> QED
  BY <1>1, <1>2, NobodyNewEarns

(* A job id sent several times at once earns one node one reward, until a  *)
(* restart forgets creditedJobs: for every number of requests, ids and     *)
(* nodes.                                                                  *)
THEOREM OneReward == Spec => []OneRewardPerJob
<1>1. Init => OnceInv
  <2> SUFFICES ASSUME Init PROVE OnceInv
    OBVIOUS
  <2>1. IInv
    BY InitIsSound
  <2>2. Started = {}
    BY DEF Init, Started, NewRequest
  <2> QED
    BY <2>1, <2>2 DEF OnceInv, ClaimsHold, OneRewardPerJob
<1>2. OnceInv /\ [Next]_vars => OnceInv'
  <2> SUFFICES ASSUME OnceInv, [Next]_vars PROVE OnceInv'
    OBVIOUS
  <2>1. IInv'
    BY NextKeepsIInv DEF OnceInv
  <2>2. ASSUME NEW r \in Requests,
               \/ \E kind \in Kinds, s \in Sensitivities :
                     \/ \E j \in Jobs, u \in Users \cup {Anonymous} : Gate(r, kind, j, u, s)
                     \/ StartUnbilled(r, kind, s)
               \/ CreditPointerHost(r) \/ ChargeTreasury(r)
               \/ \E n \in Nodes, reported \in Reported : Served(r, n, reported)
               \/ DispatchFails(r) \/ NoReward(r) \/ CreditMargin(r) \/ NotBilled(r)
        PROVE  OnceInv'
    BY <2>1, <2>2, QuietStepsOnce
  <2>3. ASSUME NEW r \in Requests, CreditReward(r)
        PROVE  OnceInv'
    BY <2>1, <2>3, RewardOnce
  <2>4. ASSUME NEW r \in Requests, Debit(r)
        PROVE  OnceInv'
    BY <2>1, <2>4, DebitOnce
  <2>5. CASE (\E d \in Depths : QueueMoves(d)) \/ UNCHANGED vars
    <3>1. req' = req /\ credited' = credited /\ crashes' = crashes
      BY <2>5 DEF QueueMoves, vars
    <3> QED
      BY <2>1, <3>1, NobodyNewEarns
  <2>6. CASE Crash
    <3>1. crashes' # 0
      BY <2>6 DEF Crash, OnceInv, IInv
    <3> QED
      BY <2>1, <3>1 DEF OnceInv, ClaimsHold, OneRewardPerJob
  <2> QED
    BY <2>2, <2>3, <2>4, <2>5, <2>6 DEF Next
<1>3. OnceInv => OneRewardPerJob
  BY DEF OnceInv
<1> QED
  BY <1>1, <1>2, <1>3, PTL DEF Spec

-----------------------------------------------------------------------------
(* The prices grow with tokens and with the load.                          *)

(* A larger dividend has no smaller quotient.                              *)
LEMMA DivMonotone ==
    ASSUME NEW x \in Nat, NEW y \in Nat, NEW d \in Nat \ {0}, x <= y
    PROVE  x \div d <= y \div d
<1> DEFINE c == y \div d
<1>1. c \in Nat /\ y < (c + 1) * d
  OBVIOUS
<1> HIDE DEF c
<1>2. (c + 1) * d \in Nat /\ x < (c + 1) * d
  BY <1>1
<1>3. x \div d <= c
  BY <1>1, <1>2, DivAtMost
<1> QED
  BY <1>3 DEF c

(* More tokens cost no less, and some tokens cost something.               *)
LEMMA CostMonotone ==
    ASSUME NEW s, NEW t \in Nat, NEW u \in Nat, t <= u
    PROVE  /\ ConsumerCost("fast", s, t) <= ConsumerCost("fast", s, u)
           /\ ProviderReward("fast", s, t) <= ProviderReward("fast", s, u)
           /\ t > 0 => ProviderReward("fast", s, t) > 0
<1>1. /\ ConsumerCost("fast", s, t) <= ConsumerCost("fast", s, u)
      /\ t > 0 => ConsumerCost("fast", s, t) >= 5
  BY DEF ConsumerCost, round4, laneMultiplier2, sensitivityMultiplier2
<1>2. ConsumerCost("fast", s, t) \in Nat /\ ConsumerCost("fast", s, u) \in Nat
  BY CostIsNat
<1> QED
  BY <1>1, <1>2 DEF ProviderReward, round4

(* Neither a higher price nor a fuller queue makes the discount larger.    *)
LEMMA DiscountedMonotone ==
    ASSUME NEW c \in Nat, NEW e \in Nat, c <= e, NEW low \in Nat, NEW high \in Nat,
           low <= high, NEW capacity \in Nat \ {0}
    PROVE  Discounted(c, low, capacity) <= Discounted(e, high, capacity)
<1>1. CASE AtCeiling(low, capacity)
  <2>1. AtCeiling(high, capacity)
    BY <1>1 DEF AtCeiling
  <2> QED
    BY <1>1, <2>1 DEF Discounted
<1>2. CASE ~AtCeiling(low, capacity) /\ AtCeiling(high, capacity)
  <2>1. Discounted(c, low, capacity) \in Nat /\ Discounted(c, low, capacity) <= c
    BY DiscountAtMostCost
  <2> QED
    BY <1>2, <2>1 DEF Discounted
<1>3. CASE ~AtCeiling(low, capacity) /\ ~AtCeiling(high, capacity)
  <2> DEFINE p == 120 * capacity + 100 * low
             q == 120 * capacity + 100 * high
             den == 160 * capacity
  <2>1. p \in Nat /\ q \in Nat /\ p <= q /\ den \in Nat \ {0}
    OBVIOUS
  <2>2. /\ Discounted(c, low, capacity) = (2 * (c * p) + den) \div (2 * den)
        /\ Discounted(e, high, capacity) = (2 * (e * q) + den) \div (2 * den)
    BY <1>3 DEF Discounted, round4
  <2> HIDE DEF p, q, den
  <2>3. c * p \in Nat /\ e * q \in Nat /\ c * p <= e * q
    <3>1. \A a, b, f \in Nat : a <= b => f * a \in Nat /\ f * b \in Nat /\ f * a <= f * b
      OBVIOUS
    <3>2. c * p <= c * q /\ c * p \in Nat /\ c * q \in Nat
      BY <2>1, <3>1
    <3>3. q * c <= q * e /\ q * e \in Nat
      BY <2>1, <3>1
    <3>4. c * q = q * c /\ e * q = q * e
      BY <2>1
    <3> QED
      BY <3>2, <3>3, <3>4
  <2>4. /\ 2 * (c * p) + den \in Nat /\ 2 * (e * q) + den \in Nat
        /\ 2 * den \in Nat \ {0} /\ 2 * (c * p) + den <= 2 * (e * q) + den
    BY <2>1, <2>3
  <2> QED
    BY <2>2, <2>4, DivMonotone
<1> QED
  BY <1>1, <1>2, <1>3

(* The price of an answer on the fast lane.                                *)
Price(s, tokens, load) == ConsumerCostWithActivityDiscount("fast", s, tokens, load, Capacity)

(* So an answer within max_tokens, priced while the queue is no fuller     *)
(* than at the gate, costs no more than the gate's estimate.               *)
LEMMA PriceMonotone ==
    ASSUME NEW s, NEW t \in Nat, NEW u \in Nat, t <= u,
           NEW low \in Nat, NEW high \in Nat, low <= high
    PROVE  /\ Price(s, t, low) \in Nat /\ Price(s, u, high) \in Nat
           /\ Price(s, t, low) <= Price(s, u, high)
           /\ u > 0 => Price(s, u, high) > 0
<1>1. Capacity \in Nat \ {0}
  BY BillingConstants
<1>2. ConsumerCost("fast", s, t) \in Nat /\ ConsumerCost("fast", s, u) \in Nat
  BY CostIsNat
<1>3. /\ ConsumerCost("fast", s, t) <= ConsumerCost("fast", s, u)
      /\ ProviderReward("fast", s, t) <= ProviderReward("fast", s, u)
      /\ u > 0 => ProviderReward("fast", s, u) > 0
  BY CostMonotone
<1>4. Discounted(ConsumerCost("fast", s, t), low, Capacity)
        <= Discounted(ConsumerCost("fast", s, u), high, Capacity)
  BY <1>1, <1>2, <1>3, DiscountedMonotone
<1>5. /\ Discounted(ConsumerCost("fast", s, t), low, Capacity) \in Nat
      /\ Discounted(ConsumerCost("fast", s, u), high, Capacity) \in Nat
  BY <1>1, <1>2, DiscountAtMostCost
<1>6. ProviderReward("fast", s, t) \in Nat /\ ProviderReward("fast", s, u) \in Nat
  BY RewardAtMostCost
<1> QED
  BY <1>3, <1>4, <1>5, <1>6 DEF Price, ConsumerCostWithActivityDiscount

(* A positive balance that covers an amount affords it, and what is        *)
(* affordable stays so for a smaller amount and after a credit.            *)
LEMMA Affordable ==
    ASSUME NEW t \in Totals, NEW x \in Nat, NEW y \in Nat
    PROVE  /\ x > 0 /\ balanceFromTotals(t).total >= x => Affords(t, x)
           /\ x <= y /\ Affords(t, y) => Affords(t, x)
           /\ Affords(t, x) => Affords(Posted(t, "earn", y), x)
<1>1. /\ t.grant \in Nat /\ t.earned \in Nat /\ t.debited \in Nat
  BY DEF Totals
<1>2. x > 0 /\ balanceFromTotals(t).total >= x => Affords(t, x)
  BY <1>1 DEF balanceFromTotals, Affords, Credits, Excess, Least
<1>3. x <= y /\ Affords(t, y) => Affords(t, x)
  BY <1>1 DEF Affords, Credits
<1>4. Affords(t, x) => Affords(Posted(t, "earn", y), x)
  BY <1>1 DEF Affords, Credits, Posted
<1> QED
  BY <1>2, <1>3, <1>4

-----------------------------------------------------------------------------
(* What an undisturbed request of an identified caller can still pay: the  *)
(* gate's estimate until the answer comes, its own charge afterwards.      *)
Covers(h, b) ==
    h.user # Anonymous =>
        /\ h.kind \in Chat
        /\ h.phase \in {"pointer", "hostPaid", "routed"} => h.tokens = 0
        /\ ~h.disturbed =>
             /\ h.phase \in {"pointer", "hostPaid", "routed"} =>
                   Affords(b[h.user], Price(h.sens, MaxTokens, h.gateDepth))
             /\ h.phase \in {"served", "rewarded", "billing"} /\ h.tokens \in 1 .. MaxTokens =>
                   Affords(b[h.user], h.charge)
             /\ h.phase = "done" /\ h.tokens \in 1 .. MaxTokens => h.paid

CoverInv == IInv /\ \A r \in Requests : req[r].phase # "new" => Covers(req[r], book)

(* Consumers lose nothing by a step: what they could afford they still can.*)
NobodyPoorer(b, c) == \A u \in Users, x \in Nat : Affords(b[u], x) => Affords(c[u], x)

(* A covered handler stays so when nobody gets poorer.                     *)
LEMMA StillCovered ==
    ASSUME NEW h \in Handlers, NEW b, NEW c, Covers(h, b), NobodyPoorer(b, c)
    PROVE  Covers(h, c)
<1>1. h.user # Anonymous => h.user \in Users
  BY DEF Handlers
<1>2. h.charge \in Nat /\ Price(h.sens, MaxTokens, h.gateDepth) \in Nat
  BY PriceMonotone, BillingConstants DEF Handlers
<1> QED
  BY <1>1, <1>2 DEF Covers, NobodyPoorer

(* A step of one handler that makes nobody poorer.                         *)
LEMMA OneCovered ==
    ASSUME CoverInv, IInv', NEW r \in Requests, NEW h, req' = [req EXCEPT ![r] = h],
           NobodyPoorer(book, book'), Covers(h, book')
    PROVE  CoverInv'
<1>1. \A s \in Requests : req'[s] = IF s = r THEN h ELSE req[s]
  BY DEF CoverInv, IInv
<1>2. ASSUME NEW s \in Requests, req'[s].phase # "new"
      PROVE  Covers(req'[s], book')
  <2>1. CASE s = r
    BY <1>1, <2>1
  <2>2. CASE s # r
    <3>1. req'[s] = req[s] /\ req[s].phase # "new" /\ req[s] \in Handlers
      BY <1>1, <1>2, <2>2, BegunIsSound DEF CoverInv
    <3> QED
      BY <3>1, StillCovered DEF CoverInv
  <2> QED
    BY <2>1, <2>2
<1> QED
  BY <1>2 DEF CoverInv

(* A credit makes nobody poorer, and neither does a charge to an account   *)
(* that is not a consumer's.                                               *)
LEMMA CreditsEnrich ==
    ASSUME NEW b \in [Accounts -> Totals], NEW a \in Accounts, NEW amount \in Nat
    PROVE  /\ NobodyPoorer(b, b)
           /\ NobodyPoorer(b, [b EXCEPT ![a] = Posted(@, "earn", amount)])
           /\ a \notin Users => NobodyPoorer(b, [b EXCEPT ![a] = Posted(@, "debit", amount)])
<1>1. NobodyPoorer(b, b)
  BY DEF NobodyPoorer
<1>2. ASSUME NEW u \in Users, NEW x \in Nat, Affords(b[u], x)
      PROVE  Affords([b EXCEPT ![a] = Posted(@, "earn", amount)][u], x)
  <2>1. u \in Accounts /\ b[u] \in Totals
    BY AccountsHold
  <2>2. Affords(Posted(b[u], "earn", amount), x)
    BY <1>2, <2>1, Affordable
  <2> QED
    BY <1>2, <2>1, <2>2
<1>3. ASSUME a \notin Users, NEW u \in Users
      PROVE  [b EXCEPT ![a] = Posted(@, "debit", amount)][u] = b[u]
  BY <1>3, AccountsHold
<1> QED
  BY <1>1, <1>2, <1>3 DEF NobodyPoorer

(* The gate lets in whom its estimate covers.                              *)
LEMMA GateCovers ==
    ASSUME CoverInv, IInv', NEW r \in Requests, NEW kind \in Kinds,
           NEW j \in Jobs, NEW u \in Users \cup {Anonymous}, NEW s \in Sensitivities,
           Gate(r, kind, j, u, s)
    PROVE  CoverInv'
<1>1. PICK phase \in {"pointer", "routed"} :
          req' = [req EXCEPT ![r] = Begun(kind, j, u, s, phase)]
  BY DEF Gate
<1>2. /\ kind \in Chat /\ book' = book
      /\ u # Anonymous => balanceFromTotals(book[u]).total >= Price(s, MaxTokens, depth)
  BY DEF Gate, Estimate, Price
<1>3. ASSUME u # Anonymous PROVE Affords(book[u], Price(s, MaxTokens, depth))
  <2>1. depth \in Nat /\ MaxTokens \in Nat /\ MaxTokens > 0
    BY BillingConstants DEF CoverInv, IInv
  <2>2. Price(s, MaxTokens, depth) \in Nat /\ Price(s, MaxTokens, depth) > 0
    BY <2>1, PriceMonotone
  <2>3. book[u] \in Totals
    BY <1>3, AccountsHold DEF CoverInv, IInv
  <2> QED
    BY <1>2, <1>3, <2>2, <2>3, Affordable
<1>4. Covers(Begun(kind, j, u, s, phase), book')
  BY <1>2, <1>3 DEF Begun, Covers
<1>5. NobodyPoorer(book, book')
  BY <1>2 DEF NobodyPoorer
<1> QED
  BY <1>1, <1>4, <1>5, OneCovered

(* The answer is priced: within max_tokens and with a queue no fuller than *)
(* at the gate, within what the gate made sure of.                         *)
LEMMA ServedCovers ==
    ASSUME CoverInv, IInv', NEW r \in Requests, NEW n \in Nodes, NEW reported \in Reported,
           Served(r, n, reported)
    PROVE  CoverInv'
<1> DEFINE q == req[r]
           t == ObservedTokens(q.kind, reported)
           c == Charge(q.kind, q.sens, t)
           h == [q EXCEPT !.phase = "served", !.node = n, !.tokens = t, !.charge = c,
                          !.disturbed = @ \/ depth > q.gateDepth, !.gateDepth = 0]
<1>1. q \in Handlers /\ q.phase = "routed" /\ Covers(q, book) /\ book' = book
  BY BegunIsSound DEF Served, CoverInv
<1>2. req' = [req EXCEPT ![r] = h]
  BY DEF Served
<1>3. /\ h.phase = "served" /\ h.user = q.user /\ h.kind = q.kind /\ h.tokens = t
      /\ h.charge = c /\ h.disturbed = (q.disturbed \/ depth > q.gateDepth)
  BY <1>1 DEF Handlers
<1>4. t \in Nat /\ depth \in Nat /\ q.gateDepth \in Nat /\ MaxTokens \in Nat
  BY <1>1, BillingConstants DEF ObservedTokens, Handlers, CoverInv, IInv
<1>5. ASSUME q.user # Anonymous, ~h.disturbed, t \in 1 .. MaxTokens
      PROVE  Affords(book[q.user], c)
  <2>1. c = Price(q.sens, t, depth)
    BY <1>1, <1>5 DEF Covers, Charge, Price, Chat
  <2>2. ~q.disturbed /\ depth <= q.gateDepth
    <3> HIDE DEF h
    <3>1. ~q.disturbed /\ ~(depth > q.gateDepth)
      BY <1>3, <1>5, Zenon
    <3> QED
      BY <1>4, <3>1
  <2>3. Affords(book[q.user], Price(q.sens, MaxTokens, q.gateDepth))
    BY <1>1, <1>5, <2>2 DEF Covers
  <2>4. /\ c \in Nat /\ Price(q.sens, MaxTokens, q.gateDepth) \in Nat
        /\ c <= Price(q.sens, MaxTokens, q.gateDepth)
    BY <1>4, <1>5, <2>1, <2>2, PriceMonotone
  <2>5. book[q.user] \in Totals
    BY <1>1, <1>5, AccountsHold DEF Handlers, CoverInv, IInv
  <2> QED
    BY <2>3, <2>4, <2>5, Affordable
<1>6. Covers(h, book')
  BY <1>1, <1>3, <1>5 DEF Covers
<1>7. NobodyPoorer(book, book')
  BY <1>1 DEF NobodyPoorer
<1> HIDE DEF h
<1> QED
  BY <1>2, <1>6, <1>7, OneCovered

(* The other steps of a handler before its debit credit somebody, or       *)
(* charge the treasury, which is nobody's consumer account.                *)
LEMMA CreditsCover ==
    ASSUME CoverInv, IInv', Treasury \notin Users, NEW r \in Requests,
           \/ CreditPointerHost(r) \/ ChargeTreasury(r)
           \/ CreditReward(r) \/ NoReward(r) \/ CreditMargin(r)
    PROVE  CoverInv'
<1>1. req[r] \in Handlers /\ Covers(req[r], book) /\ book \in [Accounts -> Totals]
  BY BegunIsSound DEF CreditPointerHost, ChargeTreasury, CreditReward, NoReward,
                      CreditMargin, CoverInv, IInv
<1>2. /\ CoordinationReward \in Nat /\ req[r].node \in Accounts /\ Margin(r) \in Nat
      /\ ProviderReward(LaneOf(req[r].kind), req[r].sens, req[r].tokens) \in Nat
  <2>1. ProviderReward(LaneOf(req[r].kind), req[r].sens, req[r].tokens) \in Nat
    BY <1>1, RewardAtMostCost DEF Handlers
  <2> QED
    BY <1>1, <2>1, BillingConstants DEF Handlers, Margin, Excess
<1>3. NobodyPoorer(book, book')
  <2>1. CASE CreditPointerHost(r)
    BY <1>1, <1>2, <2>1, CreditsEnrich, AccountsHold DEF CreditPointerHost, Credit
  <2>2. CASE ChargeTreasury(r)
    BY <1>1, <1>2, <2>2, CreditsEnrich, AccountsHold DEF ChargeTreasury, TryDebit
  <2>3. CASE CreditReward(r)
    BY <1>1, <1>2, <2>3, CreditsEnrich DEF CreditReward, Credit
  <2>4. CASE NoReward(r)
    BY <2>4 DEF NoReward, NobodyPoorer
  <2>5. CASE CreditMargin(r)
    <3> HIDE DEF Margin
    <3> QED
      BY <1>1, <1>2, <2>5, CreditsEnrich, AccountsHold DEF CreditMargin, Credit
  <2> QED
    BY <2>1, <2>2, <2>3, <2>4, <2>5
<1>4. Covers(req[r], book')
  BY <1>1, <1>3, StillCovered
<1>5. CASE CreditPointerHost(r) \/ ChargeTreasury(r)
  <2>1. PICK phase \in {"hostPaid", "routed"} :
            req' = [req EXCEPT ![r] = [req[r] EXCEPT !.phase = phase]]
    BY <1>5 DEF CreditPointerHost, ChargeTreasury
  <2>2. req[r].phase \in {"pointer", "hostPaid"}
    BY <1>5 DEF CreditPointerHost, ChargeTreasury
  <2>3. Covers([req[r] EXCEPT !.phase = phase], book')
    BY <1>1, <1>4, <2>2 DEF Covers, Handlers
  <2> QED
    BY <1>3, <2>1, <2>3, OneCovered
<1>6. CASE CreditReward(r)
  <2>1. /\ req' = [req EXCEPT ![r] = [req[r] EXCEPT !.phase = "rewarded", !.earned = TRUE]]
        /\ req[r].phase = "served"
    BY <1>6 DEF CreditReward
  <2>2. Covers([req[r] EXCEPT !.phase = "rewarded", !.earned = TRUE], book')
    BY <1>1, <1>4, <2>1 DEF Covers, Handlers
  <2> QED
    BY <1>3, <2>1, <2>2, OneCovered
<1>7. CASE NoReward(r) \/ CreditMargin(r)
  <2>1. /\ req' = [req EXCEPT ![r] = [req[r] EXCEPT !.phase = "billing", !.node = Treasury]]
        /\ req[r].phase \in {"served", "rewarded"}
    BY <1>7 DEF NoReward, CreditMargin
  <2>2. Covers([req[r] EXCEPT !.phase = "billing", !.node = Treasury], book')
    BY <1>1, <1>4, <2>1 DEF Covers, Handlers
  <2> QED
    BY <1>3, <2>1, <2>2, OneCovered
<1> QED
  BY <1>5, <1>6, <1>7

(* A dispatch that failed charges nobody; nobody is billed without tokens. *)
LEMMA EndCovers ==
    ASSUME CoverInv, IInv', NEW r \in Requests, DispatchFails(r) \/ NotBilled(r)
    PROVE  CoverInv'
<1>1. /\ req[r] \in Handlers /\ Covers(req[r], book) /\ book' = book
      /\ req[r].phase \in {"routed", "billing"}
      /\ req' = [req EXCEPT ![r] = Ended(req[r], "done")]
  BY BegunIsSound DEF DispatchFails, NotBilled, CoverInv
<1>2. req[r].user # Anonymous => req[r].tokens = 0
  <2>1. CASE DispatchFails(r)
    BY <1>1, <2>1 DEF DispatchFails, Covers
  <2>2. CASE NotBilled(r)
    BY <1>1, <2>2 DEF NotBilled, Billed, Handlers
  <2> QED
    BY <2>1, <2>2
<1>3. Covers(Ended(req[r], "done"), book')
  BY <1>1, <1>2 DEF Covers, Ended, Handlers
<1>4. NobodyPoorer(book, book')
  BY <1>1 DEF NobodyPoorer
<1> QED
  BY <1>1, <1>3, <1>4, OneCovered

(* The debit takes from one consumer, whose other requests it disturbs.    *)
LEMMA DebitCovers ==
    ASSUME CoverInv, IInv', NEW r \in Requests, Debit(r)
    PROVE  CoverInv'
<1> DEFINE q == req[r]
           u == q.user
<1>1. /\ q \in Handlers /\ Covers(q, book) /\ q.phase = "billing"
      /\ u # Anonymous /\ u \in Users
  BY BegunIsSound DEF Debit, Billed, CoverInv, Handlers
<1>2. \A v \in Users : v # u => book'[v] = book[v]
  BY <1>1, AccountsHold DEF Debit, TryDebit, CoverInv, IInv
<1>3. ASSUME NEW s \in Requests, req'[s].phase # "new"
      PROVE  Covers(req'[s], book')
  <2>1. CASE s = r
    <3>1. req'[r] = [Ended(q, "done") EXCEPT !.paid = Affords(book[u], q.charge)]
      BY DEF Debit
    <3>2. ~q.disturbed /\ q.tokens \in 1 .. MaxTokens => Affords(book[u], q.charge)
      BY <1>1 DEF Covers
    <3>3. Affords(book[u], q.charge) \in BOOLEAN
      BY DEF Affords
    <3>4. /\ req'[r].user = q.user /\ req'[r].kind = q.kind /\ req'[r].phase = "done"
          /\ req'[r].tokens = q.tokens /\ req'[r].disturbed = q.disturbed
          /\ req'[r].paid = Affords(book[u], q.charge)
      BY <1>1, <3>1, <3>3 DEF Ended, Handlers
    <3> QED
      BY <1>1, <2>1, <3>2, <3>4 DEF Covers
  <2>2. CASE s # r
    <3>1. /\ req[s].phase # "new"
          /\ IF req[s].phase \notin {"new", "done", "crashed"} /\ req[s].user = u
             THEN req'[s] = [req[s] EXCEPT !.disturbed = TRUE]
             ELSE req'[s] = req[s]
      BY <1>3, <2>2 DEF Debit
    <3>2. req[s] \in Handlers /\ Covers(req[s], book)
      BY <3>1, BegunIsSound DEF CoverInv
    <3>3. CASE req'[s] = [req[s] EXCEPT !.disturbed = TRUE]
      BY <3>2, <3>3 DEF Covers, Handlers
    <3>4. CASE req'[s] = req[s] /\ req[s].phase \in {"done", "crashed"}
      BY <3>2, <3>4 DEF Covers
    <3>5. CASE req'[s] = req[s] /\ req[s].user # u
      <4>1. req[s].user # Anonymous => req[s].user \in Users
        BY <3>2 DEF Handlers
      <4>2. req[s].user # Anonymous => book'[req[s].user] = book[req[s].user]
        BY <1>2, <3>5, <4>1
      <4> QED
        BY <3>2, <3>5, <4>2 DEF Covers
    <3> QED
      BY <3>1, <3>3, <3>4, <3>5
  <2> QED
    BY <2>1, <2>2
<1> QED
  BY <1>3 DEF CoverInv

(* A crash leaves handlers that are over; the book is on disk.             *)
LEMMA CrashCovers ==
    ASSUME CoverInv, IInv', Crash
    PROVE  CoverInv'
<1>1. ASSUME NEW s \in Requests, req'[s].phase # "new"
      PROVE  Covers(req'[s], book')
  <2>1. CASE req[s].phase \in {"new", "done"}
    <3>1. req'[s] = req[s] /\ book' = book
      BY <2>1 DEF Crash
    <3> QED
      BY <1>1, <3>1 DEF CoverInv
  <2>2. CASE req[s].phase \notin {"new", "done"}
    <3>1. req'[s] = Ended([req[s] EXCEPT !.disturbed = FALSE], "crashed")
      BY <2>2 DEF Crash
    <3>2. req[s] \in Handlers /\ Covers(req[s], book)
      BY <2>2, BegunIsSound DEF CoverInv
    <3>3. /\ req'[s].user = req[s].user /\ req'[s].kind = req[s].kind
          /\ req'[s].phase = "crashed"
      BY <3>1, <3>2 DEF Ended, Handlers
    <3> QED
      BY <3>2, <3>3 DEF Covers
  <2> QED
    BY <2>1, <2>2
<1> QED
  BY <1>1 DEF CoverInv

(* Unbilled handlers have no consumer, and the queue has no part in what   *)
(* was promised at the gate.                                               *)
LEMMA UnbilledCovers ==
    ASSUME CoverInv, IInv', NEW r \in Requests, NEW kind \in Kinds, NEW s \in Sensitivities,
           StartUnbilled(r, kind, s)
    PROVE  CoverInv'
<1> DEFINE h == Begun(kind, NoJob, Anonymous, IF kind = "probe" THEN "low" ELSE s, "routed")
<1>1. req' = [req EXCEPT ![r] = h] /\ book' = book
  BY DEF StartUnbilled
<1>2. Covers(h, book')
  BY DEF Begun, Covers
<1>3. NobodyPoorer(book, book')
  BY <1>1 DEF NobodyPoorer
<1> HIDE DEF h
<1> QED
  BY <1>1, <1>2, <1>3, OneCovered

(* The credit gate is honest: whoever passes it and stays undisturbed can  *)
(* pay, for every price, queue, and interleaving with other requests.  The *)
(* treasury's account must not be a consumer's, for creditPointerHost      *)
(* charges it while its jobs are under way.                                *)
THEOREM GateIsHonest ==
    ASSUME Treasury \notin Users
    PROVE  Spec => []GateCoversDebit
<1>1. Init => CoverInv
  BY InitIsSound DEF Init, CoverInv, NewRequest
<1>2. CoverInv /\ [Next]_vars => CoverInv'
  <2> SUFFICES ASSUME CoverInv, [Next]_vars PROVE CoverInv'
    OBVIOUS
  <2>1. IInv'
    BY NextKeepsIInv DEF CoverInv
  <2>2. ASSUME NEW r \in Requests, NEW kind \in Kinds, NEW s \in Sensitivities,
               \/ \E j \in Jobs, u \in Users \cup {Anonymous} : Gate(r, kind, j, u, s)
               \/ StartUnbilled(r, kind, s)
        PROVE  CoverInv'
    BY <2>1, <2>2, GateCovers, UnbilledCovers
  <2>3. ASSUME NEW r \in Requests, NEW n \in Nodes, NEW reported \in Reported,
               Served(r, n, reported)
        PROVE  CoverInv'
    BY <2>1, <2>3, ServedCovers
  <2>4. ASSUME NEW r \in Requests,
               \/ CreditPointerHost(r) \/ ChargeTreasury(r)
               \/ CreditReward(r) \/ NoReward(r) \/ CreditMargin(r)
        PROVE  CoverInv'
    BY <2>1, <2>4, CreditsCover
  <2>5. ASSUME NEW r \in Requests, DispatchFails(r) \/ NotBilled(r) \/ Debit(r)
        PROVE  CoverInv'
    BY <2>1, <2>5, EndCovers, DebitCovers
  <2>6. CASE (\E d \in Depths : QueueMoves(d)) \/ UNCHANGED vars
    BY <2>1, <2>6 DEF QueueMoves, vars, CoverInv
  <2>7. CASE Crash
    BY <2>1, <2>7, CrashCovers
  <2> QED
    BY <2>2, <2>3, <2>4, <2>5, <2>6, <2>7 DEF Next
<1>3. CoverInv => GateCoversDebit
  <2> SUFFICES ASSUME CoverInv, NEW r \in Started, req[r].phase = "done", Billed(r),
                      ~req[r].paid, req[r].tokens <= MaxTokens
               PROVE  req[r].disturbed
    BY DEF GateCoversDebit
  <2>1. req[r] \in Handlers /\ Covers(req[r], book)
    BY BegunIsSound DEF CoverInv, Started
  <2>2. req[r].user # Anonymous /\ req[r].tokens \in 1 .. MaxTokens
    BY <2>1, BillingConstants DEF Billed, Handlers
  <2> QED
    BY <2>1, <2>2 DEF Covers
<1> QED
  BY <1>1, <1>2, <1>3, PTL DEF Spec

-----------------------------------------------------------------------------
(* What a handler has coming to it or owes: the reward between the node's  *)
(* credit and the treasury's, the whole charge before its debit.           *)
DueOf(h) ==
    IF h.phase = "rewarded" THEN ProviderReward(LaneOf(h.kind), h.sens, h.tokens)
    ELSE UnpaidOf(h)

Due(q) == SumFunctionOnSet([r \in Requests |-> DueOf(q[r])], Requests)

(* Nobody earns before the answer, nobody has paid before the end.         *)
Progress(h) ==
    /\ h.phase \in {"pointer", "hostPaid", "routed", "served"} => ~h.earned
    /\ h.phase \notin {"done", "crashed"} => ~h.paid
    /\ h.phase = "rewarded" => h.earned

(* The books balance at every ledger call, not only between handlers: a    *)
(* node paid alone has minted its reward, and the margin is not there yet. *)
MintInv ==
    /\ IInv
    /\ \A r \in Requests : req[r].phase # "new" => Progress(req[r])
    /\ Minted(book) <= Collected(book) + Due(req)

(* Those whose earnings are summed.                                        *)
Earners == Nodes \cup {Treasury}

(* The finitely many accounts and requests whose sums are taken; a pointer *)
(* host's reward is not for a job, so its account is not one of them.      *)
Finite ==
    /\ IsFiniteSet(Users) /\ IsFiniteSet(Nodes) /\ IsFiniteSet(Requests)
    /\ Host \notin Nodes \cup {Treasury}

(* A handler past its beginning is typed, and owes a natural amount.       *)
LEMMA DueIsNat ==
    ASSUME NEW h, h = NewRequest \/ Sound(h)
    PROVE  DueOf(h) \in Nat /\ UnpaidOf(h) \in Nat
<1>1. CASE h = NewRequest
  BY <1>1 DEF NewRequest, DueOf, UnpaidOf
<1>2. CASE Sound(h)
  <2>1. h.charge \in Nat /\ h.tokens \in Nat
    BY <1>2 DEF Sound, Handlers
  <2>2. ProviderReward(LaneOf(h.kind), h.sens, h.tokens) \in Nat
    BY <2>1, RewardAtMostCost
  <2> QED
    BY <2>1, <2>2 DEF DueOf, UnpaidOf
<1> QED
  BY <1>1, <1>2

(* The sums are natural numbers.                                           *)
LEMMA BookSums ==
    ASSUME Finite, NEW b \in [Accounts -> Totals]
    PROVE  Minted(b) \in Nat /\ Collected(b) \in Nat
<1>1. IsFiniteSet(Nodes \cup {Treasury}) /\ IsFiniteSet(Users)
  BY FS_AddElement DEF Finite
<1>2. /\ \A a \in Nodes \cup {Treasury} : [x \in Accounts |-> b[x].earned][a] \in Nat
      /\ \A a \in Users : [x \in Accounts |-> b[x].debited][a] \in Nat
  BY AccountsHold DEF Totals
<1> QED
  BY <1>1, <1>2, SumIsNat DEF Minted, Collected

(* The sum of what the handlers owe.                                       *)
LEMMA DueSum ==
    ASSUME Finite, NEW q, \A s \in Requests : q[s] = NewRequest \/ Sound(q[s])
    PROVE  Due(q) \in Nat
<1>1. \A s \in Requests : [r \in Requests |-> DueOf(q[r])][s] \in Nat
  BY DueIsNat
<1> QED
  BY <1>1, SumIsNat DEF Due, Finite

(* The book after a credit.                                                *)
Credited(b, a, x) == [b EXCEPT ![a] = Posted(@, "earn", x)]

(* A credit to an account adds its amount to the mint if it is a node's or *)
(* the treasury's, and nothing otherwise.                                  *)
LEMMA CreditMints ==
    ASSUME Finite, NEW b \in [Accounts -> Totals], NEW a \in Accounts, NEW x \in Nat,
           NEW c, c = Credited(b, a, x)
    PROVE  /\ a \in Earners => Minted(c) = Minted(b) + x
           /\ a \notin Earners => Minted(c) = Minted(b)
           /\ Collected(c) = Collected(b)
<1> DEFINE S == Nodes \cup {Treasury}
           e == [y \in Accounts |-> b[y].earned]
           f == [y \in Accounts |-> c[y].earned]
<1>1. c \in [Accounts -> Totals] /\ IsFiniteSet(S) /\ S \subseteq Accounts
  BY BookType, AccountsHold, FS_AddElement DEF Finite, Credited
<1>2. ASSUME NEW y \in Accounts
      PROVE  /\ c[y].debited = b[y].debited
             /\ y # a => c[y].earned = b[y].earned
             /\ y = a => c[y].earned = b[y].earned + x
             /\ b[y].earned \in Nat /\ c[y].earned \in Nat
  BY <1>1 DEF Posted, Totals, Credited
<1>3. Collected(c) = Collected(b)
  <2>1. [y \in Accounts |-> c[y].debited] = [y \in Accounts |-> b[y].debited]
    BY <1>2
  <2> QED
    BY <2>1 DEF Collected
<1>4. CASE a \in S
  <2>1. \A y \in S : e[y] \in Nat /\ f[y] \in Nat /\ (y # a => f[y] = e[y])
    BY <1>1, <1>2
  <2>2. f[a] = e[a] + x /\ e[a] \in Nat
    BY <1>2
  <2> HIDE DEF e, f, S
  <2>3. SumFunctionOnSet(f, S) + e[a] = SumFunctionOnSet(e, S) + f[a]
    BY <1>1, <1>4, <2>1, SumMoves
  <2>4. SumFunctionOnSet(f, S) \in Nat /\ SumFunctionOnSet(e, S) \in Nat
    BY <1>1, <2>1, SumIsNat
  <2>5. SumFunctionOnSet(f, S) = SumFunctionOnSet(e, S) + x
    BY <2>2, <2>3, <2>4
  <2> QED
    BY <1>3, <1>4, <2>5 DEF Minted, e, f, S, Earners
<1>5. CASE a \notin S
  <2>1. \A y \in S : e[y] \in Nat /\ f[y] \in Nat /\ e[y] <= f[y] /\ f[y] <= e[y]
    BY <1>1, <1>2, <1>5
  <2> HIDE DEF e, f, S
  <2>2. /\ SumFunctionOnSet(f, S) <= SumFunctionOnSet(e, S)
        /\ SumFunctionOnSet(e, S) <= SumFunctionOnSet(f, S)
    BY <1>1, <2>1, SumGrows
  <2>3. SumFunctionOnSet(f, S) \in Nat /\ SumFunctionOnSet(e, S) \in Nat
    BY <1>1, <2>1, SumIsNat
  <2>4. SumFunctionOnSet(f, S) = SumFunctionOnSet(e, S)
    BY <2>2, <2>3
  <2> QED
    BY <1>3, <1>5, <2>4 DEF Minted, e, f, S, Earners
<1> QED
  BY <1>4, <1>5

(* A debit mints nothing, and collects its amount from a consumer.         *)
LEMMA DebitCollects ==
    ASSUME Finite, NEW b \in [Accounts -> Totals], NEW a \in Accounts, NEW x \in Nat,
           NEW c, c = [b EXCEPT ![a] = Posted(@, "debit", x)]
    PROVE  /\ Minted(c) = Minted(b)
           /\ a \in Users => Collected(c) = Collected(b) + x
           /\ Collected(b) <= Collected(c)
<1> DEFINE d == [y \in Accounts |-> b[y].debited]
           f == [y \in Accounts |-> c[y].debited]
<1>1. c \in [Accounts -> Totals] /\ IsFiniteSet(Users) /\ Users \subseteq Accounts
  BY BookType, AccountsHold DEF Finite
<1>2. ASSUME NEW y \in Accounts
      PROVE  /\ c[y].earned = b[y].earned
             /\ y # a => c[y].debited = b[y].debited
             /\ y = a => c[y].debited = b[y].debited + x
             /\ b[y].debited \in Nat /\ c[y].debited \in Nat
  BY <1>1 DEF Posted, Totals
<1>3. Minted(c) = Minted(b)
  <2>1. [y \in Accounts |-> c[y].earned] = [y \in Accounts |-> b[y].earned]
    BY <1>2
  <2> QED
    BY <2>1 DEF Minted
<1>4. \A y \in Users : /\ d[y] \in Nat /\ f[y] \in Nat /\ d[y] <= f[y]
                       /\ y # a => f[y] = d[y]
  BY <1>1, <1>2
<1>5. f[a] = d[a] + x /\ d[a] \in Nat
  BY <1>2
<1>6. SumFunctionOnSet(d, Users) <= SumFunctionOnSet(f, Users)
  <2> HIDE DEF d, f
  <2> QED
    BY <1>1, <1>4, SumGrows
<1>7. ASSUME a \in Users
      PROVE  SumFunctionOnSet(f, Users) = SumFunctionOnSet(d, Users) + x
  <2> HIDE DEF d, f
  <2>1. SumFunctionOnSet(f, Users) + d[a] = SumFunctionOnSet(d, Users) + f[a]
    BY <1>1, <1>4, <1>7, SumMoves
  <2>2. SumFunctionOnSet(f, Users) \in Nat /\ SumFunctionOnSet(d, Users) \in Nat
    BY <1>1, <1>4, SumIsNat
  <2> QED
    BY <1>5, <2>1, <2>2
<1> QED
  BY <1>3, <1>6, <1>7 DEF Collected

(* A step that changes what only one handler owes.                         *)
LEMMA OneDueMoves ==
    ASSUME MintInv, IInv', Finite, NEW r \in Requests,
           \A s \in Requests \ {r} : DueOf(req'[s]) = DueOf(req[s])
    PROVE  Due(req') + DueOf(req[r]) = Due(req) + DueOf(req'[r])
<1> DEFINE f == [s \in Requests |-> DueOf(req[s])]
           g == [s \in Requests |-> DueOf(req'[s])]
<1>1. \A s \in Requests : f[s] \in Nat /\ g[s] \in Nat /\ (s # r => g[s] = f[s])
  BY DueIsNat DEF MintInv, IInv
<1>2. f[r] = DueOf(req[r]) /\ g[r] = DueOf(req'[r])
  OBVIOUS
<1>3. Due(req') = SumFunctionOnSet(g, Requests) /\ Due(req) = SumFunctionOnSet(f, Requests)
  BY DEF Due
<1> HIDE DEF f, g
<1>4. SumFunctionOnSet(g, Requests) + f[r] = SumFunctionOnSet(f, Requests) + g[r]
  BY <1>1, SumMoves DEF Finite
<1> QED
  BY <1>2, <1>3, <1>4

(* So the books still balance when a handler's step mints no more than it  *)
(* makes its own due grow, or than it collects.                            *)
LEMMA OneHandlerBalances ==
    ASSUME MintInv, IInv', Finite, NEW r \in Requests,
           \A s \in Requests \ {r} :
              /\ DueOf(req'[s]) = DueOf(req[s])
              /\ req'[s].phase # "new" => Progress(req'[s]),
           req'[r].phase # "new" => Progress(req'[r]),
           Minted(book') + Collected(book) + DueOf(req[r])
              <= Minted(book) + Collected(book') + DueOf(req'[r])
    PROVE  MintInv'
<1>1. Due(req') + DueOf(req[r]) = Due(req) + DueOf(req'[r])
  BY OneDueMoves
<1>2. /\ Minted(book) \in Nat /\ Collected(book) \in Nat
      /\ Minted(book') \in Nat /\ Collected(book') \in Nat
  BY BookSums DEF MintInv, IInv
<1>3. /\ \A s \in Requests : req[s] = NewRequest \/ Sound(req[s])
      /\ \A s \in Requests : req'[s] = NewRequest \/ Sound(req'[s])
  BY DEF MintInv, IInv
<1>4. Due(req) \in Nat /\ Due(req') \in Nat
  BY <1>3, DueSum
<1>5. DueOf(req[r]) \in Nat /\ DueOf(req'[r]) \in Nat
  BY <1>3, DueIsNat
<1>6. Minted(book) <= Collected(book) + Due(req)
  BY DEF MintInv
<1>7. Minted(book') <= Collected(book') + Due(req')
  BY <1>1, <1>2, <1>4, <1>5, <1>6
<1> QED
  BY <1>7 DEF MintInv

(* The same for a step that replaces one handler.                          *)
LEMMA OneHandlerMints ==
    ASSUME MintInv, IInv', Finite, NEW r \in Requests, NEW h,
           req' = [req EXCEPT ![r] = h], Progress(h),
           Minted(book') + Collected(book) + DueOf(req[r])
              <= Minted(book) + Collected(book') + DueOf(h)
    PROVE  MintInv'
<1>1. \A s \in Requests : req'[s] = IF s = r THEN h ELSE req[s]
  BY DEF MintInv, IInv
<1>2. \A s \in Requests \ {r} :
          /\ DueOf(req'[s]) = DueOf(req[s])
          /\ req'[s].phase # "new" => Progress(req'[s])
  BY <1>1 DEF MintInv
<1>3. req'[r] = h
  BY <1>1
<1> QED
  BY <1>2, <1>3, OneHandlerBalances

(* A start, an answer, a failed dispatch and a refused reward mint and     *)
(* collect nothing, and leave the handler owing nothing.                   *)
LEMMA QuietMints ==
    ASSUME MintInv, IInv', Finite, NEW r \in Requests,
           \/ \E kind \in Kinds, s \in Sensitivities :
                 \/ \E j \in Jobs, u \in Users \cup {Anonymous} : Gate(r, kind, j, u, s)
                 \/ StartUnbilled(r, kind, s)
           \/ \E n \in Nodes, reported \in Reported : Served(r, n, reported)
           \/ DispatchFails(r) \/ NoReward(r)
    PROVE  MintInv'
<1>1. /\ book' = book
      /\ Minted(book) \in Nat /\ Collected(book) \in Nat
  BY BookSums DEF Gate, StartUnbilled, Served, DispatchFails, NoReward, MintInv, IInv
<1>2. ASSUME NEW h, req' = [req EXCEPT ![r] = h], Progress(h), DueOf(h) = 0,
             DueOf(req[r]) = 0
      PROVE  MintInv'
  <2>1. Minted(book') + Collected(book) + DueOf(req[r])
            <= Minted(book) + Collected(book') + DueOf(h)
    BY <1>1, <1>2
  <2> QED
    BY <1>2, <2>1, OneHandlerMints
<1>3. CASE \E kind \in Kinds, s \in Sensitivities :
              \/ \E j \in Jobs, u \in Users \cup {Anonymous} : Gate(r, kind, j, u, s)
              \/ StartUnbilled(r, kind, s)
  <2>1. PICK kind, j, u, s, phase :
            /\ req' = [req EXCEPT ![r] = Begun(kind, j, u, s, phase)]
            /\ phase \in {"pointer", "routed"}
    <3>1. CASE \E kind \in Kinds, s \in Sensitivities, j \in Jobs,
                  u \in Users \cup {Anonymous} : Gate(r, kind, j, u, s)
      BY <3>1, Zenon DEF Gate
    <3>2. CASE \E kind \in Kinds, s \in Sensitivities : StartUnbilled(r, kind, s)
      <4>1. \E kind, s : req' = [req EXCEPT ![r] = Begun(kind, NoJob, Anonymous, s, "routed")]
        BY <3>2, Zenon DEF StartUnbilled
      <4>2. "routed" \in {"pointer", "routed"}
        OBVIOUS
      <4> QED
        BY <4>1, <4>2, Zenon
    <3> QED
      BY <1>3, <3>1, <3>2, Zenon
  <2> DEFINE h == Begun(kind, j, u, s, phase)
  <2>2. Progress(h) /\ DueOf(h) = 0
    <3>1. h.phase = phase /\ h.earned = FALSE /\ h.paid = FALSE
      BY DEF Begun
    <3> HIDE DEF h
    <3> QED
      BY <2>1, <3>1 DEF Progress, DueOf, UnpaidOf
  <2>3. req[r].phase = "new"
    BY <1>3 DEF Gate, StartUnbilled
  <2>4. DueOf(req[r]) = 0
    BY <2>3 DEF DueOf, UnpaidOf
  <2> QED
    BY <1>2, <2>1, <2>2, <2>4
<1>4. CASE \/ \E n \in Nodes, reported \in Reported : Served(r, n, reported)
           \/ DispatchFails(r) \/ NoReward(r)
  <2>1. req[r].phase \in {"routed", "served"}
    BY <1>4 DEF Served, DispatchFails, NoReward
  <2>2. req[r] \in Handlers /\ ~req[r].earned /\ ~req[r].paid
    BY <2>1, BegunIsSound DEF MintInv, Progress
  <2>3. DueOf(req[r]) = 0
    BY <2>1, <2>2 DEF DueOf, UnpaidOf
  <2>4. CASE \E n \in Nodes, reported \in Reported : Served(r, n, reported)
    <3>1. PICK n \in Nodes, reported \in Reported : Served(r, n, reported)
      BY <2>4
    <3> DEFINE t == ObservedTokens(req[r].kind, reported)
               h == [req[r] EXCEPT
                       !.phase = "served", !.node = n, !.tokens = t,
                       !.charge = Charge(req[r].kind, req[r].sens, t),
                       !.disturbed = @ \/ depth > req[r].gateDepth, !.gateDepth = 0]
    <3>2. req' = [req EXCEPT ![r] = h]
      BY <3>1 DEF Served
    <3>3. h.phase = "served" /\ h.earned = req[r].earned /\ h.paid = req[r].paid
      BY <2>2 DEF Handlers
    <3> HIDE DEF h
    <3>4. Progress(h) /\ DueOf(h) = 0
      BY <2>2, <3>3 DEF Progress, DueOf, UnpaidOf
    <3> QED
      BY <1>2, <2>3, <3>2, <3>4
  <2>5. CASE DispatchFails(r)
    <3> DEFINE h == Ended(req[r], "done")
    <3>1. req' = [req EXCEPT ![r] = h]
      BY <2>5 DEF DispatchFails
    <3>2. h.phase = "done" /\ h.earned = req[r].earned /\ h.paid = req[r].paid
      BY <2>2 DEF Handlers, Ended
    <3> HIDE DEF h
    <3>3. Progress(h) /\ DueOf(h) = 0
      BY <2>2, <3>2 DEF Progress, DueOf, UnpaidOf
    <3> QED
      BY <1>2, <2>3, <3>1, <3>3
  <2>6. CASE NoReward(r)
    <3> DEFINE h == [req[r] EXCEPT !.phase = "billing", !.node = Treasury]
    <3>1. req' = [req EXCEPT ![r] = h]
      BY <2>6 DEF NoReward
    <3>2. h.phase = "billing" /\ h.earned = req[r].earned /\ h.paid = req[r].paid
      BY <2>2 DEF Handlers
    <3> HIDE DEF h
    <3>3. Progress(h) /\ DueOf(h) = 0
      BY <2>2, <3>2 DEF Progress, DueOf, UnpaidOf
    <3> QED
      BY <1>2, <2>3, <3>1, <3>3
  <2> QED
    BY <1>4, <2>4, <2>5, <2>6
<1> QED
  BY <1>3, <1>4

(* A pointer's reward is paid outside the mint, out of no consumer.        *)
LEMMA PointerMints ==
    ASSUME MintInv, IInv', Finite, NEW r \in Requests,
           CreditPointerHost(r) \/ ChargeTreasury(r)
    PROVE  MintInv'
<1>1. PICK phase \in {"hostPaid", "routed"} :
          req' = [req EXCEPT ![r] = [req[r] EXCEPT !.phase = phase]]
  BY DEF CreditPointerHost, ChargeTreasury
<1> DEFINE h == [req[r] EXCEPT !.phase = phase]
<1>2. req[r].phase \in {"pointer", "hostPaid"}
  BY DEF CreditPointerHost, ChargeTreasury
<1>3. req[r] \in Handlers /\ ~req[r].earned /\ ~req[r].paid
  BY <1>2, BegunIsSound DEF MintInv, Progress
<1>4. h.phase = phase /\ h.earned = req[r].earned /\ h.paid = req[r].paid
  BY <1>3 DEF Handlers
<1>5. Progress(h) /\ DueOf(h) = 0 /\ DueOf(req[r]) = 0
  <2> HIDE DEF h
  <2> QED
    BY <1>2, <1>3, <1>4 DEF Progress, DueOf, UnpaidOf
<1>6. /\ book \in [Accounts -> Totals] /\ CoordinationReward \in Nat
      /\ Host \in Accounts /\ Treasury \in Accounts
      /\ Minted(book) \in Nat /\ Collected(book) \in Nat
      /\ Minted(book') \in Nat /\ Collected(book') \in Nat
  BY BillingConstants, AccountsHold, BookSums DEF MintInv, IInv
<1>7. Minted(book') = Minted(book) /\ Collected(book) <= Collected(book')
  <2>1. CASE CreditPointerHost(r)
    <3>1. book' = Credited(book, Host, CoordinationReward)
      BY <2>1 DEF CreditPointerHost, Credit, Credited
    <3>2. Host \notin Earners
      BY DEF Finite, Earners
    <3>3. Minted(book') = Minted(book) /\ Collected(book') = Collected(book)
      BY <1>6, <3>1, <3>2, CreditMints
    <3> QED
      BY <1>6, <3>3
  <2>2. CASE ChargeTreasury(r)
    <3>1. \/ book' = [book EXCEPT ![Treasury] = Posted(@, "debit", CoordinationReward)]
          \/ book' = book
      BY <2>2 DEF ChargeTreasury, TryDebit
    <3> QED
      BY <1>6, <3>1, DebitCollects
  <2> QED
    BY <2>1, <2>2
<1>8. Minted(book') + Collected(book) + DueOf(req[r])
          <= Minted(book) + Collected(book') + DueOf(h)
  BY <1>5, <1>6, <1>7
<1> QED
  BY <1>1, <1>5, <1>8, OneHandlerMints

(* The node's reward is owed until the treasury's margin is credited, and  *)
(* then the charge is: the two add up to it, by the house edge.            *)
LEMMA RewardMints ==
    ASSUME MintInv, IInv', Finite, NEW r \in Requests, CreditReward(r) \/ CreditMargin(r)
    PROVE  MintInv'
<1> DEFINE q == req[r]
           reward == ProviderReward(LaneOf(q.kind), q.sens, q.tokens)
<1>1. /\ q.phase \in {"served", "rewarded"} /\ q \in Handlers
      /\ WithinEdge(q) /\ Progress(q)
  BY BegunIsSound DEF CreditReward, CreditMargin, MintInv, Sound
<1>2. /\ reward \in Nat /\ q.charge \in Nat /\ q.node \in Accounts
      /\ reward <= q.charge
  BY <1>1, RewardAtMostCost DEF Handlers, WithinEdge
<1>3. /\ book \in [Accounts -> Totals] /\ Treasury \in Accounts
      /\ Minted(book) \in Nat /\ Collected(book) \in Nat
      /\ Minted(book') \in Nat /\ Collected(book') \in Nat
  BY AccountsHold, BookSums DEF MintInv, IInv
<1>4. CASE CreditReward(r)
  <2> DEFINE h == [q EXCEPT !.phase = "rewarded", !.earned = TRUE]
  <2>1. /\ req' = [req EXCEPT ![r] = h] /\ q.phase = "served"
        /\ book' = Credited(book, q.node, reward)
    BY <1>4 DEF CreditReward, Credit, Credited
  <2>2. /\ h.phase = "rewarded" /\ h.earned /\ h.paid = q.paid
        /\ h.kind = q.kind /\ h.sens = q.sens /\ h.tokens = q.tokens
    BY <1>1 DEF Handlers
  <2>3. Progress(h) /\ DueOf(h) = reward /\ DueOf(q) = 0
    <3> HIDE DEF h
    <3> QED
      BY <1>1, <2>1, <2>2 DEF Progress, DueOf, UnpaidOf
  <2>4. Minted(book') <= Minted(book) + reward /\ Collected(book') = Collected(book)
    <3> HIDE DEF reward
    <3>1. /\ Minted(book') = Minted(book) + reward \/ Minted(book') = Minted(book)
          /\ Collected(book') = Collected(book)
      BY <1>2, <1>3, <2>1, CreditMints
    <3> QED
      BY <1>2, <1>3, <3>1
  <2>5. Minted(book') + Collected(book) + DueOf(q)
            <= Minted(book) + Collected(book') + DueOf(h)
    <3> HIDE DEF reward, h, q
    <3> QED
      BY <1>2, <1>3, <2>3, <2>4
  <2> QED
    BY <2>1, <2>3, <2>5, OneHandlerMints
<1>5. CASE CreditMargin(r)
  <2> DEFINE h == [q EXCEPT !.phase = "billing", !.node = Treasury]
             margin == Excess(q.charge, reward)
  <2>1. /\ req' = [req EXCEPT ![r] = h] /\ q.phase = "rewarded"
        /\ book' = Credited(book, Treasury, margin)
    BY <1>5 DEF CreditMargin, Credit, Credited, Margin
  <2>2. h.phase = "billing" /\ h.earned = q.earned /\ h.paid = q.paid /\ h.charge = q.charge
    BY <1>1 DEF Handlers
  <2>3. Progress(h) /\ DueOf(h) = q.charge /\ DueOf(q) = reward
    <3> HIDE DEF h
    <3> QED
      BY <1>1, <2>1, <2>2 DEF Progress, DueOf, UnpaidOf
  <2>4. margin \in Nat /\ reward + margin = q.charge
    BY <1>2 DEF Excess
  <2>5. Minted(book') = Minted(book) + margin /\ Collected(book') = Collected(book)
    <3> HIDE DEF margin
    <3>1. Treasury \in Earners
      BY DEF Earners
    <3> QED
      BY <1>3, <2>1, <2>4, <3>1, CreditMints
  <2>6. Minted(book') + Collected(book) + DueOf(q)
            <= Minted(book) + Collected(book') + DueOf(h)
    <3> HIDE DEF reward, margin, h, q
    <3> QED
      BY <1>2, <1>3, <2>3, <2>4, <2>5
  <2> QED
    BY <2>1, <2>3, <2>6, OneHandlerMints
<1> QED
  BY <1>4, <1>5

(* What a debit collects is what its handler no longer owes; the caller's  *)
(* other requests are only marked disturbed.                               *)
LEMMA DebitMints ==
    ASSUME MintInv, IInv', Finite, NEW r \in Requests, Debit(r)
    PROVE  MintInv'
<1> DEFINE q == req[r]
           u == q.user
           ok == Affords(book[u], q.charge)
           h == [Ended(q, "done") EXCEPT !.paid = ok]
<1>1. /\ q.phase = "billing" /\ q \in Handlers /\ Progress(q)
      /\ u \in Users /\ u \in Accounts /\ q.charge \in Nat
  BY BegunIsSound, AccountsHold DEF Debit, Billed, MintInv, Handlers
<1>2. ok \in BOOLEAN
  BY DEF Affords
<1>3. req'[r] = h
  BY DEF Debit
<1>4. h.phase = "done" /\ h.earned = q.earned /\ h.paid = ok /\ h.charge = q.charge
  BY <1>1, <1>2 DEF Ended, Handlers
<1>5. /\ book \in [Accounts -> Totals]
      /\ Minted(book) \in Nat /\ Collected(book) \in Nat
      /\ Minted(book') \in Nat /\ Collected(book') \in Nat
  BY BookSums DEF MintInv, IInv
<1>6. DueOf(q) = IF q.earned THEN q.charge ELSE 0
  BY <1>1 DEF DueOf, UnpaidOf, Progress
<1>7. DueOf(h) = IF q.earned /\ ~ok THEN q.charge ELSE 0
  <2> HIDE DEF h, ok
  <2> QED
    BY <1>4 DEF DueOf, UnpaidOf
<1>8. /\ ok => Minted(book') = Minted(book) /\ Collected(book') = Collected(book) + q.charge
      /\ ~ok => book' = book
  <2>1. /\ ok => book' = [book EXCEPT ![u] = Posted(@, "debit", q.charge)]
        /\ ~ok => book' = book
    BY DEF Debit, TryDebit
  <2> HIDE DEF ok, u
  <2> QED
    BY <1>1, <1>5, <2>1, DebitCollects
<1>9. Minted(book') + Collected(book) + DueOf(q)
          <= Minted(book) + Collected(book') + DueOf(h)
  <2> HIDE DEF h, ok
  <2>1. CASE ok
    <3>1. DueOf(h) = 0 /\ DueOf(q) \in {0, q.charge}
      BY <1>6, <1>7, <2>1
    <3> HIDE DEF q
    <3> QED
      BY <1>1, <1>5, <1>8, <2>1, <3>1
  <2>2. CASE ~ok
    <3>1. DueOf(h) = DueOf(q) /\ DueOf(q) \in {0, q.charge}
      BY <1>6, <1>7, <2>2
    <3> HIDE DEF q
    <3> QED
      BY <1>1, <1>5, <1>8, <2>2, <3>1
  <2> QED
    BY <2>1, <2>2
<1>10. ASSUME NEW s \in Requests \ {r}
       PROVE  /\ DueOf(req'[s]) = DueOf(req[s])
              /\ req'[s].phase # "new" => Progress(req'[s])
  <2>1. \/ req'[s] = req[s]
        \/ req[s].phase # "new" /\ req'[s] = [req[s] EXCEPT !.disturbed = TRUE]
    BY DEF Debit
  <2>2. CASE req'[s] = req[s]
    BY <2>2 DEF MintInv
  <2>3. CASE req[s].phase # "new" /\ req'[s] = [req[s] EXCEPT !.disturbed = TRUE]
    <3>1. req[s] \in Handlers /\ Progress(req[s])
      BY <2>3, BegunIsSound DEF MintInv
    <3>2. /\ req'[s].phase = req[s].phase /\ req'[s].earned = req[s].earned
          /\ req'[s].paid = req[s].paid /\ req'[s].charge = req[s].charge
          /\ req'[s].kind = req[s].kind /\ req'[s].sens = req[s].sens
          /\ req'[s].tokens = req[s].tokens
      BY <2>3, <3>1 DEF Handlers
    <3> QED
      BY <3>1, <3>2 DEF Progress, DueOf, UnpaidOf
  <2> QED
    BY <2>1, <2>2, <2>3
<1>11. Progress(req'[r])
  <2> HIDE DEF h
  <2> QED
    BY <1>3, <1>4 DEF Progress
<1> HIDE DEF h, ok
<1> QED
  BY <1>3, <1>9, <1>10, <1>11, OneHandlerBalances

(* A handler with nobody to bill goes on owing what it owed.               *)
LEMMA UnbilledMints ==
    ASSUME MintInv, IInv', Finite, NEW r \in Requests, NotBilled(r)
    PROVE  MintInv'
<1> DEFINE h == Ended(req[r], "done")
<1>1. /\ req' = [req EXCEPT ![r] = h] /\ book' = book /\ req[r].phase = "billing"
      /\ req[r] \in Handlers
  BY BegunIsSound DEF NotBilled, MintInv
<1>2. /\ h.phase = "done" /\ h.earned = req[r].earned /\ h.paid = req[r].paid
      /\ h.charge = req[r].charge
  BY <1>1 DEF Ended, Handlers
<1> HIDE DEF h
<1>3. Progress(h) /\ DueOf(h) = DueOf(req[r])
  BY <1>1, <1>2 DEF Progress, DueOf, UnpaidOf
<1>4. Minted(book) \in Nat /\ Collected(book) \in Nat /\ DueOf(req[r]) \in Nat
  BY BookSums, DueIsNat DEF MintInv, IInv
<1>5. Minted(book') + Collected(book) + DueOf(req[r])
          <= Minted(book) + Collected(book') + DueOf(h)
  BY <1>1, <1>3, <1>4
<1> QED
  BY <1>1, <1>3, <1>5, OneHandlerMints

(* A crash between the reward and the margin leaves the margin unminted.   *)
LEMMA CrashMints ==
    ASSUME MintInv, IInv', Finite, Crash
    PROVE  MintInv'
<1>1. ASSUME NEW s \in Requests
      PROVE  /\ DueOf(req[s]) <= DueOf(req'[s])
             /\ req'[s].phase # "new" => Progress(req'[s])
  <2>1. DueOf(req[s]) \in Nat /\ DueOf(req'[s]) \in Nat
    BY DueIsNat DEF MintInv, IInv
  <2>2. CASE req[s].phase \in {"new", "done"}
    <3>1. req'[s] = req[s]
      BY <2>2 DEF Crash
    <3> QED
      BY <2>1, <3>1 DEF MintInv
  <2>3. CASE req[s].phase \notin {"new", "done"}
    <3>1. req'[s] = Ended([req[s] EXCEPT !.disturbed = FALSE], "crashed")
      BY <2>3 DEF Crash
    <3>2. req[s] \in Handlers /\ Progress(req[s]) /\ WithinEdge(req[s])
      BY <2>3, BegunIsSound DEF MintInv, Sound
    <3>3. /\ req'[s].phase = "crashed" /\ req'[s].earned = req[s].earned
          /\ req'[s].paid = req[s].paid /\ req'[s].charge = req[s].charge
      BY <3>1, <3>2 DEF Ended, Handlers
    <3>4. CASE req[s].phase = "rewarded"
      <4>1. req[s].earned /\ ~req[s].paid
        BY <3>2, <3>4 DEF Progress
      <4>2. DueOf(req'[s]) = req[s].charge
        BY <3>3, <4>1 DEF DueOf, UnpaidOf
      <4>3. DueOf(req[s]) <= req[s].charge
        BY <2>1, <3>2, <3>4 DEF DueOf, WithinEdge, Handlers
      <4> QED
        BY <3>3, <4>2, <4>3 DEF Progress
    <3>5. CASE req[s].phase # "rewarded"
      <4>1. DueOf(req'[s]) = DueOf(req[s])
        BY <2>3, <3>3, <3>5 DEF DueOf, UnpaidOf
      <4> QED
        BY <2>1, <3>3, <4>1 DEF Progress
    <3> QED
      BY <3>4, <3>5
  <2> QED
    BY <2>2, <2>3
<1>2. Due(req) <= Due(req')
  <2> DEFINE f == [s \in Requests |-> DueOf(req[s])]
             g == [s \in Requests |-> DueOf(req'[s])]
  <2>1. \A s \in Requests : f[s] \in Nat /\ g[s] \in Nat /\ f[s] <= g[s]
    BY <1>1, DueIsNat DEF MintInv, IInv
  <2>2. Due(req') = SumFunctionOnSet(g, Requests) /\ Due(req) = SumFunctionOnSet(f, Requests)
    BY DEF Due
  <2> HIDE DEF f, g
  <2> QED
    BY <2>1, <2>2, SumGrows DEF Finite
<1>3. /\ Minted(book) \in Nat /\ Collected(book) \in Nat
      /\ Due(req) \in Nat /\ Due(req') \in Nat
  BY BookSums, DueSum DEF MintInv, IInv
<1>4. Minted(book) <= Collected(book) + Due(req) /\ book' = book
  BY DEF MintInv, Crash
<1>5. Minted(book') <= Collected(book') + Due(req')
  BY <1>2, <1>3, <1>4
<1> QED
  BY <1>1, <1>5 DEF MintInv

(* Grants mint nothing, and nobody owes anything yet.                      *)
LEMMA NothingMinted == ASSUME Init, Finite PROVE MintInv
<1>1. IInv
  BY InitIsSound
<1> DEFINE S == Nodes \cup {Treasury}
           e == [a \in Accounts |-> book[a].earned]
           z == [a \in S |-> 0]
<1>2. \A a \in S : e[a] \in Nat /\ z[a] \in Nat /\ e[a] <= z[a]
  <2>1. ASSUME NEW a \in S
        PROVE  e[a] = 0
    <3>1. a \in Accounts
      BY AccountsHold
    <3>2. book[a] \in {Posted(NoTotals, "grant", StartupGrant), NoTotals}
      BY <3>1 DEF Init
    <3> QED
      BY <3>1, <3>2 DEF Posted, NoTotals
  <2> QED
    BY <2>1
<1>3. IsFiniteSet(S)
  BY FS_AddElement DEF Finite
<1>4. SumFunctionOnSet(z, S) = 0
  <2> HIDE DEF S
  <2> QED
    BY <1>3, SumOfZeros
<1>5. Minted(book) <= 0
  <2>1. Minted(book) = SumFunctionOnSet(e, S)
    BY DEF Minted
  <2> HIDE DEF e, z, S
  <2> QED
    BY <1>2, <1>3, <1>4, <2>1, SumGrows
<1>6. Minted(book) \in Nat /\ Collected(book) \in Nat /\ Due(req) \in Nat
  BY <1>1, BookSums, DueSum DEF IInv
<1>7. \A r \in Requests : req[r].phase = "new"
  BY DEF Init, NewRequest
<1> QED
  BY <1>1, <1>5, <1>6, <1>7 DEF MintInv

(* Jobs mint no more than consumers are charged, for any requests, users,  *)
(* nodes, prices and queue, through ids sent twice and crashes between the *)
(* ledger calls of a handler, provided that the accounts and requests are  *)
(* finitely many and the pointer host's account is none of those whose     *)
(* earnings are summed.                                                    *)
THEOREM EveryMintIsBacked ==
    ASSUME IsFiniteSet(Users), IsFiniteSet(Nodes), IsFiniteSet(Requests),
           Host \notin Nodes \cup {Treasury}
    PROVE  Spec => []MintIsBacked
<1>1. Finite
  BY DEF Finite
<1>2. Init => MintInv
  BY <1>1, NothingMinted
<1>3. MintInv /\ [Next]_vars => MintInv'
  <2> SUFFICES ASSUME MintInv, [Next]_vars PROVE MintInv'
    OBVIOUS
  <2>1. IInv'
    BY NextKeepsIInv DEF MintInv
  <2>2. ASSUME NEW r \in Requests,
               \/ \E kind \in Kinds, s \in Sensitivities :
                     \/ \E j \in Jobs, u \in Users \cup {Anonymous} : Gate(r, kind, j, u, s)
                     \/ StartUnbilled(r, kind, s)
               \/ \E n \in Nodes, reported \in Reported : Served(r, n, reported)
               \/ DispatchFails(r) \/ NoReward(r)
        PROVE  MintInv'
    BY <1>1, <2>1, <2>2, QuietMints
  <2>3. ASSUME NEW r \in Requests, CreditPointerHost(r) \/ ChargeTreasury(r)
        PROVE  MintInv'
    BY <1>1, <2>1, <2>3, PointerMints
  <2>4. ASSUME NEW r \in Requests, CreditReward(r) \/ CreditMargin(r)
        PROVE  MintInv'
    BY <1>1, <2>1, <2>4, RewardMints
  <2>5. ASSUME NEW r \in Requests, Debit(r) \/ NotBilled(r)
        PROVE  MintInv'
    BY <1>1, <2>1, <2>5, DebitMints, UnbilledMints
  <2>6. CASE (\E d \in Depths : QueueMoves(d)) \/ UNCHANGED vars
    <3>1. req' = req /\ book' = book
      BY <2>6 DEF QueueMoves, vars
    <3> QED
      BY <2>1, <3>1 DEF MintInv
  <2>7. CASE Crash
    BY <1>1, <2>1, <2>7, CrashMints
  <2> QED
    BY <2>2, <2>3, <2>4, <2>5, <2>6, <2>7 DEF Next
<1>4. MintInv => MintIsBacked
  <2> SUFFICES ASSUME MintInv PROVE MintIsBacked
    OBVIOUS
  <2> DEFINE f == [r \in Requests |-> DueOf(req[r])]
             g == [r \in Requests |-> UnpaidOf(req[r])]
  <2>1. ASSUME NEW r \in Requests
        PROVE  f[r] \in Nat /\ g[r] \in Nat /\ f[r] <= g[r]
    <3>1. DueOf(req[r]) \in Nat /\ UnpaidOf(req[r]) \in Nat
      BY DueIsNat DEF MintInv, IInv
    <3>2. CASE req[r].phase = "rewarded"
      <4>1. req[r].earned /\ ~req[r].paid /\ WithinEdge(req[r]) /\ req[r] \in Handlers
        BY <3>2, BegunIsSound DEF MintInv, Progress, Sound
      <4>2. UnpaidOf(req[r]) = req[r].charge
        BY <3>2, <4>1 DEF UnpaidOf
      <4>3. DueOf(req[r]) <= req[r].charge
        BY <3>1, <3>2, <4>1 DEF DueOf, WithinEdge, Handlers
      <4> QED
        BY <3>1, <4>2, <4>3
    <3>3. CASE req[r].phase # "rewarded"
      BY <3>1, <3>3 DEF DueOf
    <3> QED
      BY <3>2, <3>3
  <2>2. Due(req) = SumFunctionOnSet(f, Requests) /\ Unpaid = SumFunctionOnSet(g, Requests)
    BY DEF Due, Unpaid
  <2>3. Due(req) \in Nat /\ Unpaid \in Nat /\ Due(req) <= Unpaid
    <3> HIDE DEF f, g
    <3> QED
      BY <1>1, <2>1, <2>2, SumGrows, SumIsNat DEF Finite
  <2>4. Minted(book) \in Nat /\ Collected(book) \in Nat
    BY <1>1, BookSums DEF MintInv, IInv
  <2>5. Minted(book) <= Collected(book) + Due(req)
    BY DEF MintInv
  <2> QED
    BY <2>3, <2>4, <2>5 DEF MintIsBacked
<1> QED
  BY <1>2, <1>3, <1>4, PTL DEF Spec
=============================================================================
