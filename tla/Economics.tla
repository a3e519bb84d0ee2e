----------------------------- MODULE Economics -----------------------------
(***************************************************************************)
(* internal/economics: what a job costs, what its node earns, and the      *)
(* discount of a quiet network.  Amounts are whole numbers of the unit     *)
(* round4 rounds to, 1/10000 credit; the code's factors (lane 0.5 or 1,    *)
(* sensitivity 0.5, 1 or 3, house edge 0.25, discount from 0.75 to 1) are  *)
(* ratios of small integers, so every rounding is exact here.  (float64    *)
(* can land on the other side of a tie of round4, one unit off.)           *)
(***************************************************************************)
EXTENDS Integers

Lanes == {"fast", "background"}

(* round4 of num/den units: to the nearest, halves away from zero.         *)
round4(num, den) == (2 * num + den) \div (2 * den)

(* Twice the code's multipliers.                                           *)
laneMultiplier2(lane) == IF lane = "background" THEN 1 ELSE 2

sensitivityMultiplier2(s) ==
    CASE s = "low" -> 1
      [] s = "high_requires_attestation" -> 6
      [] OTHER -> 2

(* BaseCostPerKToken = 1 credit per 1000 tokens is 10 units a token.       *)
ConsumerCost(lane, s, tokens) ==
    IF tokens <= 0 THEN 0
    ELSE round4(10 * tokens * laneMultiplier2(lane) * sensitivityMultiplier2(s), 4)

(* (1 - HouseEdge) of the undiscounted cost.                               *)
ProviderReward(lane, s, tokens) == round4(3 * ConsumerCost(lane, s, tokens), 4)

(* JobQueue.BackpressurePct is 100 * depth / capacity, unbounded above.    *)
(* ActivityDiscount is 1 from 40% up and falls linearly to 3/4 at 0%:      *)
(* 3/4 + pct/160, here as a fraction of 160 * capacity.                    *)
AtCeiling(depth, capacity) == 100 * depth >= 40 * capacity

DiscountedUnclamped(cost, depth, capacity) ==
    round4(cost * (120 * capacity + 100 * depth), 160 * capacity)

Discounted(cost, depth, capacity) ==
    IF AtCeiling(depth, capacity) THEN cost
    ELSE round4(cost * (120 * capacity + 100 * depth), 160 * capacity)

ConsumerCostWithActivityDiscount(lane, s, tokens, depth, capacity) ==
    LET d == Discounted(ConsumerCost(lane, s, tokens), depth, capacity)
        p == ProviderReward(lane, s, tokens)
    IN  IF d >= p THEN d ELSE p
=============================================================================
