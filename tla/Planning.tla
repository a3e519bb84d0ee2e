------------------------------ MODULE Planning ------------------------------
(***************************************************************************)
(* The pure algorithms of routing, over every small input: where a         *)
(* document is cut, how experts of a mixture model are dealt to nodes, what*)
(* a client's routing hint may change, whom the hash ring picks, and when  *)
(* a contributor's schedule lets the mesh use a node.                      *)
(* `input` is one case, chosen at the start; the invariants compare what   *)
(* the algorithm answers with what it promises.                            *)
(*                                                                         *)
(* Ratios are kept as integers over a common denominator, so the rounding  *)
(* of float64 is left out.  A document is a sequence of characters: "_"    *)
(* is a space, and stands for any other one.  The hash of a ring point or a key is an   *)
(* arbitrary number; no two points share one.                              *)
(***************************************************************************)
EXTENDS Integers, FiniteSets, Sequences, FiniteSetsExt, SequencesExt

CONSTANTS
  MinDoc, MaxDoc,  \* lengths of documents (the code asks for 64 at least)
  Experts,         \* bound: experts of a model
  MaxFleet,        \* bound: nodes they are dealt to
  Capacities,      \* memory shares that nodes declare
  Accuracies,      \* percentages of a requester's hints that were right
  Versions,        \* numbers at the end of a hint's router_version
  Confidences,     \* percentages that a hint's classifier states
  Members,         \* members of the hash ring
  Points,          \* positions on the hash ring
  DayLen,          \* bound: minutes in a day
  DaySets          \* sets of days that a schedule names

ASSUME PlanningConstants ==
  /\ MinDoc \in Nat /\ MinDoc >= 2 /\ MaxDoc \in Nat
  /\ Experts \in Nat /\ MaxFleet \in Nat
  /\ Capacities \subseteq Int
  /\ Accuracies \subseteq 0..100 /\ Versions \subseteq Nat /\ Confidences \subseteq Nat
  /\ Points \subseteq Nat
  /\ DayLen \in Nat \ {0}
  /\ DaySets \subseteq SUBSET (0..6)

VARIABLE input   \* one case: a document, a fleet, a hint, a ring or a schedule
plVars == <<input>>

-----------------------------------------------------------------------------
(* Splitting (splitter.go).  Offsets count the characters before the cut. *)

Chars == {"_", ";", "n", "."}          \* "n" is a newline
Documents == UNION {[1..k -> Chars] : k \in MinDoc..MaxDoc}

(* DetectSplitStrategy, by what the text looks like. *)
Strategies == {"sql_statement", "log_entry", "paragraph_boundary", "semantic_sentence"}

(* Offsets i (from 0, as in the code) at which a boundary stands, and how many
   characters it has. *)
IsBoundary(doc, strategy, i) ==
  CASE strategy = "sql_statement" -> doc[i + 1] = ";"
    [] strategy = "log_entry" -> doc[i + 1] = "n"
    [] strategy = "paragraph_boundary" -> i + 1 < Len(doc) /\ doc[i + 1] = "n" /\ doc[i + 2] = "n"
    [] OTHER -> i >= 1 /\ i + 1 < Len(doc) /\ doc[i + 1] = "." /\ doc[i + 2] = "_"
Width(strategy) == IF strategy \in {"sql_statement", "log_entry"} THEN 1 ELSE 2

(* The search goes outwards from the middle; how far, in each strategy. *)
Reach(doc, strategy) ==
  IF strategy \in {"sql_statement", "log_entry"} THEN Len(doc) \div 2 ELSE Len(doc) \div 2 - 1

(* nearest*Boundary: the first boundary met, the right one of two as near. *)
Nearest(doc, strategy) ==
  LET mid == Len(doc) \div 2
      hits(d) == {i \in {mid + d, mid - d} : i \in 0..Len(doc) - 1 /\ IsBoundary(doc, strategy, i)}
      found == {d \in 0..Reach(doc, strategy) - 1 : hits(d) /= {}}
  IN IF found = {} THEN mid ELSE Max(hits(Min(found))) + Width(strategy)

(* FindMidpoint: a document without paragraph ends is cut at a line. *)
FindMidpoint(doc, strategy) ==
  LET mid == Len(doc) \div 2
      near(s) == Nearest(doc, s)
      inReach == \E i \in 0..Len(doc) - 1 : /\ IsBoundary(doc, strategy, i)
                                            /\ i - mid < Reach(doc, strategy)
                                            /\ mid - i < Reach(doc, strategy)
  IN IF strategy = "paragraph_boundary" /\ ~inReach THEN near("log_entry") ELSE near(strategy)

(* SplitDocument: a cut at either end becomes one in the middle. *)
Cut(doc, strategy) ==
  LET mid == FindMidpoint(doc, strategy) IN
  IF mid \in 1..Len(doc) - 1 THEN mid ELSE Len(doc) \div 2

-----------------------------------------------------------------------------
(* Experts (moe_planner.go): shares by the largest remainder, then runs of
   expert ids in the order of node ids.  caps is a sequence in that order. *)

Cap(c) == IF c <= 0 THEN 1 ELSE c
Total(caps) == SumFunctionOnSet([i \in DOMAIN caps |-> Cap(caps[i])], DOMAIN caps)
Floor(caps, e, i) == (Cap(caps[i]) * e) \div Total(caps)
Fraction(caps, e, i) == (Cap(caps[i]) * e) % Total(caps)

(* Which nodes get one more: those of the largest remainders. *)
Spare(caps, e) ==
  e - SumFunctionOnSet([i \in DOMAIN caps |-> Floor(caps, e, i)], DOMAIN caps)
Favoured(caps, e) ==
  {S \in SUBSET DOMAIN caps :
     /\ Cardinality(S) = Spare(caps, e)
     /\ \A i \in S, j \in DOMAIN caps \ S : Fraction(caps, e, i) >= Fraction(caps, e, j)}

Count(caps, e, favoured, i) == Floor(caps, e, i) + (IF i \in favoured THEN 1 ELSE 0)
FirstExpert(caps, e, favoured, i) ==
  SumFunctionOnSet([j \in DOMAIN caps |-> Count(caps, e, favoured, j)], 1..i - 1)
Dealt(caps, e, favoured, i) ==
  LET first == FirstExpert(caps, e, favoured, i)
  IN first..first + Count(caps, e, favoured, i) - 1

(* RouteTokenToExpertNode: the nodes that hold expert x. *)
Holders(caps, e, favoured, x) == {i \in DOMAIN caps : x \in Dealt(caps, e, favoured, i)}

-----------------------------------------------------------------------------
(* Routing hints (hintvalidator.go).  Tiers are their ranks, 0 an unknown
   string.  The coordinator's own tier is 1 to 3. *)

Tiers == 0..3
NoTier == -1

(* Weights are products of a per mille and three percentages. *)
Weight(percent) == percent * 10000000

NoHistory == -1    \* accuracy of a requester without one
NoVersion == -1    \* a router_version without a number at its end

CurrentRouterVersionNumber == 1

(* versionFactor, by how many versions the client's router is behind. *)
versionFactor(version) ==
  CASE version = NoVersion -> 20
    [] version >= CurrentRouterVersionNumber -> 100
    [] version = CurrentRouterVersionNumber - 1 -> 80
    [] OTHER -> 40

(* ComputeHintWeight: nothing for a requester without history or an unsure
   classifier; else history, version, confidence and kind of classifier
   multiply, up to 95 percent. *)
HintWeight(h) ==
  LET history == Max({0, Min({1000, (25 * h.accuracy) \div 2 - 325})})
      product == history * versionFactor(h.version) * Min({100, h.confidence})
                         * (IF h.ml THEN 100 ELSE 70)
  IN IF h.accuracy = NoHistory \/ h.confidence < 50 THEN 0 ELSE Min({product, Weight(95)})

(* ValidateSensitivity. *)
ValidateSensitivity(hinted, own, override, weight) ==
  IF override /= NoTier THEN Max({override, own})
  ELSE IF hinted > own /\ weight > Weight(70) THEN hinted ELSE own

(* ShouldReclassify, for a hint with a known job type. *)
ShouldReclassify(hinted, weight) ==
  \/ hinted \notin {1, 2}
  \/ weight < Weight(70)

-----------------------------------------------------------------------------
(* The hash ring (consistenthash.go): the member of the first point at or
   after the key, around the end. *)

Rings == {r \in [Members -> SUBSET Points] :
            /\ \A m \in Members : r[m] /= {}
            /\ \A m, o \in Members : m /= o => r[m] \cap r[o] = {}}

Owner(ring, members, key) ==
  LET points == UNION {ring[m] : m \in members}
      after == {p \in points : p >= key}
      p == IF after = {} THEN Min(points) ELSE Min(after)
  IN CHOOSE m \in members : p \in ring[m]

-----------------------------------------------------------------------------
(* Contribution schedules (schedule.go).  A time of day that does not parse is
   Malformed; a moment is counted in minutes from the start of the week. *)

Malformed == -1
Weekdays == 0..6
Minute(t) == t % DayLen
Weekday(t) == t \div DayLen

(* dayAllowed: no days named means every day; the day before Sunday is Saturday. *)
dayAllowed(days, wd) == days = {} \/ wd % 7 \in days

(* Mutant: after midnight the day that has begun is asked for. *)
ActiveByCalendarDay(s, t) ==
  \/ ~s.window
  \/ Malformed \in {s.start, s.end}
  \/ /\ dayAllowed(s.days, Weekday(t))
     /\ IF s.start <= s.end THEN Minute(t) >= s.start /\ Minute(t) < s.end
                             ELSE Minute(t) >= s.start \/ Minute(t) < s.end

(* IsActiveNow: a configuration that makes no sense leaves the node available;
   a window across midnight belongs to the day on which it starts. *)
IsActiveNow(s, t) ==
  \/ ~s.window
  \/ Malformed \in {s.start, s.end}
  \/ /\ s.start <= s.end
     /\ dayAllowed(s.days, Weekday(t)) /\ Minute(t) >= s.start /\ Minute(t) < s.end
  \/ /\ s.start > s.end /\ Minute(t) >= s.start /\ dayAllowed(s.days, Weekday(t))
  \/ /\ s.start > s.end /\ Minute(t) < s.end /\ dayAllowed(s.days, Weekday(t) - 1)

-----------------------------------------------------------------------------
SplitCases == [kind: {"split"}, doc: Documents, strategy: Strategies]
DealCases == [kind: {"deal"}, caps: UNION {[1..k -> Capacities] : k \in 1..MaxFleet},
              experts: 1..Experts]
HintCases == [kind: {"hint"}, hinted: Tiers \cup {NoTier}, own: 1..3,
              override: Tiers \cup {NoTier}, accuracy: Accuracies \cup {NoHistory},
              version: Versions \cup {NoVersion}, confidence: Confidences, ml: BOOLEAN]
RingCases == [kind: {"ring"}, ring: Rings, key: Points, gone: Members]
ScheduleCases == [kind: {"schedule"}, window: BOOLEAN,
                  start: {Malformed} \cup 0..DayLen - 1, end: {Malformed} \cup 0..DayLen - 1,
                  days: DaySets, time: 0..7 * DayLen - 1]

PlInit == input \in SplitCases \cup DealCases \cup HintCases \cup RingCases \cup ScheduleCases
PlNext == UNCHANGED input

PlTypeOK == input.kind \in {"split", "deal", "hint", "ring", "schedule"}

-----------------------------------------------------------------------------
Distance(a, b) == IF a < b THEN b - a ELSE a - b

(* Both halves have content; where a boundary can be reached the cut stands
   behind the one nearest to the middle, unless that one ends the document. *)
SplitSound ==
  input.kind = "split" =>
    LET doc == input.doc
        cut == Cut(doc, input.strategy)
        mid == Len(doc) \div 2
        near == {i \in 0..Len(doc) - 1 : /\ IsBoundary(doc, input.strategy, i)
                                        /\ Distance(i, mid) < Reach(doc, input.strategy)}
        nearest == {i \in near : \A j \in near : Distance(i, mid) <= Distance(j, mid)}
    IN /\ cut \in 1..Len(doc) - 1
       /\ near /= {} => \E i \in nearest : cut = (IF i + Width(input.strategy) < Len(doc)
                                                 THEN i + Width(input.strategy) ELSE mid)

(* Every expert is dealt to exactly one node, and none is left over. *)
DealSound ==
  input.kind = "deal" =>
    \A S \in Favoured(input.caps, input.experts) :
      /\ \A x \in 0..input.experts - 1 :
           Cardinality(Holders(input.caps, input.experts, S, x)) = 1
      /\ FirstExpert(input.caps, input.experts, S, Len(input.caps) + 1) = input.experts

(* No hint and no override routes a job below the coordinator's own tier; a
   hint alone raises it, or spares the coordinator its own classification,
   only if its sender has a history of being right. *)
HintNeverLowers ==
  input.kind = "hint" =>
    LET weight == HintWeight(input)
        tier == ValidateSensitivity(input.hinted, input.own, input.override, weight)
        believed == tier > input.own /\ tier > input.override
    IN /\ tier >= input.own
       /\ (believed \/ ~ShouldReclassify(input.hinted, weight)) => input.accuracy > 80
       /\ believed => input.override = NoTier

(* When a member leaves the ring, only the keys that it owned move. *)
OnlyItsKeysMove ==
  input.kind = "ring" =>
    LET rest == Members \ {input.gone}
        before == Owner(input.ring, Members, input.key)
    IN before /= input.gone => Owner(input.ring, rest, input.key) = before

(* A well-formed window is the stretch of minutes that begins at its start on
   each named day, and nothing else: a night that starts on the last day of the
   week ends on the first of the next, and a day that is not named gives no
   minute of its own although the night before may reach into it. *)
ScheduleIsItsNights ==
  input.kind = "schedule" /\ input.window /\ Malformed \notin {input.start, input.end} =>
    LET length == (input.end - input.start + DayLen) % DayLen
        nights == {d \in Weekdays : input.days = {} \/ d \in input.days}
    IN IsActiveNow(input, input.time) =
         (\E d \in nights, k \in 0..length - 1 :
            input.time = (d * DayLen + input.start + k) % (7 * DayLen))
=============================================================================
