------------------------------ MODULE Streaming ------------------------------
(***************************************************************************)
(* Streamed answers: DispatchFastLaneStreaming tries the ranked push nodes *)
(* one after the other, and relays the lines of the first that answers to  *)
(* the client as they come.  Once a line has gone out there is no way      *)
(* back: no other node may be tried.  What the request costs is read from  *)
(* the usage frame among the lines.                                        *)
(*                                                                         *)
(* Scoring (ScoreForFastLane, prefix affinity, power of two choices) only  *)
(* fixes an order and who is eligible: Ranked is any order of them.  A     *)
(* line is abstracted to the completion-token count of its usage frame, 0  *)
(* for every other line.                                                   *)
(***************************************************************************)
EXTENDS Naturals, FiniteSets, Sequences, SequencesExt

CONSTANTS
  Streams,      \* streaming requests
  Nodes,        \* registered nodes that hold the model
  PullNodes,    \* nodes behind NAT, that cannot hold a stream open
  MaxAttempts,  \* the coordinator's --max-attempts
  MaxUsage,     \* bound: completion tokens of one usage frame
  MaxLines      \* bound: lines that one node sends

ASSUME StreamingConstants ==
  /\ IsFiniteSet(Streams) /\ IsFiniteSet(Nodes)
  /\ MaxAttempts \in Nat /\ MaxUsage \in Nat /\ MaxLines \in Nat

VARIABLES
  st,           \* st[s]: the request's handler
  heard,        \* heard[s]: what the client got, as pairs <<node, usage>>
  load,         \* load[n]: the registry's in-flight counter
  marked        \* nodes marked unreachable

stVars == <<st, heard, load, marked>>

Tokens == 0..MaxUsage
NoNode == "none"

(* stage: "new", "pick" (choosing the next candidate), "connect", "relay",
   "ok", "broken" (failed after the first line), "refused" (HTTP 503). *)
Handlers == [stage: {"new", "pick", "connect", "relay", "ok", "broken", "refused"},
             ranked: UNION {[1..k -> Nodes] : k \in 0..Cardinality(Nodes)},
             tried: 0..MaxAttempts,
             node: Nodes \cup {NoNode},
             lines: 0..MaxLines,
             tokens: Tokens,
             tag: Nodes \cup {NoNode},     \* X-OIM-Served-By-Node-Id
             charge: Tokens]               \* tokens billed and credited

StTypeOK ==
  /\ st \in [Streams -> Handlers]
  /\ heard \in [Streams -> Seq(Nodes \X Tokens)]
  /\ \A s \in Streams : Len(heard[s]) <= MaxLines
  /\ load \in [Nodes -> 0..Cardinality(Streams)]
  /\ marked \subseteq Nodes

NewHandler == [stage |-> "new", ranked |-> <<>>, tried |-> 0, node |-> NoNode,
               lines |-> 0, tokens |-> 0, tag |-> NoNode, charge |-> 0]

StInit ==
  /\ st = [s \in Streams |-> NewHandler]
  /\ heard = [s \in Streams |-> <<>>]
  /\ load = [n \in Nodes |-> 0]
  /\ marked = {}

(* rankCandidates over the reachable nodes, then filterPushOnly: any order of
   the nodes that can be streamed from. *)
Ranked == SetToSeqs((Nodes \ marked) \ PullNodes)

Rank(s) ==
  /\ st[s].stage = "new"
  /\ \E order \in Ranked : st' = [st EXCEPT ![s].stage = "pick", ![s].ranked = order]
  /\ UNCHANGED <<heard, load, marked>>

(* The next candidate: its counter goes up before it is dialled. *)
Try(s) ==
  /\ st[s].stage = "pick"
  /\ st[s].ranked /= <<>>
  /\ st[s].tried < MaxAttempts
  /\ LET n == Head(st[s].ranked) IN
     /\ st' = [st EXCEPT ![s].stage = "connect", ![s].node = n, ![s].lines = 0,
                         ![s].tokens = 0, ![s].tried = @ + 1, ![s].ranked = Tail(@)]
     /\ load' = [load EXCEPT ![n] = @ + 1]
  /\ UNCHANGED <<heard, marked>>

(* No candidate is left: HTTP 503, for nothing has been sent. *)
Exhausted(s) ==
  /\ st[s].stage = "pick"
  /\ st[s].ranked = <<>> \/ st[s].tried = MaxAttempts
  /\ st' = [st EXCEPT ![s].stage = "refused"]
  /\ UNCHANGED <<heard, load, marked>>

(* The attempt is over without a line relayed: undo the count, mark the node,
   go on with the next candidate. *)
NextCandidate(s) ==
  /\ load' = [load EXCEPT ![st[s].node] = @ - 1]
  /\ marked' = marked \cup {st[s].node}
  /\ st' = [st EXCEPT ![s].stage = "pick", ![s].node = NoNode]
  /\ UNCHANGED heard

(* The dial fails, the node answers an HTTP error, or the 120 seconds or the
   client's own patience are over. *)
ConnectFails(s) ==
  /\ st[s].stage = "connect"
  /\ NextCandidate(s)

(* The node answers 200: the response headers are set, not yet sent. *)
Accepted(s) ==
  /\ st[s].stage = "connect"
  /\ st' = [st EXCEPT ![s].stage = "relay", ![s].tag = st[s].node]
  /\ UNCHANGED <<heard, load, marked>>

(* Mutant: the usage of the frames is summed up. *)
LastUsageSummed(before, u) == before + u

(* ExtractUsageTokens: the last positive count stands. *)
LastUsage(before, u) == IF u > 0 THEN u ELSE before

(* sse.Relay passes one line on. *)
RelayLine(s, u) ==
  /\ st[s].stage = "relay"
  /\ st[s].lines < MaxLines
  /\ heard' = [heard EXCEPT ![s] = Append(@, <<st[s].node, u>>)]
  /\ st' = [st EXCEPT ![s].lines = @ + 1, ![s].tokens = LastUsage(@, u)]
  /\ UNCHANGED <<load, marked>>

(* End of the node's stream, also of one without a line.  The handler pays and
   charges for the observed tokens, for nothing without a usage frame. *)
RelayEnds(s) ==
  /\ st[s].stage = "relay"
  /\ load' = [load EXCEPT ![st[s].node] = @ - 1]
  /\ st' = [st EXCEPT ![s].stage = "ok", ![s].charge = st[s].tokens]
  /\ UNCHANGED <<heard, marked>>

(* Mutant: a broken relay always goes on with the next candidate. *)
RelayBreaksRetrying(s) ==
  /\ st[s].stage = "relay"
  /\ NextCandidate(s)

(* The stream breaks (reset, a line too long, the 120 seconds, the client is
   gone): before the first line the next candidate is tried; after it the
   handler can only stop, and nobody is charged. *)
RelayBreaks(s) ==
  /\ st[s].stage = "relay"
  /\ \/ /\ st[s].lines = 0
        /\ NextCandidate(s)
     \/ /\ st[s].lines > 0
        /\ load' = [load EXCEPT ![st[s].node] = @ - 1]
        /\ st' = [st EXCEPT ![s].stage = "broken"]
        /\ UNCHANGED <<heard, marked>>

(* A heartbeat clears the mark. *)
StRefresh(n) ==
  /\ n \in marked
  /\ marked' = marked \ {n}
  /\ UNCHANGED <<st, heard, load>>

StNext ==
  \/ \E s \in Streams :
       \/ Rank(s)
       \/ Try(s)
       \/ Exhausted(s)
       \/ ConnectFails(s)
       \/ Accepted(s)
       \/ \E u \in Tokens : RelayLine(s, u)
       \/ RelayEnds(s)
       \/ RelayBreaks(s)
  \/ \E n \in Nodes : StRefresh(n)

(* The handler's goroutine runs on; the HTTP client's timeout ends every
   attempt (StDeadline), whatever the node does. *)
StDeadline(s) == ConnectFails(s) \/ RelayBreaks(s)
StFairness == \A s \in Streams :
                /\ WF_stVars(Rank(s))
                /\ WF_stVars(Try(s) \/ Exhausted(s))
                /\ WF_stVars(StDeadline(s))

StSpec == StInit /\ [][StNext]_stVars /\ StFairness

-----------------------------------------------------------------------------
Settled(s) == st[s].stage \in {"ok", "broken", "refused"}

(* What a client hears comes from one node, the one that the response headers
   name; a request answered with 503 has heard nothing. *)
OneVoice ==
  \A s \in Streams :
    /\ \A i \in DOMAIN heard[s] : heard[s][i][1] = st[s].tag
    /\ st[s].stage = "refused" => heard[s] = <<>>

(* A request is charged the last usage count that its client could see too,
   and only if the stream came to its end. *)
ChargeIsUsage ==
  \A s \in Streams :
    LET frames == {i \in DOMAIN heard[s] : heard[s][i][2] > 0}
        billed == st[s].stage = "ok" /\ frames /= {}
    IN  /\ billed => \E i \in frames : /\ \A j \in frames : j <= i
                                       /\ st[s].charge = heard[s][i][2]
        /\ ~billed => st[s].charge = 0

(* The registry counts exactly the streams that a node is working on. *)
StreamLoadExact ==
  \A n \in Nodes :
    load[n] = Cardinality({s \in Streams : /\ st[s].node = n
                                           /\ st[s].stage \in {"connect", "relay"}})

(* What a stream shows, what it costs and how busy its node looks are all of
   the one attempt that served it. *)
StreamsAreHonest == OneVoice /\ ChargeIsUsage /\ StreamLoadExact

(* Every streaming request ends, also when its node never does. *)
StreamsEnd == \A s \in Streams : <>Settled(s)
=============================================================================
