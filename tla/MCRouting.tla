------------------------------ MODULE MCRouting ------------------------------
(***************************************************************************)
(* Streaming, Fanout and NodeAgent in one run.  They share no state, so a  *)
(* behaviour moves only the one that `focus` names; the others rest in an  *)
(* initial state.                                                          *)
(***************************************************************************)
EXTENDS Streaming, Fanout, NodeAgent

VARIABLE focus

rtVars == <<focus, stVars, foVars, naVars>>

RestingJob == [kinds |-> 0, sensitive |-> FALSE, deterministic |-> FALSE,
               big |-> FALSE, maxPar |-> 0]

Resting == job = RestingJob /\ attested = {}

Init ==
  /\ StInit /\ FoInit /\ NaInit
  /\ \/ focus = "streaming" /\ Resting
     \/ focus = "fanout" /\ (~job.sensitive => attested = {})
     \/ focus = "agent" /\ Resting
  /\ focus /= "agent" => mode = "pull" /\ window

(* A step of one component while the behaviour is about it. *)
Streaming(A) == focus = "streaming" /\ A /\ UNCHANGED <<focus, foVars, naVars>>
Fanning(A) == focus = "fanout" /\ A /\ UNCHANGED <<focus, stVars, naVars>>
Serving(A) == focus = "agent" /\ A /\ UNCHANGED <<focus, stVars, foVars>>

Next ==
  \/ Streaming(StNext)
  \/ Fanning(FoNext)
  \/ Serving(NaNext)

Fairness ==
  /\ \A s \in Streams :
       /\ WF_rtVars(Streaming(Rank(s)))
       /\ WF_rtVars(Streaming(Try(s) \/ Exhausted(s)))
       /\ WF_rtVars(Streaming(StDeadline(s)))
  /\ WF_rtVars(Fanning(RouteStep))
  /\ SF_rtVars(Serving(Tick)) /\ SF_rtVars(Serving(TickRefresh))
  /\ WF_rtVars(Serving(BeatEnds)) /\ SF_rtVars(Serving(RegisterArrives))
  /\ WF_rtVars(Serving(ChaosEnds)) /\ WF_rtVars(Serving(SaveEnds)) /\ WF_rtVars(Serving(Age))

Spec == Init /\ [][Next]_rtVars /\ Fairness

-----------------------------------------------------------------------------
(* Every variable of the component that moves keeps its type. *)
TypeOK ==
  CASE focus = "streaming" -> StTypeOK
    [] focus = "fanout" -> FoTypeOK
    [] focus = "agent" -> NaTypeOK

(* Every streaming request and every decomposed job comes to an end, also when
   a node never answers: each call to a node has a deadline of its own. *)
RoutesEnd ==
  /\ focus = "streaming" => StreamsEnd
  /\ focus = "fanout" => RouteEnds
=============================================================================
