----------------------------- MODULE MCServices -----------------------------
(***************************************************************************)
(* Placement, Credentials, Directory, Deploy and Planning in one run.     *)
(* They share no state, so a behaviour moves only the one that `focus`     *)
(* names; the others rest in an initial state.                             *)
(***************************************************************************)
EXTENDS Placement, Credentials, Directory, Deploy, Planning

CONSTANTS p1, k1, k2

VARIABLE focus

svVars == <<focus, pmVars, crVars, diVars, dpVars, plVars>>

TwoDirectories == <<"d1", "d2">>
AllListed == [p \in Pods |-> k1]
RestingInput == [kind |-> "deal", caps |-> <<1>>, experts |-> 1]
TwoReports == [p \in Pods |-> 2]
FewDays == {{}} \cup {{a, b} : a, b \in Weekdays}

Init ==
  /\ focus \in {"placement", "credentials", "directory", "deploy", "planning"}
  /\ PmInit /\ CrInit /\ DiInit /\ DpInit
  /\ focus /= "directory" => strict = {}
  /\ IF focus = "planning" THEN PlInit ELSE input = RestingInput

Next ==
  \/ focus = "placement" /\ PmNext /\ UNCHANGED <<focus, crVars, diVars, dpVars, plVars>>
  \/ focus = "credentials" /\ CrNext /\ UNCHANGED <<focus, pmVars, diVars, dpVars, plVars>>
  \/ focus = "directory" /\ DiNext /\ UNCHANGED <<focus, pmVars, crVars, dpVars, plVars>>
  \/ focus = "deploy" /\ DpNext /\ UNCHANGED <<focus, pmVars, crVars, diVars, plVars>>
  \/ focus = "planning" /\ PlNext /\ UNCHANGED <<focus, pmVars, crVars, diVars, dpVars>>

Spec == Init /\ [][Next]_svVars

-----------------------------------------------------------------------------
(* Every variable of the component that moves keeps its type. *)
TypeOK ==
  CASE focus = "placement" -> PmTypeOK
    [] focus = "credentials" -> CrTypeOK
    [] focus = "directory" -> DiTypeOK
    [] focus = "deploy" -> DpTypeOK
    [] focus = "planning" -> PlTypeOK

(* A cut document, dealt experts, a hinted request, a hash ring and a schedule
   each keep their promise. *)
PlansAreSound ==
  focus = "planning" =>
    SplitSound /\ DealSound /\ HintNeverLowers /\ OnlyItsKeysMove /\ ScheduleIsItsNights
=============================================================================
