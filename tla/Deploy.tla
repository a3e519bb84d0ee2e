-------------------------------- MODULE Deploy --------------------------------
(***************************************************************************)
(* `oim deploy`: several operators build images on one target, redeploy,   *)
(* check the golden signals, and keep one history file there, which each   *)
(* of them reads whole, changes and writes whole.  A rollback picks its    *)
(* target from that history.  A command may fail at any step and the       *)
(* connection, or the tool itself, may go away between two.                *)
(*                                                                         *)
(* The containers are recreated by a script on the target, which is not    *)
(* part of the repository: it runs the image that one of the two floating  *)
(* tags names.                                                             *)
(*                                                                         *)
(* An image is named by its push.  The code names it by commit and second, *)
(* so two pushes of one commit in the same second, which would share a     *)
(* tag, are left out.                                                      *)
(***************************************************************************)
EXTENDS Naturals, Sequences, FiniteSets

CONSTANTS
  Operators,
  MaxImages,     \* bound: pushes
  MaxRollbacks,  \* bound: rollbacks
  ScriptTag      \* the floating tag that the script on the target uses

ASSUME DeployBounds == MaxImages \in Nat /\ MaxRollbacks \in Nat

VARIABLES
  history,    \* the file: its records, or Unreadable
  latest,     \* the image that mlxmesh:latest names
  deployTag,  \* the image that mlxmesh:latest-deploy names
  running,    \* the image of the containers
  op,         \* op[o]: the command that o is running
  verdict,    \* verdict[i]: what the health check of the push of image i found
  built,
  rollbacks

dpVars == <<history, latest, deployTag, running, op, verdict, built, rollbacks>>

Images == 1..MaxImages
Healths == {"unknown", "healthy", "unhealthy"}
Records == [action: {"deploy", "rollback"}, image: Images, health: Healths]
Histories == Seq(Records)
Unreadable == <<[action |-> "none", image |-> 0, health |-> "unknown"]>>

(* `view` is the history as the command fetched it, with its own record. *)
Stages == {"idle", "tagDeploy", "tagLatest", "redeploy", "record", "save", "check",
           "update", "retag"}
Commands == [stage: Stages,
             action: {"deploy", "rollback"}, image: 0..MaxImages, view: Histories]
NoCommand == [stage |-> "idle", action |-> "deploy", image |-> 0, view |-> <<>>]

DpTypeOK ==
  /\ history \in Histories \/ history = Unreadable
  /\ latest \in 0..MaxImages /\ deployTag \in 0..MaxImages /\ running \in 0..MaxImages
  /\ op \in [Operators -> Commands]
  /\ verdict \in [Images -> Healths]
  /\ built \in 0..MaxImages /\ rollbacks \in 0..MaxRollbacks

DpInit ==
  /\ history = <<>>
  /\ latest = 0 /\ deployTag = 0 /\ running = 0
  /\ op = [o \in Operators |-> NoCommand]
  /\ verdict = [i \in Images |-> "unknown"]
  /\ built = 0 /\ rollbacks = 0

Step(o, stage) == op' = [op EXCEPT ![o].stage = stage]
Quit(o) == op' = [op EXCEPT ![o] = NoCommand]

(* A command returns an error, or the tool is gone, before its next step. *)
Abandon(o) ==
  /\ op[o].stage /= "idle"
  /\ Quit(o)
  /\ UNCHANGED <<history, latest, deployTag, running, verdict, built, rollbacks>>

-----------------------------------------------------------------------------
(* push: rsync, then the three docker commands of RemoteBuildCommand: build, and
   one floating tag after the other.  A failure (Abandon) ends the push between
   any two of them. *)
RemoteBuild(o) ==
  /\ op[o].stage = "idle" /\ built < MaxImages
  /\ built' = built + 1
  /\ op' = [op EXCEPT ![o] = [NoCommand EXCEPT !.stage = "tagDeploy", !.image = built + 1]]
  /\ UNCHANGED <<history, latest, deployTag, running, verdict, rollbacks>>

TagLatestDeploy(o) ==
  /\ op[o].stage = "tagDeploy"
  /\ deployTag' = op[o].image
  /\ Step(o, "tagLatest")
  /\ UNCHANGED <<history, latest, running, verdict, built, rollbacks>>

TagLatest(o) ==
  /\ op[o].stage = "tagLatest"
  /\ latest' = op[o].image
  /\ Step(o, "redeploy")
  /\ UNCHANGED <<history, deployTag, running, verdict, built, rollbacks>>

(* redeploy-infra.sh and refresh-nodes.py. *)
Redeploy(o) ==
  /\ op[o].stage = "redeploy"
  /\ running' = IF ScriptTag = "latest" THEN latest ELSE deployTag
  /\ Step(o, IF op[o].action = "deploy" THEN "record" ELSE "check")
  /\ UNCHANGED <<history, latest, deployTag, verdict, built, rollbacks>>

(* push, step 4: what cannot be read, or parsed, counts as no history. *)
AppendRecord(o, fetched) ==
  /\ op[o].stage = "record"
  /\ op' = [op EXCEPT ![o].stage = "save", ![o].view =
              Append(IF fetched /\ history /= Unreadable THEN history ELSE <<>>,
                     [action |-> "deploy", image |-> op[o].image, health |-> "unknown"])]
  /\ UNCHANGED <<history, latest, deployTag, running, verdict, built, rollbacks>>

(* writeRemoteFile, `cat > path`: written, not opened, or cut off.  push goes on
   with a warning. *)
SaveRemoteHistory(o) ==
  /\ op[o].stage \in {"save", "update"}
  /\ history' \in {op[o].view, history, Unreadable}
  /\ IF op[o].stage = "save" THEN Step(o, "check") ELSE Quit(o)
  /\ UNCHANGED <<latest, deployTag, running, verdict, built, rollbacks>>

(* The record that a push appended is the last one of its copy. *)
OwnRecord(view) == Len(view)

(* Mutant: the history is fetched again before the result is entered. *)
GoldenSignalsRefetching(o, ok) ==
  LET health == IF ok THEN "healthy" ELSE "unhealthy"
      now == IF history \in {Unreadable, <<>>} THEN op[o].view ELSE history
  IN
  /\ op[o].stage = "check"
  /\ IF op[o].action = "deploy"
     THEN /\ verdict' = [verdict EXCEPT ![op[o].image] = health]
          /\ op' = [op EXCEPT ![o].stage = "update", ![o].view =
                      [now EXCEPT ![Len(now)].health = health]]
     ELSE /\ UNCHANGED verdict
          /\ op' = [op EXCEPT ![o].stage = "update"]
  /\ UNCHANGED <<history, latest, deployTag, running, built, rollbacks>>

(* runGoldenSignals: push enters the result in the record it appended to its
   own copy; a rollback appends its record only now. *)
GoldenSignals(o, ok) ==
  LET health == IF ok THEN "healthy" ELSE "unhealthy" IN
  /\ op[o].stage = "check"
  /\ IF op[o].action = "deploy"
     THEN /\ verdict' = [verdict EXCEPT ![op[o].image] = health]
          /\ op' = [op EXCEPT ![o].stage = "update",
                              ![o].view[OwnRecord(op[o].view)].health = health]
     ELSE /\ UNCHANGED verdict
          /\ op' = [op EXCEPT ![o].stage = "update", ![o].view =
                      Append(@, [action |-> "rollback", image |-> op[o].image, health |-> health])]
  /\ UNCHANGED <<history, latest, deployTag, running, built, rollbacks>>

-----------------------------------------------------------------------------
(* SelectRollbackTarget: the latest healthy deploy before the head. *)
Proven(h) == {i \in 1..Len(h) - 1 : h[i].action = "deploy" /\ h[i].health = "healthy"}
RollbackTarget(h) == h[CHOOSE i \in Proven(h) : \A j \in Proven(h) : j <= i].image

(* A history that cannot be read, that proves nothing, or whose image is gone
   ends the command. *)
FetchForRollback(o) ==
  /\ op[o].stage = "idle" /\ rollbacks < MaxRollbacks
  /\ history /= Unreadable /\ Proven(history) /= {}
  /\ rollbacks' = rollbacks + 1
  /\ op' = [op EXCEPT ![o] = [stage |-> "retag", action |-> "rollback",
                              image |-> RollbackTarget(history), view |-> history]]
  /\ UNCHANGED <<history, latest, deployTag, running, verdict, built>>

RemoteRetag(o) ==
  /\ op[o].stage = "retag"
  /\ deployTag' = op[o].image
  /\ Step(o, "redeploy")
  /\ UNCHANGED <<history, latest, running, verdict, built, rollbacks>>

DpNext == \E o \in Operators :
  \/ RemoteBuild(o) \/ TagLatestDeploy(o) \/ TagLatest(o)
  \/ Redeploy(o) \/ SaveRemoteHistory(o) \/ FetchForRollback(o)
  \/ RemoteRetag(o) \/ Abandon(o)
  \/ \E ok \in BOOLEAN : AppendRecord(o, ok) \/ GoldenSignals(o, ok)

DpSpec == DpInit /\ [][DpNext]_dpVars

-----------------------------------------------------------------------------
(* However the operators' copies of the history overwrite each other, a record
   never carries the verdict of another push, and a rollback goes only to an
   image whose own push passed its check. *)
VerdictsAreOwn ==
  LET Own(h) == h = Unreadable \/
        \A i \in 1..Len(h) : (h[i].action = "deploy" /\ h[i].health /= "unknown")
                               => h[i].health = verdict[h[i].image]
  IN
  /\ Own(history)
  /\ \A o \in Operators :
       /\ Own(op[o].view)
       /\ (op[o].stage /= "idle" /\ op[o].action = "rollback") => verdict[op[o].image] = "healthy"

(* What history.go says of the file: a true append-only log.  Two commands at
   once, and a read that failed, lose records. *)
HistoryOnlyGrows ==
  [][history' = Unreadable \/ history = Unreadable \/
     (Len(history') >= Len(history) /\ \A i \in 1..Len(history) : history'[i].image = history[i].image)]_dpVars

(* What RemoteRetagCommand says: the floating tag now names the target.  The
   command moves latest-deploy and leaves latest. *)
RollbackTakesEffect ==
  [][\A o \in Operators : (op[o].action = "rollback" /\ Redeploy(o)) => running' = op[o].image]_dpVars
=============================================================================
