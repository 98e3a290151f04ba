-------------------------- MODULE VoiceProperties --------------------------
(* What somebody who speaks to TANIA may rely on. *)
EXTENDS Voice

Stage == {"none", "prompted", "listening", "asking", "finishing", "speaking", "done"}

(* The controller, its adapters and its turns have their types; between *)
(* events no cancelled turn is left unsettled.                           *)
TypeOK ==
  /\ v.state \in DOMAIN Transitions /\ v.pose \in Poses /\ v.moving \in BOOLEAN
  /\ {v.current, v.ear, v.mouth} \subseteq Turn \cup {None}
  /\ v.recording \cup v.uttering \cup overlapped \subseteq Turn /\ v.cut \subseteq v.uttering
  /\ v.pc \in [Turn -> Stage] /\ v.aborted \in [Turn -> BOOLEAN]
  /\ v.begun \in [Turn -> 0 .. MaxSentences] /\ v.pending \in [Turn -> 0 .. MaxSentences]
  /\ v.broken \in [Turn -> {"no", "cancelled", "failed"}]
  /\ v.open \in 0 .. Cardinality(Turn) /\ v.held \in BOOLEAN /\ v.off \in BOOLEAN

OneEar == v.recording = IF v.ear = None THEN {} ELSE {v.ear}

(* The avatar never looks as if it listened or spoke when the voice does   *)
(* not, whatever pose the page gave it in between; and while no turns have *)
(* overlapped its mouth moves in the pose SPEAKING only.                   *)
FaceIsHonest ==
  /\ v.pose \in {"LISTENING", "SPEAKING"} => v.state = v.pose
  /\ overlapped = {} /\ v.moving => v.pose = "SPEAKING"

(* The user sees what the microphone and the voice do. Whatever the turns  *)
(* do to one another, one recognition runs at most and it is the one that  *)
(* cancel() stops; a turn that was alone records only while the state says *)
(* LISTENING and is spoken only while it says SPEAKING; with no turn under *)
(* way the state is one to start from (controller.ts:87); and the face     *)
(* does not say otherwise.                                                 *)
ShownAsItIs ==
  /\ OneEar
  /\ \A t \in Turn \ overlapped :
       /\ t \in v.recording => v.state = "LISTENING"
       /\ t \in v.uttering => v.state = "SPEAKING"
  /\ Unfinished = {} => v.state \in {"IDLE", "ERROR"}
  /\ FaceIsHonest

(* Once a turn is stopped, or one of its sentences failed, no further *)
(* sentence of it is spoken.                                           *)
SilentAfterStop ==
  [][\A t \in Turn :
       v.aborted[t] \/ v.broken[t] # "no" => t \notin v'.uttering \ v.uttering]_vars

(* A turn that was heard comes to its end, even when nobody answers. *)
EveryTurnEnds ==
  \A t \in Turn :
    v.pc[t] \in {"listening", "asking", "finishing", "speaking"} ~> v.pc[t] = "done"
=============================================================================
