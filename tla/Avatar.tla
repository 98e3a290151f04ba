------------------------------- MODULE Avatar -------------------------------
(***************************************************************************)
(* The face of TANIA as voice and page command it: the pose on the event   *)
(* bus and whether the mouth moves.  Voice cues and page commands share    *)
(* the bus and the last one wins.  s is any record with the fields state,  *)
(* pose and moving.  Expression and gaze follow from the pose; gestures    *)
(* and idle motion are left out.                                           *)
(***************************************************************************)

Poses == {"IDLE", "LISTENING", "THINKING", "SPEAKING", "SUCCESS", "WARNING", "ERROR"}

PoseOf(state) == IF state = "PROCESSING" THEN "THINKING" ELSE state

(* The bus keeps the last command. *)
Emitted(s, pose) == [s EXCEPT !.pose = pose]

(* The animator, which hears it, closes the mouth in every other pose. *)
Commanded(s, pose) ==
  [Emitted(s, pose) EXCEPT !.moving = @ /\ pose = "SPEAKING"]

SpeechStarts(s) == [s EXCEPT !.moving = TRUE]

(* Mutant of Cued: the pose is compared with, and changed on, the bus, but *)
(* the mouth is left to the words.                                         *)
CuedWithoutEnd(s) ==
  LET pose == PoseOf(s.state) IN
  IF s.pose = pose THEN s
  ELSE IF pose = "SPEAKING" THEN SpeechStarts(Emitted(s, pose)) ELSE Emitted(s, pose)

(* VoiceAvatarBridge.cue: the bus hears of the voice state when it shows *)
(* another; speech starts and ends with the pose.                        *)
Cued(s) ==
  LET pose == PoseOf(s.state) IN
  IF s.pose = pose THEN s
  ELSE IF pose = "SPEAKING" THEN SpeechStarts(Commanded(s, pose)) ELSE Commanded(s, pose)

(* The engine reached a word: the mouth moves with it, started or not. *)
WordReached(s) == SpeechStarts(Cued(s))
=============================================================================
