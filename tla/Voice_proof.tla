----------------------------- MODULE Voice_proof -----------------------------
(***************************************************************************)
(* Theorems about spoken turns for any number of turns, sentences and      *)
(* poses of the page, with or without interruption and replay.             *)
(***************************************************************************)
EXTENDS VoiceProperties, TLAPS, FiniteSetTheorems

State == DOMAIN Transitions

Field ==
  {"state", "pose", "moving", "current", "ear", "mouth", "recording", "uttering", "cut", "held",
   "open", "off", "pc", "aborted", "begun", "pending", "broken"}

-----------------------------------------------------------------------------
(* The inductive invariant. Each part speaks of a controller s, since the  *)
(* code between two events passes through several.                         *)

Shape(s) ==
  /\ DOMAIN s = Field
  /\ s.state \in State /\ s.pose \in Poses /\ s.moving \in BOOLEAN
  /\ s.current \in Turn \cup {None} /\ s.ear \in Turn \cup {None} /\ s.mouth \in Turn \cup {None}
  /\ s.recording \subseteq Turn /\ s.uttering \subseteq Turn /\ s.cut \subseteq s.uttering
  /\ s.pc \in [Turn -> Stage \cup {"cancelled"}]
  /\ s.aborted \in [Turn -> BOOLEAN] /\ s.broken \in [Turn -> {"no", "cancelled", "failed"}]
  /\ s.begun \in [Turn -> 0 .. MaxSentences] /\ s.pending \in [Turn -> 0 .. MaxSentences]

(* The face shows listening and speaking only when they go on.             *)
FaceInv(s) == s.pose \in {"LISTENING", "SPEAKING"} => s.state = s.pose

(* One recognition at most, of a turn that listens.                        *)
EarInv(s) ==
  /\ s.recording = IF s.ear = None THEN {} ELSE {s.ear}
  /\ \A t \in s.recording : s.pc[t] = "listening"

(* What is spoken belongs to a turn that has something to say, or was cut. *)
MouthInv(s) ==
  /\ s.mouth # None => s.mouth \in s.uttering
  /\ \A t \in s.uttering :
       /\ s.pc[t] \in {"asking", "finishing", "speaking", "done"}
       /\ s.pc[t] = "done" => t \in s.cut
       /\ s.pc[t] = "asking" => s.begun[t] > 0

(* A turn starts with nothing said and nothing broken.                     *)
TurnInv(s) ==
  \A t \in Turn :
    /\ s.pending[t] <= s.begun[t]
    /\ s.pc[t] = "none" => ~s.aborted[t]
    /\ s.pc[t] \in {"none", "prompted", "listening"} => s.begun[t] = 0
    /\ s.pc[t] \in {"none", "prompted", "listening", "asking"} /\ s.begun[t] = 0 =>
         s.broken[t] = "no"

(* The state is busy on behalf of a turn under way.                        *)
Engaged(s, t) ==
  \/ s.pc[t] \in {"listening", "asking", "finishing", "speaking"} /\ ~s.aborted[t]
  \/ s.pc[t] = "cancelled"

BusyInv(s) == s.state \in Busy => \E t \in Turn : Engaged(s, t)

Parts(s) == Shape(s) /\ FaceInv(s) /\ EarInv(s) /\ MouthInv(s) /\ TurnInv(s)

CoreInv(s) == Parts(s) /\ BusyInv(s)

(* What holds between events: no stopped turn is left unsettled, the turn  *)
(* cancel() aborts was begun, and none that was aborted is recorded.       *)
Settled(s) == \A t \in Turn : s.pc[t] # "cancelled"

StopInv(s) ==
  /\ s.current # None => s.pc[s.current] # "none"
  /\ \A t \in s.recording : ~s.aborted[t]

Entered(s) == {t \in Turn : s.pc[t] \notin {"none", "prompted"}}

(* A capture stream is opened once for a turn, and kept or stopped.        *)
StreamInv(s) ==
  /\ s.open \in Nat /\ s.held \in BOOLEAN /\ s.off \in BOOLEAN
  /\ s.held => s.open > 0
  /\ s.open <= Cardinality(Entered(s))

Open(s, t) == s.pc[t] \notin {"none", "done"}

(* A turn that has been alone: what the state says is what it does.        *)
AloneOk(s, t) ==
  /\ t \in s.recording => s.state = "LISTENING"
  /\ t \in s.uttering => s.mouth = t /\ t \notin s.cut /\ s.state = "SPEAKING"
  /\ Open(s, t) /\ ~s.aborted[t] => s.current = t
  /\ s.pc[t] = "asking" /\ ~s.aborted[t] =>
       s.state = IF s.begun[t] = 0 THEN "PROCESSING" ELSE "SPEAKING"
  /\ s.pc[t] \in {"finishing", "speaking"} => t \in s.uttering /\ ~s.aborted[t]

AloneInv(s, over) ==
  /\ \A t, u \in Turn : t # u /\ Open(s, t) /\ Open(s, u) => t \in over
  /\ \A t \in Turn \ over : AloneOk(s, t)

MouthShown(s) == s.moving => s.pose = "SPEAKING"

Inv(s, over) ==
  /\ CoreInv(s) /\ Settled(s) /\ StopInv(s) /\ StreamInv(s)
  /\ over \subseteq Turn /\ AloneInv(s, over)
  /\ over = {} => MouthShown(s)

VInv == Inv(v, overlapped)

(* The step speaks no turn that was stopped or has failed.                 *)
StaysSilent ==
  \A t \in Turn : v.aborted[t] \/ v.broken[t] # "no" => t \notin v'.uttering \ v.uttering

-----------------------------------------------------------------------------
(* The pieces of the controller. *)

LEMMA StateFacts ==
  /\ State = {"IDLE", "LISTENING", "PROCESSING", "SPEAKING", "ERROR"}
  /\ \A x \in State : {"IDLE", "ERROR"} \subseteq Transitions[x] \cup {x}
BY DEF State, Transitions

(* What the controller r has in common with s when only the face differs.  *)
SameBody(s, r) ==
  /\ DOMAIN r = Field
  /\ r.current = s.current /\ r.ear = s.ear /\ r.mouth = s.mouth
  /\ r.recording = s.recording /\ r.uttering = s.uttering /\ r.cut = s.cut
  /\ r.held = s.held /\ r.open = s.open /\ r.off = s.off
  /\ r.pc = s.pc /\ r.aborted = s.aborted /\ r.begun = s.begun
  /\ r.pending = s.pending /\ r.broken = s.broken

SameFace(s, r) == r.state = s.state /\ r.pose = s.pose /\ r.moving = s.moving

SameStreams(s, r) == r.held = s.held /\ r.open = s.open /\ r.off = s.off

LEMMA CommandedFields ==
  ASSUME NEW s, DOMAIN s = Field, s.moving \in BOOLEAN, NEW pose
  PROVE  LET r == Commanded(s, pose) IN
         /\ SameBody(s, r) /\ r.state = s.state /\ r.pose = pose
         /\ r.moving \in BOOLEAN /\ (r.moving => s.moving /\ pose = "SPEAKING")
BY DEF Commanded, Emitted, SameBody, Field

LEMMA CuedFields ==
  ASSUME NEW s, DOMAIN s = Field, s.moving \in BOOLEAN
  PROVE  LET r == Cued(s) IN
         /\ SameBody(s, r) /\ r.state = s.state /\ r.pose = PoseOf(s.state)
         /\ r.moving \in BOOLEAN
         /\ r.moving => r.pose = "SPEAKING" \/ (s.pose # "SPEAKING" /\ s.moving)
<1>1. PICK pose : pose = PoseOf(s.state)
  OBVIOUS
<1>2. CASE s.pose = pose
  BY <1>1, <1>2 DEF Cued, SameBody
<1>3. CASE s.pose # pose
  <2>1. PICK c : c = Commanded(s, pose)
    OBVIOUS
  <2>2. /\ SameBody(s, c) /\ c.state = s.state /\ c.pose = pose
        /\ c.moving \in BOOLEAN /\ (c.moving => pose = "SPEAKING")
    BY <2>1, CommandedFields
  <2>3. CASE pose = "SPEAKING"
    <3>1. Cued(s) = [c EXCEPT !.moving = TRUE]
      BY <1>1, <1>3, <2>1, <2>3 DEF Cued, SpeechStarts
    <3>2. PICK r : r = [c EXCEPT !.moving = TRUE]
      OBVIOUS
    <3>3. SameBody(c, r) /\ r.state = c.state /\ r.pose = c.pose /\ r.moving = TRUE
      BY <2>2, <3>2 DEF SameBody, Field
    <3>4. SameBody(s, r) /\ r.state = s.state /\ r.pose = pose
      BY <2>2, <3>3 DEF SameBody
    <3>5. r.moving \in BOOLEAN
      BY <3>3
    <3> QED  BY <1>1, <2>3, <3>1, <3>2, <3>4, <3>5
  <2>4. CASE pose # "SPEAKING"
    <3>1. Cued(s) = c
      BY <1>1, <1>3, <2>1, <2>4 DEF Cued
    <3>2. c.moving => c.pose = "SPEAKING"
      BY <2>2
    <3> QED  BY <1>1, <2>2, <3>1, <3>2
  <2> QED  BY <2>3, <2>4
<1> QED  BY <1>2, <1>3

Reaches(s, x) == x \in Transitions[s.state] \cup {s.state}

LEMMA MoveFields ==
  ASSUME NEW s, Shape(s), FaceInv(s), NEW x \in State
  PROVE  LET r == Move(s, x) IN
         /\ SameBody(s, r) /\ Shape(r) /\ FaceInv(r)
         /\ r.state = IF Reaches(s, x) THEN x ELSE s.state
         /\ MouthShown(s) => MouthShown(r)
<1>1. PICK d : d = [s EXCEPT !.state = x]
  OBVIOUS
<1>2. SameBody(s, d) /\ d.state = x /\ d.pose = s.pose /\ d.moving = s.moving
  BY <1>1 DEF Shape, Field, SameBody
<1>3. CASE Reaches(s, x)
  <2>1. Move(s, x) = Cued(d)
    BY <1>1, <1>3 DEF Move, Reaches
  <2>2. PICK r : r = Cued(d)
    OBVIOUS
  <2>3. /\ SameBody(d, r) /\ r.state = x /\ r.pose = PoseOf(x) /\ r.moving \in BOOLEAN
        /\ r.moving => r.pose = "SPEAKING" \/ (s.pose # "SPEAKING" /\ s.moving)
    BY <1>2, <2>2, CuedFields DEF SameBody, Shape
  <2>4. SameBody(s, r)
    BY <1>2, <2>3 DEF SameBody
  <2>5. PoseOf(x) \in Poses /\ (PoseOf(x) \in {"LISTENING", "SPEAKING"} => x = PoseOf(x))
    BY StateFacts DEF PoseOf, Poses
  <2>6. Shape(r) /\ FaceInv(r)
    BY <2>3, <2>4, <2>5 DEF Shape, FaceInv, SameBody
  <2>7. MouthShown(s) => MouthShown(r)
    BY <2>3 DEF MouthShown
  <2> QED  BY <1>3, <2>1, <2>2, <2>3, <2>4, <2>6, <2>7
<1>4. CASE ~Reaches(s, x)
  BY <1>4 DEF Move, Reaches, SameBody, Shape
<1> QED  BY <1>3, <1>4

(* The rest of the invariant does not look at the face.                    *)
LEMMA BodyKept ==
  ASSUME NEW s, NEW r, SameBody(s, r)
  PROVE  /\ EarInv(s) => EarInv(r)
         /\ MouthInv(s) => MouthInv(r)
         /\ TurnInv(s) => TurnInv(r)
         /\ Settled(s) => Settled(r)
BY DEF SameBody, EarInv, MouthInv, TurnInv, Settled

(* Where every failure and every end leads.                                *)
LEMMA MoveToRest ==
  ASSUME NEW s, Shape(s), FaceInv(s), NEW x \in {"IDLE", "ERROR"}
  PROVE  LET r == Move(s, x) IN
         /\ SameBody(s, r) /\ Shape(r) /\ FaceInv(r) /\ r.state = x
         /\ MouthShown(s) => MouthShown(r)
         /\ Parts(s) => CoreInv(r)
<1>1. x \in State /\ Reaches(s, x)
  BY StateFacts DEF Shape, Reaches
<1>2. PICK r : r = Move(s, x)
  OBVIOUS
<1>3. /\ SameBody(s, r) /\ Shape(r) /\ FaceInv(r) /\ r.state = x
      /\ MouthShown(s) => MouthShown(r)
  BY <1>1, <1>2, MoveFields
<1>4. BusyInv(r)
  BY <1>3 DEF BusyInv, Busy
<1>5. Parts(s) => CoreInv(r)
  BY <1>3, <1>4, BodyKept DEF CoreInv, Parts
<1> QED  BY <1>2, <1>3, <1>5

LEMMA CuedKeeps ==
  ASSUME NEW s, CoreInv(s)
  PROVE  LET r == Cued(s) IN
         /\ SameBody(s, r) /\ CoreInv(r) /\ r.state = s.state /\ r.pose = PoseOf(s.state)
         /\ MouthShown(s) => MouthShown(r)
<1>1. PICK r : r = Cued(s)
  OBVIOUS
<1>2. /\ SameBody(s, r) /\ r.state = s.state /\ r.pose = PoseOf(s.state)
      /\ r.moving \in BOOLEAN
      /\ r.moving => r.pose = "SPEAKING" \/ (s.pose # "SPEAKING" /\ s.moving)
  BY <1>1, CuedFields DEF CoreInv, Parts, Shape
<1>3. PoseOf(s.state) \in Poses
      /\ (PoseOf(s.state) \in {"LISTENING", "SPEAKING"} => s.state = PoseOf(s.state))
  BY StateFacts DEF PoseOf, Poses, CoreInv, Parts, Shape
<1>4. Shape(r) /\ FaceInv(r)
  BY <1>2, <1>3 DEF Shape, FaceInv, SameBody, CoreInv, Parts
<1>5. BusyInv(r)
  BY <1>2 DEF CoreInv, BusyInv, Engaged, SameBody
<1>6. MouthShown(s) => MouthShown(r)
  BY <1>2 DEF MouthShown
<1>7. Parts(r)
  BY <1>2, <1>4, BodyKept DEF CoreInv, Parts
<1> QED  BY <1>1, <1>2, <1>5, <1>6, <1>7 DEF CoreInv

LEMMA CommandedKeeps ==
  ASSUME NEW s, CoreInv(s), NEW pose \in PagePoses
  PROVE  LET r == Commanded(s, pose) IN
         SameBody(s, r) /\ CoreInv(r) /\ r.state = s.state /\ (MouthShown(s) => MouthShown(r))
<1>1. PICK r : r = Commanded(s, pose)
  OBVIOUS
<1>2. /\ SameBody(s, r) /\ r.state = s.state /\ r.pose = pose
      /\ r.moving \in BOOLEAN /\ (r.moving => s.moving /\ pose = "SPEAKING")
  BY <1>1, CommandedFields DEF CoreInv, Parts, Shape
<1>3. pose \in Poses \ {"LISTENING", "SPEAKING"}
  BY VoiceAssumption DEF VoiceAssumption
<1>4. Shape(r) /\ FaceInv(r)
  BY <1>2, <1>3 DEF Shape, FaceInv, SameBody, CoreInv, Parts
<1>5. BusyInv(r)
  BY <1>2 DEF CoreInv, BusyInv, Engaged, SameBody
<1>6. MouthShown(r)
  BY <1>2 DEF MouthShown
<1>7. Parts(r)
  BY <1>2, <1>4, BodyKept DEF CoreInv, Parts
<1> QED  BY <1>1, <1>2, <1>5, <1>6, <1>7 DEF CoreInv

(* A turn ends: it is not recorded, what it was saying is cut, and nothing *)
(* goes on for it alone.                                                   *)
LEMMA StopKeeps ==
  ASSUME NEW s, Parts(s), NEW t \in Turn
  PROVE  LET r == Stop(s, t) IN
         /\ DOMAIN r = Field /\ SameFace(s, r) /\ SameStreams(s, r)
         /\ r.ear = s.ear /\ r.mouth = s.mouth /\ r.recording = s.recording
         /\ r.uttering = s.uttering /\ r.cut = s.cut
         /\ r.aborted = s.aborted /\ r.begun = s.begun /\ r.pending = s.pending
         /\ r.broken = s.broken
         /\ r.pc = [s.pc EXCEPT ![t] = "done"]
         /\ r.current = IF s.current = t THEN None ELSE s.current
         /\ t \notin s.recording /\ (t \in s.uttering => t \in s.cut) => Parts(r)
<1>1. PICK r : r = Stop(s, t)
  OBVIOUS
<1>2. /\ DOMAIN r = Field /\ SameFace(s, r) /\ SameStreams(s, r)
      /\ r.ear = s.ear /\ r.mouth = s.mouth /\ r.recording = s.recording
      /\ r.uttering = s.uttering /\ r.cut = s.cut
      /\ r.aborted = s.aborted /\ r.begun = s.begun /\ r.pending = s.pending
      /\ r.broken = s.broken
      /\ r.pc = [s.pc EXCEPT ![t] = "done"]
      /\ r.current = IF s.current = t THEN None ELSE s.current
  BY <1>1 DEF Stop, Parts, Shape, Field, SameFace, SameStreams
<1>3. ASSUME t \notin s.recording, t \in s.uttering => t \in s.cut
      PROVE  Parts(r)
  <2>1. Shape(r)
    BY <1>2 DEF Parts, Shape, SameFace, Stage
  <2>2. FaceInv(r)
    BY <1>2 DEF Parts, FaceInv, SameFace
  <2>3. EarInv(r)
    BY <1>2, <1>3 DEF Parts, Shape, EarInv
  <2>4. MouthInv(r)
    BY <1>2, <1>3 DEF Parts, Shape, MouthInv
  <2>5. TurnInv(r)
    BY <1>2 DEF Parts, Shape, TurnInv
  <2> QED  BY <2>1, <2>2, <2>3, <2>4, <2>5 DEF Parts
<1> QED  BY <1>1, <1>2, <1>3

LEMMA InputCancelKeeps ==
  ASSUME NEW s, Parts(s)
  PROVE  LET r == InputCancel(s) IN
         /\ Parts(r) /\ SameFace(s, r) /\ SameStreams(s, r)
         /\ r.current = s.current /\ r.ear = None /\ r.mouth = s.mouth /\ r.recording = {}
         /\ r.uttering = s.uttering /\ r.cut = s.cut
         /\ r.aborted = s.aborted /\ r.begun = s.begun /\ r.pending = s.pending
         /\ r.broken = s.broken
         /\ \A t \in Turn : r.pc[t] = IF t \in s.recording THEN "cancelled" ELSE s.pc[t]
         /\ BusyInv(s) => BusyInv(r)
<1>1. PICK r : r = InputCancel(s)
  OBVIOUS
<1>2. CASE s.ear = None
  BY <1>1, <1>2 DEF InputCancel, Parts, Shape, EarInv, SameFace, SameStreams
<1>3. CASE s.ear # None
  <2>1. PICK e \in Turn : e = s.ear
    BY <1>3 DEF Parts, Shape
  <2>2. s.recording = {e} /\ s.pc[e] = "listening"
    BY <1>3, <2>1 DEF Parts, EarInv
  <2>3. /\ DOMAIN r = Field /\ SameFace(s, r) /\ SameStreams(s, r)
        /\ r.current = s.current /\ r.ear = None /\ r.mouth = s.mouth /\ r.recording = {}
        /\ r.uttering = s.uttering /\ r.cut = s.cut
        /\ r.aborted = s.aborted /\ r.begun = s.begun /\ r.pending = s.pending
        /\ r.broken = s.broken
        /\ r.pc = [s.pc EXCEPT ![e] = "cancelled"]
    BY <1>1, <1>3, <2>1, <2>2 DEF InputCancel, Parts, Shape, Field, SameFace, SameStreams
  <2>4. Shape(r)
    BY <2>3 DEF Parts, Shape, SameFace
  <2>5. FaceInv(r) /\ EarInv(r)
    BY <2>3 DEF Parts, FaceInv, EarInv, SameFace
  <2>6. MouthInv(r)
    BY <2>2, <2>3 DEF Parts, Shape, MouthInv
  <2>7. TurnInv(r)
    BY <2>3 DEF Parts, Shape, TurnInv
  <2>8. BusyInv(r)
    BY <2>3 DEF BusyInv, Engaged, Parts, Shape
  <2>9. \A t \in Turn : r.pc[t] = IF t \in s.recording THEN "cancelled" ELSE s.pc[t]
    BY <2>2, <2>3 DEF Parts, Shape
  <2> QED  BY <1>1, <2>3, <2>4, <2>5, <2>6, <2>7, <2>8, <2>9 DEF Parts
<1> QED  BY <1>2, <1>3

LEMMA OutputCancelKeeps ==
  ASSUME NEW s, Parts(s)
  PROVE  LET r == OutputCancel(s) IN
         /\ Parts(r) /\ SameFace(s, r) /\ SameStreams(s, r)
         /\ r.current = s.current /\ r.ear = s.ear /\ r.mouth = None
         /\ r.recording = s.recording
         /\ r.uttering = s.uttering \ {s.mouth} /\ r.cut = r.uttering
         /\ r.aborted = s.aborted /\ r.begun = s.begun /\ r.pending = s.pending
         /\ \A t \in Turn :
              /\ r.pc[t] = IF t = s.mouth /\ s.pc[t] \in {"speaking", "finishing"}
                           THEN "cancelled" ELSE s.pc[t]
              /\ t # s.mouth => r.broken[t] = s.broken[t]
         /\ BusyInv(s) => BusyInv(r)
<1>1. PICK r : r = OutputCancel(s)
  OBVIOUS
<1>2. PICK m : m = s.mouth
  OBVIOUS
<1>3. PICK d : d = [s EXCEPT !.cut = s.uttering \ {m}, !.uttering = @ \ {m}, !.mouth = None]
  OBVIOUS
<1>4. /\ DOMAIN d = Field /\ SameFace(s, d) /\ SameStreams(s, d)
      /\ d.current = s.current /\ d.ear = s.ear /\ d.mouth = None
      /\ d.recording = s.recording
      /\ d.uttering = s.uttering \ {m} /\ d.cut = s.uttering \ {m}
      /\ d.aborted = s.aborted /\ d.begun = s.begun /\ d.pending = s.pending
      /\ d.broken = s.broken /\ d.pc = s.pc
  BY <1>3 DEF Parts, Shape, Field, SameFace, SameStreams
<1>5. m \in Turn \cup {None} /\ (m # None => m \in s.uttering)
  BY <1>2 DEF Parts, Shape, MouthInv
<1>6. /\ DOMAIN r = Field /\ SameFace(s, r) /\ SameStreams(s, r)
      /\ r.current = s.current /\ r.ear = s.ear /\ r.mouth = None
      /\ r.recording = s.recording
      /\ r.uttering = s.uttering \ {m} /\ r.cut = s.uttering \ {m}
      /\ r.aborted = s.aborted /\ r.begun = s.begun /\ r.pending = s.pending
      /\ \/ m = None /\ r.pc = s.pc /\ r.broken = s.broken
         \/ /\ m # None /\ s.pc[m] \in {"speaking", "finishing"}
            /\ r.pc = [s.pc EXCEPT ![m] = "cancelled"] /\ r.broken = s.broken
         \/ /\ m # None /\ s.pc[m] \notin {"speaking", "finishing"}
            /\ r.pc = s.pc /\ r.broken = [s.broken EXCEPT ![m] = "cancelled"]
  <2>1. CASE m = None
    <3>1. r = d
      BY <1>1, <1>2, <1>3, <2>1 DEF OutputCancel
    <3> QED  BY <1>4, <2>1, <3>1
  <2>2. CASE m # None /\ s.pc[m] \in {"speaking", "finishing"}
    <3>1. r = [d EXCEPT !.pc[m] = "cancelled"]
      BY <1>1, <1>2, <1>3, <2>2 DEF OutputCancel
    <3> QED  BY <1>4, <2>2, <3>1 DEF SameFace, SameStreams, Field
  <2>3. CASE m # None /\ s.pc[m] \notin {"speaking", "finishing"}
    <3>1. r = [d EXCEPT !.broken[m] = "cancelled"]
      BY <1>1, <1>2, <1>3, <2>3 DEF OutputCancel
    <3> QED  BY <1>4, <2>3, <3>1 DEF SameFace, SameStreams, Field
  <2> QED  BY <2>1, <2>2, <2>3
<1>7. \A t \in Turn :
        /\ r.pc[t] = IF t = m /\ s.pc[t] \in {"speaking", "finishing"}
                     THEN "cancelled" ELSE s.pc[t]
        /\ r.broken[t] = IF t = m /\ s.pc[t] \notin {"speaking", "finishing"}
                         THEN "cancelled" ELSE s.broken[t]
  BY <1>5, <1>6, VoiceAssumption DEF Parts, Shape, VoiceAssumption
<1>8. Shape(r)
  BY <1>5, <1>6 DEF Parts, Shape, SameFace
<1>9. FaceInv(r) /\ EarInv(r)
  <2>1. \A t \in s.recording : r.pc[t] = s.pc[t]
    BY <1>7 DEF Parts, Shape, EarInv
  <2> QED  BY <1>6, <2>1 DEF Parts, FaceInv, EarInv, SameFace
<1>10. MouthInv(r)
  <2>1. \A t \in r.uttering : t \in Turn /\ r.pc[t] = s.pc[t]
    BY <1>6, <1>7 DEF Parts, Shape
  <2> QED  BY <1>6, <2>1 DEF Parts, MouthInv
<1>11. TurnInv(r)
  <2>1. m # None => s.pc[m] \in {"asking", "finishing", "speaking", "done"}
                    /\ (s.pc[m] = "asking" => s.begun[m] > 0)
    BY <1>5 DEF Parts, MouthInv
  <2>2. ASSUME NEW t \in Turn
        PROVE  /\ r.pending[t] <= r.begun[t]
               /\ r.pc[t] = "none" => ~r.aborted[t]
               /\ r.pc[t] \in {"none", "prompted", "listening"} => r.begun[t] = 0
    BY <1>6, <1>7 DEF Parts, TurnInv
  <2>3. ASSUME NEW t \in Turn, r.begun[t] = 0,
               r.pc[t] \in {"none", "prompted", "listening", "asking"}
        PROVE  r.broken[t] = "no"
    <3>1. s.pc[t] = r.pc[t] /\ s.begun[t] = 0
      BY <1>6, <1>7, <2>3
    <3>2. t # m
      BY <1>5, <2>1, <2>3, <3>1, VoiceAssumption DEF VoiceAssumption
    <3> QED  BY <1>7, <2>3, <3>1, <3>2 DEF Parts, TurnInv
  <2> QED  BY <2>2, <2>3 DEF TurnInv
<1>12. BusyInv(s) => BusyInv(r)
  BY <1>6, <1>7 DEF BusyInv, Engaged, SameFace
<1> QED  BY <1>1, <1>2, <1>6, <1>7, <1>8, <1>9, <1>10, <1>11, <1>12 DEF Parts

(* Cancelled turns end; nothing else of them is left.                      *)
LEMMA SettleKeeps ==
  ASSUME NEW s, CoreInv(s)
  PROVE  LET r == Settle(s) IN
         /\ CoreInv(r) /\ Settled(r) /\ SameStreams(s, r)
         /\ r.ear = s.ear /\ r.mouth = s.mouth /\ r.recording = s.recording
         /\ r.uttering = s.uttering /\ r.cut = s.cut
         /\ r.aborted = s.aborted /\ r.begun = s.begun /\ r.pending = s.pending
         /\ r.broken = s.broken
         /\ \A t \in Turn : r.pc[t] = IF s.pc[t] = "cancelled" THEN "done" ELSE s.pc[t]
         /\ r.current \in {s.current, None}
         /\ s.current \in Turn /\ s.pc[s.current] # "cancelled" => r.current = s.current
         /\ Settled(s) => r = s
         /\ r.state \in {s.state, "IDLE"}
         /\ MouthShown(s) => MouthShown(r)
<1>1. PICK r : r = Settle(s)
  OBVIOUS
<1>2. PICK ending : ending = {t \in Turn : s.pc[t] = "cancelled"}
  OBVIOUS
<1>3. CASE ending = {}
  <2>1. r = s
    BY <1>1, <1>2, <1>3 DEF Settle
  <2>2. Settled(s)
    BY <1>2, <1>3 DEF Settled
  <2> QED  BY <1>1, <2>1, <2>2 DEF Settled, SameStreams
<1>4. CASE ending # {}
  <2>1. PICK m : m = Move(s, "IDLE")
    OBVIOUS
  <2>2. /\ SameBody(s, m) /\ m.state = "IDLE" /\ CoreInv(m)
        /\ MouthShown(s) => MouthShown(m)
    BY <2>1, MoveToRest DEF CoreInv, Parts
  <2>3. r = [m EXCEPT !.pc = [t \in Turn |-> IF t \in ending THEN "done" ELSE s.pc[t]],
                      !.current = IF @ \in ending THEN None ELSE @]
    BY <1>1, <1>2, <1>4, <2>1 DEF Settle
  <2>4. /\ DOMAIN r = Field /\ SameFace(m, r) /\ SameStreams(s, r)
        /\ r.ear = s.ear /\ r.mouth = s.mouth /\ r.recording = s.recording
        /\ r.uttering = s.uttering /\ r.cut = s.cut
        /\ r.aborted = s.aborted /\ r.begun = s.begun /\ r.pending = s.pending
        /\ r.broken = s.broken
        /\ r.pc = [t \in Turn |-> IF t \in ending THEN "done" ELSE s.pc[t]]
        /\ r.current = IF s.current \in ending THEN None ELSE s.current
    BY <2>2, <2>3 DEF SameBody, Field, SameFace, SameStreams
  <2>5. \A t \in Turn : r.pc[t] = IF s.pc[t] = "cancelled" THEN "done" ELSE s.pc[t]
    BY <1>2, <2>4
  <2>6. Settled(r)
    BY <2>5 DEF Settled
  <2>7. ~Settled(s)
    BY <1>2, <1>4 DEF Settled
  <2>8. Shape(r)
    BY <1>2, <2>2, <2>4 DEF CoreInv, Parts, Shape, SameFace, SameBody, Stage
  <2>9. FaceInv(r)
    BY <2>2, <2>4 DEF CoreInv, Parts, FaceInv, SameFace
  <2>10. EarInv(r)
    <3>1. \A t \in s.recording : t \in Turn /\ s.pc[t] = "listening"
      BY DEF CoreInv, Parts, Shape, EarInv
    <3>2. \A t \in s.recording : r.pc[t] = "listening"
      BY <2>5, <3>1
    <3> QED  BY <2>4, <3>2 DEF CoreInv, Parts, EarInv
  <2>11. MouthInv(r)
    <3>1. \A t \in s.uttering : t \in Turn /\ s.pc[t] # "cancelled"
      BY DEF CoreInv, Parts, Shape, MouthInv
    <3>2. \A t \in s.uttering : r.pc[t] = s.pc[t]
      BY <2>5, <3>1
    <3> QED  BY <2>4, <3>2 DEF CoreInv, Parts, MouthInv
  <2>12. TurnInv(r)
    BY <2>4, <2>5 DEF CoreInv, Parts, TurnInv
  <2>13. BusyInv(r)
    BY <2>2, <2>4 DEF BusyInv, Busy, SameFace
  <2>14. r.state = "IDLE" /\ (MouthShown(s) => MouthShown(r))
    BY <2>2, <2>4 DEF SameFace, MouthShown
  <2>15. CoreInv(r)
    BY <2>8, <2>9, <2>10, <2>11, <2>12, <2>13 DEF CoreInv, Parts
  <2>16. /\ r.current \in {s.current, None}
         /\ s.current \in Turn /\ s.pc[s.current] # "cancelled" => r.current = s.current
    BY <1>2, <2>4
  <2> QED  BY <1>1, <2>4, <2>5, <2>6, <2>7, <2>14, <2>15, <2>16
<1> QED  BY <1>3, <1>4

(* Turn t is over in r, which came from s: other turns can only have been  *)
(* stopped, and nothing is recorded or spoken that was not before.         *)
Ends(s, r, t) ==
  /\ SameStreams(s, r) /\ r.aborted = s.aborted
  /\ r.recording \subseteq s.recording /\ r.uttering \subseteq s.uttering
  /\ r.pc[t] = "done"
  /\ \A u \in Turn \ {t} :
       \/ r.pc[u] = s.pc[u]
       \/ r.pc[u] \in {"cancelled", "done"} /\ s.pc[u] \notin {"none", "prompted"}
  /\ r.current \in {s.current, None}
  /\ MouthShown(s) => MouthShown(r)

LEMMA SettleEnds ==
  ASSUME NEW s, NEW r, NEW t \in Turn, CoreInv(r), Ends(s, r, t)
  PROVE  LET e == Settle(r) IN
         CoreInv(e) /\ Settled(e) /\ Ends(s, e, t) /\ e.uttering = r.uttering
<1>1. PICK e : e = Settle(r)
  OBVIOUS
<1>2. /\ CoreInv(e) /\ Settled(e) /\ SameStreams(r, e)
      /\ e.recording = r.recording /\ e.uttering = r.uttering /\ e.aborted = r.aborted
      /\ \A u \in Turn : e.pc[u] = IF r.pc[u] = "cancelled" THEN "done" ELSE r.pc[u]
      /\ e.current \in {r.current, None}
      /\ MouthShown(r) => MouthShown(e)
  BY <1>1, SettleKeeps
<1>3. Ends(s, e, t)
  BY <1>2 DEF Ends, SameStreams
<1> QED  BY <1>1, <1>2, <1>3

LEMMA SilencedEnds ==
  ASSUME NEW s, Parts(s), NEW t \in Turn, t \notin s.recording,
         NEW x \in {"IDLE", "ERROR"}
  PROVE  LET r == Stop(Move(OutputCancel(s), x), t) IN
         CoreInv(r) /\ Ends(s, r, t) /\ r.uttering = s.uttering \ {s.mouth}
<1>1. PICK c : c = OutputCancel(s)
  OBVIOUS
<1>2. /\ Parts(c) /\ SameFace(s, c) /\ SameStreams(s, c)
      /\ c.current = s.current /\ c.recording = s.recording
      /\ c.uttering = s.uttering \ {s.mouth} /\ c.cut = c.uttering /\ c.aborted = s.aborted
      /\ \A u \in Turn : c.pc[u] = IF u = s.mouth /\ s.pc[u] \in {"speaking", "finishing"}
                                   THEN "cancelled" ELSE s.pc[u]
  BY <1>1, OutputCancelKeeps
<1>3. PICK m : m = Move(c, x)
  OBVIOUS
<1>4. /\ SameBody(c, m) /\ m.state = x /\ Parts(m)
      /\ MouthShown(c) => MouthShown(m)
  BY <1>2, <1>3, MoveToRest DEF Parts, CoreInv
<1>5. PICK r : r = Stop(m, t)
  OBVIOUS
<1>6. /\ SameFace(m, r) /\ SameStreams(m, r)
      /\ r.recording = m.recording /\ r.uttering = m.uttering /\ r.aborted = m.aborted
      /\ r.pc = [m.pc EXCEPT ![t] = "done"]
      /\ r.current = IF m.current = t THEN None ELSE m.current
      /\ Parts(r)
  BY <1>2, <1>4, <1>5, StopKeeps DEF SameBody
<1>7. BusyInv(r)
  BY <1>4, <1>6 DEF BusyInv, Busy, SameFace
<1>8. \A u \in Turn : r.pc[u] = IF u = t THEN "done" ELSE c.pc[u]
  BY <1>4, <1>6 DEF SameBody, Parts, Shape
<1>9. Ends(s, r, t)
  <2>1. SameStreams(s, r) /\ r.aborted = s.aborted
        /\ r.recording \subseteq s.recording /\ r.uttering \subseteq s.uttering
    BY <1>2, <1>4, <1>6 DEF SameStreams, SameBody
  <2>2. \A u \in Turn \ {t} :
          \/ r.pc[u] = s.pc[u]
          \/ r.pc[u] \in {"cancelled", "done"} /\ s.pc[u] \notin {"none", "prompted"}
    BY <1>2, <1>8
  <2>3. r.current \in {s.current, None}
    BY <1>2, <1>4, <1>6 DEF SameBody
  <2>4. MouthShown(s) => MouthShown(r)
    BY <1>2, <1>4, <1>6 DEF MouthShown, SameFace
  <2> QED  BY <1>8, <2>1, <2>2, <2>3, <2>4 DEF Ends
<1>10. r.uttering = s.uttering \ {s.mouth}
  BY <1>2, <1>4, <1>6 DEF SameBody
<1> QED  BY <1>1, <1>3, <1>5, <1>6, <1>7, <1>9, <1>10 DEF CoreInv

LEMMA FaultEnds ==
  ASSUME NEW s, Parts(s), NEW t \in Turn, t \notin s.recording
  PROVE  LET r == Fault(s, t) IN
         CoreInv(r) /\ Ends(s, r, t) /\ r.uttering = s.uttering \ {s.mouth}
BY SilencedEnds DEF Fault

(* A turn with nothing left to say ends, whichever way.                    *)
LEMMA RestEnds ==
  ASSUME NEW s, CoreInv(s), NEW t \in Turn, t \notin s.recording, t \notin s.uttering,
         s.pc[t] # "cancelled"
  PROVE  LET r == Rest(s, t) IN
         /\ CoreInv(r) /\ Ends(s, r, t) /\ r.uttering = s.uttering
         /\ Settled(s) => Settled(r)
<1>1. PICK m : m = IF s.aborted[t] THEN s ELSE Move(s, "IDLE")
  OBVIOUS
<1>2. /\ SameBody(s, m) /\ CoreInv(m)
      /\ m.state = IF s.aborted[t] THEN s.state ELSE "IDLE"
      /\ MouthShown(s) => MouthShown(m)
  BY <1>1, MoveToRest DEF CoreInv, Parts, SameBody, Shape
<1>3. PICK r : r = Stop(m, t)
  OBVIOUS
<1>4. /\ SameFace(m, r) /\ SameStreams(m, r)
      /\ r.recording = m.recording /\ r.uttering = m.uttering /\ r.aborted = m.aborted
      /\ r.pc = [m.pc EXCEPT ![t] = "done"]
      /\ r.current = IF m.current = t THEN None ELSE m.current
      /\ Parts(r)
  BY <1>2, <1>3, StopKeeps DEF SameBody, CoreInv
<1>5. \A u \in Turn : r.pc[u] = IF u = t THEN "done" ELSE s.pc[u]
  BY <1>2, <1>4 DEF SameBody, CoreInv, Parts, Shape
<1>6. BusyInv(r)
  <2>1. CASE s.aborted[t]
    <3>1. \A u \in Turn : Engaged(s, u) => u # t
      BY <2>1 DEF Engaged
    <3>2. \A u \in Turn : Engaged(s, u) => Engaged(r, u)
      BY <1>2, <1>4, <1>5, <3>1 DEF Engaged, SameBody
    <3> QED  BY <1>2, <1>4, <2>1, <3>2 DEF BusyInv, CoreInv, SameFace
  <2>2. CASE ~s.aborted[t]
    BY <1>2, <1>4, <2>2 DEF BusyInv, Busy, SameFace
  <2> QED  BY <2>1, <2>2
<1>7. Ends(s, r, t)
  <2>1. SameStreams(s, r) /\ r.aborted = s.aborted
        /\ r.recording \subseteq s.recording /\ r.uttering \subseteq s.uttering
    BY <1>2, <1>4 DEF SameStreams, SameBody
  <2>2. r.current \in {s.current, None}
    BY <1>2, <1>4 DEF SameBody
  <2>3. MouthShown(s) => MouthShown(r)
    BY <1>2, <1>4 DEF MouthShown, SameFace
  <2> QED  BY <1>5, <2>1, <2>2, <2>3 DEF Ends
<1>8. r = Rest(s, t)
  BY <1>1, <1>3 DEF Rest
<1>9. Settled(s) => Settled(r)
  BY <1>5 DEF Settled
<1> QED  BY <1>2, <1>4, <1>6, <1>7, <1>8, <1>9 DEF CoreInv, SameBody

LEMMA FinishEnds ==
  ASSUME NEW s, CoreInv(s), NEW t \in Turn, t \notin s.recording, t \notin s.uttering,
         s.pc[t] # "cancelled"
  PROVE  LET r == Finish(s, t) IN
         CoreInv(r) /\ Ends(s, r, t) /\ r.uttering \subseteq s.uttering
<1>1. s.broken[t] \in {"no", "failed", "cancelled"}
  BY DEF CoreInv, Parts, Shape
<1>2. CASE s.broken[t] = "no"
  <2>1. Finish(s, t) = Rest(s, t)
    BY <1>2 DEF Finish
  <2> QED  BY <2>1, RestEnds
<1>3. CASE s.broken[t] = "failed"
  <2>1. Finish(s, t) = Fault(s, t)
    BY <1>3 DEF Finish
  <2> QED  BY <2>1, FaultEnds DEF CoreInv
<1>4. CASE s.broken[t] = "cancelled"
  <2>1. Finish(s, t) = Stop(Move(s, "IDLE"), t)
    BY <1>4 DEF Finish
  <2>2. PICK m : m = Move(s, "IDLE")
    OBVIOUS
  <2>3. /\ SameBody(s, m) /\ Parts(m) /\ m.state = "IDLE"
        /\ MouthShown(s) => MouthShown(m)
    BY <2>2, MoveToRest DEF CoreInv, Parts
  <2>4. PICK r : r = Stop(m, t)
    OBVIOUS
  <2>5. /\ SameFace(m, r) /\ SameStreams(m, r)
        /\ r.recording = m.recording /\ r.uttering = m.uttering /\ r.aborted = m.aborted
        /\ r.pc = [m.pc EXCEPT ![t] = "done"]
        /\ r.current = IF m.current = t THEN None ELSE m.current
        /\ Parts(r)
    BY <2>3, <2>4, StopKeeps DEF SameBody
  <2>6. \A u \in Turn : r.pc[u] = IF u = t THEN "done" ELSE s.pc[u]
    BY <2>3, <2>5 DEF SameBody, CoreInv, Parts, Shape
  <2>7. BusyInv(r)
    BY <2>3, <2>5 DEF BusyInv, Busy, SameFace
  <2>8. SameStreams(s, r) /\ r.aborted = s.aborted
        /\ r.recording \subseteq s.recording /\ r.uttering \subseteq s.uttering
        /\ r.current \in {s.current, None}
    BY <2>3, <2>5 DEF SameStreams, SameBody
  <2>9. MouthShown(s) => MouthShown(r)
    BY <2>3, <2>5 DEF MouthShown, SameFace
  <2>10. Ends(s, r, t)
    BY <2>6, <2>8, <2>9 DEF Ends
  <2> QED  BY <2>1, <2>2, <2>4, <2>5, <2>7, <2>8, <2>10 DEF CoreInv
<1> QED  BY <1>1, <1>2, <1>3, <1>4


-----------------------------------------------------------------------------
(* What the next state needs. *)

LEMMA StreamKept ==
  ASSUME NEW s, NEW r, StreamInv(s), SameStreams(s, r), Entered(s) \subseteq Entered(r)
  PROVE  StreamInv(r)
<1>1. /\ IsFiniteSet(Entered(r))
      /\ Cardinality(Entered(s)) \in Nat /\ Cardinality(Entered(r)) \in Nat
  <2>1. IsFiniteSet(Entered(s)) /\ IsFiniteSet(Entered(r))
    BY FS_Subset, VoiceAssumption DEF VoiceAssumption, Entered
  <2> QED  BY <2>1, FS_CardinalityType
<1>2. Cardinality(Entered(s)) <= Cardinality(Entered(r))
  BY <1>1, FS_Subset
<1> QED  BY <1>1, <1>2 DEF StreamInv, SameStreams

(* A step of turn t disturbs no turn that is alone: when t is under way,   *)
(* no other one is.                                                        *)
LEMMA AloneAfter ==
  ASSUME NEW s, Parts(s), NEW over \in SUBSET Turn, AloneInv(s, over),
         NEW r, NEW o \in SUBSET Turn, over \subseteq o, NEW t \in Turn,
         Open(s, t) \/ \A u \in Turn : Open(s, u) => {u, t} \subseteq o,
         \A u \in Turn \ {t} : Open(r, u) => Open(s, u),
         r.recording \subseteq s.recording \cup {t},
         r.uttering \subseteq s.uttering \cup {t},
         t \notin o => AloneOk(r, t)
  PROVE  AloneInv(r, o)
<1>1. \A u \in Turn \ {t} : Open(s, u) => u \in o
  BY DEF AloneInv
<1>2. ASSUME NEW x \in Turn, NEW u \in Turn, x # u, Open(r, x), Open(r, u)
      PROVE  x \in o
  <2>1. CASE x # t
    BY <1>1, <1>2, <2>1
  <2>2. CASE x = t
    <3>1. Open(s, u)
      BY <1>2, <2>2
    <3> QED  BY <1>2, <2>2, <3>1 DEF AloneInv
  <2> QED  BY <2>1, <2>2
<1>3. ASSUME NEW u \in Turn \ o, u # t
      PROVE  AloneOk(r, u)
  <2>1. ~Open(s, u) /\ ~Open(r, u) /\ AloneOk(s, u)
    BY <1>1, <1>3 DEF AloneInv
  <2>2. u \notin s.recording
    BY <2>1 DEF Open, Parts, EarInv
  <2>3. u \notin s.uttering
    BY <2>1 DEF Open, AloneOk, Parts, MouthInv
  <2>4. u \notin r.recording /\ u \notin r.uttering
    BY <1>3, <2>2, <2>3
  <2> QED  BY <2>1, <2>4 DEF AloneOk, Open
<1> QED  BY <1>2, <1>3 DEF AloneInv

LEMMA After ==
  ASSUME NEW s, NEW over, Inv(s, over), NEW r, NEW o \in SUBSET Turn, over \subseteq o,
         NEW t \in Turn,
         Open(s, t) \/ \A u \in Turn : Open(s, u) => {u, t} \subseteq o,
         \A u \in Turn \ {t} : Open(r, u) => Open(s, u),
         r.recording \subseteq s.recording \cup {t},
         r.uttering \subseteq s.uttering \cup {t},
         t \notin o => AloneOk(r, t),
         CoreInv(r), Settled(r), StopInv(r), StreamInv(r),
         MouthShown(s) /\ o = {} => MouthShown(r)
  PROVE  Inv(r, o)
<1>1. AloneInv(r, o)
  BY AloneAfter DEF Inv, CoreInv
<1>2. o = {} => MouthShown(r)
  BY DEF Inv
<1> QED  BY <1>1, <1>2 DEF Inv

LEMMA AfterEnd ==
  ASSUME NEW s, NEW over, Inv(s, over), NEW r, NEW t \in Turn, Open(s, t),
         CoreInv(r), Settled(r), Ends(s, r, t), t \notin over => t \notin r.uttering
  PROVE  Inv(r, over)
<1>1. Entered(s) \subseteq Entered(r)
  BY DEF Ends, Entered
<1>2. StreamInv(r)
  BY <1>1, StreamKept DEF Inv, Ends
<1>3. StopInv(r)
  <2>1. r.current # None => r.pc[r.current] # "none"
    <3>1. ASSUME r.current # None
          PROVE  r.current \in Turn /\ s.pc[r.current] # "none"
      BY <3>1 DEF Inv, StopInv, Ends, CoreInv, Parts, Shape
    <3> QED  BY <3>1 DEF Ends
  <2> QED  BY <2>1 DEF Inv, StopInv, Ends
<1>4. AloneOk(r, t) \/ t \in over
  <2>1. r.pc[t] = "done"
    BY DEF Ends
  <2>2. t \notin r.recording
    BY <2>1 DEF CoreInv, Parts, EarInv
  <2> QED  BY <2>1, <2>2 DEF AloneOk, Open
<1>5. \A u \in Turn \ {t} : Open(r, u) => Open(s, u)
  BY DEF Ends, Open, Settled
<1> QED  BY <1>2, <1>3, <1>4, <1>5, After DEF Inv, Ends

-----------------------------------------------------------------------------
(* Each event keeps the invariant: first those that end a turn.            *)

LEMMA SettledFaultEnds ==
  ASSUME NEW s, NEW over, Inv(s, over), NEW t \in Turn, Open(s, t), t \notin s.recording
  PROVE  LET r == Settle(Fault(s, t)) IN Inv(r, over) /\ r.uttering \subseteq s.uttering
<1>1. PICK f : f = Fault(s, t)
  OBVIOUS
<1>2. CoreInv(f) /\ Ends(s, f, t) /\ f.uttering = s.uttering \ {s.mouth}
  BY <1>1, FaultEnds DEF Inv, CoreInv
<1>3. PICK r : r = Settle(f)
  OBVIOUS
<1>4. CoreInv(r) /\ Settled(r) /\ Ends(s, r, t) /\ r.uttering = f.uttering
  BY <1>2, <1>3, SettleEnds
<1>5. t \notin over => t \notin r.uttering
  BY <1>2, <1>4 DEF Inv, AloneInv, AloneOk
<1> QED  BY <1>1, <1>2, <1>3, <1>4, <1>5, AfterEnd

LEMMA RefuseKeeps ==
  ASSUME VInv, NEW t \in Turn, Refuse(t)
  PROVE  VInv' /\ StaysSilent
<1>1. Open(v, t) /\ t \notin v.recording
  BY DEF VInv, Inv, CoreInv, Parts, EarInv, Refuse, Open
<1> QED  BY <1>1, SettledFaultEnds DEF VInv, StaysSilent, Refuse

LEMMA UnansweredKeeps ==
  ASSUME VInv, NEW t \in Turn, Unanswered(t)
  PROVE  VInv' /\ StaysSilent
<1>1. Open(v, t) /\ t \notin v.recording
  BY DEF VInv, Inv, CoreInv, Parts, EarInv, Unanswered, Open
<1> QED  BY <1>1, SettledFaultEnds DEF VInv, StaysSilent, Unanswered

(* The recognition of a turn is over.                                      *)
LEMMA EndListeningFields ==
  ASSUME Inv(v, overlapped), NEW t \in v.recording
  PROVE  LET e == EndListening(t) IN
         /\ CoreInv(e) /\ SameFace(v, e) /\ SameStreams(v, e)
         /\ t \in Turn /\ v.pc[t] = "listening" /\ ~v.aborted[t] /\ t \notin v.uttering
         /\ e.current = v.current /\ e.ear = None /\ e.mouth = v.mouth /\ e.recording = {}
         /\ e.uttering = v.uttering /\ e.cut = v.cut /\ e.pc = v.pc
         /\ e.aborted = v.aborted /\ e.begun = v.begun /\ e.pending = v.pending
         /\ e.broken = v.broken
<1>1. PICK e : e = EndListening(t)
  OBVIOUS
<1>2. /\ t \in Turn /\ v.pc[t] = "listening" /\ ~v.aborted[t] /\ t \notin v.uttering
      /\ v.ear = t /\ v.recording = {t}
  BY DEF Inv, CoreInv, Parts, Shape, EarInv, MouthInv, StopInv
<1>3. /\ DOMAIN e = Field /\ SameFace(v, e) /\ SameStreams(v, e)
      /\ e.current = v.current /\ e.ear = None /\ e.mouth = v.mouth /\ e.recording = {}
      /\ e.uttering = v.uttering /\ e.cut = v.cut /\ e.pc = v.pc
      /\ e.aborted = v.aborted /\ e.begun = v.begun /\ e.pending = v.pending
      /\ e.broken = v.broken
  BY <1>1, <1>2 DEF EndListening, Inv, CoreInv, Parts, Shape, Field, SameFace, SameStreams
<1>4. Shape(e) /\ FaceInv(e)
  BY <1>3 DEF Inv, CoreInv, Parts, Shape, FaceInv, SameFace
<1>5. EarInv(e) /\ MouthInv(e) /\ TurnInv(e)
  BY <1>3 DEF Inv, CoreInv, Parts, EarInv, MouthInv, TurnInv
<1>6. BusyInv(e)
  BY <1>3 DEF Inv, CoreInv, BusyInv, Engaged, SameFace
<1> QED  BY <1>1, <1>2, <1>3, <1>4, <1>5, <1>6 DEF CoreInv, Parts

LEMMA HearNothingKeeps ==
  ASSUME VInv, NEW t \in Turn, HearNothing(t)
  PROVE  VInv' /\ StaysSilent
<1>1. PICK e : e = EndListening(t)
  OBVIOUS
<1>2. /\ CoreInv(e) /\ SameFace(v, e) /\ SameStreams(v, e)
      /\ v.pc[t] = "listening" /\ ~v.aborted[t] /\ t \notin v.uttering
      /\ e.current = v.current /\ e.recording = {} /\ e.uttering = v.uttering
      /\ e.pc = v.pc /\ e.aborted = v.aborted
      /\ e.ear = None /\ e.mouth = v.mouth /\ e.cut = v.cut
      /\ e.begun = v.begun /\ e.pending = v.pending /\ e.broken = v.broken
  BY <1>1, EndListeningFields DEF VInv, HearNothing
<1>3. Open(v, t)
  BY <1>2 DEF Open
<1>4. CASE v' = Settle(Fault(e, t))
  <2>1. PICK f : f = Fault(e, t)
    OBVIOUS
  <2>2. CoreInv(f) /\ Ends(e, f, t)
    BY <1>2, <2>1, FaultEnds DEF CoreInv
  <2>3. Ends(v, f, t)
    BY <1>2, <2>2 DEF Ends, SameStreams, SameFace, MouthShown
  <2>4. PICK r : r = Settle(f)
    OBVIOUS
  <2>5. CoreInv(r) /\ Settled(r) /\ Ends(v, r, t)
    BY <2>2, <2>3, <2>4, SettleEnds
  <2>6. t \notin r.uttering
    BY <1>2, <2>5 DEF Ends
  <2>7. Inv(r, overlapped)
    BY <1>3, <2>5, <2>6, AfterEnd DEF VInv
  <2> QED  BY <1>4, <2>1, <2>4, <2>5, <2>7 DEF VInv, StaysSilent, Ends, HearNothing
<1>5. CASE v' = Settle([e EXCEPT !.pc[t] = "cancelled"])
  <2>1. PICK c : c = [e EXCEPT !.pc[t] = "cancelled"]
    OBVIOUS
  <2>2. /\ DOMAIN c = Field /\ SameFace(e, c) /\ SameStreams(e, c)
        /\ c.current = e.current /\ c.ear = e.ear /\ c.mouth = e.mouth
        /\ c.recording = e.recording
        /\ c.uttering = e.uttering /\ c.cut = e.cut
        /\ c.aborted = e.aborted /\ c.begun = e.begun /\ c.pending = e.pending
        /\ c.broken = e.broken /\ c.pc = [e.pc EXCEPT ![t] = "cancelled"]
    BY <1>2, <2>1 DEF CoreInv, Parts, Shape, Field, SameFace, SameStreams
  <2>3. Shape(c) /\ FaceInv(c)
    BY <1>2, <2>2 DEF CoreInv, Parts, Shape, FaceInv, SameFace
  <2>4. EarInv(c)
    BY <1>2, <2>2 DEF CoreInv, Parts, EarInv
  <2>5. MouthInv(c)
    BY <1>2, <2>2 DEF CoreInv, Parts, Shape, MouthInv
  <2>6. TurnInv(c)
    BY <1>2, <2>2 DEF CoreInv, Parts, Shape, TurnInv
  <2>7. BusyInv(c)
    BY <1>2, <2>2 DEF CoreInv, Parts, Shape, BusyInv, Engaged, SameFace
  <2>8. PICK r : r = Settle(c)
    OBVIOUS
  <2>9. /\ CoreInv(r) /\ Settled(r) /\ SameStreams(c, r)
        /\ r.recording = c.recording /\ r.uttering = c.uttering /\ r.aborted = c.aborted
        /\ \A u \in Turn : r.pc[u] = IF c.pc[u] = "cancelled" THEN "done" ELSE c.pc[u]
        /\ r.current \in {c.current, None}
        /\ MouthShown(c) => MouthShown(r)
    BY <2>3, <2>4, <2>5, <2>6, <2>7, <2>8, SettleKeeps DEF CoreInv, Parts
  <2>10. MouthShown(v) => MouthShown(c)
    BY <1>2, <2>2 DEF MouthShown, SameFace
  <2>11. \A u \in Turn : c.pc[u] = IF u = t THEN "cancelled" ELSE v.pc[u]
    BY <1>2, <2>2 DEF CoreInv, Parts, Shape
  <2>12. Ends(v, r, t)
    BY <1>2, <2>2, <2>9, <2>10, <2>11 DEF Ends, SameStreams
  <2>13. t \notin r.uttering
    BY <1>2, <2>2, <2>9
  <2>14. Inv(r, overlapped)
    BY <1>3, <2>9, <2>12, <2>13, AfterEnd DEF VInv
  <2> QED  BY <1>5, <2>1, <2>8, <2>12, <2>14 DEF VInv, StaysSilent, Ends, HearNothing
<1> QED  BY <1>1, <1>4, <1>5 DEF HearNothing

(* Steps that only change what is shown.                                   *)
LEMMA AfterFace ==
  ASSUME NEW s, NEW over, Inv(s, over), NEW r, SameBody(s, r), CoreInv(r),
         r.state = s.state \/ s.state = "ERROR",
         over = {} /\ MouthShown(s) => MouthShown(r)
  PROVE  Inv(r, over)
<1>1. Settled(r) /\ StopInv(r)
  BY DEF Inv, Settled, StopInv, SameBody
<1>2. StreamInv(r)
  BY StreamKept DEF Inv, SameBody, SameStreams, Entered
<1>3. AloneInv(r, over)
  <2>1. \A t \in Turn : Open(r, t) <=> Open(s, t)
    BY DEF SameBody, Open
  <2>2. ASSUME NEW t \in Turn \ over
        PROVE  AloneOk(r, t)
    <3>1. AloneOk(s, t)
      BY DEF Inv, AloneInv
    <3>2. CASE r.state = s.state
      BY <3>1, <3>2 DEF AloneOk, SameBody, Open
    <3>3. CASE s.state = "ERROR"
      BY <3>1, <3>3 DEF AloneOk, SameBody, Open
    <3> QED  BY <3>2, <3>3
  <2> QED  BY <2>1, <2>2 DEF Inv, AloneInv
<1> QED  BY <1>1, <1>2, <1>3 DEF Inv

LEMMA HearPartlyKeeps ==
  ASSUME VInv, NEW t \in Turn, HearPartly(t)
  PROVE  VInv' /\ StaysSilent
<1>1. PICK r : r = Cued(v)
  OBVIOUS
<1>2. SameBody(v, r) /\ CoreInv(r) /\ r.state = v.state /\ (MouthShown(v) => MouthShown(r))
  BY <1>1, CuedKeeps DEF VInv, Inv
<1>3. Inv(r, overlapped)
  BY <1>2, AfterFace DEF VInv
<1> QED  BY <1>1, <1>2, <1>3 DEF VInv, StaysSilent, SameBody, HearPartly

LEMMA PronounceKeeps ==
  ASSUME VInv, NEW t \in Turn, Pronounce(t)
  PROVE  VInv' /\ StaysSilent
<1>1. PICK c : c = Cued(v)
  OBVIOUS
<1>2. /\ SameBody(v, c) /\ CoreInv(c) /\ c.state = v.state /\ c.pose = PoseOf(v.state)
  BY <1>1, CuedKeeps DEF VInv, Inv
<1>3. PICK r : r = [c EXCEPT !.moving = TRUE]
  OBVIOUS
<1>4. v' = r
  BY <1>1, <1>3 DEF Pronounce, WordReached, SpeechStarts
<1>5. SameBody(c, r) /\ r.state = c.state /\ r.pose = c.pose /\ r.moving = TRUE
  BY <1>2, <1>3 DEF SameBody, Field
<1>6. SameBody(v, r)
  BY <1>2, <1>5 DEF SameBody
<1>7. CoreInv(r)
  <2>1. Shape(r) /\ FaceInv(r)
    BY <1>2, <1>5 DEF CoreInv, Parts, Shape, FaceInv, SameBody
  <2>2. BusyInv(r)
    BY <1>2, <1>5 DEF CoreInv, BusyInv, Engaged, SameBody
  <2> QED  BY <1>2, <1>5, <2>1, <2>2, BodyKept DEF CoreInv, Parts
<1>8. ASSUME overlapped = {}
      PROVE  r.pose = "SPEAKING"
  <2>1. v.state = "SPEAKING"
    BY <1>8 DEF VInv, Inv, AloneInv, AloneOk, Pronounce
  <2> QED  BY <1>2, <1>5, <2>1 DEF PoseOf
<1>9. overlapped = {} => MouthShown(r)
  BY <1>8 DEF MouthShown
<1>10. Inv(r, overlapped)
  BY <1>2, <1>5, <1>6, <1>7, <1>9, AfterFace DEF VInv
<1> QED  BY <1>4, <1>6, <1>10 DEF VInv, StaysSilent, SameBody, Pronounce

LEMMA ResetKeeps ==
  ASSUME VInv, Reset
  PROVE  VInv' /\ StaysSilent
<1>1. PICK r : r = Move(v, "IDLE")
  OBVIOUS
<1>2. SameBody(v, r) /\ CoreInv(r) /\ (MouthShown(v) => MouthShown(r))
  BY <1>1, MoveToRest DEF VInv, Inv, CoreInv, Parts
<1>3. Inv(r, overlapped)
  BY <1>2, AfterFace DEF VInv, Reset
<1> QED  BY <1>1, <1>2, <1>3 DEF VInv, StaysSilent, SameBody, Reset

LEMMA PageCommandsKeeps ==
  ASSUME VInv, PageCommands
  PROVE  VInv' /\ StaysSilent
<1>1. CASE v' = Cued(v)
  <2>1. PICK r : r = Cued(v)
    OBVIOUS
  <2>2. SameBody(v, r) /\ CoreInv(r) /\ r.state = v.state /\ (MouthShown(v) => MouthShown(r))
    BY <2>1, CuedKeeps DEF VInv, Inv
  <2>3. Inv(r, overlapped)
    BY <2>2, AfterFace DEF VInv
  <2> QED  BY <1>1, <2>1, <2>2, <2>3 DEF VInv, StaysSilent, SameBody, PageCommands
<1>2. ASSUME NEW pose \in PagePoses, v' = Commanded(v, pose)
      PROVE  VInv' /\ StaysSilent
  <2>1. PICK r : r = Commanded(v, pose)
    OBVIOUS
  <2>2. SameBody(v, r) /\ CoreInv(r) /\ r.state = v.state /\ (MouthShown(v) => MouthShown(r))
    BY <2>1, CommandedKeeps DEF VInv, Inv
  <2>3. Inv(r, overlapped)
    BY <2>2, AfterFace DEF VInv
  <2> QED  BY <1>2, <2>1, <2>2, <2>3 DEF VInv, StaysSilent, SameBody, PageCommands
<1> QED  BY <1>1, <1>2 DEF PageCommands

LEMMA HearKeeps ==
  ASSUME VInv, NEW t \in Turn, Hear(t)
  PROVE  VInv' /\ StaysSilent
<1>1. PICK e : e = EndListening(t)
  OBVIOUS
<1>2. /\ CoreInv(e) /\ SameFace(v, e) /\ SameStreams(v, e)
      /\ v.pc[t] = "listening" /\ ~v.aborted[t] /\ t \notin v.uttering
      /\ e.current = v.current /\ e.recording = {} /\ e.uttering = v.uttering
      /\ e.pc = v.pc /\ e.aborted = v.aborted
      /\ e.ear = None /\ e.mouth = v.mouth /\ e.cut = v.cut
      /\ e.begun = v.begun /\ e.pending = v.pending /\ e.broken = v.broken
  BY <1>1, EndListeningFields DEF VInv, Hear
<1>3. PICK m : m = Move(e, "PROCESSING")
  OBVIOUS
<1>4. /\ SameBody(e, m) /\ Shape(m) /\ FaceInv(m)
      /\ m.state = IF Reaches(e, "PROCESSING") THEN "PROCESSING" ELSE e.state
      /\ MouthShown(e) => MouthShown(m)
  BY <1>2, <1>3, MoveFields, StateFacts DEF CoreInv, Parts
<1>5. PICK r : r = [m EXCEPT !.pc[t] = "asking"]
  OBVIOUS
<1>6. v' = r
  BY <1>1, <1>3, <1>5 DEF Hear
<1>7. /\ DOMAIN r = Field /\ SameFace(m, r) /\ SameStreams(v, r)
      /\ r.current = v.current /\ r.ear = None /\ r.mouth = v.mouth /\ r.recording = {}
      /\ r.uttering = v.uttering /\ r.cut = v.cut
      /\ r.aborted = v.aborted /\ r.begun = v.begun /\ r.pending = v.pending
      /\ r.broken = v.broken /\ r.pc = [v.pc EXCEPT ![t] = "asking"]
  BY <1>2, <1>4, <1>5 DEF SameBody, Field, SameFace, SameStreams
<1>8. \A u \in Turn : r.pc[u] = IF u = t THEN "asking" ELSE v.pc[u]
  BY <1>7 DEF VInv, Inv, CoreInv, Parts, Shape
<1>9. CoreInv(r)
  <2>1. Shape(r) /\ FaceInv(r)
    BY <1>2, <1>4, <1>7 DEF Shape, FaceInv, SameFace, CoreInv, Parts, Stage
  <2>2. EarInv(r)
    BY <1>7 DEF EarInv
  <2>3. MouthInv(r)
    BY <1>2, <1>7, <1>8 DEF VInv, Inv, CoreInv, Parts, Shape, MouthInv
  <2>4. TurnInv(r)
    BY <1>2, <1>7, <1>8 DEF VInv, Inv, CoreInv, Parts, Shape, TurnInv
  <2>5. Engaged(r, t)
    BY <1>2, <1>7, <1>8 DEF Engaged
  <2> QED  BY <2>1, <2>2, <2>3, <2>4, <2>5 DEF CoreInv, Parts, BusyInv
<1>10. Settled(r) /\ StopInv(r)
  BY <1>7, <1>8 DEF VInv, Inv, CoreInv, Parts, Shape, Settled, StopInv
<1>11. StreamInv(r)
  <2>1. Entered(v) \subseteq Entered(r)
    BY <1>8 DEF Entered
  <2> QED  BY <1>7, <2>1, StreamKept DEF VInv, Inv
<1>12. ASSUME t \notin overlapped
       PROVE  AloneOk(r, t)
  <2>1. v.state = "LISTENING" /\ v.current = t
    BY <1>2, <1>12 DEF VInv, Inv, AloneInv, AloneOk, Open, Hear
  <2>2. r.state = "PROCESSING"
    BY <1>2, <1>4, <1>7, <2>1 DEF SameFace, Reaches, Transitions
  <2>3. r.begun[t] = 0
    BY <1>2, <1>7 DEF VInv, Inv, CoreInv, Parts, TurnInv
  <2> QED  BY <1>2, <1>7, <1>8, <2>1, <2>2, <2>3 DEF AloneOk
<1>13. MouthShown(v) => MouthShown(r)
  BY <1>2, <1>4, <1>7 DEF MouthShown, SameFace
<1>14. Open(v, t) /\ \A u \in Turn \ {t} : Open(r, u) => Open(v, u)
  BY <1>2, <1>8 DEF Open
<1>15. Inv(r, overlapped)
  BY <1>7, <1>9, <1>10, <1>11, <1>12, <1>13, <1>14, After DEF VInv, Inv
<1> QED  BY <1>6, <1>7, <1>15 DEF VInv, StaysSilent, Hear

-----------------------------------------------------------------------------
(* Events that speak. *)

Speakable(s, t) ==
  /\ s.pc[t] \in {"asking", "finishing", "speaking"}
  /\ s.pc[t] = "asking" => s.begun[t] > 0

LEMMA UtterKeeps ==
  ASSUME NEW s, Parts(s), NEW t \in Turn, Speakable(s, t)
  PROVE  LET r == Utter(s, t) IN
         /\ Parts(r) /\ SameFace(s, r) /\ SameStreams(s, r)
         /\ r.current = s.current /\ r.ear = s.ear /\ r.mouth = t
         /\ r.recording = s.recording /\ r.uttering = s.uttering \cup {t} /\ r.cut = s.cut
         /\ r.pc = s.pc /\ r.aborted = s.aborted /\ r.begun = s.begun
         /\ r.pending = s.pending /\ r.broken = s.broken
         /\ BusyInv(s) => BusyInv(r)
<1>1. PICK r : r = Utter(s, t)
  OBVIOUS
<1>2. /\ DOMAIN r = Field /\ SameFace(s, r) /\ SameStreams(s, r)
      /\ r.current = s.current /\ r.ear = s.ear /\ r.mouth = t
      /\ r.recording = s.recording /\ r.uttering = s.uttering \cup {t} /\ r.cut = s.cut
      /\ r.pc = s.pc /\ r.aborted = s.aborted /\ r.begun = s.begun
      /\ r.pending = s.pending /\ r.broken = s.broken
  BY <1>1 DEF Utter, Parts, Shape, Field, SameFace, SameStreams
<1>3. Shape(r) /\ FaceInv(r)
  BY <1>2 DEF Parts, Shape, FaceInv, SameFace
<1>4. EarInv(r) /\ TurnInv(r)
  BY <1>2 DEF Parts, EarInv, TurnInv
<1>5. MouthInv(r)
  BY <1>2 DEF Parts, MouthInv, Speakable
<1>6. BusyInv(s) => BusyInv(r)
  BY <1>2 DEF BusyInv, Engaged, SameFace
<1> QED  BY <1>1, <1>2, <1>3, <1>4, <1>5, <1>6 DEF Parts

LEMMA SpeakNextKeeps ==
  ASSUME NEW s, Parts(s), NEW t \in Turn,
         s.broken[t] = "no" /\ t \notin s.uttering => Speakable(s, t)
  PROVE  LET r == SpeakNext(s, t) IN
         /\ Parts(r) /\ SameFace(s, r) /\ SameStreams(s, r)
         /\ r.current = s.current /\ r.ear = s.ear /\ r.recording = s.recording
         /\ r.cut = s.cut /\ r.pc = s.pc /\ r.aborted = s.aborted /\ r.begun = s.begun
         /\ r.broken = s.broken
         /\ \/ r = s
            \/ /\ t \notin s.uttering /\ s.broken[t] = "no"
               /\ r.mouth = t /\ r.uttering = s.uttering \cup {t}
         /\ BusyInv(s) => BusyInv(r)
<1>1. CASE t \in s.uttering \/ s.pending[t] = 0 \/ s.broken[t] # "no"
  BY <1>1 DEF SpeakNext, SameFace, SameStreams
<1>2. CASE t \notin s.uttering /\ s.pending[t] # 0 /\ s.broken[t] = "no"
  <2>1. PICK w : w = Utter(s, t)
    OBVIOUS
  <2>2. /\ Parts(w) /\ SameFace(s, w) /\ SameStreams(s, w)
        /\ w.current = s.current /\ w.ear = s.ear /\ w.mouth = t
        /\ w.recording = s.recording /\ w.uttering = s.uttering \cup {t} /\ w.cut = s.cut
        /\ w.pc = s.pc /\ w.aborted = s.aborted /\ w.begun = s.begun
        /\ w.pending = s.pending /\ w.broken = s.broken
        /\ BusyInv(s) => BusyInv(w)
    BY <1>2, <2>1, UtterKeeps
  <2>3. PICK r : r = [w EXCEPT !.pending[t] = @ - 1]
    OBVIOUS
  <2>4. r = SpeakNext(s, t)
    BY <1>2, <2>1, <2>3 DEF SpeakNext
  <2>5. /\ DOMAIN r = Field /\ SameFace(w, r) /\ SameStreams(w, r)
        /\ r.current = w.current /\ r.ear = w.ear /\ r.mouth = w.mouth
        /\ r.recording = w.recording /\ r.uttering = w.uttering /\ r.cut = w.cut
        /\ r.pc = w.pc /\ r.aborted = w.aborted /\ r.begun = w.begun
        /\ r.broken = w.broken /\ r.pending = [w.pending EXCEPT ![t] = @ - 1]
    BY <2>2, <2>3 DEF Parts, Shape, Field, SameFace, SameStreams
  <2>6. w.pending[t] \in 1 .. MaxSentences
    BY <1>2, <2>2, VoiceAssumption DEF Parts, Shape, VoiceAssumption
  <2>7. r.pending \in [Turn -> 0 .. MaxSentences]
    <3>1. w.pending[t] - 1 \in 0 .. MaxSentences
      BY <2>6, VoiceAssumption DEF VoiceAssumption
    <3> QED  BY <2>2, <2>5, <3>1 DEF Parts, Shape
  <2>8. Shape(r) /\ FaceInv(r)
    BY <2>2, <2>5, <2>7 DEF Parts, Shape, FaceInv, SameFace
  <2>9. EarInv(r) /\ MouthInv(r)
    BY <2>2, <2>5 DEF Parts, EarInv, MouthInv
  <2>10. TurnInv(r)
    <3>1. \A u \in Turn : r.pending[u] <= r.begun[u]
      <4>1. w.pending[t] - 1 <= w.begun[t]
        BY <2>2, <2>6, VoiceAssumption DEF Parts, Shape, TurnInv, VoiceAssumption
      <4> QED  BY <2>2, <2>5, <4>1 DEF Parts, Shape, TurnInv
    <3> QED  BY <2>2, <2>5, <3>1 DEF Parts, TurnInv
  <2>11. BusyInv(w) => BusyInv(r)
    BY <2>5 DEF BusyInv, Engaged, SameFace
  <2>12. SameFace(s, r) /\ SameStreams(s, r)
    BY <2>2, <2>5 DEF SameFace, SameStreams
  <2> QED  BY <1>2, <2>2, <2>4, <2>5, <2>8, <2>9, <2>10, <2>11, <2>12 DEF Parts
<1> QED  BY <1>1, <1>2

LEMMA DeltaKeeps ==
  ASSUME VInv, NEW t \in Turn, Delta(t)
  PROVE  VInv' /\ StaysSilent
<1>1. /\ v.pc[t] = "asking" /\ ~v.aborted[t] /\ v.begun[t] < MaxSentences
      /\ v.begun[t] \in Nat /\ v.pending[t] \in Nat /\ v.pending[t] <= v.begun[t]
      /\ v.begun[t] = 0 => v.broken[t] = "no"
      /\ t \notin v.recording
  BY VoiceAssumption
     DEF Delta, VInv, Inv, CoreInv, Parts, Shape, TurnInv, EarInv, VoiceAssumption
<1>2. PICK d : d = IF v.begun[t] = 0 THEN Move(v, "SPEAKING") ELSE v
  OBVIOUS
<1>3. /\ SameBody(v, d) /\ CoreInv(d) /\ (MouthShown(v) => MouthShown(d))
      /\ d.state = IF v.begun[t] = 0 /\ Reaches(v, "SPEAKING") THEN "SPEAKING" ELSE v.state
  <2>1. CASE v.begun[t] # 0
    BY <1>2, <2>1 DEF VInv, Inv, SameBody, CoreInv, Parts, Shape
  <2>2. CASE v.begun[t] = 0
    <3>1. /\ SameBody(v, d) /\ Shape(d) /\ FaceInv(d)
          /\ d.state = IF Reaches(v, "SPEAKING") THEN "SPEAKING" ELSE v.state
          /\ MouthShown(v) => MouthShown(d)
      BY <1>2, <2>2, MoveFields, StateFacts DEF VInv, Inv, CoreInv, Parts
    <3>2. BusyInv(d)
      BY <1>1, <3>1 DEF BusyInv, Engaged, SameBody
    <3> QED  BY <2>2, <3>1, <3>2, BodyKept DEF VInv, Inv, CoreInv, Parts
  <2> QED  BY <2>1, <2>2
<1>4. PICK c : c = Cued(d)
  OBVIOUS
<1>5. SameBody(d, c) /\ CoreInv(c) /\ c.state = d.state /\ (MouthShown(d) => MouthShown(c))
  BY <1>3, <1>4, CuedKeeps
<1>6. PICK p : p = [c EXCEPT !.begun[t] = @ + 1, !.pending[t] = @ + 1]
  OBVIOUS
<1>7. /\ DOMAIN p = Field /\ SameFace(c, p) /\ SameStreams(v, p)
      /\ p.current = v.current /\ p.ear = v.ear /\ p.mouth = v.mouth
      /\ p.recording = v.recording /\ p.uttering = v.uttering /\ p.cut = v.cut
      /\ p.pc = v.pc /\ p.aborted = v.aborted /\ p.broken = v.broken
      /\ p.begun = [v.begun EXCEPT ![t] = @ + 1]
      /\ p.pending = [v.pending EXCEPT ![t] = @ + 1]
  BY <1>3, <1>5, <1>6 DEF SameBody, Field, SameFace, SameStreams
<1>8. p.begun \in [Turn -> 0 .. MaxSentences] /\ p.pending \in [Turn -> 0 .. MaxSentences]
  <2>1. v.begun[t] + 1 \in 0 .. MaxSentences /\ v.pending[t] + 1 \in 0 .. MaxSentences
    BY <1>1, VoiceAssumption DEF VoiceAssumption
  <2> QED  BY <1>7, <2>1 DEF VInv, Inv, CoreInv, Parts, Shape
<1>9. \A u \in Turn : /\ p.begun[u] = IF u = t THEN v.begun[t] + 1 ELSE v.begun[u]
                      /\ p.pending[u] = IF u = t THEN v.pending[t] + 1 ELSE v.pending[u]
  BY <1>7 DEF VInv, Inv, CoreInv, Parts, Shape
<1>10. Parts(p)
  <2>1. Shape(p) /\ FaceInv(p)
    BY <1>5, <1>7, <1>8 DEF VInv, Inv, CoreInv, Parts, Shape, FaceInv, SameFace
  <2>2. EarInv(p)
    BY <1>7 DEF VInv, Inv, CoreInv, Parts, EarInv
  <2>3. MouthInv(p)
    <3>1. \A u \in v.uttering : u \in Turn /\ (v.begun[u] > 0 => p.begun[u] > 0)
      BY <1>1, <1>9 DEF VInv, Inv, CoreInv, Parts, Shape
    <3> QED  BY <1>7, <3>1 DEF VInv, Inv, CoreInv, Parts, MouthInv
  <2>4. TurnInv(p)
    <3>1. v.pending[t] + 1 <= v.begun[t] + 1 /\ v.begun[t] + 1 # 0
      BY <1>1
    <3> QED  BY <1>1, <1>7, <1>9, <3>1 DEF VInv, Inv, CoreInv, Parts, TurnInv
  <2> QED  BY <2>1, <2>2, <2>3, <2>4 DEF Parts
<1>11. BusyInv(p)
  BY <1>1, <1>7 DEF BusyInv, Engaged
<1>12. Speakable(p, t)
  BY <1>1, <1>7, <1>9 DEF Speakable
<1>13. PICK r : r = SpeakNext(p, t)
  OBVIOUS
<1>14. v' = r
  BY <1>2, <1>4, <1>6, <1>13 DEF Delta
<1>15. /\ Parts(r) /\ SameFace(p, r) /\ SameStreams(p, r)
       /\ r.current = p.current /\ r.ear = p.ear /\ r.recording = p.recording
       /\ r.cut = p.cut /\ r.pc = p.pc /\ r.aborted = p.aborted /\ r.begun = p.begun
       /\ r.broken = p.broken
       /\ \/ r = p
          \/ /\ t \notin p.uttering /\ p.broken[t] = "no"
             /\ r.mouth = t /\ r.uttering = p.uttering \cup {t}
       /\ BusyInv(r)
  BY <1>10, <1>11, <1>12, <1>13, SpeakNextKeeps
<1>16. Settled(r) /\ StopInv(r)
  BY <1>7, <1>15 DEF VInv, Inv, Settled, StopInv
<1>17. StreamInv(r)
  BY <1>7, <1>15, StreamKept DEF VInv, Inv, Entered, SameStreams
<1>18. ASSUME t \notin overlapped
       PROVE  AloneOk(r, t)
  <2>1. AloneOk(v, t)
    BY <1>18 DEF VInv, Inv, AloneInv
  <2>2. r.state = "SPEAKING"
    BY <1>1, <1>3, <1>5, <1>7, <1>15, <2>1
       DEF AloneOk, SameFace, Reaches, Transitions
  <2>3. r.begun[t] # 0
    BY <1>1, <1>9, <1>15
  <2>4. t \in r.uttering => r.mouth = t /\ t \notin r.cut
    BY <1>7, <1>15, <2>1 DEF AloneOk, VInv, Inv, CoreInv, Parts, Shape
  <2>5. r.current = t
    BY <1>1, <1>7, <1>15, <2>1 DEF AloneOk, Open
  <2> QED  BY <1>1, <1>7, <1>15, <2>2, <2>3, <2>4, <2>5 DEF AloneOk
<1>19. MouthShown(v) => MouthShown(r)
  BY <1>3, <1>5, <1>7, <1>15 DEF MouthShown, SameFace
<1>20. Open(v, t) /\ \A u \in Turn : Open(r, u) <=> Open(v, u)
  BY <1>1, <1>7, <1>15 DEF Open
<1>21. /\ r.recording \subseteq v.recording \cup {t}
       /\ r.uttering \subseteq v.uttering \cup {t}
  BY <1>7, <1>15
<1>22. Inv(r, overlapped)
  BY <1>15, <1>16, <1>17, <1>18, <1>19, <1>20, <1>21, After DEF VInv, Inv, CoreInv
<1>23. StaysSilent
  BY <1>1, <1>7, <1>14, <1>15 DEF StaysSilent
<1> QED  BY <1>14, <1>22, <1>23 DEF VInv, Delta

(* The engine is rid of turn t's utterance; why says how it went.          *)
Rid(t, why) ==
  [v EXCEPT !.uttering = @ \ {t}, !.cut = @ \ {t},
            !.mouth = IF @ = t THEN None ELSE @, !.broken[t] = why]

LEMMA UtteranceEndsFields ==
  ASSUME Inv(v, overlapped), NEW t \in v.uttering, NEW broken \in {v.broken[t], "failed"}
  PROVE  LET q == Rid(t, broken) IN
         /\ CoreInv(q) /\ Settled(q) /\ SameFace(v, q) /\ SameStreams(v, q) /\ t \in Turn
         /\ q.current = v.current /\ q.ear = v.ear /\ q.recording = v.recording
         /\ q.mouth = IF v.mouth = t THEN None ELSE v.mouth
         /\ q.uttering = v.uttering \ {t} /\ q.cut = v.cut \ {t}
         /\ q.pc = v.pc /\ q.aborted = v.aborted /\ q.begun = v.begun /\ q.pending = v.pending
         /\ q.broken[t] = broken /\ \A u \in Turn \ {t} : q.broken[u] = v.broken[u]
<1>1. PICK q : q = Rid(t, broken)
  OBVIOUS
<1>2. t \in Turn /\ v.pc[t] \in {"asking", "finishing", "speaking", "done"}
      /\ (v.pc[t] = "asking" => v.begun[t] > 0)
  BY DEF Inv, CoreInv, Parts, Shape, MouthInv
<1>3. /\ DOMAIN q = Field /\ SameFace(v, q) /\ SameStreams(v, q)
      /\ q.current = v.current /\ q.ear = v.ear /\ q.recording = v.recording
      /\ q.mouth = IF v.mouth = t THEN None ELSE v.mouth
      /\ q.uttering = v.uttering \ {t} /\ q.cut = v.cut \ {t}
      /\ q.pc = v.pc /\ q.aborted = v.aborted /\ q.begun = v.begun /\ q.pending = v.pending
      /\ q.broken = [v.broken EXCEPT ![t] = broken]
  BY <1>1 DEF Rid, Inv, CoreInv, Parts, Shape, Field, SameFace, SameStreams
<1>4. q.broken[t] = broken /\ \A u \in Turn \ {t} : q.broken[u] = v.broken[u]
  BY <1>2, <1>3 DEF Inv, CoreInv, Parts, Shape
<1>5. Shape(q) /\ FaceInv(q)
  BY <1>2, <1>3 DEF Inv, CoreInv, Parts, Shape, FaceInv, SameFace
<1>6. EarInv(q) /\ MouthInv(q)
  BY <1>3 DEF Inv, CoreInv, Parts, EarInv, MouthInv
<1>7. TurnInv(q)
  <2>1. ASSUME NEW u \in Turn, q.begun[u] = 0,
               q.pc[u] \in {"none", "prompted", "listening", "asking"}
        PROVE  q.broken[u] = "no"
    <3>1. u # t
      BY <1>2, <1>3, <2>1
    <3> QED  BY <1>3, <1>4, <2>1, <3>1 DEF Inv, CoreInv, Parts, TurnInv
  <2> QED  BY <1>3, <2>1 DEF Inv, CoreInv, Parts, TurnInv
<1>8. BusyInv(q) /\ Settled(q)
  BY <1>3 DEF Inv, CoreInv, BusyInv, Engaged, SameFace, Settled
<1> QED  BY <1>1, <1>2, <1>3, <1>4, <1>5, <1>6, <1>7, <1>8 DEF CoreInv, Parts

LEMMA UtteranceEndsKeeps ==
  ASSUME VInv, NEW t \in Turn, UtteranceEnds(t)
  PROVE  VInv' /\ StaysSilent
<1>1. t \in v.uttering
  BY DEF UtteranceEnds
<1>2. PICK broken : /\ broken \in {v.broken[t], "failed"}
                    /\ t \in v.cut => broken = "failed"
                    /\ v' = LET r == SpeakNext(Rid(t, broken), t)
                            IN  Settle(IF r.pc[t] \in {"speaking", "finishing"}
                                       THEN Finish(r, t) ELSE r)
  <2>1. PICK s : s = [v EXCEPT !.uttering = @ \ {t}, !.cut = @ \ {t},
                               !.mouth = IF @ = t THEN None ELSE @]
    OBVIOUS
  <2>2. Rid(t, v.broken[t]) = s
    BY <2>1 DEF Rid, VInv, Inv, CoreInv, Parts, Shape, Field
  <2>3. \A why : [s EXCEPT !.broken[t] = why] = Rid(t, why)
    BY <2>1 DEF Rid, VInv, Inv, CoreInv, Parts, Shape, Field
  <2>4. CASE t \notin v.cut /\ v' = LET r == SpeakNext(s, t)
                                   IN  Settle(IF r.pc[t] \in {"speaking", "finishing"}
                                              THEN Finish(r, t) ELSE r)
    BY <2>2, <2>3, <2>4
  <2>5. CASE v' = LET r == SpeakNext([s EXCEPT !.broken[t] = "failed"], t)
                  IN  Settle(IF r.pc[t] \in {"speaking", "finishing"} THEN Finish(r, t) ELSE r)
    BY <2>3, <2>5
  <2> QED  BY <2>1, <2>4, <2>5 DEF UtteranceEnds
<1>3. PICK q : q = Rid(t, broken)
  OBVIOUS
<1>4. /\ CoreInv(q) /\ Settled(q) /\ SameFace(v, q) /\ SameStreams(v, q)
      /\ q.current = v.current /\ q.ear = v.ear /\ q.recording = v.recording
      /\ q.mouth = IF v.mouth = t THEN None ELSE v.mouth
      /\ q.uttering = v.uttering \ {t} /\ q.cut = v.cut \ {t}
      /\ q.pc = v.pc /\ q.aborted = v.aborted /\ q.begun = v.begun /\ q.pending = v.pending
      /\ q.broken[t] = broken /\ \A u \in Turn \ {t} : q.broken[u] = v.broken[u]
  <2>1. Inv(v, overlapped) /\ broken \in {v.broken[t], "failed"}
    BY <1>2 DEF VInv
  <2> QED  BY <1>1, <1>3, <2>1, UtteranceEndsFields
<1>5. /\ v.pc[t] \in {"asking", "finishing", "speaking", "done"}
      /\ v.pc[t] = "asking" => v.begun[t] > 0
      /\ v.pc[t] = "done" => t \in v.cut
      /\ t \notin v.recording /\ v.broken[t] \in {"no", "cancelled", "failed"}
      /\ v.current \in Turn \cup {None} /\ v.current # None => v.pc[v.current] # "none"
  BY <1>1 DEF VInv, Inv, CoreInv, Parts, Shape, MouthInv, EarInv, StopInv
<1>6. broken = "no" => Speakable(q, t) /\ v.broken[t] = "no" /\ t \notin v.cut
  BY <1>2, <1>4, <1>5 DEF Speakable
<1>7. PICK n : n = SpeakNext(q, t)
  OBVIOUS
<1>8. /\ Parts(n) /\ SameFace(q, n) /\ SameStreams(q, n)
      /\ n.current = q.current /\ n.ear = q.ear /\ n.recording = q.recording
      /\ n.cut = q.cut /\ n.pc = q.pc /\ n.aborted = q.aborted /\ n.begun = q.begun
      /\ n.broken = q.broken
      /\ \/ n = q
         \/ /\ t \notin q.uttering /\ q.broken[t] = "no"
            /\ n.mouth = t /\ n.uttering = q.uttering \cup {t}
      /\ BusyInv(n)
  BY <1>4, <1>6, <1>7, SpeakNextKeeps DEF CoreInv
<1>9. v' = Settle(IF n.pc[t] \in {"speaking", "finishing"} THEN Finish(n, t) ELSE n)
  BY <1>2, <1>3, <1>7
<1>10. Settled(n) /\ StopInv(n) /\ StreamInv(n) /\ CoreInv(n)
  <2>1. SameStreams(v, n) /\ Entered(v) \subseteq Entered(n)
    BY <1>4, <1>8 DEF SameStreams, Entered
  <2>2. StreamInv(n)
    BY <2>1, StreamKept DEF VInv, Inv
  <2> QED  BY <1>4, <1>8, <2>2 DEF VInv, Inv, Settled, StopInv, CoreInv
<1>11. CASE t \in n.uttering
  (* the next sentence is spoken *)
  <2>1. broken = "no" /\ n.mouth = t /\ n.uttering = v.uttering
    BY <1>1, <1>4, <1>8, <1>11
  <2>2. Finish(n, t) = n
    BY <1>11 DEF Finish
  <2>3. v' = n
    BY <1>9, <1>10, <2>2, SettleKeeps
  <2>4. ASSUME t \notin overlapped
        PROVE  AloneOk(n, t)
    <3>1. AloneOk(v, t)
      BY <2>4 DEF VInv, Inv, AloneInv
    <3>2. n.state = "SPEAKING" /\ t \notin n.cut
      BY <1>1, <1>4, <1>8, <3>1 DEF AloneOk, SameFace
    <3>3. v.pc[t] # "done" /\ v.begun[t] = n.begun[t]
      BY <1>4, <1>5, <1>6, <1>8, <2>1
    <3> QED  BY <1>1, <1>4, <1>5, <1>8, <1>11, <2>1, <3>1, <3>2, <3>3
             DEF AloneOk, Open, SameFace
  <2>5. Open(v, t) /\ \A u \in Turn : Open(n, u) <=> Open(v, u)
    BY <1>4, <1>5, <1>6, <1>8, <2>1 DEF Open
  <2>6. MouthShown(v) => MouthShown(n)
    BY <1>4, <1>8 DEF MouthShown, SameFace
  <2>7. Inv(n, overlapped)
    BY <1>4, <1>8, <1>10, <2>1, <2>4, <2>5, <2>6, After DEF VInv, Inv
  <2>8. StaysSilent
    BY <2>1, <2>3 DEF StaysSilent
  <2> QED  BY <2>3, <2>7, <2>8 DEF VInv, UtteranceEnds
<1>12. CASE t \notin n.uttering /\ v.pc[t] \in {"speaking", "finishing"}
  (* nothing is left to say *)
  <2>1. n = q
    BY <1>8, <1>12
  <2>2. PICK f : f = Finish(q, t)
    OBVIOUS
  <2>3. CoreInv(f) /\ Ends(q, f, t) /\ f.uttering \subseteq q.uttering
    BY <1>4, <1>5, <1>12, <2>1, <2>2, FinishEnds
  <2>4. Ends(v, f, t)
    BY <1>4, <2>3 DEF Ends, SameStreams, SameFace, MouthShown
  <2>5. PICK r : r = Settle(f)
    OBVIOUS
  <2>6. CoreInv(r) /\ Settled(r) /\ Ends(v, r, t) /\ r.uttering = f.uttering
    BY <2>3, <2>4, <2>5, SettleEnds
  <2>7. v' = r
    BY <1>4, <1>9, <1>12, <2>1, <2>2, <2>5
  <2>8. Open(v, t) /\ t \notin r.uttering
    BY <1>4, <1>12, <2>3, <2>6 DEF Open
  <2>9. Inv(r, overlapped)
    BY <2>6, <2>8, AfterEnd DEF VInv
  <2>10. StaysSilent
    BY <2>6, <2>7 DEF StaysSilent, Ends
  <2> QED  BY <2>7, <2>9, <2>10 DEF VInv, UtteranceEnds
<1>13. CASE t \notin n.uttering /\ v.pc[t] \notin {"speaking", "finishing"}
  (* the turn waits for more of its answer, or is over *)
  <2>1. n = q
    BY <1>8, <1>13
  <2>2. v' = n
    BY <1>4, <1>8, <1>9, <1>10, <1>13, SettleKeeps
  <2>3. ASSUME NEW u \in Turn \ overlapped
        PROVE  AloneOk(n, u)
    <3>1. AloneOk(v, u)
      BY DEF VInv, Inv, AloneInv
    <3>2. n.state = v.state
      BY <1>4, <2>1 DEF SameFace
    <3>3. CASE u = t
      BY <1>4, <1>13, <2>1, <3>1, <3>2, <3>3 DEF AloneOk, Open
    <3>4. CASE u # t
      BY <1>4, <2>1, <3>1, <3>2, <3>4 DEF AloneOk, Open
    <3> QED  BY <3>3, <3>4
  <2>4. AloneInv(n, overlapped)
    BY <1>4, <2>1, <2>3 DEF VInv, Inv, AloneInv, Open
  <2>5. MouthShown(v) => MouthShown(n)
    BY <1>4, <2>1 DEF MouthShown, SameFace
  <2>6. StaysSilent
    BY <1>4, <2>1, <2>2 DEF StaysSilent
  <2> QED  BY <1>10, <2>2, <2>4, <2>5, <2>6 DEF VInv, Inv, UtteranceEnds
<1> QED  BY <1>11, <1>12, <1>13

(* Turn t is over in a state r that c, which shows v, leads to.            *)
LEMMA AfterShownEnd ==
  ASSUME VInv, NEW t \in Turn, NEW c, SameBody(v, c), Inv(c, overlapped),
         NEW r, CoreInv(r), Settled(r), Ends(c, r, t), Open(v, t),
         t \notin overlapped => t \notin r.uttering,
         v' = r, UNCHANGED overlapped
  PROVE  VInv' /\ StaysSilent
<1>1. Open(c, t)
  BY DEF SameBody, Open
<1>2. Inv(r, overlapped)
  BY <1>1, AfterEnd
<1>3. StaysSilent
  BY DEF StaysSilent, Ends, SameBody
<1> QED  BY <1>2, <1>3 DEF VInv

LEMMA AnswerKeeps ==
  ASSUME VInv, NEW t \in Turn, Answer(t)
  PROVE  VInv' /\ StaysSilent
<1>1. PICK c : c = Cued(v)
  OBVIOUS
<1>2. SameBody(v, c) /\ CoreInv(c) /\ c.state = v.state /\ (MouthShown(v) => MouthShown(c))
  BY <1>1, CuedKeeps DEF VInv, Inv
<1>3. Inv(c, overlapped)
  BY <1>2, AfterFace DEF VInv
<1>4. /\ v.pc[t] = "asking" /\ c.pc[t] = "asking" /\ Open(v, t) /\ Open(c, t)
      /\ t \notin c.recording /\ UNCHANGED overlapped
      /\ c.begun[t] \in 0 .. MaxSentences
  BY <1>2, <1>3 DEF Answer, Open, SameBody, Inv, CoreInv, Parts, Shape, EarInv
<1>5. CASE v.aborted[t] /\ v' = Settle(Stop(Move(OutputCancel(c), "IDLE"), t))
  (* too late *)
  <2>1. PICK f : f = Stop(Move(OutputCancel(c), "IDLE"), t)
    OBVIOUS
  <2>2. CoreInv(f) /\ Ends(c, f, t) /\ f.uttering = c.uttering \ {c.mouth}
    BY <1>2, <1>4, <2>1, SilencedEnds DEF CoreInv
  <2>3. PICK r : r = Settle(f)
    OBVIOUS
  <2>4. CoreInv(r) /\ Settled(r) /\ Ends(c, r, t) /\ r.uttering = f.uttering
    BY <2>2, <2>3, SettleEnds
  <2>5. t \notin overlapped => t \notin r.uttering
    BY <1>3, <2>2, <2>4 DEF Inv, AloneInv, AloneOk
  <2> QED  BY <1>2, <1>3, <1>4, <1>5, <2>1, <2>3, <2>4, <2>5, AfterShownEnd
<1>6. CASE /\ ~v.aborted[t] /\ v.begun[t] > 0
           /\ v' = Settle(Finish([c EXCEPT !.pc[t] = "finishing"], t))
  (* streamed *)
  <2>1. PICK f : f = [c EXCEPT !.pc[t] = "finishing"]
    OBVIOUS
  <2>2. /\ DOMAIN f = Field /\ SameFace(c, f) /\ SameStreams(c, f)
        /\ f.current = c.current /\ f.ear = c.ear /\ f.mouth = c.mouth
        /\ f.recording = c.recording /\ f.uttering = c.uttering /\ f.cut = c.cut
        /\ f.aborted = c.aborted /\ f.begun = c.begun /\ f.pending = c.pending
        /\ f.broken = c.broken /\ f.pc = [c.pc EXCEPT ![t] = "finishing"]
    BY <1>2, <2>1 DEF SameBody, Field, SameFace, SameStreams
  <2>3. \A u \in Turn : f.pc[u] = IF u = t THEN "finishing" ELSE c.pc[u]
    BY <1>2, <2>2 DEF CoreInv, Parts, Shape
  <2>4. CoreInv(f)
    <3>1. Shape(f) /\ FaceInv(f)
      BY <1>2, <2>2 DEF CoreInv, Parts, Shape, FaceInv, SameFace, Stage
    <3>2. EarInv(f)
      BY <1>2, <1>4, <2>2, <2>3 DEF CoreInv, Parts, Shape, EarInv
    <3>3. MouthInv(f)
      BY <1>2, <1>4, <2>2, <2>3 DEF CoreInv, Parts, Shape, MouthInv
    <3>4. TurnInv(f)
      BY <1>2, <1>4, <2>2, <2>3 DEF CoreInv, Parts, Shape, TurnInv
    <3>5. BusyInv(f)
      BY <1>2, <1>4, <2>2, <2>3 DEF CoreInv, BusyInv, Engaged, SameFace
    <3> QED  BY <3>1, <3>2, <3>3, <3>4, <3>5 DEF CoreInv, Parts
  <2>5. Settled(f) /\ StopInv(f)
    BY <1>3, <1>4, <2>2, <2>3 DEF Inv, CoreInv, Parts, Shape, Settled, StopInv
  <2>6. CASE t \in f.uttering
    <3>1. v' = f
      BY <1>6, <2>1, <2>4, <2>5, <2>6, SettleKeeps DEF Finish
    <3>2. StreamInv(f)
      <4>1. Entered(c) \subseteq Entered(f)
        BY <2>3 DEF Entered
      <4> QED  BY <1>3, <2>2, <4>1, StreamKept DEF Inv
    <3>3. ASSUME t \notin overlapped
          PROVE  AloneOk(f, t)
      <4>1. AloneOk(c, t) /\ ~c.aborted[t]
        BY <1>2, <1>3, <1>6, <3>3 DEF Inv, AloneInv, SameBody
      <4> QED  BY <1>4, <2>2, <2>3, <2>6, <4>1 DEF AloneOk, Open, SameFace
    <3>4. \A u \in Turn \ {t} : Open(f, u) => Open(c, u)
      BY <2>3 DEF Open
    <3>5. MouthShown(c) => MouthShown(f)
      BY <2>2 DEF MouthShown, SameFace
    <3>6. Inv(f, overlapped)
      BY <1>3, <1>4, <2>2, <2>4, <2>5, <3>2, <3>3, <3>4, <3>5, After DEF Inv
    <3>7. StaysSilent
      BY <1>2, <2>2, <3>1 DEF StaysSilent, SameBody
    <3> QED  BY <1>4, <3>1, <3>6, <3>7 DEF VInv
  <2>7. CASE t \notin f.uttering
    <3>1. PICK e : e = Finish(f, t)
      OBVIOUS
    <3>2. CoreInv(e) /\ Ends(f, e, t) /\ e.uttering \subseteq f.uttering
      BY <1>4, <2>2, <2>3, <2>4, <2>7, <3>1, FinishEnds
    <3>3. Ends(c, e, t)
      BY <2>2, <2>3, <3>2 DEF Ends, SameStreams, SameFace, MouthShown
    <3>4. PICK r : r = Settle(e)
      OBVIOUS
    <3>5. CoreInv(r) /\ Settled(r) /\ Ends(c, r, t) /\ r.uttering = e.uttering
      BY <3>2, <3>3, <3>4, SettleEnds
    <3>6. t \notin r.uttering /\ v' = r
      BY <1>6, <2>1, <2>7, <3>1, <3>2, <3>4, <3>5
    <3> QED  BY <1>2, <1>3, <1>4, <3>5, <3>6, AfterShownEnd
  <2> QED  BY <2>6, <2>7
<1>7. CASE ~v.aborted[t] /\ v.begun[t] = 0 /\ v' = Rest(c, t)
  (* empty *)
  <2>1. t \notin c.uttering
    BY <1>2, <1>4, <1>7 DEF CoreInv, Parts, MouthInv, SameBody
  <2>2. PICK r : r = Rest(c, t)
    OBVIOUS
  <2>3. CoreInv(r) /\ Ends(c, r, t) /\ r.uttering = c.uttering /\ Settled(r)
    BY <1>2, <1>3, <1>4, <2>1, <2>2, RestEnds DEF Inv
  <2> QED  BY <1>2, <1>3, <1>4, <1>7, <2>1, <2>2, <2>3, AfterShownEnd
<1>8. CASE /\ ~v.aborted[t] /\ v.begun[t] = 0
           /\ v' = Utter([Move(c, "SPEAKING") EXCEPT !.pc[t] = "speaking"], t)
  (* with all still to be said *)
  <2>1. PICK m : m = Move(c, "SPEAKING")
    OBVIOUS
  <2>2. /\ SameBody(c, m) /\ Shape(m) /\ FaceInv(m)
        /\ m.state = IF Reaches(c, "SPEAKING") THEN "SPEAKING" ELSE c.state
        /\ MouthShown(c) => MouthShown(m)
    BY <1>2, <2>1, MoveFields, StateFacts DEF CoreInv, Parts
  <2>3. PICK f : f = [m EXCEPT !.pc[t] = "speaking"]
    OBVIOUS
  <2>4. /\ DOMAIN f = Field /\ SameFace(m, f) /\ SameStreams(c, f)
        /\ f.current = c.current /\ f.ear = c.ear /\ f.mouth = c.mouth
        /\ f.recording = c.recording /\ f.uttering = c.uttering /\ f.cut = c.cut
        /\ f.aborted = c.aborted /\ f.begun = c.begun /\ f.pending = c.pending
        /\ f.broken = c.broken /\ f.pc = [c.pc EXCEPT ![t] = "speaking"]
    BY <2>2, <2>3 DEF SameBody, Field, SameFace, SameStreams
  <2>5. \A u \in Turn : f.pc[u] = IF u = t THEN "speaking" ELSE c.pc[u]
    BY <1>2, <2>4 DEF CoreInv, Parts, Shape
  <2>6. /\ ~c.aborted[t] /\ c.begun[t] = 0 /\ c.broken[t] = "no" /\ v.broken[t] = "no"
        /\ t \notin c.uttering
    BY <1>2, <1>4, <1>8 DEF CoreInv, Parts, TurnInv, MouthInv, SameBody
  <2>7. Parts(f)
    <3>1. Shape(f) /\ FaceInv(f)
      BY <1>2, <2>2, <2>4 DEF CoreInv, Parts, Shape, FaceInv, SameFace, Stage
    <3>2. EarInv(f)
      BY <1>2, <1>4, <2>4, <2>5 DEF CoreInv, Parts, Shape, EarInv
    <3>3. MouthInv(f)
      BY <1>2, <2>4, <2>5, <2>6 DEF CoreInv, Parts, Shape, MouthInv
    <3>4. TurnInv(f)
      BY <1>2, <2>4, <2>5, <2>6 DEF CoreInv, Parts, Shape, TurnInv
    <3> QED  BY <3>1, <3>2, <3>3, <3>4 DEF Parts
  <2>8. PICK r : r = Utter(f, t)
    OBVIOUS
  <2>9. /\ Parts(r) /\ SameFace(f, r) /\ SameStreams(f, r)
        /\ r.current = f.current /\ r.mouth = t
        /\ r.recording = f.recording /\ r.uttering = f.uttering \cup {t} /\ r.cut = f.cut
        /\ r.pc = f.pc /\ r.aborted = f.aborted
    BY <2>5, <2>7, <2>8, UtterKeeps DEF Speakable
  <2>10. CoreInv(r)
    BY <2>4, <2>5, <2>6, <2>9 DEF CoreInv, BusyInv, Engaged
  <2>11. Settled(r) /\ StopInv(r)
    BY <1>3, <1>4, <2>4, <2>5, <2>9 DEF Inv, CoreInv, Parts, Shape, Settled, StopInv
  <2>12. StreamInv(r)
    <3>1. Entered(c) \subseteq Entered(r)
      BY <2>5, <2>9 DEF Entered
    <3>2. SameStreams(c, r)
      BY <2>4, <2>9 DEF SameStreams
    <3> QED  BY <1>3, <3>1, <3>2, StreamKept DEF Inv
  <2>13. ASSUME t \notin overlapped
         PROVE  AloneOk(r, t)
    <3>1. AloneOk(c, t)
      BY <1>3, <2>13 DEF Inv, AloneInv
    <3>2. c.state = "PROCESSING" /\ c.current = t
      BY <1>4, <2>6, <3>1 DEF AloneOk
    <3>3. r.state = "SPEAKING"
      BY <2>2, <2>4, <2>9, <3>2 DEF SameFace, Reaches, Transitions
    <3>4. t \notin r.cut
      BY <1>2, <2>4, <2>6, <2>9 DEF CoreInv, Parts, Shape
    <3> QED  BY <1>4, <2>4, <2>5, <2>6, <2>9, <3>2, <3>3, <3>4 DEF AloneOk
  <2>14. MouthShown(c) => MouthShown(r)
    BY <2>2, <2>4, <2>9 DEF MouthShown, SameFace
  <2>15. \A u \in Turn \ {t} : Open(r, u) => Open(c, u)
    BY <2>5, <2>9 DEF Open
  <2>16. r.recording \subseteq c.recording \cup {t} /\ r.uttering \subseteq c.uttering \cup {t}
    BY <2>4, <2>9
  <2>17. Inv(r, overlapped)
    BY <1>3, <1>4, <2>10, <2>11, <2>12, <2>13, <2>14, <2>15, <2>16, After DEF Inv
  <2>18. v' = r
    BY <1>8, <2>1, <2>3, <2>8
  <2>19. StaysSilent
    BY <1>2, <1>8, <2>4, <2>6, <2>9, <2>18 DEF StaysSilent, SameBody
  <2> QED  BY <1>4, <2>17, <2>18, <2>19 DEF VInv
<1> QED  BY <1>1, <1>5, <1>6, <1>7, <1>8 DEF Answer

-----------------------------------------------------------------------------
(* Events that begin a turn. *)

(* A turn that enters has nothing said, recorded or spoken.                *)
LEMMA EnterFacts ==
  ASSUME VInv, NEW t \in Turn, Enter(t)
  PROVE  /\ v.pc[t] = "none" /\ ~v.aborted[t] /\ v.begun[t] = 0 /\ v.broken[t] = "no"
         /\ t \notin v.recording /\ t \notin v.uttering
         /\ overlapped' \subseteq Turn /\ overlapped \subseteq overlapped'
         /\ \A u \in Turn : Open(v, u) => {u, t} \subseteq overlapped'
<1>1. v.pc[t] = "none"
  BY DEF Enter
<1>2. /\ ~v.aborted[t] /\ v.begun[t] = 0 /\ v.broken[t] = "no"
      /\ t \notin v.recording /\ t \notin v.uttering
  BY <1>1 DEF VInv, Inv, CoreInv, Parts, TurnInv, EarInv, MouthInv
<1>3. \A u \in Turn : Open(v, u) => {u, t} \subseteq overlapped'
  BY DEF Enter, Unfinished, Open
<1> QED  BY <1>1, <1>2, <1>3 DEF VInv, Inv, Enter, Unfinished

(* The controller s with t as the turn that cancel() aborts.               *)
LEMMA CurrentFields ==
  ASSUME NEW s, Parts(s), NEW t \in Turn
  PROVE  LET r == [s EXCEPT !.current = t] IN
         /\ Parts(r) /\ SameFace(s, r) /\ SameStreams(s, r) /\ r.current = t
         /\ r.ear = s.ear /\ r.mouth = s.mouth /\ r.recording = s.recording
         /\ r.uttering = s.uttering /\ r.cut = s.cut /\ r.pc = s.pc
         /\ r.aborted = s.aborted /\ r.begun = s.begun /\ r.pending = s.pending
         /\ r.broken = s.broken
         /\ BusyInv(s) => BusyInv(r)
<1>1. PICK r : r = [s EXCEPT !.current = t]
  OBVIOUS
<1>2. /\ DOMAIN r = Field /\ SameFace(s, r) /\ SameStreams(s, r) /\ r.current = t
      /\ r.ear = s.ear /\ r.mouth = s.mouth /\ r.recording = s.recording
      /\ r.uttering = s.uttering /\ r.cut = s.cut /\ r.pc = s.pc
      /\ r.aborted = s.aborted /\ r.begun = s.begun /\ r.pending = s.pending
      /\ r.broken = s.broken
  BY <1>1 DEF Parts, Shape, Field, SameFace, SameStreams
<1>3. Shape(r) /\ FaceInv(r)
  BY <1>2 DEF Parts, Shape, FaceInv, SameFace
<1>4. EarInv(r) /\ MouthInv(r) /\ TurnInv(r)
  BY <1>2 DEF Parts, EarInv, MouthInv, TurnInv
<1>5. BusyInv(s) => BusyInv(r)
  BY <1>2 DEF BusyInv, Engaged, SameFace
<1> QED  BY <1>1, <1>2, <1>3, <1>4, <1>5 DEF Parts

LEMMA SayKeeps ==
  ASSUME VInv, NEW t \in Turn, Say(t)
  PROVE  VInv' /\ StaysSilent
<1>1. PICK s : s = [v EXCEPT !.current = t]
  OBVIOUS
<1>2. /\ Parts(s) /\ SameFace(v, s) /\ SameStreams(v, s) /\ s.current = t
      /\ s.ear = v.ear /\ s.mouth = v.mouth /\ s.recording = v.recording
      /\ s.uttering = v.uttering /\ s.cut = v.cut /\ s.pc = v.pc
      /\ s.aborted = v.aborted /\ s.begun = v.begun /\ s.pending = v.pending
      /\ s.broken = v.broken /\ BusyInv(s)
  BY <1>1, CurrentFields DEF VInv, Inv, CoreInv
<1>3. /\ v.pc[t] = "none" /\ ~v.aborted[t] /\ v.begun[t] = 0 /\ v.broken[t] = "no"
      /\ t \notin v.recording /\ t \notin v.uttering
      /\ overlapped' \subseteq Turn /\ overlapped \subseteq overlapped'
      /\ \A u \in Turn : Open(v, u) => {u, t} \subseteq overlapped'
  BY EnterFacts DEF Say
<1>4. CASE v.state \in {"IDLE", "SPEAKING"}
  <2>1. PICK m : m = Move(s, "SPEAKING")
    OBVIOUS
  <2>2. /\ SameBody(s, m) /\ Shape(m) /\ FaceInv(m) /\ m.state = "SPEAKING"
        /\ MouthShown(s) => MouthShown(m)
    <3>1. Reaches(s, "SPEAKING")
      BY <1>2, <1>4 DEF Reaches, SameFace, Transitions
    <3> QED  BY <1>2, <2>1, <3>1, MoveFields, StateFacts DEF Parts
  <2>3. PICK f : f = [m EXCEPT !.pc[t] = "speaking"]
    OBVIOUS
  <2>4. /\ DOMAIN f = Field /\ SameFace(m, f) /\ SameStreams(v, f)
        /\ f.current = t /\ f.ear = v.ear /\ f.mouth = v.mouth
        /\ f.recording = v.recording /\ f.uttering = v.uttering /\ f.cut = v.cut
        /\ f.aborted = v.aborted /\ f.begun = v.begun /\ f.pending = v.pending
        /\ f.broken = v.broken /\ f.pc = [v.pc EXCEPT ![t] = "speaking"]
    BY <1>2, <2>2, <2>3 DEF SameBody, Field, SameFace, SameStreams
  <2>5. \A u \in Turn : f.pc[u] = IF u = t THEN "speaking" ELSE v.pc[u]
    BY <2>4 DEF VInv, Inv, CoreInv, Parts, Shape
  <2>6. Parts(f)
    <3>1. Shape(f) /\ FaceInv(f)
      BY <2>2, <2>4 DEF VInv, Inv, CoreInv, Parts, Shape, FaceInv, SameFace, Stage
    <3>2. EarInv(f)
      BY <1>3, <2>4, <2>5 DEF VInv, Inv, CoreInv, Parts, Shape, EarInv
    <3>3. MouthInv(f)
      BY <1>3, <2>4, <2>5 DEF VInv, Inv, CoreInv, Parts, Shape, MouthInv
    <3>4. TurnInv(f)
      BY <1>3, <2>4, <2>5 DEF VInv, Inv, CoreInv, Parts, Shape, TurnInv
    <3> QED  BY <3>1, <3>2, <3>3, <3>4 DEF Parts
  <2>7. PICK r : r = Utter(f, t)
    OBVIOUS
  <2>8. /\ Parts(r) /\ SameFace(f, r) /\ SameStreams(f, r)
        /\ r.current = f.current /\ r.mouth = t
        /\ r.recording = f.recording /\ r.uttering = f.uttering \cup {t} /\ r.cut = f.cut
        /\ r.pc = f.pc /\ r.aborted = f.aborted
    BY <2>5, <2>6, <2>7, UtterKeeps DEF Speakable
  <2>9. CoreInv(r)
    BY <1>3, <2>4, <2>5, <2>8 DEF CoreInv, BusyInv, Engaged
  <2>10. Settled(r) /\ StopInv(r)
    BY <2>4, <2>5, <2>8 DEF VInv, Inv, Settled, StopInv
  <2>11. StreamInv(r)
    <3>1. Entered(v) \subseteq Entered(r)
      BY <2>5, <2>8 DEF Entered
    <3>2. SameStreams(v, r)
      BY <2>4, <2>8 DEF SameStreams
    <3> QED  BY <3>1, <3>2, StreamKept DEF VInv, Inv
  <2>12. AloneOk(r, t)
    <3>1. r.state = "SPEAKING" /\ t \notin r.recording /\ t \notin r.cut
      BY <1>3, <2>2, <2>4, <2>8 DEF VInv, Inv, CoreInv, Parts, Shape, SameFace
    <3> QED  BY <1>3, <2>4, <2>5, <2>8, <3>1 DEF AloneOk
  <2>13. MouthShown(v) => MouthShown(r)
    BY <1>2, <2>2, <2>4, <2>8 DEF MouthShown, SameFace
  <2>14. \A u \in Turn \ {t} : Open(r, u) => Open(v, u)
    BY <2>5, <2>8 DEF Open
  <2>15. r.recording \subseteq v.recording \cup {t} /\ r.uttering \subseteq v.uttering \cup {t}
    BY <2>4, <2>8
  <2>16. Inv(r, overlapped')
    BY <1>3, <2>9, <2>10, <2>11, <2>12, <2>13, <2>14, <2>15, After DEF VInv
  <2>17. v' = r
    BY <1>1, <1>4, <2>1, <2>3, <2>7 DEF Say
  <2>18. StaysSilent
    BY <1>3, <2>4, <2>8, <2>17 DEF StaysSilent
  <2> QED  BY <2>16, <2>17, <2>18 DEF VInv
<1>5. CASE v.state \notin {"IDLE", "SPEAKING"}
  (* refused *)
  <2>1. PICK r : r = Stop(s, t)
    OBVIOUS
  <2>2. /\ SameFace(v, r) /\ SameStreams(v, r)
        /\ r.recording = v.recording /\ r.uttering = v.uttering /\ r.aborted = v.aborted
        /\ r.pc = [v.pc EXCEPT ![t] = "done"] /\ r.current = None /\ Parts(r)
    BY <1>2, <1>3, <2>1, StopKeeps DEF SameFace, SameStreams
  <2>3. \A u \in Turn : r.pc[u] = IF u = t THEN "done" ELSE v.pc[u]
    BY <2>2 DEF VInv, Inv, CoreInv, Parts, Shape
  <2>4. CoreInv(r)
    <3>1. \A u \in Turn : Engaged(v, u) => Engaged(r, u)
      BY <1>3, <2>2, <2>3 DEF Engaged
    <3> QED  BY <2>2, <3>1 DEF VInv, Inv, CoreInv, BusyInv, SameFace
  <2>5. Settled(r) /\ StopInv(r)
    BY <2>2, <2>3 DEF VInv, Inv, Settled, StopInv
  <2>6. StreamInv(r)
    <3>1. Entered(v) \subseteq Entered(r)
      BY <2>3 DEF Entered
    <3> QED  BY <2>2, <3>1, StreamKept DEF VInv, Inv
  <2>7. AloneOk(r, t)
    BY <1>3, <2>2, <2>3 DEF AloneOk, Open
  <2>8. MouthShown(v) => MouthShown(r)
    BY <2>2 DEF MouthShown, SameFace
  <2>9. \A u \in Turn \ {t} : Open(r, u) => Open(v, u)
    BY <2>3 DEF Open
  <2>10. Inv(r, overlapped')
    BY <1>3, <2>2, <2>4, <2>5, <2>6, <2>7, <2>8, <2>9, After DEF VInv
  <2>11. v' = r
    BY <1>1, <1>5, <2>1 DEF Say
  <2>12. StaysSilent
    BY <2>2, <2>11 DEF StaysSilent
  <2> QED  BY <2>10, <2>11, <2>12 DEF VInv
<1> QED  BY <1>4, <1>5

(* The microphone is turn t's; whoever listened before is cut off.         *)
LEMMA ListenKeeps ==
  ASSUME NEW s, Parts(s), NEW t \in Turn, s.pc[t] \in {"none", "prompted"}, ~s.aborted[t]
  PROVE  LET r == Settle(BeginListening(s, t)) IN
         /\ CoreInv(r) /\ Settled(r) /\ SameStreams(s, r)
         /\ r.recording = {t} /\ r.uttering = s.uttering /\ r.aborted = s.aborted
         /\ \A u \in Turn : r.pc[u] = IF u = t THEN "listening"
                                      ELSE IF u \in s.recording \/ s.pc[u] = "cancelled"
                                           THEN "done" ELSE s.pc[u]
         /\ r.current \in {s.current, None} /\ (s.current = t => r.current = t)
         /\ Reaches(s, "LISTENING") /\ (\A u \in Turn \ {t} : ~Open(s, u)) =>
              r.state = "LISTENING"
         /\ MouthShown(s) => MouthShown(r)
<1>1. PICK m : m = Move(s, "LISTENING")
  OBVIOUS
<1>2. /\ SameBody(s, m) /\ Shape(m) /\ FaceInv(m)
      /\ m.state = IF Reaches(s, "LISTENING") THEN "LISTENING" ELSE s.state
      /\ MouthShown(s) => MouthShown(m)
  BY <1>1, MoveFields, StateFacts DEF Parts
<1>3. Parts(m)
  BY <1>2, BodyKept DEF Parts
<1>4. PICK i : i = InputCancel(m)
  OBVIOUS
<1>5. /\ Parts(i) /\ SameFace(m, i) /\ SameStreams(m, i)
      /\ i.current = m.current /\ i.ear = None /\ i.mouth = m.mouth /\ i.recording = {}
      /\ i.uttering = m.uttering /\ i.cut = m.cut
      /\ i.aborted = m.aborted /\ i.begun = m.begun /\ i.pending = m.pending
      /\ i.broken = m.broken
      /\ \A u \in Turn : i.pc[u] = IF u \in m.recording THEN "cancelled" ELSE m.pc[u]
  BY <1>3, <1>4, InputCancelKeeps
<1>6. PICK b : b = [i EXCEPT !.pc[t] = "listening", !.ear = t, !.recording = @ \cup {t}]
  OBVIOUS
<1>7. b = BeginListening(s, t)
  BY <1>1, <1>4, <1>6 DEF BeginListening
<1>8. /\ DOMAIN b = Field /\ SameFace(m, b) /\ SameStreams(s, b)
      /\ b.current = s.current /\ b.ear = t /\ b.mouth = s.mouth /\ b.recording = {t}
      /\ b.uttering = s.uttering /\ b.cut = s.cut
      /\ b.aborted = s.aborted /\ b.begun = s.begun /\ b.pending = s.pending
      /\ b.broken = s.broken /\ b.pc = [i.pc EXCEPT ![t] = "listening"]
  BY <1>2, <1>5, <1>6 DEF Parts, Shape, SameBody, Field, SameFace, SameStreams
<1>9. t \notin s.recording /\ t \notin s.uttering /\ s.begun[t] = 0 /\ s.broken[t] = "no"
  BY DEF Parts, EarInv, MouthInv, TurnInv
<1>10. \A u \in Turn : b.pc[u] = IF u = t THEN "listening" ELSE i.pc[u]
  BY <1>5, <1>8 DEF Parts, Shape
<1>11. \A u \in Turn : b.pc[u] = IF u = t THEN "listening"
                                 ELSE IF u \in s.recording THEN "cancelled" ELSE s.pc[u]
  BY <1>2, <1>5, <1>10 DEF SameBody
<1>12. CoreInv(b)
  <2>1. Shape(b) /\ FaceInv(b)
    BY <1>2, <1>5, <1>8, VoiceAssumption
       DEF Parts, Shape, FaceInv, SameFace, Stage, VoiceAssumption
  <2>2. EarInv(b)
    BY <1>8, <1>10, VoiceAssumption DEF EarInv, VoiceAssumption
  <2>3. MouthInv(b)
    BY <1>2, <1>5, <1>8, <1>9, <1>10 DEF Parts, Shape, MouthInv, SameBody
  <2>4. TurnInv(b)
    BY <1>2, <1>5, <1>8, <1>9, <1>10 DEF Parts, Shape, TurnInv, SameBody
  <2>5. Engaged(b, t)
    BY <1>8, <1>10 DEF Engaged
  <2> QED  BY <2>1, <2>2, <2>3, <2>4, <2>5 DEF CoreInv, Parts, BusyInv
<1>13. PICK r : r = Settle(b)
  OBVIOUS
<1>14. /\ CoreInv(r) /\ Settled(r) /\ SameStreams(b, r)
       /\ r.recording = b.recording /\ r.uttering = b.uttering /\ r.aborted = b.aborted
       /\ \A u \in Turn : r.pc[u] = IF b.pc[u] = "cancelled" THEN "done" ELSE b.pc[u]
       /\ r.current \in {b.current, None}
       /\ b.current \in Turn /\ b.pc[b.current] # "cancelled" => r.current = b.current
       /\ Settled(b) => r = b
       /\ MouthShown(b) => MouthShown(r)
  BY <1>12, <1>13, SettleKeeps
<1>15. \A u \in Turn : r.pc[u] = IF u = t THEN "listening"
                                 ELSE IF u \in s.recording \/ s.pc[u] = "cancelled"
                                      THEN "done" ELSE s.pc[u]
  BY <1>11, <1>14
<1>16. s.current = t => r.current = t
  BY <1>8, <1>11, <1>14
<1>17. ASSUME Reaches(s, "LISTENING"), \A u \in Turn \ {t} : ~Open(s, u)
       PROVE  r.state = "LISTENING"
  <2>1. \A u \in s.recording : u \in Turn \ {t} /\ Open(s, u)
    BY <1>9 DEF Parts, Shape, EarInv, Open
  <2>2. Settled(b)
    BY <1>11, <1>17, <2>1 DEF Settled, Open
  <2> QED  BY <1>2, <1>8, <1>14, <1>17, <2>2 DEF SameFace
<1>18. MouthShown(s) => MouthShown(r)
  BY <1>2, <1>8, <1>14 DEF MouthShown, SameFace
<1>19. SameStreams(s, r)
  BY <1>8, <1>14 DEF SameStreams
<1> QED  BY <1>7, <1>8, <1>13, <1>14, <1>15, <1>16, <1>17, <1>18, <1>19

LEMMA ConverseKeeps ==
  ASSUME VInv, NEW t \in Turn, Converse(t)
  PROVE  VInv' /\ StaysSilent
<1>1. /\ v.pc[t] = "none" /\ ~v.aborted[t]
      /\ t \notin v.recording /\ t \notin v.uttering
      /\ overlapped' \subseteq Turn /\ overlapped \subseteq overlapped'
      /\ \A u \in Turn : Open(v, u) => {u, t} \subseteq overlapped'
      /\ v.state \in {"IDLE", "ERROR", "SPEAKING"}
  BY EnterFacts DEF Converse
<1>2. PICK a : a = IF v.state = "SPEAKING" THEN OutputCancel(v) ELSE v
  OBVIOUS
<1>3. /\ Parts(a) /\ BusyInv(a) /\ SameFace(v, a) /\ SameStreams(v, a)
      /\ a.recording = v.recording /\ a.uttering \subseteq v.uttering
      /\ a.aborted = v.aborted
      /\ \A u \in Turn : \/ a.pc[u] = v.pc[u]
                         \/ a.pc[u] = "cancelled" /\ v.pc[u] \in {"speaking", "finishing"}
  <2>1. CASE v.state = "SPEAKING"
    BY <1>2, <2>1, OutputCancelKeeps DEF VInv, Inv, CoreInv
  <2>2. CASE v.state # "SPEAKING"
    BY <1>2, <2>2 DEF VInv, Inv, CoreInv, SameFace, SameStreams
  <2> QED  BY <2>1, <2>2
<1>4. PICK s : s = [a EXCEPT !.current = t]
  OBVIOUS
<1>5. /\ Parts(s) /\ BusyInv(s) /\ SameFace(v, s) /\ SameStreams(v, s) /\ s.current = t
      /\ s.ear = a.ear /\ s.mouth = a.mouth /\ s.cut = a.cut
      /\ s.recording = v.recording /\ s.uttering \subseteq v.uttering
      /\ s.pc = a.pc /\ s.aborted = v.aborted /\ s.begun = a.begun /\ s.pending = a.pending
      /\ s.broken = a.broken /\ s.uttering = a.uttering
  BY <1>3, <1>4, CurrentFields DEF SameFace, SameStreams
<1>6. s.pc[t] = "none"
  BY <1>1, <1>3, <1>5
<1>7. CASE v.held
  <2>1. PICK r : r = Settle(BeginListening(s, t))
    OBVIOUS
  <2>2. /\ CoreInv(r) /\ Settled(r) /\ SameStreams(s, r)
        /\ r.recording = {t} /\ r.uttering = s.uttering /\ r.aborted = s.aborted
        /\ \A u \in Turn : r.pc[u] = IF u = t THEN "listening"
                                     ELSE IF u \in s.recording \/ s.pc[u] = "cancelled"
                                          THEN "done" ELSE s.pc[u]
        /\ r.current = t
        /\ Reaches(s, "LISTENING") /\ (\A u \in Turn \ {t} : ~Open(s, u)) =>
             r.state = "LISTENING"
        /\ MouthShown(s) => MouthShown(r)
    BY <1>1, <1>5, <1>6, <2>1, ListenKeeps
  <2>3. v' = r
    BY <1>2, <1>4, <1>7, <2>1 DEF Converse
  <2>4. StopInv(r)
    BY <1>1, <1>5, <2>2 DEF StopInv
  <2>5. \A u \in Turn : v.pc[u] \notin {"none", "prompted"} => r.pc[u] \notin {"none", "prompted"}
    BY <1>3, <1>5, <2>2
  <2>6. StreamInv(r)
    <3>1. Entered(v) \subseteq Entered(r)
      BY <2>5 DEF Entered
    <3>2. SameStreams(v, r)
      BY <1>5, <2>2 DEF SameStreams
    <3> QED  BY <3>1, <3>2, StreamKept DEF VInv, Inv
  <2>7. \A u \in Turn \ {t} : Open(r, u) => Open(v, u)
    BY <1>3, <1>5, <2>2 DEF Open
  <2>8. ASSUME t \notin overlapped'
        PROVE  AloneOk(r, t)
    <3>1. \A u \in Turn : ~Open(v, u)
      BY <1>1, <2>8
    <3>2. \A u \in Turn \ {t} : ~Open(s, u)
      BY <1>3, <1>5, <3>1 DEF Open
    <3>3. Reaches(s, "LISTENING")
      BY <1>1, <1>5 DEF Reaches, SameFace, Transitions
    <3> QED  BY <1>1, <1>5, <2>2, <3>2, <3>3 DEF AloneOk
  <2>9. MouthShown(v) => MouthShown(r)
    BY <1>5, <2>2 DEF MouthShown, SameFace
  <2>10. r.recording \subseteq v.recording \cup {t} /\ r.uttering \subseteq v.uttering
    BY <1>5, <2>2
  <2>11. Inv(r, overlapped')
    BY <1>1, <2>2, <2>4, <2>6, <2>7, <2>8, <2>9, <2>10, After DEF VInv
  <2> QED  BY <2>3, <2>10, <2>11 DEF VInv, StaysSilent
<1>8. CASE ~v.held
  <2>1. PICK p : p = [s EXCEPT !.pc[t] = "prompted"]
    OBVIOUS
  <2>2. /\ DOMAIN p = Field /\ SameFace(s, p) /\ SameStreams(s, p)
        /\ p.current = t /\ p.ear = s.ear /\ p.mouth = s.mouth
        /\ p.recording = s.recording /\ p.uttering = s.uttering /\ p.cut = s.cut
        /\ p.aborted = s.aborted /\ p.begun = s.begun /\ p.pending = s.pending
        /\ p.broken = s.broken /\ p.pc = [s.pc EXCEPT ![t] = "prompted"]
    BY <1>5, <2>1 DEF Parts, Shape, Field, SameFace, SameStreams
  <2>3. \A u \in Turn : p.pc[u] = IF u = t THEN "prompted" ELSE s.pc[u]
    BY <1>5, <2>2 DEF Parts, Shape
  <2>4. CoreInv(p)
    <3>1. Shape(p) /\ FaceInv(p)
      BY <1>5, <2>2 DEF Parts, Shape, FaceInv, SameFace, Stage
    <3>2. EarInv(p)
      BY <1>5, <1>6, <2>2, <2>3 DEF Parts, Shape, EarInv
    <3>3. MouthInv(p)
      BY <1>5, <1>6, <2>2, <2>3 DEF Parts, Shape, MouthInv
    <3>4. TurnInv(p)
      BY <1>5, <1>6, <2>2, <2>3 DEF Parts, Shape, TurnInv
    <3>5. BusyInv(p)
      <4>1. \A u \in Turn : Engaged(s, u) => Engaged(p, u)
        BY <1>6, <2>2, <2>3 DEF Engaged
      <4> QED  BY <1>5, <2>2, <4>1 DEF BusyInv, SameFace
    <3> QED  BY <3>1, <3>2, <3>3, <3>4, <3>5 DEF CoreInv, Parts
  <2>5. PICK r : r = Settle(p)
    OBVIOUS
  <2>6. /\ CoreInv(r) /\ Settled(r) /\ SameStreams(p, r)
        /\ r.recording = p.recording /\ r.uttering = p.uttering /\ r.aborted = p.aborted
        /\ \A u \in Turn : r.pc[u] = IF p.pc[u] = "cancelled" THEN "done" ELSE p.pc[u]
        /\ p.current \in Turn /\ p.pc[p.current] # "cancelled" => r.current = p.current
        /\ MouthShown(p) => MouthShown(r)
    BY <2>4, <2>5, SettleKeeps
  <2>7. v' = r
    BY <1>2, <1>4, <1>8, <2>1, <2>5 DEF Converse
  <2>8. \A u \in Turn \ {t} :
          \/ r.pc[u] = v.pc[u]
          \/ r.pc[u] = "done" /\ v.pc[u] \in {"speaking", "finishing"}
    <3> SUFFICES ASSUME NEW u \in Turn \ {t}
                 PROVE  \/ r.pc[u] = v.pc[u]
                        \/ r.pc[u] = "done" /\ v.pc[u] \in {"speaking", "finishing"}
      OBVIOUS
    <3>1. r.pc[u] = IF a.pc[u] = "cancelled" THEN "done" ELSE a.pc[u]
      BY <1>5, <2>3, <2>6
    <3>2. v.pc[u] # "cancelled"
      BY DEF VInv, Inv, Settled
    <3>3. CASE a.pc[u] = v.pc[u]
      BY <3>1, <3>2, <3>3
    <3>4. CASE a.pc[u] = "cancelled" /\ v.pc[u] \in {"speaking", "finishing"}
      BY <3>1, <3>4
    <3> QED  BY <1>3, <3>3, <3>4
  <2>9. r.pc[t] = "prompted" /\ r.current = t
    BY <2>2, <2>3, <2>6
  <2>10. StopInv(r)
    BY <1>5, <2>2, <2>6, <2>9 DEF VInv, Inv, StopInv
  <2>11. StreamInv(r)
    <3>1. Entered(v) \subseteq Entered(r)
      BY <1>1, <2>8 DEF Entered
    <3>2. SameStreams(v, r)
      BY <1>5, <2>2, <2>6 DEF SameStreams
    <3> QED  BY <3>1, <3>2, StreamKept DEF VInv, Inv
  <2>12. \A u \in Turn \ {t} : Open(r, u) => Open(v, u)
    BY <2>8 DEF Open
  <2>13. AloneOk(r, t)
    BY <1>1, <1>5, <2>2, <2>6, <2>9 DEF AloneOk
  <2>14. MouthShown(v) => MouthShown(r)
    BY <1>5, <2>2, <2>6 DEF MouthShown, SameFace
  <2>15. r.recording \subseteq v.recording /\ r.uttering \subseteq v.uttering
    BY <1>5, <2>2, <2>6
  <2>16. Inv(r, overlapped')
    BY <1>1, <2>6, <2>10, <2>11, <2>12, <2>13, <2>14, <2>15, After DEF VInv
  <2> QED  BY <2>7, <2>15, <2>16 DEF VInv, StaysSilent
<1> QED  BY <1>7, <1>8

(* A stream is opened for the turn that was prompted.                      *)
LEMMA StreamOpened ==
  ASSUME NEW s, NEW r, StreamInv(s), NEW t \in Turn, t \notin Entered(s),
         Entered(s) \cup {t} \subseteq Entered(r),
         r.held = TRUE, r.open = s.open + 1, r.off = s.off
  PROVE  StreamInv(r)
<1>1. IsFiniteSet(Entered(s)) /\ IsFiniteSet(Entered(r))
  BY FS_Subset, VoiceAssumption DEF VoiceAssumption, Entered
<1>2. PICK E : E = Entered(s) \cup {t}
  OBVIOUS
<1>3. IsFiniteSet(E) /\ Cardinality(E) = Cardinality(Entered(s)) + 1
  BY <1>1, <1>2, FS_AddElement
<1>4. Cardinality(E) <= Cardinality(Entered(r))
  BY <1>1, <1>2, FS_Subset
<1>5. Cardinality(Entered(s)) \in Nat /\ Cardinality(Entered(r)) \in Nat
  BY <1>1, FS_CardinalityType
<1>6. s.open \in Nat /\ s.open <= Cardinality(Entered(s)) /\ s.off \in BOOLEAN
  BY DEF StreamInv
<1>7. s.open + 1 <= Cardinality(Entered(r))
  BY <1>3, <1>4, <1>5, <1>6
<1>8. r.open \in Nat /\ r.open > 0 /\ r.open <= Cardinality(Entered(r))
  BY <1>6, <1>7
<1> QED  BY <1>6, <1>8 DEF StreamInv

LEMMA GrantKeeps ==
  ASSUME VInv, NEW t \in Turn, Grant(t)
  PROVE  VInv' /\ StaysSilent
<1>1. /\ v.pc[t] = "prompted" /\ Open(v, t) /\ t \notin v.recording /\ t \notin v.uttering
      /\ t \notin Entered(v) /\ UNCHANGED overlapped
  BY DEF Grant, Open, Entered, VInv, Inv, CoreInv, Parts, EarInv, MouthInv
<1>2. PICK s : s = [v EXCEPT !.held = TRUE, !.open = @ + 1]
  OBVIOUS
<1>3. /\ DOMAIN s = Field /\ SameFace(v, s)
      /\ s.held = TRUE /\ s.open = v.open + 1 /\ s.off = v.off
      /\ s.current = v.current /\ s.ear = v.ear /\ s.mouth = v.mouth
      /\ s.recording = v.recording /\ s.uttering = v.uttering /\ s.cut = v.cut
      /\ s.pc = v.pc /\ s.aborted = v.aborted /\ s.begun = v.begun
      /\ s.pending = v.pending /\ s.broken = v.broken
  BY <1>2 DEF VInv, Inv, CoreInv, Parts, Shape, Field, SameFace
<1>4. Parts(s)
  <2>1. Shape(s) /\ FaceInv(s)
    BY <1>3 DEF VInv, Inv, CoreInv, Parts, Shape, FaceInv, SameFace
  <2>2. EarInv(s) /\ MouthInv(s) /\ TurnInv(s)
    BY <1>3 DEF VInv, Inv, CoreInv, Parts, EarInv, MouthInv, TurnInv
  <2> QED  BY <2>1, <2>2 DEF Parts
<1>5. CASE v.aborted[t]
  <2>1. PICK m : m = Move(s, "IDLE")
    OBVIOUS
  <2>2. /\ SameBody(s, m) /\ Parts(m) /\ m.state = "IDLE"
        /\ MouthShown(s) => MouthShown(m)
    BY <1>4, <2>1, MoveToRest DEF Parts, CoreInv
  <2>3. PICK r : r = Stop(m, t)
    OBVIOUS
  <2>4. /\ SameFace(m, r) /\ SameStreams(m, r)
        /\ r.recording = v.recording /\ r.uttering = v.uttering /\ r.aborted = v.aborted
        /\ r.pc = [v.pc EXCEPT ![t] = "done"]
        /\ r.current = IF v.current = t THEN None ELSE v.current
        /\ Parts(r)
    BY <1>1, <1>3, <2>2, <2>3, StopKeeps DEF SameBody
  <2>5. \A u \in Turn : r.pc[u] = IF u = t THEN "done" ELSE v.pc[u]
    BY <2>4 DEF VInv, Inv, CoreInv, Parts, Shape
  <2>6. CoreInv(r)
    BY <2>2, <2>4 DEF CoreInv, BusyInv, Busy, SameFace
  <2>7. Settled(r)
    BY <2>5 DEF VInv, Inv, Settled
  <2>8. v' = r
    BY <1>2, <1>5, <2>1, <2>3, <2>6, <2>7, SettleKeeps DEF Grant
  <2>9. StopInv(r)
    <3>1. v.current \in Turn \cup {None}
      BY DEF VInv, Inv, CoreInv, Parts, Shape
    <3> QED  BY <2>4, <2>5, <3>1 DEF VInv, Inv, StopInv
  <2>10. StreamInv(r)
    <3>1. Entered(v) \cup {t} \subseteq Entered(r)
      BY <2>5 DEF Entered
    <3>2. r.held = TRUE /\ r.open = v.open + 1 /\ r.off = v.off
      BY <1>3, <2>2, <2>4 DEF SameBody, SameStreams
    <3> QED  BY <1>1, <3>1, <3>2, StreamOpened DEF VInv, Inv
  <2>11. AloneOk(r, t)
    BY <1>1, <2>4, <2>5 DEF AloneOk, Open
  <2>12. \A u \in Turn \ {t} : Open(r, u) => Open(v, u)
    BY <2>5 DEF Open
  <2>13. MouthShown(v) => MouthShown(r)
    BY <1>3, <2>2, <2>4 DEF MouthShown, SameFace
  <2>14. Inv(r, overlapped)
    BY <1>1, <2>4, <2>6, <2>7, <2>9, <2>10, <2>11, <2>12, <2>13, After DEF VInv, Inv
  <2> QED  BY <1>1, <2>4, <2>8, <2>14 DEF VInv, StaysSilent
<1>6. CASE ~v.aborted[t]
  <2>1. PICK r : r = Settle(BeginListening(s, t))
    OBVIOUS
  <2>2. /\ CoreInv(r) /\ Settled(r) /\ SameStreams(s, r)
        /\ r.recording = {t} /\ r.uttering = s.uttering /\ r.aborted = s.aborted
        /\ \A u \in Turn : r.pc[u] = IF u = t THEN "listening"
                                     ELSE IF u \in s.recording \/ s.pc[u] = "cancelled"
                                          THEN "done" ELSE s.pc[u]
        /\ r.current \in {s.current, None} /\ (s.current = t => r.current = t)
        /\ Reaches(s, "LISTENING") /\ (\A u \in Turn \ {t} : ~Open(s, u)) =>
             r.state = "LISTENING"
        /\ MouthShown(s) => MouthShown(r)
    BY <1>1, <1>3, <1>4, <1>6, <2>1, ListenKeeps
  <2>3. v' = r
    BY <1>2, <1>6, <2>1 DEF Grant
  <2>4. StopInv(r)
    <3>1. v.current \in Turn \cup {None}
      BY DEF VInv, Inv, CoreInv, Parts, Shape
    <3>2. r.current # None => r.pc[r.current] # "none"
      BY <1>3, <2>2, <3>1 DEF VInv, Inv, StopInv
    <3> QED  BY <1>3, <1>6, <2>2, <3>2 DEF StopInv
  <2>5. StreamInv(r)
    <3>1. Entered(v) \cup {t} \subseteq Entered(r)
      BY <1>3, <2>2 DEF Entered
    <3>2. r.held = TRUE /\ r.open = v.open + 1 /\ r.off = v.off
      BY <1>3, <2>2 DEF SameStreams
    <3> QED  BY <1>1, <3>1, <3>2, StreamOpened DEF VInv, Inv
  <2>6. ASSUME t \notin overlapped
        PROVE  AloneOk(r, t)
    <3>1. \A u \in Turn \ {t} : ~Open(v, u)
      BY <1>1, <2>6 DEF VInv, Inv, AloneInv
    <3>2. \A u \in Turn : ~Engaged(v, u)
      BY <1>1, <3>1 DEF Engaged, Open
    <3>3. v.state \in {"IDLE", "ERROR"}
      BY <3>2, StateFacts DEF VInv, Inv, CoreInv, Parts, Shape, BusyInv, Busy
    <3>4. Reaches(s, "LISTENING")
      BY <1>3, <3>3 DEF Reaches, SameFace, Transitions
    <3>5. r.state = "LISTENING"
      BY <1>3, <2>2, <3>1, <3>4 DEF Open
    <3>6. v.current = t
      BY <1>1, <1>6, <2>6 DEF VInv, Inv, AloneInv, AloneOk
    <3> QED  BY <1>1, <1>3, <2>2, <3>5, <3>6 DEF AloneOk
  <2>7. \A u \in Turn \ {t} : Open(r, u) => Open(v, u)
    BY <1>3, <2>2 DEF Open
  <2>8. MouthShown(v) => MouthShown(r)
    BY <1>3, <2>2 DEF MouthShown, SameFace
  <2>9. r.recording \subseteq v.recording \cup {t} /\ r.uttering = v.uttering
    BY <1>3, <2>2
  <2>10. Inv(r, overlapped)
    BY <1>1, <2>2, <2>4, <2>5, <2>6, <2>7, <2>8, <2>9, After DEF VInv, Inv
  <2> QED  BY <1>1, <2>3, <2>9, <2>10 DEF VInv, StaysSilent
<1> QED  BY <1>5, <1>6

-----------------------------------------------------------------------------
(* Stopping everything. *)

LEMMA CancelAllKeeps ==
  ASSUME NEW over, Inv(v, over)
  PROVE  LET r == CancelAll(v) IN
         Inv(r, over) /\ DOMAIN r = Field /\ SameStreams(v, r) /\ r.uttering \subseteq v.uttering
<1>1. PICK c : c = v.current
  OBVIOUS
<1>2. PICK a : a = IF c = None THEN v ELSE [v EXCEPT !.aborted[c] = TRUE, !.current = None]
  OBVIOUS
<1>3. c \in Turn \cup {None} /\ (c # None => v.pc[c] # "none")
  BY <1>1 DEF Inv, CoreInv, Parts, Shape, StopInv
<1>4. /\ DOMAIN a = Field /\ SameFace(v, a) /\ SameStreams(v, a) /\ a.current = None
      /\ a.ear = v.ear /\ a.mouth = v.mouth /\ a.recording = v.recording
      /\ a.uttering = v.uttering /\ a.cut = v.cut /\ a.pc = v.pc /\ a.begun = v.begun
      /\ a.pending = v.pending /\ a.broken = v.broken
      /\ a.aborted \in [Turn -> BOOLEAN]
      /\ \A u \in Turn : a.aborted[u] = IF u = c THEN TRUE ELSE v.aborted[u]
  <2>1. CASE c = None
    BY <1>1, <1>2, <2>1, VoiceAssumption
       DEF Inv, CoreInv, Parts, Shape, SameFace, SameStreams, VoiceAssumption
  <2>2. CASE c # None
    BY <1>2, <1>3, <2>2 DEF Inv, CoreInv, Parts, Shape, Field, SameFace, SameStreams
  <2> QED  BY <2>1, <2>2
<1>5. Parts(a)
  <2>1. Shape(a) /\ FaceInv(a)
    BY <1>4 DEF Inv, CoreInv, Parts, Shape, FaceInv, SameFace
  <2>2. EarInv(a) /\ MouthInv(a)
    BY <1>4 DEF Inv, CoreInv, Parts, EarInv, MouthInv
  <2>3. TurnInv(a)
    <3>1. ASSUME NEW u \in Turn, a.pc[u] = "none"
          PROVE  ~a.aborted[u]
      <4>1. v.pc[u] = "none" /\ ~v.aborted[u]
        BY <1>4, <3>1 DEF Inv, CoreInv, Parts, TurnInv
      <4>2. u # c
        BY <1>3, <4>1, VoiceAssumption DEF VoiceAssumption
      <4> QED  BY <1>4, <4>1, <4>2
    <3> QED  BY <1>4, <3>1 DEF Inv, CoreInv, Parts, TurnInv
  <2> QED  BY <2>1, <2>2, <2>3 DEF Parts
<1>6. PICK i : i = InputCancel(a)
  OBVIOUS
<1>7. /\ Parts(i) /\ SameFace(a, i) /\ SameStreams(a, i)
      /\ i.current = a.current /\ i.mouth = a.mouth /\ i.recording = {}
      /\ i.uttering = a.uttering /\ i.cut = a.cut /\ i.aborted = a.aborted
      /\ \A u \in Turn : i.pc[u] = IF u \in a.recording THEN "cancelled" ELSE a.pc[u]
  BY <1>5, <1>6, InputCancelKeeps
<1>8. PICK o : o = OutputCancel(i)
  OBVIOUS
<1>9. /\ Parts(o) /\ SameFace(i, o) /\ SameStreams(i, o)
      /\ o.current = i.current /\ o.recording = i.recording
      /\ o.uttering = i.uttering \ {i.mouth} /\ o.aborted = i.aborted
      /\ \A u \in Turn :
           o.pc[u] = IF u = i.mouth /\ i.pc[u] \in {"speaking", "finishing"}
                     THEN "cancelled" ELSE i.pc[u]
  BY <1>7, <1>8, OutputCancelKeeps
<1>10. PICK m : m = Move(o, "IDLE")
  OBVIOUS
<1>11. /\ SameBody(o, m) /\ CoreInv(m) /\ m.state = "IDLE"
       /\ MouthShown(o) => MouthShown(m)
  BY <1>9, <1>10, MoveToRest DEF Parts
<1>12. PICK r : r = Settle(m)
  OBVIOUS
<1>13. /\ CoreInv(r) /\ Settled(r) /\ SameStreams(m, r)
       /\ r.recording = m.recording /\ r.uttering = m.uttering /\ r.aborted = m.aborted
       /\ \A u \in Turn : r.pc[u] = IF m.pc[u] = "cancelled" THEN "done" ELSE m.pc[u]
       /\ r.current \in {m.current, None}
       /\ r.state \in {m.state, "IDLE"}
       /\ MouthShown(m) => MouthShown(r)
  BY <1>11, <1>12, SettleKeeps
<1>14. r = CancelAll(v)
  BY <1>1, <1>2, <1>6, <1>8, <1>10, <1>12 DEF CancelAll
<1>15. /\ SameStreams(v, r) /\ r.recording = {} /\ r.uttering = v.uttering \ {v.mouth}
       /\ r.current = None /\ r.aborted = a.aborted
  BY <1>4, <1>7, <1>9, <1>11, <1>13 DEF SameBody, SameStreams
<1>16. ASSUME NEW u \in Turn
       PROVE  \/ r.pc[u] = v.pc[u] /\ (u = v.mouth => v.pc[u] \notin {"speaking", "finishing"})
              \/ r.pc[u] = "done" /\ v.pc[u] \notin {"none", "prompted"}
  <2>1. r.pc[u] = IF o.pc[u] = "cancelled" THEN "done" ELSE o.pc[u]
    BY <1>11, <1>13 DEF SameBody
  <2>2. v.pc[u] # "cancelled" /\ (u \in v.recording => v.pc[u] = "listening")
    BY DEF Inv, Settled, CoreInv, Parts, EarInv
  <2>3. i.pc[u] = IF u \in v.recording THEN "cancelled" ELSE v.pc[u]
    BY <1>4, <1>7
  <2>4. o.pc[u] = IF u = v.mouth /\ i.pc[u] \in {"speaking", "finishing"}
                  THEN "cancelled" ELSE i.pc[u]
    BY <1>4, <1>7, <1>9
  <2> QED  BY <2>1, <2>2, <2>3, <2>4
<1>17. StopInv(r)
  BY <1>15 DEF StopInv
<1>18. StreamInv(r)
  <2>1. Entered(v) \subseteq Entered(r)
    BY <1>16 DEF Entered
  <2> QED  BY <1>15, <2>1, StreamKept DEF Inv
<1>19. \A u \in Turn : Open(r, u) => Open(v, u) /\ r.pc[u] = v.pc[u]
  BY <1>16 DEF Open
<1>20. ASSUME NEW u \in Turn \ over
       PROVE  AloneOk(r, u)
  <2>1. AloneOk(v, u)
    BY DEF Inv, AloneInv
  <2>2. u \notin r.recording /\ u \notin r.uttering
    BY <1>15, <2>1 DEF AloneOk
  <2>3. ~(Open(r, u) /\ ~r.aborted[u])
    BY <1>1, <1>4, <1>15, <1>19, <2>1 DEF AloneOk
  <2>4. r.pc[u] \notin {"finishing", "speaking"}
    BY <1>16, <2>1 DEF AloneOk
  <2> QED  BY <2>2, <2>3, <2>4 DEF AloneOk, Open
<1>21. AloneInv(r, over)
  BY <1>19, <1>20 DEF Inv, AloneInv
<1>22. MouthShown(v) => MouthShown(r)
  BY <1>4, <1>7, <1>9, <1>11, <1>13 DEF MouthShown, SameFace
<1>23. Inv(r, over)
  BY <1>13, <1>17, <1>18, <1>21, <1>22 DEF Inv
<1> QED  BY <1>13, <1>14, <1>15, <1>23 DEF CoreInv, Parts, Shape

LEMMA CancelKeeps ==
  ASSUME VInv, Cancel
  PROVE  VInv' /\ StaysSilent
<1>1. PICK r : r = CancelAll(v)
  OBVIOUS
<1>2. Inv(r, overlapped) /\ r.uttering \subseteq v.uttering
  BY <1>1, CancelAllKeeps DEF VInv
<1> QED  BY <1>1, <1>2 DEF VInv, StaysSilent, Cancel

LEMMA DisposeKeeps ==
  ASSUME VInv, Dispose
  PROVE  VInv' /\ StaysSilent
<1>1. PICK s : s = CancelAll(v)
  OBVIOUS
<1>2. Inv(s, overlapped) /\ DOMAIN s = Field /\ SameStreams(v, s) /\ s.uttering \subseteq v.uttering
  BY <1>1, CancelAllKeeps DEF VInv
<1>3. PICK r : r = [s EXCEPT !.off = TRUE, !.held = FALSE, !.open = IF v.held THEN @ - 1 ELSE @]
  OBVIOUS
<1>4. v' = r /\ UNCHANGED overlapped
  BY <1>1, <1>3 DEF Dispose
<1>5. /\ DOMAIN r = Field /\ SameFace(s, r)
      /\ r.current = s.current /\ r.ear = s.ear /\ r.mouth = s.mouth
      /\ r.recording = s.recording /\ r.uttering = s.uttering /\ r.cut = s.cut
      /\ r.pc = s.pc /\ r.aborted = s.aborted /\ r.begun = s.begun
      /\ r.pending = s.pending /\ r.broken = s.broken
      /\ r.off = TRUE /\ r.held = FALSE /\ r.open = IF v.held THEN s.open - 1 ELSE s.open
  BY <1>2, <1>3 DEF Field, SameFace
<1>6. CoreInv(r)
  <2>1. Shape(r) /\ FaceInv(r)
    BY <1>2, <1>5 DEF Inv, CoreInv, Parts, Shape, FaceInv, SameFace
  <2>2. EarInv(r) /\ MouthInv(r) /\ TurnInv(r)
    BY <1>2, <1>5 DEF Inv, CoreInv, Parts, EarInv, MouthInv, TurnInv
  <2>3. BusyInv(r)
    BY <1>2, <1>5 DEF Inv, CoreInv, BusyInv, Engaged, SameFace
  <2> QED  BY <2>1, <2>2, <2>3 DEF CoreInv, Parts
<1>7. Settled(r) /\ StopInv(r)
  BY <1>2, <1>5 DEF Inv, Settled, StopInv
<1>8. StreamInv(r)
  <2>1. Entered(r) = Entered(s)
    BY <1>5 DEF Entered
  <2>2. Cardinality(Entered(s)) \in Nat
    <3>1. IsFiniteSet(Entered(s))
      BY FS_Subset, VoiceAssumption DEF VoiceAssumption, Entered
    <3> QED  BY <3>1, FS_CardinalityType
  <2>3. /\ s.open \in Nat /\ s.open <= Cardinality(Entered(s))
        /\ v.held => s.open > 0
    BY <1>2 DEF Inv, StreamInv, SameStreams
  <2>4. r.open \in Nat /\ r.open <= Cardinality(Entered(s))
    BY <1>5, <2>2, <2>3
  <2> QED  BY <1>5, <2>1, <2>4 DEF StreamInv
<1>9. AloneInv(r, overlapped)
  BY <1>2, <1>5 DEF Inv, AloneInv, AloneOk, Open, SameFace
<1>10. MouthShown(s) => MouthShown(r)
  BY <1>5 DEF MouthShown, SameFace
<1>11. Inv(r, overlapped)
  BY <1>2, <1>6, <1>7, <1>8, <1>9, <1>10 DEF Inv
<1>12. StaysSilent
  BY <1>2, <1>4, <1>5 DEF StaysSilent
<1> QED  BY <1>4, <1>11, <1>12 DEF VInv

-----------------------------------------------------------------------------
LEMMA InitEstablishes ==
  Init => VInv
<1> SUFFICES ASSUME Init
             PROVE  VInv
  OBVIOUS
<1>1. /\ DOMAIN v = Field
      /\ v.state = "IDLE" /\ v.pose = "IDLE" /\ v.moving = FALSE
      /\ v.current = None /\ v.ear = None /\ v.mouth = None
      /\ v.recording = {} /\ v.uttering = {} /\ v.cut = {}
      /\ v.held = FALSE /\ v.open = 0 /\ v.off = FALSE
      /\ v.pc = [t \in Turn |-> "none"] /\ v.aborted = [t \in Turn |-> FALSE]
      /\ v.begun = [t \in Turn |-> 0] /\ v.pending = [t \in Turn |-> 0]
      /\ v.broken = [t \in Turn |-> "no"]
      /\ overlapped = {}
  BY DEF Init, Field
<1>2. Shape(v)
  <2>1. 0 \in 0 .. MaxSentences
    BY VoiceAssumption DEF VoiceAssumption
  <2>2. v.begun \in [Turn -> 0 .. MaxSentences] /\ v.pending \in [Turn -> 0 .. MaxSentences]
    BY <1>1, <2>1
  <2>3. /\ v.pc \in [Turn -> Stage \cup {"cancelled"}] /\ v.aborted \in [Turn -> BOOLEAN]
        /\ v.broken \in [Turn -> {"no", "cancelled", "failed"}]
    BY <1>1 DEF Stage
  <2>4. v.state \in State /\ v.pose \in Poses
    BY <1>1, StateFacts DEF Poses
  <2> QED  BY <1>1, <2>2, <2>3, <2>4 DEF Shape
<1>3. FaceInv(v) /\ EarInv(v) /\ MouthInv(v) /\ TurnInv(v) /\ BusyInv(v)
  BY <1>1 DEF FaceInv, EarInv, MouthInv, TurnInv, BusyInv, Busy
<1>4. Settled(v) /\ StopInv(v)
  BY <1>1 DEF Settled, StopInv
<1>5. StreamInv(v)
  <2>1. IsFiniteSet(Entered(v))
    BY FS_Subset, VoiceAssumption DEF VoiceAssumption, Entered
  <2>2. Cardinality(Entered(v)) \in Nat
    BY <2>1, FS_CardinalityType
  <2>3. v.open \in Nat /\ v.open <= Cardinality(Entered(v))
    BY <1>1, <2>2
  <2>4. v.held \in BOOLEAN /\ v.off \in BOOLEAN /\ ~v.held
    BY <1>1
  <2> QED  BY <2>3, <2>4 DEF StreamInv
<1>6. AloneInv(v, overlapped)
  BY <1>1 DEF AloneInv, AloneOk, Open
<1> QED  BY <1>1, <1>2, <1>3, <1>4, <1>5, <1>6 DEF VInv, Inv, CoreInv, Parts, MouthShown

LEMMA NextKeeps ==
  ASSUME VInv, [Next]_vars
  PROVE  VInv' /\ StaysSilent
<1>1. CASE UNCHANGED vars
  BY <1>1 DEF vars, VInv, StaysSilent
<1>2. ASSUME NEW t \in Turn,
             \/ Converse(t) \/ Say(t) \/ Grant(t) \/ Refuse(t) \/ Hear(t) \/ HearNothing(t)
             \/ HearPartly(t) \/ Pronounce(t) \/ Delta(t) \/ Answer(t) \/ Unanswered(t)
             \/ UtteranceEnds(t)
      PROVE  VInv' /\ StaysSilent
  BY <1>2, ConverseKeeps, SayKeeps, GrantKeeps, RefuseKeeps, HearKeeps, HearNothingKeeps,
     HearPartlyKeeps, PronounceKeeps, DeltaKeeps, AnswerKeeps, UnansweredKeeps,
     UtteranceEndsKeeps
<1>3. CASE Cancel
  BY <1>3, CancelKeeps
<1>4. CASE Reset
  BY <1>4, ResetKeeps
<1>5. CASE PageCommands
  BY <1>5, PageCommandsKeeps
<1>6. CASE Dispose
  BY <1>6, DisposeKeeps
<1> QED  BY <1>1, <1>2, <1>3, <1>4, <1>5, <1>6 DEF Next

-----------------------------------------------------------------------------
(* In every reachable state the controller, its adapters, its turns and    *)
(* the face stand as VInv relates them.                                    *)
THEOREM Invariance == Spec => []VInv
<1>1. Init => VInv
  BY InitEstablishes
<1>2. VInv /\ [Next]_vars => VInv'
  BY NextKeeps
<1> QED  BY <1>1, <1>2, PTL DEF Spec

(* The controller, its adapters and its turns have their types; no turn    *)
(* that was stopped is left unsettled, and no more streams are open than   *)
(* turns were begun.                                                       *)
THEOREM TypeCorrect == Spec => []TypeOK
<1>1. VInv => TypeOK
  <2> SUFFICES ASSUME VInv
               PROVE  TypeOK
    OBVIOUS
  <2>1. v.pc \in [Turn -> Stage]
    <3>1. \A t \in Turn : v.pc[t] \in Stage
      BY DEF VInv, Inv, CoreInv, Parts, Shape, Settled
    <3> QED  BY <3>1 DEF VInv, Inv, CoreInv, Parts, Shape
  <2>2. v.open \in 0 .. Cardinality(Turn)
    <3>1. IsFiniteSet(Entered(v)) /\ Cardinality(Entered(v)) <= Cardinality(Turn)
      BY FS_Subset, VoiceAssumption DEF VoiceAssumption, Entered
    <3>2. Cardinality(Entered(v)) \in Nat /\ Cardinality(Turn) \in Nat
      BY <3>1, FS_CardinalityType, VoiceAssumption DEF VoiceAssumption
    <3>3. v.open \in Nat /\ v.open <= Cardinality(Entered(v))
      BY DEF VInv, Inv, StreamInv
    <3> QED  BY <3>1, <3>2, <3>3
  <2>3. v.held \in BOOLEAN /\ v.off \in BOOLEAN /\ overlapped \subseteq Turn
    BY DEF VInv, Inv, StreamInv
  <2>4. /\ v.state \in DOMAIN Transitions /\ v.pose \in Poses /\ v.moving \in BOOLEAN
        /\ {v.current, v.ear, v.mouth} \subseteq Turn \cup {None}
        /\ v.recording \subseteq Turn /\ v.uttering \subseteq Turn /\ v.cut \subseteq v.uttering
    BY DEF VInv, Inv, CoreInv, Parts, Shape, State
  <2>5. /\ v.aborted \in [Turn -> BOOLEAN]
        /\ v.begun \in [Turn -> 0 .. MaxSentences] /\ v.pending \in [Turn -> 0 .. MaxSentences]
        /\ v.broken \in [Turn -> {"no", "cancelled", "failed"}]
    BY DEF VInv, Inv, CoreInv, Parts, Shape
  <2>6. v.recording \cup v.uttering \cup overlapped \subseteq Turn
    BY <2>3, <2>4
  <2> QED  BY <2>1, <2>2, <2>3, <2>4, <2>5, <2>6 DEF TypeOK
<1> QED  BY <1>1, Invariance, PTL

(* The user sees what the microphone and the voice do: one recognition at  *)
(* most, the one that cancel() stops; a turn that was alone records and is *)
(* spoken only while the state says so; the state is one to start from     *)
(* when nothing is under way; and the face agrees.                         *)
THEOREM ShownTruly == Spec => []ShownAsItIs
<1>1. VInv => ShownAsItIs
  <2> SUFFICES ASSUME VInv
               PROVE  ShownAsItIs
    OBVIOUS
  <2>1. OneEar
    BY DEF VInv, Inv, CoreInv, Parts, EarInv, OneEar
  <2>2. \A t \in Turn \ overlapped :
          /\ t \in v.recording => v.state = "LISTENING"
          /\ t \in v.uttering => v.state = "SPEAKING"
    BY DEF VInv, Inv, AloneInv, AloneOk
  <2>3. ASSUME Unfinished = {}
        PROVE  v.state \in {"IDLE", "ERROR"}
    <3>1. \A t \in Turn : ~Engaged(v, t)
      BY <2>3 DEF Unfinished, Engaged
    <3> QED  BY <3>1, StateFacts DEF VInv, Inv, CoreInv, Parts, Shape, BusyInv, Busy
  <2>4. FaceIsHonest
    BY DEF VInv, Inv, CoreInv, Parts, FaceInv, MouthShown, FaceIsHonest
  <2> QED  BY <2>1, <2>2, <2>3, <2>4 DEF ShownAsItIs
<1> QED  BY <1>1, Invariance, PTL

(* Once a turn is stopped, or one of its sentences failed, no further      *)
(* sentence of it is spoken.                                               *)
THEOREM SilenceHolds == Spec => SilentAfterStop
<1>1. VInv /\ [Next]_vars =>
        [\A t \in Turn :
           v.aborted[t] \/ v.broken[t] # "no" => t \notin v'.uttering \ v.uttering]_vars
  BY NextKeeps DEF StaysSilent
<1> QED  BY <1>1, Invariance, PTL DEF Spec, SilentAfterStop
=============================================================================
