------------------------------- MODULE Voice -------------------------------
(***************************************************************************)
(* Spoken turns in the browser: TaniaVoiceController, the state machine it *)
(* shows, the speech input and output adapters and the microphone, driven  *)
(* by the voice button and by the page that mounts it, and the avatar that *)
(* voice and page share.                                                   *)
(*                                                                         *)
(* JavaScript runs a callback and the promises it settles to the end before*)
(* the next event, so an action is an event with everything that follows   *)
(* from it.  What stays pending between events is the permission prompt,   *)
(* a recognition, an answer, an utterance.                                 *)
(***************************************************************************)
EXTENDS Integers, FiniteSets, Avatar

CONSTANTS
  Turn,        \* calls of converse and say
  None,
  Interrupts,  \* whether converse may be called while TANIA speaks; the button never does
  Replays,     \* whether say is called
  MaxSentences, \* sentences of an answer that arrive while it is streamed
  PagePoses    \* poses the page commands for typed questions, gates and failures

(* The turns of a behaviour are finitely many, which is a bound.           *)
ASSUME VoiceAssumption ==
  /\ IsFiniteSet(Turn) /\ None \notin Turn
  /\ Interrupts \in BOOLEAN /\ Replays \in BOOLEAN /\ MaxSentences \in Nat
  /\ PagePoses \subseteq Poses \ {"LISTENING", "SPEAKING"}

VARIABLES
  v,          \* the controller, its adapters and its turns
  overlapped  \* turns that were under way together with another one (history)

vars == <<v, overlapped>>

Transitions == [s \in {"IDLE", "LISTENING", "PROCESSING", "SPEAKING", "ERROR"} |->
  CASE s = "IDLE"       -> {"LISTENING", "SPEAKING", "ERROR"}
    [] s = "LISTENING"  -> {"PROCESSING", "IDLE", "ERROR"}
    [] s = "PROCESSING" -> {"SPEAKING", "IDLE", "ERROR"}
    [] s = "SPEAKING"   -> {"IDLE", "LISTENING", "ERROR"}
    [] s = "ERROR"      -> {"IDLE", "LISTENING"}]

Busy == {"LISTENING", "PROCESSING", "SPEAKING"}

Init ==
  /\ v = [state     |-> "IDLE",
          pose      |-> "IDLE",                   \* what the avatar shows
          moving    |-> FALSE,                    \* its mouth moves
          current   |-> None,                     \* the turn cancel() aborts
          ear       |-> None,                     \* recognition the input adapter aborts
          mouth     |-> None,                     \* utterance the output adapter aborts
          recording |-> {},                       \* turns whose recognition runs
          uttering  |-> {},                       \* turns whose utterance is with the engine
          cut       |-> {},                       \* those of them the engine dropped
          held      |-> FALSE,                    \* the microphone access keeps a stream
          open      |-> 0,                        \* capture streams that were not stopped
          off       |-> FALSE,                    \* disposed
          pc        |-> [t \in Turn |-> "none"],
          aborted   |-> [t \in Turn |-> FALSE],
          begun     |-> [t \in Turn |-> 0],       \* sentences received
          pending   |-> [t \in Turn |-> 0],       \* of those, waiting to be spoken
          broken    |-> [t \in Turn |-> "no"]]    \* why the rest of an answer stays unsaid
  /\ overlapped = {}

-----------------------------------------------------------------------------
(* The synchronous parts, as functions of the state. *)

(* VoiceStateMachine.to: a move outside the table is refused, not applied; *)
(* any other, also one to the same state, is shown.                        *)
Move(s, state) ==
  IF state \in Transitions[s.state] \cup {s.state} THEN Cued([s EXCEPT !.state = state]) ELSE s

Stop(s, t) ==
  [s EXCEPT !.pc[t] = "done", !.current = IF @ = t THEN None ELSE @]

(* SpeechInputAdapter.cancel: the recognition stops at once; its turn    *)
(* learns of it when the promises settle.                                *)
InputCancel(s) ==
  IF s.ear = None THEN s
  ELSE [s EXCEPT !.recording = @ \ {s.ear}, !.pc[s.ear] = "cancelled", !.ear = None]

(* SpeechOutputAdapter.cancel: its utterance is aborted, and the engine *)
(* drops whatever else it was given.                                    *)
OutputCancel(s) ==
  LET m == s.mouth
      silenced == [s EXCEPT !.cut = s.uttering \ {m}, !.uttering = @ \ {m}, !.mouth = None]
  IN  IF m = None THEN silenced
      ELSE IF s.pc[m] \in {"speaking", "finishing"}
      THEN [silenced EXCEPT !.pc[m] = "cancelled"]
      ELSE [silenced EXCEPT !.broken[m] = "cancelled"]

(* Mutant of Settle: the rejected promise of a stopped turn is not awaited. *)
LeaveUnsettled(s) == s

(* Cancelled turns end, and each of them returns the state to IDLE. *)
Settle(s) ==
  LET ending == {t \in Turn : s.pc[t] = "cancelled"}
  IN  IF ending = {} THEN s
      ELSE [Move(s, "IDLE") EXCEPT
              !.pc = [t \in Turn |-> IF t \in ending THEN "done" ELSE s.pc[t]],
              !.current = IF @ \in ending THEN None ELSE @]

(* settleFailure for anything but a cancellation. *)
Fault(s, t) == Stop(Move(OutputCancel(s), "ERROR"), t)

Utter(s, t) == [s EXCEPT !.uttering = @ \cup {t}, !.mouth = t]

(* Mutant of SpeakNext: a sentence that failed does not hold up the next. *)
SpeakNextAnyway(s, t) ==
  IF t \in s.uttering \/ s.pending[t] = 0 THEN s
  ELSE [Utter(s, t) EXCEPT !.pending[t] = @ - 1]

(* Sentences are spoken one at a time, and none after a failure. *)
SpeakNext(s, t) ==
  IF t \in s.uttering \/ s.pending[t] = 0 \/ s.broken[t] # "no" THEN s
  ELSE [Utter(s, t) EXCEPT !.pending[t] = @ - 1]

(* The microphone is granted: LISTENING, and whoever listened is cut off. *)
BeginListening(s, t) ==
  [InputCancel(Move(s, "LISTENING")) EXCEPT
     !.pc[t] = "listening", !.ear = t, !.recording = @ \cup {t}]

(* A turn is over: back to IDLE unless somebody ended it before. *)
Rest(s, t) == Stop(IF s.aborted[t] THEN s ELSE Move(s, "IDLE"), t)

(* finish() of the speech sink, and speak(): what a turn does when nothing *)
(* of it is left to say.                                                   *)
Finish(s, t) ==
  IF t \in s.uttering THEN s
  ELSE CASE s.broken[t] = "no"        -> Rest(s, t)
         [] s.broken[t] = "failed"    -> Fault(s, t)
         [] s.broken[t] = "cancelled" -> Stop(Move(s, "IDLE"), t)

-----------------------------------------------------------------------------
(* Events. *)

Unfinished == {t \in Turn : v.pc[t] \notin {"none", "done"}}

Enter(t) ==
  /\ v.pc[t] = "none" /\ ~v.off
  /\ overlapped' = IF Unfinished = {} THEN overlapped ELSE overlapped \cup Unfinished \cup {t}

(* converse: an answer being spoken is interrupted, and the microphone is *)
(* asked for unless it was granted before.                                *)
Converse(t) ==
  LET s == [(IF v.state = "SPEAKING" THEN OutputCancel(v) ELSE v) EXCEPT !.current = t] IN
  /\ Enter(t)
  /\ v.state \in {"IDLE", "ERROR"} \cup (IF Interrupts THEN {"SPEAKING"} ELSE {})
  /\ v' = Settle(IF v.held THEN BeginListening(s, t) ELSE [s EXCEPT !.pc[t] = "prompted"])

(* say: replaying an answer; refused while something else is going on. *)
Say(t) ==
  LET s == [v EXCEPT !.current = t] IN
  /\ Replays /\ Enter(t)
  /\ v' = IF v.state \in {"IDLE", "SPEAKING"}
          THEN Utter([Move(s, "SPEAKING") EXCEPT !.pc[t] = "speaking"], t) ELSE Stop(s, t)

(* getUserMedia answers.  The access keeps the stream it got last. *)
Grant(t) ==
  LET s == [v EXCEPT !.held = TRUE, !.open = @ + 1] IN
  /\ v.pc[t] = "prompted"
  /\ v' = Settle(IF v.aborted[t] THEN Stop(Move(s, "IDLE"), t) ELSE BeginListening(s, t))
  /\ UNCHANGED overlapped

Refuse(t) ==
  /\ v.pc[t] = "prompted"
  /\ v' = Settle(Fault(v, t))
  /\ UNCHANGED overlapped

(* The recognition ends, with or without a transcript; the adapter's timer *)
(* ends it without one at the latest.  One the engine itself aborted counts *)
(* as cancelled.                                                           *)
EndListening(t) ==
  [v EXCEPT !.recording = @ \ {t}, !.ear = IF @ = t THEN None ELSE @]

Hear(t) ==
  /\ t \in v.recording
  /\ v' = [Move(EndListening(t), "PROCESSING") EXCEPT !.pc[t] = "asking"]
  /\ UNCHANGED overlapped

HearNothing(t) ==
  /\ t \in v.recording
  /\ v' \in {Settle(Fault(EndListening(t), t)),
            Settle([EndListening(t) EXCEPT !.pc[t] = "cancelled"])}
  /\ UNCHANGED overlapped

(* Loudness and partial transcripts are shown as they come. *)
HearPartly(t) ==
  /\ t \in v.recording
  /\ v' = Cued(v)
  /\ UNCHANGED overlapped

(* A sentence of the answer has arrived. *)
Delta(t) ==
  LET s == IF v.begun[t] = 0 THEN Move(v, "SPEAKING") ELSE v IN
  /\ v.pc[t] = "asking" /\ ~v.aborted[t] /\ v.begun[t] < MaxSentences
  /\ v' = SpeakNext([Cued(s) EXCEPT !.begun[t] = @ + 1, !.pending[t] = @ + 1], t)
  /\ UNCHANGED overlapped

(* ask() returns: too late, empty, streamed, or with all still to be said. *)
Answer(t) ==
  LET s == Cued(v) IN
  /\ v.pc[t] = "asking"
  /\ \/ v.aborted[t] /\ v' = Settle(Stop(Move(OutputCancel(s), "IDLE"), t))
     \/ /\ ~v.aborted[t] /\ v.begun[t] > 0
        /\ v' = Settle(Finish([s EXCEPT !.pc[t] = "finishing"], t))
     \/ /\ ~v.aborted[t] /\ v.begun[t] = 0
        /\ v' \in {Rest(s, t), Utter([Move(s, "SPEAKING") EXCEPT !.pc[t] = "speaking"], t)}
  /\ UNCHANGED overlapped

(* The page reports every failure of its own as a missing answer, and the *)
(* caller's abort is one.                                                 *)
Unanswered(t) ==
  /\ v.pc[t] = "asking"
  /\ v' = Settle(Fault(v, t))
  /\ UNCHANGED overlapped

(* The engine reports a word it reached. *)
Pronounce(t) ==
  /\ t \in v.uttering \ v.cut
  /\ v' = WordReached(v)
  /\ UNCHANGED overlapped

(* Mutant of UtteranceEnds: a failed sentence is forgotten at the end. *)
UtteranceEndsQuietly(t) ==
  LET s == [v EXCEPT !.uttering = @ \ {t}, !.cut = @ \ {t},
                     !.mouth = IF @ = t THEN None ELSE @] IN
  /\ t \in v.uttering \ v.cut
  /\ v' = Settle(IF s.pending[t] > 0 THEN SpeakNext(s, t)
                 ELSE IF s.pc[t] \in {"speaking", "finishing"} THEN Finish(s, t) ELSE s)
  /\ UNCHANGED overlapped

(* The engine reports an utterance spoken, or failed. *)
UtteranceEnds(t) ==
  LET s == [v EXCEPT !.uttering = @ \ {t}, !.cut = @ \ {t},
                     !.mouth = IF @ = t THEN None ELSE @]
      Continue(r) == IF r.pc[t] \in {"speaking", "finishing"} THEN Finish(r, t) ELSE r
  IN
  /\ t \in v.uttering
  /\ \/ t \notin v.cut /\ v' = Settle(Continue(SpeakNext(s, t)))
     \/ v' = Settle(Continue(SpeakNext([s EXCEPT !.broken[t] = "failed"], t)))
  /\ UNCHANGED overlapped

-----------------------------------------------------------------------------
(* Mutant of CancelAll: the turn is aborted, the microphone left to it. *)
CancelTurn(s) ==
  LET c == s.current
      a == IF c = None THEN s ELSE [s EXCEPT !.aborted[c] = TRUE, !.current = None]
  IN  Settle(Move(OutputCancel(a), "IDLE"))

(* cancel(): the turn, the microphone and the voice. *)
CancelAll(s) ==
  LET c == s.current
      a == IF c = None THEN s ELSE [s EXCEPT !.aborted[c] = TRUE, !.current = None]
  IN  Settle(Move(OutputCancel(InputCancel(a)), "IDLE"))

(* The button is a stop while the state says something is going on. *)
Cancel ==
  /\ v.state \in Busy /\ ~v.off
  /\ v' = CancelAll(v)
  /\ UNCHANGED overlapped

Reset ==
  /\ v.state = "ERROR" /\ ~v.off
  /\ v' = Move(v, "IDLE")
  /\ UNCHANGED overlapped

(* The page commands a pose of its own: a typed question is thought about, *)
(* answered, gated or fails; or it names another conversation to the voice. *)
PageCommands ==
  /\ ~v.off
  /\ v' \in {Cued(v)} \cup {Commanded(v, pose) : pose \in PagePoses}
  /\ UNCHANGED overlapped

(* The page is left: everything stops and the stream is released. *)
Dispose ==
  LET s == CancelAll(v) IN
  /\ ~v.off
  /\ v' = [s EXCEPT !.off = TRUE, !.held = FALSE, !.open = IF v.held THEN @ - 1 ELSE @]
  /\ UNCHANGED overlapped

-----------------------------------------------------------------------------
Next ==
  \/ \E t \in Turn :
       \/ Converse(t) \/ Say(t) \/ Grant(t) \/ Refuse(t) \/ Hear(t) \/ HearNothing(t)
       \/ HearPartly(t) \/ Pronounce(t) \/ Delta(t) \/ Answer(t) \/ Unanswered(t) \/ UtteranceEnds(t)
  \/ Cancel \/ Reset \/ PageCommands \/ Dispose

Spec == Init /\ [][Next]_vars

(* The listening timer fires, a chat request is answered or fails, and the *)
(* engine reports the end of what it was given.  Nobody must answer the    *)
(* permission prompt.                                                      *)
FairSpec ==
  Spec /\ \A t \in Turn :
    WF_vars(HearNothing(t)) /\ WF_vars(Unanswered(t)) /\ WF_vars(UtteranceEnds(t))
=============================================================================
