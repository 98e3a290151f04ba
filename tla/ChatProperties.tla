--------------------------- MODULE ChatProperties ---------------------------
(* What a conversation must do, whoever else talks to the same service and *)
(* whatever fails on the way.                                              *)
EXTENDS Chat, SequencesExt

Event == {"accepted", "UNDERSTANDING", "intent", "PLANNING", "RETRIEVING", "sources",
          "EXECUTING", "COMPOSING", "delta", "VERIFYING", "done", "error"}

(* The variables keep their shape; only the page's turns are shown.        *)
TypeOK ==
  /\ store \in {"memory", "backend"} /\ minted \subseteq Conv /\ faults \in 0..MaxFaults
  /\ conv \in [Conv -> Conversation \cup {None}] /\ \A c \in Conv \ minted : conv[c] = None
  /\ \A t \in Turn :
       /\ turn[t].by \in Actor /\ turn[t].conv \in minted \cup {None}
       /\ turn[t].intent \in Intent \cup {None} /\ turn[t].agent \in Agent \cup {None}
       /\ turn[t].text \in 0..Parts
       /\ Len(queue[t].handed) <= 1
       /\ {said[t][i] : i \in DOMAIN said[t]} \subseteq Event
  /\ page.busy \in Turn \cup {None} /\ page.conv \in minted \cup {None}
  /\ \A b \in page.view : turn[b.turn].kind = "stream"

Ends == {"done", "error"}
Phases == {"UNDERSTANDING", "PLANNING", "RETRIEVING", "EXECUTING", "COMPOSING", "VERIFYING"}

(* What a turn says reaches its reader once and in order, whether the      *)
(* reader waited, came late or went away; a phase is told once, the        *)
(* conversation comes first and "done" or "error" last.                    *)
ToldInOrder ==
  \A t \in Turn :
    LET under == heard[t] \o queue[t].handed \o queue[t].buffer
    IN  /\ IsPrefix(heard[t], said[t])
        /\ ~wire[t].gone => under = said[t]
        /\ said[t] # <<>> => said[t][1] = "accepted"
        /\ \A i, j \in DOMAIN said[t] :
             /\ said[t][i] \in Ends => i = Len(said[t])
             /\ said[t][i] = said[t][j] /\ said[t][i] \in Phases \cup {"accepted"} => i = j

(* An answer shown as finished is one the server finished, with its text,  *)
(* and unless a call to the store failed it is in the transcript before it *)
(* shows (send(), streamChat, persist).                                    *)
ShownAnswersAreReal ==
  \A b \in page.view :
    LET t == b.turn
        c == turn[t].conv
    IN  b.done => /\ turn[t].stage = "answered" /\ b.text = turn[t].text
                  /\ faults = 0 /\ Owned(c, Me) =>
                       \E i \in Visible(c) : conv[c].rows[i] = Row(t, "tania", TRUE)

(* event-queue.ts:59, sse.ts:70: from the turn to the page nothing is lost,*)
(* doubled or out of order, in the queue, on the wire or in what shows.    *)
StreamIsFaithful == ToldInOrder /\ ShownAnswersAreReal

RowsOf(c, t) == {i \in Visible(c) : conv[c].rows[i].turn = t}

(* A transcript holds turns its owner asked in it, each as one question    *)
(* and its answer, once; and what the model is told was said before is     *)
(* such a thread of the asker's own, whoever names whose conversation      *)
(* (InMemoryTranscriptStore, SessionsService.findOwned, ContextService).   *)
OnlyOwnThreads ==
  /\ \A c \in Conv : conv[c] # None => \A t \in Turn :
       RowsOf(c, t) # {} =>
         /\ turn[t].conv = c /\ turn[t].by = conv[c].owner
         /\ \E i, j \in RowsOf(c, t) :
              /\ i < j /\ RowsOf(c, t) = {i, j}
              /\ conv[c].rows[i].role = "user" /\ conv[c].rows[j].role = "tania"
  /\ \A t \in Turn : \A i \in turn[t].history :
       LET u == conv[turn[t].conv].rows[i].turn
       IN  /\ turn[u].by = turn[t].by /\ turn[u].conv = turn[t].conv
           /\ turn[u].stage \in {"commit", "answered"} /\ u # t

AskedAfter(t, u) ==
  /\ turn[t].conv = turn[u].conv /\ turn[t].conv # None /\ t < u
  /\ turn[t].kind = "stream" /\ turn[u].kind = "stream"

(* A question asked once the answer before it was shown builds on it: the  *)
(* turn is recorded before "done", so it is in the next turn's history     *)
(* unless a call failed (persist before the response, context.resolve).    *)
AnswersBuildOnTheThread ==
  \A t, u \in Turn :
    /\ AskedAfter(t, u) /\ faults = 0 /\ HistoryLimit >= 2
    /\ "done" \in {heard[t][i] : i \in DOMAIN heard[t]}
    /\ Owned(turn[t].conv, Me) /\ turn[u].stage \notin {"none", "sent", "ensure", "history", "failed"}
    /\ \A w \in Turn : w \notin {t, u} => turn[w].conv # turn[t].conv
    => \E i \in turn[u].history : conv[turn[u].conv].rows[i] = Row(t, "tania", TRUE)

(* context-service.ts:54: a conversation is its owner's and grows in the   *)
(* order it was asked in: no one reads or adds to another's, and an answer *)
(* that was shown is part of the thread the next question builds on.       *)
ThreadsAreOwn == OnlyOwnThreads /\ AnswersBuildOnTheThread

(* Only planned tools the asker's scopes allow are called, nothing at or   *)
(* over the threshold without a human and nothing once a gate is open; a   *)
(* turn calls itself completed only when each planned tool ran and         *)
(* succeeded (evaluatePolicy in the Brain's loop, toChatState).            *)
OnlyAllowedTools ==
  \A t \in Turn :
    /\ \A tool \in turn[t].called :
         /\ Allowed(tool, Scopes[turn[t].by]) /\ ~RequiresApproval(tool, Threshold)
         /\ \E i \in DOMAIN Plan(t) : Plan(t)[i] = tool
    /\ turn[t].stage = "answered" /\ State(t) = "COMPLETED" =>
         /\ turn[t].called = {Plan(t)[i] : i \in DOMAIN Plan(t)}
         /\ \A i \in DOMAIN turn[t].used : turn[t].used[i].status = "SUCCEEDED"

(* An answer attributed to a specialist that does not handle its intent    *)
(* used that specialist's words at least twice more than any other's that  *)
(* does, as far as words count (the weights of KeywordAgentRouter).        *)
AttributionsAreEarned ==
  \A t \in Turn :
    LET words == turn[t].message.words
        agent == turn[t].agent
        Counted(a) == IF words[a] > 3 THEN 3 ELSE words[a]
    IN  turn[t].agent # None =>
          /\ (\E a \in Agent : words[a] > 0) => words[agent] > 0
          /\ turn[t].intent \notin Agents[agent].intents =>
               \A a \in Agent : words[a] > 0 /\ turn[t].intent \in Agents[a].intents =>
                 Counted(agent) >= Counted(a) + 2

(* brain.ts:230: an answer says truly who gave it and which tools it used, *)
(* and none of them needed a human.                                        *)
AnswersAreGoverned == OnlyAllowedTools /\ AttributionsAreEarned

(* A question is answered or its failure shows: the page never stays busy  *)
(* (the finally of send(), while the server, the loop and the page run).   *)
EveryQuestionSettles == (page.busy # None) ~> (page.busy = None)

(* "A half-streamed answer must not look complete" (workspace.tsx:159).    *)
HalfAnswersNeverLookComplete ==
  \A b \in page.view : b.done => turn[b.turn].whole

(* The answers on the page are one conversation, the one its next question *)
(* continues ("its next turn silently opens a second conversation" is what *)
(* chat-service.ts:92 wants to rule out).                                  *)
OneThread ==
  \A b \in page.view :
    page.busy = None /\ b.done => turn[b.turn].conv = page.conv
=============================================================================
