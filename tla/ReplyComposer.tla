--------------------------- MODULE ReplyComposer ----------------------------
(***************************************************************************)
(* The reply at the foot of a thread (useMailReply.ts): one text area that *)
(* follows the message being read, its draft on the server, and a save a   *)
(* moment after the last key.  Opening it empties it, aims it at the       *)
(* message and loads the draft of that message; another message closes and *)
(* saves it; Escape closes it and leaves the timer to save.  Leaving the   *)
(* thread leaves the page: its timer and its requests go on without it.    *)
(*                                                                         *)
(* A text is the number of what was typed last, 0 for the empty text.  A   *)
(* request is carried out and answered in one step, any time after it was  *)
(* made.                                                                   *)
(***************************************************************************)
EXTENDS Naturals, FiniteSets

CONSTANTS
    Targets,        \* the messages of the thread that can be answered
    NoTarget,
    MaxTexts        \* bound: how many times something is typed

ASSUME ReplyAssumption == NoTarget \notin Targets /\ MaxTexts \in Nat

VARIABLES
    active,         \* the message that is read
    reply,          \* the composer of the page that is here, and of the one that is gone
    draft,          \* the drafts of the server: their text, NoReplyDraft without
    sending,        \* the drafts that are sent or whose outcome is uncertain
    typed,          \* how many times something was typed
    last            \* history: what was typed last for each message, or Lost when the text
                    \* was lost for a known reason

replyVars == <<active, reply, draft, sending, typed, last>>

-----------------------------------------------------------------------------

Texts == 0..MaxTexts

NoReplyRequest == [at |-> "none"]

NoReplyDraft == MaxTexts + 1

Lost == MaxTexts + 2

Lose(ts) == last' = [t \in Targets |-> IF t \in ts THEN Lost ELSE last[t]]

Composers == {"here", "gone"}

Folded == [open |-> FALSE, target |-> NoTarget, body |-> 0, timer |-> FALSE,
           newer |-> FALSE, saved |-> FALSE, status |-> "draft",
           load |-> NoReplyRequest, save |-> NoReplyRequest, asked |-> FALSE, dialog |-> FALSE,
           send |-> NoReplyRequest]

ReplyInit ==
    /\ active \in Targets
    /\ reply = [w \in Composers |-> Folded]
    /\ draft = [t \in Targets |-> NoReplyDraft]
    /\ sending = {} /\ typed = 0
    /\ last = [t \in Targets |-> 0]

Idle(request) == request.at = "none"

\* The text changed under the eyes of the watcher.
Watched(r) ==
    IF ~r.open \/ r.status = "sending" THEN r
    ELSE [r EXCEPT !.newer = TRUE, !.saved = FALSE, !.timer = TRUE]

\* saveDraft, unless a save is under way.
SaveReply(r) ==
    IF r.target = NoTarget \/ r.status = "sending" \/ ~Idle(r.save) THEN r
    ELSE [r EXCEPT !.timer = FALSE, !.newer = FALSE,
                   !.save = [at |-> "save", target |-> r.target, text |-> r.body]]

\* Mutant: what was asked to be sent is confirmed as soon as a save has answered.
ConfirmAtOnce(r) ==
    IF ~r.asked THEN r ELSE [r EXCEPT !.asked = FALSE, !.dialog = r.saved]

\* requestSend goes on when nothing is being saved any more.
ConfirmWhenSaved(r) ==
    IF ~r.asked \/ ~Idle(r.save) THEN r
    ELSE [r EXCEPT !.asked = FALSE, !.dialog = r.saved]

\* The save is over: the text that is there by now is saved if it has changed.
EndSave(r) == ConfirmWhenSaved(IF r.newer /\ r.status # "sending" THEN SaveReply(r) ELSE r)

\* The composer holds a text that no save has stored yet.
Unsettled(r) == r.timer \/ ~Idle(r.save)

\* The page that is gone still saves the text of a message.
Lingers(t) == reply["gone"].target = t

\* A page that is gone shows nothing and confirms nothing, and nothing watches its text.
\* Its timer fires, as early as can be: the save takes its time.
Left(r) ==
    LET s == IF ~r.timer THEN r
             ELSE IF Idle(r.save) THEN SaveReply(r) ELSE [r EXCEPT !.newer = TRUE]
    IN  IF Idle(s.save) THEN Folded
        ELSE [Folded EXCEPT !.target = s.target, !.body = s.body, !.status = s.status,
                            !.newer = s.newer, !.save = s.save]

Settle(w, r) == reply' = [reply EXCEPT ![w] = IF w = "gone" THEN Left(r) ELSE r]

Here == reply["here"]

Change(r) == reply' = [reply EXCEPT !["here"] = r]

-----------------------------------------------------------------------------
(* The reader.                                                             *)

OpenComposer ==
    /\ Idle(Here.load) /\ ~Here.dialog /\ Idle(Here.send)
    /\ Change([Here EXCEPT !.open = TRUE, !.target = active, !.body = 0, !.status = "draft",
                           !.saved = FALSE,
                           !.load = [at |-> "load", target |-> active]])
    /\ Lose(IF Unsettled(Here) THEN {Here.target, active} ELSE {})
    /\ UNCHANGED <<active, draft, sending, typed>>

ReplyLoaded ==
    /\ ~Idle(Here.load)
    /\ LET t == Here.load.target
           found == draft[t] # NoReplyDraft
           r == [Here EXCEPT !.load = NoReplyRequest, !.body = IF found THEN draft[t] ELSE 0,
                             !.saved = found,
                             !.status = IF t \in sending THEN "sending" ELSE "draft"]
       IN  /\ Change(IF r.body = 0 THEN r ELSE Watched(r))
           /\ Lose(IF Lingers(t) THEN {t} ELSE {})
    /\ UNCHANGED <<active, draft, sending, typed>>

ReplyLoadFails ==
    /\ ~Idle(Here.load)
    /\ Change([Here EXCEPT !.load = NoReplyRequest])
    /\ Lose({Here.load.target})
    /\ UNCHANGED <<active, draft, sending, typed>>

TypeReply ==
    /\ Here.open /\ Idle(Here.load) /\ Idle(Here.send) /\ ~Here.dialog
    /\ Here.status = "draft"
    /\ typed < MaxTexts
    /\ typed' = typed + 1
    /\ Change(Watched([Here EXCEPT !.body = typed']))
    /\ last' = [last EXCEPT ![Here.target] = IF @ = Lost THEN Lost ELSE typed']
    /\ UNCHANGED <<active, draft, sending>>

\* Another message of the thread.
GoToMessage(t) ==
    /\ t # active /\ ~Here.dialog
    /\ active' = t
    /\ LET away == Here.open /\ Here.target # t
       IN  /\ Change(IF away THEN SaveReply([Here EXCEPT !.open = FALSE]) ELSE Here)
           /\ Lose(IF away /\ ~Idle(Here.load) THEN {Here.target} ELSE {})
    /\ UNCHANGED <<draft, sending, typed>>

\* The thread is closed, and opened again.  One page that is gone at a time.
LeaveReply ==
    /\ Here # Folded /\ ~Here.dialog
    /\ Lingers(NoTarget)
    /\ reply' = [w \in Composers |-> IF w = "here" THEN Folded ELSE Left(Here)]
    /\ Lose(IF ~Idle(Here.load) /\ Unsettled(Here) THEN {Here.target} ELSE {})
    /\ UNCHANGED <<active, draft, sending, typed>>

\* Escape, or the button that folds it.
Fold ==
    /\ Here.open /\ Idle(Here.send) /\ ~Here.dialog
    /\ Change([Here EXCEPT !.open = FALSE])
    /\ UNCHANGED <<active, draft, sending, typed, last>>

RequestSend ==
    /\ Here.open /\ Here.body > 0 /\ Idle(Here.send) /\ Idle(Here.save)
    /\ ~Here.dialog /\ ~Here.asked /\ Here.status = "draft" /\ Idle(Here.load)
    /\ Change(SaveReply([Here EXCEPT !.asked = TRUE, !.timer = FALSE]))
    /\ UNCHANGED <<active, draft, sending, typed, last>>

CancelReply ==
    /\ Here.dialog
    /\ Change([Here EXCEPT !.dialog = FALSE])
    /\ UNCHANGED <<active, draft, sending, typed, last>>

Send ==
    /\ Here.dialog /\ Idle(Here.send)
    /\ Change([Here EXCEPT !.send = [at |-> "send", target |-> Here.target, shown |-> Here.body]])
    /\ UNCHANGED <<active, draft, sending, typed, last>>

-----------------------------------------------------------------------------
(* The timer and the answers.                                              *)

ReplyTimerFires ==
    /\ Here.timer
    /\ Change(SaveReply([Here EXCEPT !.timer = FALSE]))
    /\ UNCHANGED <<active, draft, sending, typed, last>>

\* The server writes the text over the draft of the message, unless it is being sent.
ReplySaveAnswered(w) ==
    /\ ~Idle(reply[w].save)
    /\ LET s == reply[w].save
           t == s.target
           r == [reply[w] EXCEPT !.save = NoReplyRequest]
       IN  \/ /\ t \notin sending
              /\ draft' = [draft EXCEPT ![t] = s.text]
              /\ Settle(w, EndSave([r EXCEPT !.saved = TRUE, !.status = "draft"]))
              /\ UNCHANGED last
           \/ /\ draft' \in {draft, IF t \in sending THEN draft
                                     ELSE [draft EXCEPT ![t] = s.text]}
              /\ Settle(w, EndSave([r EXCEPT !.saved = FALSE]))
              /\ Lose({t})
    /\ UNCHANGED <<active, sending, typed>>

\* Sent, refused, or uncertain: an uncertain outcome locks the draft.
ReplySendAnswered ==
    /\ ~Idle(Here.send)
    /\ LET t == Here.send.target
           r == [Here EXCEPT !.send = NoReplyRequest, !.dialog = FALSE]
       IN  \/ /\ t \notin sending /\ draft[t] # NoReplyDraft
              /\ draft' = [draft EXCEPT ![t] = NoReplyDraft]
              /\ last' = [last EXCEPT ![t] = IF @ = Lost THEN Lost ELSE 0]
              /\ Change([r EXCEPT !.open = FALSE]) \/ Change(r)
              /\ UNCHANGED sending
           \/ /\ sending' = sending \cup (IF draft[t] = NoReplyDraft THEN {} ELSE {t})
              /\ Change([r EXCEPT !.status = "sending"])
              /\ UNCHANGED <<draft, last>>
           \/ /\ Change(r)
              /\ UNCHANGED <<draft, sending, last>>
    /\ UNCHANGED <<active, typed>>

ReplyNext ==
    \/ OpenComposer \/ ReplyLoaded \/ ReplyLoadFails \/ TypeReply \/ Fold \/ LeaveReply
    \/ RequestSend \/ CancelReply \/ Send \/ ReplyTimerFires \/ ReplySendAnswered
    \/ \E w \in Composers : ReplySaveAnswered(w)
    \/ \E t \in Targets : GoToMessage(t)

ReplySpec == ReplyInit /\ [][ReplyNext]_replyVars

-----------------------------------------------------------------------------

\* What is sent is the text that was shown when the writer confirmed, except where
\* the composer was opened again while a text waited to be confirmed or was on its way.
SentIsShown ==
    [][ LET sent == reply["here"].send
        IN  ~Idle(sent) /\ reply'["here"].send # sent /\ <<draft, sending>>' # <<draft, sending>>
            => draft[sent.target] = sent.shown \/ last[sent.target] = Lost ]_replyVars

=============================================================================
