---------------------------- MODULE ThreadPanel -----------------------------
(***************************************************************************)
(* What is said and edited beside the messages: the feedback of a          *)
(* classification, with the undo it offers for twenty seconds              *)
(* (useMailClassification.ts, shared with useMailScreener.ts), and the     *)
(* editor of the subject of a thread (useMailThreadSubject.ts).            *)
(*                                                                         *)
(* The feedback outlives the page that shows it (useState) and so do the   *)
(* timers, but each page knows only the timer it set itself, and the       *)
(* editor is the page's own.  A page that is gone still has its requests   *)
(* answered.  Threads read together share a page.                          *)
(***************************************************************************)
EXTENDS Naturals, FiniteSets

CONSTANTS
    Conversations,
    NoConversation,
    MaxChanges      \* bound: how many sender rules are set

ASSUME PanelAssumption == NoConversation \notin Conversations /\ MaxChanges \in Nat

VARIABLES
    offer,          \* the feedback: the change it offers to undo, and the timers
    changes,        \* the sender rules set so far, and those that were undone
    asked,          \* the requests under way, with the page that made them
    shown,          \* the page that is shown, the thread it shows, and whether it has others
    editor,         \* the editor of its subject
    subjects        \* the subjects the server holds: the thread whose editor each was typed in

panelVars == <<offer, changes, asked, shown, editor, subjects>>

-----------------------------------------------------------------------------

\* Bound: the page that is shown, and one that is gone and waits for answers.
Pages == {1, 2}

Closed == [editing |-> FALSE, typedIn |-> NoConversation]

PanelInit ==
    /\ offer = [undo |-> 0, last |-> 0, timers |-> {}, mine |-> [p \in Pages |-> 0]]
    /\ changes = [set |-> 0, undone |-> {}]
    /\ asked = {}
    /\ shown = [page |-> 1, of |-> NoConversation, together |-> FALSE]
    /\ editor = Closed
    /\ subjects = [t \in Conversations |-> t]

\* The page that is shown waits for an answer of this kind.
Waits(kind) == \E a \in asked : a.kind = kind /\ a.page = shown.page

Ask(a) == asked' = asked \cup {a}

\* Mutant: the editor stays as it is when another thread is opened.
KeepEditor(e) == e

\* resetEditor; a save that is under way goes on.
ResetEditor(e) == [e EXCEPT !.editing = FALSE]

\* showClassificationFeedback: the timer this page has set is taken back.
Feedback(o, page, undo) ==
    [o EXCEPT !.undo = undo, !.last = undo,
              !.mine[page] = IF undo = 0 THEN @ ELSE undo,
              !.timers = (@ \ {o.mine[page]}) \cup ({undo} \ {0})]

\* Another page is shown, if none but the one before it waits for answers.
Navigate(o, t, together) ==
    LET next == 3 - shown.page
    IN  /\ \A a \in asked : a.page = shown.page
        /\ shown' = [page |-> next, of |-> t, together |-> together]
        /\ editor' = Closed
        /\ offer' = [o EXCEPT !.mine[next] = 0]

-----------------------------------------------------------------------------
(* Classifications.                                                        *)

\* A sender rule, which can be undone, or a message or a group, which cannot.
Scopes == {"sender", "message"}

Bounded(scope) == scope = "sender" => changes.set < MaxChanges

\* saveClassification.
SaveClassification(scope) ==
    /\ shown.of # NoConversation /\ ~Waits("dialog") /\ Bounded(scope)
    /\ Ask([kind |-> "dialog", scope |-> scope, page |-> shown.page])
    /\ UNCHANGED <<offer, changes, shown, editor, subjects>>

\* applyChoice for the sender; or for one message, and what else the screener does.
ScreenerAction(scope) ==
    /\ shown.of = NoConversation /\ ~Waits("screener") /\ Bounded(scope)
    /\ Ask([kind |-> "screener", scope |-> scope, page |-> shown.page])
    /\ UNCHANGED <<offer, changes, shown, editor, subjects>>

\* clearAll, which does not wait for the other actions of the screener.
ClearAll ==
    /\ shown.of = NoConversation /\ ~Waits("clear")
    /\ Ask([kind |-> "clear", scope |-> "message", page |-> shown.page])
    /\ UNCHANGED <<offer, changes, shown, editor, subjects>>

\* undoSenderRule.
Undo ==
    /\ offer.undo # 0 /\ ~Waits("undo")
    /\ Ask([kind |-> "undo", scope |-> offer.undo, page |-> shown.page])
    /\ UNCHANGED <<offer, changes, shown, editor, subjects>>

Answered(a) ==
    /\ a \in asked
    /\ asked' = asked \ {a}

\* What the request did to the sender rules.
Carried(a) ==
    changes' = IF a.scope = "sender" THEN [changes EXCEPT !.set = @ + 1] ELSE changes

\* It is shown with its undo.  A dialog closes the thread, whichever page is shown by
\* then; a request of the screener leaves the reader there.
Succeeds(a) ==
    LET o == Feedback(offer, a.page, IF a.scope = "sender" THEN changes.set + 1 ELSE 0)
    IN  /\ Carried(a)
        /\ \/ a.kind = "dialog" /\ shown.of # NoConversation /\ Navigate(o, NoConversation, FALSE)
           \/ /\ a.kind = "dialog" => shown.of = NoConversation
              /\ offer' = o /\ UNCHANGED <<shown, editor>>

\* The request is refused, or its answer is lost.
Fails(a) ==
    /\ UNCHANGED changes \/ Carried(a)
    /\ UNCHANGED <<offer, shown, editor>>

ChangeAnswered(a) ==
    /\ a.kind \in {"dialog", "screener", "clear"}
    /\ Answered(a)
    /\ Succeeds(a) \/ Fails(a)
    /\ UNCHANGED subjects

\* The feedback of the undo takes the place of what is offered by then; or the undo is
\* refused, or its answer is lost.
UndoAnswered(a) ==
    /\ a.kind = "undo"
    /\ Answered(a)
    /\ \/ /\ changes' = [changes EXCEPT !.undone = @ \cup {a.scope}]
          /\ offer' \in {Feedback(offer, a.page, 0), offer}
       \/ UNCHANGED <<changes, offer>>
    /\ UNCHANGED <<shown, editor, subjects>>

\* A timer ends the offer it was set for.
EndOffer(o, id) ==
    [o EXCEPT !.timers = @ \ {id}, !.undo = IF @ = id THEN 0 ELSE @,
              !.mine = [p \in Pages |-> IF @[p] = id THEN 0 ELSE @[p]]]

OfferTimerFires(id) ==
    /\ id \in offer.timers
    /\ offer' = EndOffer(offer, id)
    /\ UNCHANGED <<changes, asked, shown, editor, subjects>>

-----------------------------------------------------------------------------
(* Threads and their subject.                                              *)

\* Another address: a folder, a thread, or threads read together.
Go(t, together) ==
    /\ t # shown.of
    /\ Navigate(offer, t, together)
    /\ UNCHANGED <<changes, asked, subjects>>

\* The next of the threads read together, on the same page.
Select(t) ==
    /\ shown.together /\ t # shown.of
    /\ shown' = [shown EXCEPT !.of = t]
    /\ editor' = ResetEditor(editor)
    /\ UNCHANGED <<offer, changes, asked, subjects>>

BeginEdit ==
    /\ shown.of # NoConversation /\ ~editor.editing
    /\ editor' = [editing |-> TRUE, typedIn |-> shown.of]
    /\ UNCHANGED <<offer, changes, asked, shown, subjects>>

CancelEdit ==
    /\ editor.editing /\ ~Waits("subject")
    /\ editor' = ResetEditor(editor)
    /\ UNCHANGED <<offer, changes, asked, shown, subjects>>

\* save: for the thread that is open.
SaveSubject ==
    /\ editor.editing /\ shown.of # NoConversation /\ ~Waits("subject")
    /\ Ask([kind |-> "subject", page |-> shown.page, of |-> shown.of, typedIn |-> editor.typedIn])
    /\ UNCHANGED <<offer, changes, shown, editor, subjects>>

\* The editor of the page closes, whichever thread it is open for by then; or the save
\* has failed.
SubjectAnswered(a) ==
    /\ a.kind = "subject"
    /\ Answered(a)
    /\ LET kept == [subjects EXCEPT ![a.of] = a.typedIn]
       IN  \/ /\ subjects' = kept
              /\ editor' = IF a.page = shown.page THEN ResetEditor(editor) ELSE editor
           \/ subjects' \in {subjects, kept} /\ UNCHANGED editor
    /\ UNCHANGED <<offer, changes, shown>>

PanelNext ==
    \/ ClearAll \/ Undo \/ BeginEdit \/ CancelEdit \/ SaveSubject
    \/ \E scope \in Scopes : SaveClassification(scope) \/ ScreenerAction(scope)
    \/ \E a \in asked : ChangeAnswered(a) \/ UndoAnswered(a) \/ SubjectAnswered(a)
    \/ \E id \in offer.timers : OfferTimerFires(id)
    \/ Go(NoConversation, FALSE)
    \/ \E t \in Conversations : Select(t) \/ \E together \in BOOLEAN : Go(t, together)

PanelSpec == PanelInit /\ [][PanelNext]_panelVars

-----------------------------------------------------------------------------

\* A thread is given the subject that was typed in its own editor.
SubjectIsItsOwn == \A t \in Conversations : subjects[t] = t
=============================================================================
