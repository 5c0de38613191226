-------------------------- MODULE OutgoingComposer --------------------------
(***************************************************************************)
(* The page on which a message is written (OutgoingComposer.vue) and what  *)
(* it does to the drafts of the server.  The page saves by itself a moment *)
(* after the last key, one save at a time; closing, sending, attaching a   *)
(* file, changing the size of the window and starting another message all  *)
(* save first and go on when the save has answered, while the writer       *)
(* writes on.  The inbox opens it for new messages only and may ask it to  *)
(* start afresh; the list of drafts opens one of the drafts, and stays     *)
(* within reach behind a window that does not fill the page.               *)
(*                                                                         *)
(* What is written is a number of the message it was written for and a     *)
(* version, 0 when nothing is written: recipients, subject and body are    *)
(* saved together.  Which drafts of the server hold a file is not          *)
(* remembered: loading one tells either.  A request is carried             *)
(* out and answered in one step, any time after it was made.               *)
(***************************************************************************)
EXTENDS Naturals, FiniteSets, Sequences, SequencesExt

CONSTANTS
    MaxDrafts,      \* bound: the drafts the server ever holds
    MaxMessages,    \* bound: the messages that are ever written
    Versions,       \* what can be written for a message, 0 when it is all erased
    Sizes,          \* bound: the sizes of the window, for each host
    Stored,         \* the drafts there are when the list of drafts is opened
    MaxCallers      \* bound: the operations that wait for one save, for each host

ASSUME ComposerAssumption ==
    /\ MaxDrafts \in Nat /\ MaxMessages \in Nat
    /\ MaxCallers \in [{"inbox", "drafts"} -> Nat \ {0}]
    /\ {0, 1} \subseteq Versions /\ Versions \subseteq 0..2
    /\ \A h \in {"inbox", "drafts"} :
         "full" \in Sizes[h] /\ Sizes[h] \subseteq {"full", "popup", "minimized"}
    /\ Stored \in 0..MaxDrafts /\ Stored <= MaxMessages

VARIABLES
    host,           \* the page around it: "inbox" or "drafts"
    wanted,         \* the draft the list of drafts has selected, 0 for none
    page,           \* the composer
    written,        \* how many messages were begun
    drafts,         \* outgoing_drafts
    locked,         \* the drafts whose status is 'sending'
    doubtful        \* history: the messages whose creation answered with an error

composerVars == <<host, wanted, page, written, drafts, locked, doubtful>>
serverVars == <<drafts, locked>>

-----------------------------------------------------------------------------
(* The shape of the state.                                                 *)

DraftRows == 1..MaxDrafts

Contents == [of : 0..MaxMessages, v : Versions]

Nothing == [of |-> 0, v |-> 0]

\* A draft that was not created yet, one that was deleted or sent.
Unused == [of |-> 0, v |-> 3]
Gone == [of |-> 0, v |-> 4]

NoRequest == [at |-> "none"]

\* Who waits for a save: the timer, the buttons, a size of the window.
Callers == {"timer", "close", "send", "fresh", "file"} \cup Sizes[host]

\* A page that was just opened, with no request under way.
Blank ==
    [open |-> TRUE, size |-> "full", id |-> 0, text |-> Nothing, file |-> FALSE,
     status |-> "draft", saved |-> FALSE, dirty |-> FALSE, forced |-> FALSE,
     timer |-> FALSE, error |-> FALSE, failed |-> FALSE, uploading |-> FALSE,
     sending |-> FALSE, dialog |-> "none", left |-> "open",
     load |-> NoRequest, save |-> NoRequest, send |-> NoRequest,
     discard |-> NoRequest, upload |-> NoRequest]

Closed == [Blank EXCEPT !.open = FALSE, !.left = "close"]

ComposerInit ==
    /\ host \in {"inbox", "drafts"}
    /\ wanted = 0
    /\ page = Closed
    /\ written = IF host = "drafts" THEN Stored ELSE 0
    /\ drafts = [d \in DraftRows |-> IF d <= written THEN [of |-> d, v |-> 1] ELSE Unused]
    /\ locked = {} /\ doubtful = {}

Holds(d) == drafts[d] \notin {Unused, Gone}

Loading(p) == p.load # NoRequest

\* hasMeaningfulDraftContent.
Meaningful(p) == p.text.v > 0 \/ p.file

\* What can be written on: not a page that loads or could not load.
Writable(p) ==
    /\ p.open /\ ~Loading(p) /\ ~(p.failed /\ p.id = 0)
    /\ p.size # "minimized" /\ p.dialog = "none"

Orphan(request) == IF request = NoRequest THEN request ELSE [request EXCEPT !.live = FALSE]

\* The page is dropped, by a handler or with the page around it; the requests it
\* has made go on, and nobody reads their answers.
Drop(p, how) ==
    [Closed EXCEPT !.left = how, !.save = Orphan(p.save), !.send = Orphan(p.send),
                   !.discard = Orphan(p.discard), !.upload = Orphan(p.upload)]

\* A change of what is saved: savedRevision is behind, and so is a save under way.
Outdate(p) ==
    [p EXCEPT !.dirty = TRUE, !.saved = FALSE,
              !.save = IF p.save = NoRequest THEN p.save ELSE [p.save EXCEPT !.current = FALSE]]

\* An error is shown.  One that is shown while everything is saved is not told apart
\* from none.
Wrong(p) == [p EXCEPT !.error = ~p.saved]

\* Mutant: no timer is set for a page that waits to be saved already.
ScheduleUnlessDirty(p) ==
    IF (p.id = 0 /\ ~Meaningful(p)) \/ p.status # "draft" THEN p
    ELSE [Outdate(p) EXCEPT !.error = FALSE, !.timer = p.timer \/ ~p.dirty]

\* scheduleSave.
Schedule(p) ==
    IF (p.id = 0 /\ ~Meaningful(p)) \/ p.status # "draft" THEN p
    ELSE [Outdate(p) EXCEPT !.error = FALSE, !.timer = TRUE]

\* reset: a new revision, and it is the one that counts as saved.
Reset(p) ==
    [Outdate(p) EXCEPT !.timer = FALSE, !.id = 0, !.text = Nothing, !.file = FALSE,
                       !.status = "draft", !.failed = FALSE, !.forced = FALSE,
                       !.dirty = FALSE, !.error = FALSE]

-----------------------------------------------------------------------------
(* Saving, and what waits for it.                                          *)

\* canSend.
CanSend(p) ==
    /\ p.id # 0 /\ Meaningful(p)
    /\ ~Loading(p) /\ ~p.uploading /\ ~p.sending /\ p.status = "draft"

\* What a caller does when saveDraft has answered true.
Continue(p, caller) ==
    CASE caller = "timer" -> p
      [] caller = "close" -> Drop(p, "close")
      [] caller = "send" -> IF CanSend(p) /\ p.saved THEN [p EXCEPT !.dialog = "send"] ELSE p
      [] caller = "fresh" -> Reset([p EXCEPT !.size = "full"])
      [] caller = "file" ->
           IF p.id = 0 THEN [p EXCEPT !.uploading = FALSE]
           ELSE [p EXCEPT !.upload = [at |-> "add", id |-> p.id, live |-> TRUE]]
      [] OTHER -> [p EXCEPT !.size = caller]

\* Those who wait go on one after the other.
Resume(p, callers) ==
    LET after[n \in 0..Len(callers)] ==
            IF n = 0 THEN p ELSE Continue(after[n - 1], callers[n])
    IN  after[Len(callers)]

\* What they do when it has answered false.
GiveUp(p, callers) == IF "file" \in ToSet(callers) THEN [p EXCEPT !.uploading = FALSE] ELSE p

\* saveDraft begins a save of what is shown.
Begin(p, callers) ==
    [p EXCEPT !.error = FALSE,
              !.save = [at |-> IF p.id = 0 THEN "create" ELSE "update", id |-> p.id,
                        text |-> p.text, current |-> TRUE, callers |-> callers, live |-> TRUE]]

\* There is something to save: a draft, content, or a draft that is forced.
Savable(p) == p.id # 0 \/ Meaningful(p) \/ p.forced

\* saveDraft has nothing to do.
Settled(p) == ~Savable(p) \/ (p.id # 0 /\ p.saved /\ ~p.dirty /\ ~p.forced)

Call(p, caller) ==
    LET q == [p EXCEPT !.timer = FALSE]
    IN  IF q.status # "draft" THEN GiveUp(q, <<caller>>)
        ELSE IF Settled(q) THEN Continue(q, caller)
        ELSE IF q.save = NoRequest THEN Begin(q, <<caller>>)
        ELSE [q EXCEPT !.save.callers = Append(@, caller)]

\* Bound: few operations wait for the save, each once.
MayCall(caller) ==
    page.save # NoRequest =>
        /\ Len(page.save.callers) < MaxCallers[host]
        /\ caller \notin ToSet(page.save.callers)

\* Mutant: the revision is read when the save answers, not when it was made.
AlwaysCurrent(p) == TRUE

\* What was saved is what is shown: no revision since.
Current(p) == p.save.current

\* Mutant: the draft is not adopted when the text has changed since.
AdoptWhenCurrent(p, d) == IF p.save.current THEN d ELSE p.id

\* The draft that was created is the one the page goes on with.
Adopt(p, d) == IF p.save.at = "create" THEN d ELSE p.id

\* The save succeeded.  Its caller saves again if the text has changed, and whoever
\* waits then waits for that; otherwise everyone goes on.
Succeeded(p, d) ==
    LET q == [p EXCEPT !.save = NoRequest, !.id = Adopt(p, d),
                       !.forced = IF p.save.at = "create" THEN FALSE ELSE p.forced,
                       !.dirty = ~Current(p),
                       !.saved = IF Current(p) THEN TRUE ELSE p.saved]
    IN  IF ~Current(p) /\ Savable(q) /\ q.status = "draft"
        THEN Begin([q EXCEPT !.timer = FALSE], p.save.callers)
        ELSE Resume(q, p.save.callers)

\* It failed: its caller gives up, and whoever waits tries once more.
Failed(p) ==
    LET q == GiveUp([p EXCEPT !.save = NoRequest, !.error = TRUE], <<Head(p.save.callers)>>)
        rest == Tail(p.save.callers)
    IN  IF rest # <<>> /\ q.dirty /\ Savable(q) /\ q.status = "draft"
        THEN Begin([q EXCEPT !.timer = FALSE], rest)
        ELSE GiveUp(q, rest)

\* The server creates or updates; it refuses a draft that is gone or being sent.
Lands(d) ==
    IF page.save.at = "create"
    THEN d = 1 + Cardinality({e \in DraftRows : drafts[e] # Unused})
    ELSE d = page.save.id /\ Holds(d) /\ d \notin locked

SaveAnswered ==
    /\ page.save # NoRequest
    /\ \E d \in DraftRows, heard \in BOOLEAN :
         /\ Lands(d)
         /\ drafts' = [drafts EXCEPT ![d] = page.save.text]
         /\ page' = IF ~page.save.live THEN [page EXCEPT !.save = NoRequest]
                    ELSE IF heard THEN Succeeded(page, d) ELSE Failed(page)
         /\ doubtful' = IF heard \/ page.save.at = "update" \/ host = "drafts" THEN doubtful
                        ELSE doubtful \cup {page.save.text.of}
    /\ wanted' = IF page'.open THEN wanted ELSE 0
    /\ UNCHANGED <<host, written, locked>>

SaveRefused ==
    /\ page.save # NoRequest
    /\ page' = IF page.save.live THEN Failed(page) ELSE [page EXCEPT !.save = NoRequest]
    /\ UNCHANGED <<host, wanted, written, serverVars, doubtful>>

TimerFires ==
    /\ page.timer /\ MayCall("timer")
    /\ page' = Call(page, "timer")
    /\ UNCHANGED <<host, wanted, written, serverVars, doubtful>>

\* A button that saves first.
Press(caller) ==
    /\ MayCall(caller)
    /\ page' = Call(page, caller)
    /\ wanted' = IF page'.open THEN wanted ELSE 0
    /\ UNCHANGED <<host, written, serverVars, doubtful>>

-----------------------------------------------------------------------------
(* Opening, writing, leaving.                                              *)

\* Bound: a page is opened when the requests of the one before have landed.
Quiet ==
    \A request \in {page.save, page.send, page.discard, page.upload} : request = NoRequest

Open(d, begun) == [Blank EXCEPT !.load = [at |-> "load", id |-> d, begun |-> begun]]

\* An empty page, or one that a forwarded message or a contact has filled.
OpenNew ==
    /\ host = "inbox" /\ ~page.open /\ Quiet
    /\ \E begun \in BOOLEAN : page' = Open(0, begun)
    /\ UNCHANGED <<host, wanted, written, serverVars, doubtful>>

\* A draft of the list.  A page that is open and loads keeps the draft it loads.
OpenDraft(d) ==
    /\ host = "drafts" /\ Holds(d) /\ d # wanted
    /\ wanted' = d
    /\ IF page.open
       THEN /\ page.size # "full" /\ page.dialog = "none"
            /\ page' = LET q == Reset([page EXCEPT !.size = "full"])
                       IN  IF Loading(page) THEN q
                           ELSE [q EXCEPT !.load = [at |-> "load", id |-> d, begun |-> FALSE]]
       ELSE Quiet /\ page' = Open(d, FALSE)
    /\ UNCHANGED <<host, written, serverVars, doubtful>>

Loaded ==
    /\ Loading(page)
    /\ LET d == page.load.id
           q == [page EXCEPT !.load = NoRequest, !.id = d, !.error = FALSE, !.dirty = FALSE]
       IN  \/ /\ d = 0
              /\ written' = IF page.load.begun THEN written + 1 ELSE written
              /\ written' <= MaxMessages
              /\ page' = IF page.load.begun
                         THEN Schedule([q EXCEPT !.text = [of |-> written', v |-> 1]])
                         ELSE q
           \/ /\ d \in DraftRows /\ Holds(d)
              /\ \E file \in BOOLEAN :
                   page' = [q EXCEPT !.text = drafts[d], !.file = file, !.saved = TRUE,
                                     !.status = IF d \in locked THEN "sending" ELSE "draft"]
              /\ UNCHANGED written
    /\ UNCHANGED <<host, wanted, serverVars, doubtful>>

LoadFails ==
    /\ Loading(page) /\ page.load.id # 0
    /\ page' = [page EXCEPT !.load = NoRequest, !.error = TRUE, !.failed = TRUE]
    /\ UNCHANGED <<host, wanted, written, serverVars, doubtful>>

\* The button hands its event to loadDraft, which takes it for the draft to load.
Retry ==
    /\ page.open /\ page.failed /\ page.id = 0 /\ ~Loading(page)
    /\ page' = [page EXCEPT !.failed = FALSE, !.error = FALSE,
                            !.load = [at |-> "load", id |-> MaxDrafts + 1, begun |-> FALSE]]
    /\ UNCHANGED <<host, wanted, written, serverVars, doubtful>>

\* The writer changes the recipients, the subject or the body, or erases them all.
Write(v) ==
    /\ v # page.text.v
    /\ Writable(page) /\ page.status = "draft"
    /\ written' = IF page.text.of = 0 THEN written + 1 ELSE written
    /\ written' <= MaxMessages
    /\ page' = Schedule([page EXCEPT
         !.text = [of |-> IF page.text.of = 0 THEN written' ELSE page.text.of, v |-> v],
         !.send = IF page.sending THEN [page.send EXCEPT !.rewritten = TRUE] ELSE page.send])
    /\ UNCHANGED <<host, wanted, serverVars, doubtful>>

Reachable == page.open /\ ~page.sending /\ page.dialog = "none"

Close == Reachable /\ Press("close")

Resize(size) == Reachable /\ size # page.size /\ Press(size)

\* The inbox asks for a new message while the page is open.
NewMessage ==
    /\ host = "inbox"
    /\ Reachable /\ ~Loading(page) /\ page.status = "draft"
    /\ Press(IF Meaningful(page) THEN "fresh" ELSE "full")

\* The page around it is left: nothing is saved.  Bound: not while a file, a send or a
\* deletion is under way.
Leave ==
    /\ page.open
    /\ page.send = NoRequest /\ page.discard = NoRequest /\ page.upload = NoRequest
    /\ page' = Drop(page, "leave") /\ wanted' = 0
    /\ UNCHANGED <<host, written, serverVars, doubtful>>

-----------------------------------------------------------------------------
(* Files, sending, deleting.  Bound: a deletion and a file are not under   *)
(* way together.                                                           *)

\* A file needs a draft: one is created if there is none yet.
PickFile ==
    /\ Writable(page) /\ page.status = "draft" /\ ~page.sending /\ ~page.uploading
    /\ page.upload = NoRequest /\ page.discard = NoRequest /\ MayCall("file")
    /\ LET q == [page EXCEPT !.uploading = TRUE, !.error = FALSE]
       IN  page' = Call(IF q.id = 0 THEN [Outdate(q) EXCEPT !.forced = TRUE] ELSE q, "file")
    /\ UNCHANGED <<host, wanted, written, serverVars, doubtful>>

RemoveAttachment ==
    /\ Writable(page) /\ page.status = "draft" /\ ~page.sending
    /\ page.file /\ page.id # 0 /\ page.upload = NoRequest /\ page.discard = NoRequest
    /\ page' = [page EXCEPT !.upload = [at |-> "remove", id |-> page.id, live |-> TRUE]]
    /\ UNCHANGED <<host, wanted, written, serverVars, doubtful>>

\* The answer changes the page that is open by then, whatever it shows.
FileAnswered ==
    /\ page.upload # NoRequest
    /\ \E heard \in BOOLEAN :
         LET d == page.upload.id
             q == [page EXCEPT !.upload = NoRequest, !.uploading = FALSE]
         IN  /\ heard => Holds(d) /\ d \notin locked
             /\ page' = IF ~page.upload.live THEN [page EXCEPT !.upload = NoRequest]
                        ELSE IF ~heard THEN Wrong(q)
                        ELSE Schedule([q EXCEPT !.file = page.upload.at = "add"])
    /\ UNCHANGED <<host, wanted, written, drafts, locked, doubtful>>

\* requestSend saves, then asks for a confirmation.
AskToSend ==
    /\ Writable(page) /\ Meaningful(page)
    /\ ~page.uploading /\ ~page.sending /\ page.status = "draft"
    /\ Press("send")

AskToDiscard ==
    /\ Writable(page) /\ page.id # 0 /\ page.discard = NoRequest
    /\ ~page.sending /\ page.status = "draft"
    /\ page' = [page EXCEPT !.dialog = "discard"]
    /\ UNCHANGED <<host, wanted, written, serverVars, doubtful>>

Cancel ==
    /\ page.open /\ page.dialog # "none"
    /\ page' = [page EXCEPT !.dialog = "none"]
    /\ UNCHANGED <<host, wanted, written, serverVars, doubtful>>

Confirm ==
    /\ page.open
    /\ \/ /\ page.dialog = "send" /\ CanSend(page)
          /\ page' = [page EXCEPT !.dialog = "none", !.sending = TRUE, !.error = FALSE,
                        !.send = [at |-> "send", id |-> page.id, live |-> TRUE,
                                  shown |-> page.text, rewritten |-> FALSE]]
       \/ /\ page.dialog = "discard" /\ page.id # 0
          /\ page.discard = NoRequest /\ page.upload = NoRequest
          /\ page' = [page EXCEPT !.discard = [at |-> "discard", id |-> page.id, live |-> TRUE]]
    /\ UNCHANGED <<host, wanted, written, serverVars, doubtful>>

\* What the page makes of the answer: sent, an error, or an uncertain outcome, which
\* locks the draft; an answer that is lost is an error like any other.
SendAnswered ==
    /\ page.send # NoRequest
    /\ LET d == page.send.id
           q == [page EXCEPT !.send = NoRequest]
           wrong == IF q.open /\ page.send.live
                    THEN Wrong([q EXCEPT !.sending = FALSE]) ELSE q
       IN  \/ /\ Holds(d) /\ d \notin locked
              /\ drafts' = [drafts EXCEPT ![d] = Gone]
              /\ page' \in {wrong, IF page.send.live THEN Drop(q, "sent") ELSE q}
              /\ UNCHANGED locked
           \/ /\ Holds(d) /\ d \notin locked
              /\ locked' = locked \cup {d}
              /\ page' \in {wrong, IF page.send.live THEN [wrong EXCEPT !.status = "sending"] ELSE q}
              /\ UNCHANGED drafts
           \/ page' = wrong /\ UNCHANGED <<drafts, locked>>
    /\ wanted' = IF page'.open THEN wanted ELSE 0
    /\ UNCHANGED <<host, written, doubtful>>

DiscardAnswered ==
    /\ page.discard # NoRequest
    /\ LET d == page.discard.id
           q == [page EXCEPT !.discard = NoRequest]
           wrong == IF page.discard.live THEN Wrong(q) ELSE q
       IN  \/ /\ Holds(d) /\ d \notin locked
              /\ drafts' = [drafts EXCEPT ![d] = Gone]
              /\ page' \in {wrong, IF page.discard.live THEN Drop(q, "discard") ELSE q}
           \/ page' = wrong /\ UNCHANGED drafts
    /\ wanted' = IF page'.open THEN wanted ELSE 0
    /\ UNCHANGED <<host, written, locked, doubtful>>

\* A draft is deleted from the list, while the page shows it.
DeleteFromList(d) ==
    /\ host = "drafts" /\ d = wanted /\ (page.open => page.size # "full" /\ page.dialog = "none")
    /\ Holds(d) /\ d \notin locked
    /\ drafts' = [drafts EXCEPT ![d] = Gone]
    /\ UNCHANGED <<host, wanted, page, written, locked, doubtful>>

ComposerNext ==
    \/ OpenNew \/ Loaded \/ LoadFails \/ Retry \/ Close \/ NewMessage \/ Leave
    \/ TimerFires \/ SaveAnswered \/ SaveRefused
    \/ PickFile \/ RemoveAttachment \/ FileAnswered
    \/ AskToSend \/ AskToDiscard \/ Cancel \/ Confirm \/ SendAnswered \/ DiscardAnswered
    \/ \E v \in Versions : Write(v)
    \/ \E size \in Sizes[host] : Resize(size)
    \/ \E d \in DraftRows : OpenDraft(d) \/ DeleteFromList(d)

ComposerSpec == ComposerInit /\ [][ComposerNext]_composerVars

-----------------------------------------------------------------------------
(* Properties.                                                             *)

\* A page that is closed with its button, or cleared for another message, lets go of
\* nothing: what it showed and had not saved is a draft by then, however many saves were
\* under way and whatever was written meanwhile.
ClosedIsSaved ==
    [][ /\ page.open /\ page.status = "draft" /\ page.text.v > 0
        /\ ~page.saved
        /\ \/ ~page'.open /\ page'.left = "close"
           \/ host = "inbox" /\ page'.open /\ page'.text.of = 0
        => \E d \in DraftRows : drafts'[d] = page.text ]_composerVars

\* What is written and not saved is about to be: a timer runs, a save is under way,
\* or the page shows an error.
NothingForgotten ==
    /\ page.open /\ ~Loading(page) /\ page.status = "draft" /\ ~page.sending
    /\ page.text.v > 0 /\ ~page.saved
    => page.timer \/ page.save # NoRequest \/ page.error

\* From the inbox, a draft only ever holds what was written for one message, and a
\* message has one draft, unless the answer to its creation was lost.
OneDraftPerMessage ==
    host = "inbox" =>
        \A d, e \in DraftRows :
            d # e /\ Holds(d) /\ Holds(e) /\ drafts[d].of = drafts[e].of
            => drafts[d].of \in doubtful \cup {0}

\* From the inbox, what the server sends, or may have sent, is what the page showed
\* when the writer confirmed, or what was written while it was being sent.
SentIsApproved ==
    [][ host = "inbox" /\ page.send # NoRequest /\ page'.send = NoRequest
        /\ <<drafts, locked>>' # <<drafts, locked>>
        => page.send.rewritten \/ drafts[page.send.id] = page.send.shown ]_composerVars
=============================================================================
