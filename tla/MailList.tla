------------------------------ MODULE MailList ------------------------------
(***************************************************************************)
(* The list of messages that the mail pages share (MailView.vue and its    *)
(* composables).  The list is a copy of the server's, changed ahead of the *)
(* answers when a message is read or marked unseen; a refresh replaces it  *)
(* by what the server held, without the bodies, and the body of the thread *)
(* that is open is fetched again.                                          *)
(*                                                                         *)
(* Each address is a page of its own (pageKey in app.vue): it asks for the *)
(* list while the page before it stays on screen, and is shown once the    *)
(* list has come.  Threads read together share one page.  The list is      *)
(* shared by all pages, the requests for bodies are each page's own.       *)
(*                                                                         *)
(* A request writes to the server and is answered in one step, any time    *)
(* after it was made; it fails without having been carried out, or its     *)
(* answer is lost.  The list is read from the server in one step and       *)
(* reaches the page in another: what was carried out in between is not in  *)
(* it.                                                                     *)
(*                                                                         *)
(* The rows of the list are objects: a request under way keeps the one it  *)
(* was made for, and writes to it in vain once the list holds another.     *)
(***************************************************************************)
EXTENDS Naturals, FiniteSets

CONSTANTS
    Messages,
    Threads,
    ThreadOf,       \* the thread of each message
    NoThread,
    Boxes,          \* the folders, Imbox among them
    BulkActions,    \* what is done to several threads: folders, seen, unseen
    MaxCalls        \* bound: how many requests are under way at once, beside the list's

ASSUME ListAssumption ==
    /\ ThreadOf \in [Messages -> Threads]
    /\ NoThread \notin Threads
    /\ "Imbox" \in Boxes /\ MaxCalls \in Nat
    /\ BulkActions \subseteq Boxes \cup {"seen", "unseen"}

VARIABLES
    server,         \* the messages the server holds: their box, and whether they are read
    list,           \* the rows of the list: box, read, and whether the body is there
    view,           \* the page on screen: folder, open thread, the edition of it that is
                    \* read in The Feed, and whether several are read together
    going,          \* the page that waits for the list, or none
    calls,          \* the requests under way, at most one of each kind
    refresh,        \* the request for the list that counts, whether the page waits for it,
                    \* and once it was read (at = "answer") the list and, as history, the
                    \* messages about which a request was carried out since (late)
    known           \* history: the messages whose rows may differ from the server for a known
                    \* reason; nothing is said of the rows while another list is on its way

listVars == <<server, list, view, going, calls, refresh, known>>

-----------------------------------------------------------------------------

None == [at |-> "none"]

Feed == "The Feed"

\* Every row of a list that has just been received.
Rows(held) == [m \in DOMAIN held |-> [box |-> held[m].box, read |-> held[m].read, body |-> FALSE]]

Of(thread, rows) == {m \in DOMAIN rows : ThreadOf[m] = thread}

\* The threads the list shows in a folder.
Shown(folder) == {ThreadOf[m] : m \in {n \in DOMAIN list : list[n].box = folder}}

Page(folder, t, item, together) ==
    [at |-> "page", folder |-> folder, open |-> t, item |-> item, together |-> together]

Folder(folder) == Page(folder, NoThread, NoThread, FALSE)

ListInit ==
    /\ server = [m \in Messages |-> [box |-> "Imbox", read |-> FALSE]]
    /\ list = Rows(server)
    /\ view = Folder("Imbox")
    /\ going = None
    /\ calls = [read |-> {}, unseen |-> None, move |-> None, content |-> {}]
    /\ refresh = None
    /\ known = {}

Busy(call) == call.at # "none"

\* Bound: the reader waits for the page that was asked for.
Reader == ~Busy(going)

\* Another request may be made.
Room == LET one(call) == IF Busy(call) THEN 1 ELSE 0
        IN  Cardinality(calls.read) + one(calls.unseen) + one(calls.move) < MaxCalls

Reading(m) == \E r \in calls.read : r.of = m

\* setMessageRead on rows of the list.
SetRead(rows, ms, read) ==
    [m \in DOMAIN rows |-> IF m \in ms THEN [rows[m] EXCEPT !.read = read] ELSE rows[m]]

\* The requests under way lose the row they hold when the list gets others for ms.
LetGo(c, ms) ==
    [c EXCEPT !.read = {IF r.of \in ms THEN [r EXCEPT !.held = FALSE] ELSE r : r \in c.read},
              !.unseen = IF Busy(c.unseen)
                           THEN [c.unseen EXCEPT !.held = c.unseen.held \ ms] ELSE None]

\* loadThreadContent: nothing to do, or asked already by this page, or asked now.
Load(c, rows, t) ==
    IF \/ \A m \in Of(t, rows) : rows[m].body
       \/ t \in c.content
    THEN c
    ELSE [c EXCEPT !.content = @ \cup {t}]

\* A new page knows nothing of what the one before it asked for.  The bodies that come for
\* a page that is gone would only be there early: they are left out.
Forget(c) == [c EXCEPT !.content = {}]

\* refreshMessages: once the list is there, the thread that is open is loaded again.
LoadOpen(c, rows) ==
    IF view.open = NoThread \/ ~refresh.asked THEN c ELSE Load(c, rows, view.open)

\* The watch of a new page: its thread, if it is in its folder.
LoadFirst(c, rows) ==
    IF \E m \in Of(going.open, rows) : rows[m].box = going.folder
    THEN Load(Forget(c), rows, going.open) ELSE Forget(c)

\* refreshMessages takes the place of the request under way, and whoever waits for that
\* one waits for this one; a page that is opened asks for the list itself.
Refresh == refresh' = [at |-> "refresh", asked |-> TRUE]

GoingTo(p) ==
    /\ going' = p
    /\ refresh' = [at |-> "refresh", asked |-> Busy(refresh) /\ refresh.asked]

\* A request about ms is carried out: the list that was read does not show it.
Overtake(ms) ==
    refresh' = IF refresh.at = "answer" THEN [refresh EXCEPT !.late = @ \cup ms] ELSE refresh

Differ(ms) == known' = IF Busy(refresh') THEN {} ELSE known \cup ms

\* Two requests about one message are carried out in any order.
Crossed(ms) == {m \in ms : Reading(m) \/ (Busy(calls.unseen) /\ ThreadOf[m] = calls.unseen.of)}

-----------------------------------------------------------------------------
(* Reading.                                                                *)

\* The messages of a thread that the folder shows, read or not.
InFolder(t, read) == {m \in Of(t, list) : list[m].read = read /\ list[m].box = view.folder}

\* The page that shows a message.  In The Feed, each edition of a thread is read by itself.
PageOf(m, together) ==
    Page(view.folder, ThreadOf[m], IF view.folder = Feed THEN m ELSE NoThread, together)

\* What is marked as read when m is opened.
Opened(m) ==
    IF view.folder = Feed THEN {m} \cap InFolder(ThreadOf[m], FALSE)
    ELSE InFolder(ThreadOf[m], FALSE)

\* The page stays when one is read after the other together, or for another edition.
SamePage(p) == view.open # NoThread /\ (view.together \/ p.open = view.open)

\* openMessage: from the row of a thread or the card of an edition, or from one that is
\* read, with others or in The Feed.
Open(m, together) ==
    /\ Reader /\ Room
    /\ m \in DOMAIN list /\ list[m].box = view.folder
    /\ LET p == PageOf(m, together)
           rows == SetRead(list, Opened(m), TRUE)
           asked == [calls EXCEPT !.read = @ \cup
                       {[of |-> n, ahead |-> TRUE, held |-> TRUE] : n \in Opened(m)}]
       IN  /\ <<p.open, p.item>> # <<view.open, view.item>>
           /\ view.open # NoThread =>
                together = view.together /\ (together \/ view.folder = Feed)
           /\ list' = rows
           /\ IF SamePage(p)
              THEN /\ view' = p
                   /\ calls' = IF p.open = view.open THEN asked ELSE Load(asked, rows, p.open)
                   /\ UNCHANGED <<going, refresh>>
              ELSE /\ calls' = asked
                   /\ GoingTo(p)
                   /\ UNCHANGED view
    /\ Differ(Crossed(Opened(m)))
    /\ UNCHANGED server

\* Mutant: a message that could not be marked stays read in the list.
StaysRead(r) == UNCHANGED list

\* The row is marked back.
RollBack(r) == list' = IF r.ahead /\ r.held /\ r.of \in DOMAIN list
                         THEN SetRead(list, {r.of}, FALSE) ELSE list

ReadAnswered(r) ==
    /\ r \in calls.read
    /\ calls' = [calls EXCEPT !.read = @ \ {r}]
    /\ \/ /\ server' = [server EXCEPT ![r.of].read = TRUE]
          /\ list' = IF ~r.ahead /\ r.held /\ r.of \in DOMAIN list
                       THEN SetRead(list, {r.of}, TRUE) ELSE list
          /\ Overtake({r.of})
          /\ Differ(IF r.held THEN {} ELSE {r.of})
       \/ /\ RollBack(r)
          /\ UNCHANGED <<server, refresh>>
          /\ Differ(IF r.held THEN {} ELSE {r.of})
       \/ /\ server' = [server EXCEPT ![r.of].read = TRUE]       \* the answer is lost
          /\ RollBack(r)
          /\ Overtake({r.of})
          /\ Differ({r.of})
    /\ UNCHANGED <<view, going>>

\* retryMarkRead: the rows of the open thread that still show as unread; in The Feed the
\* edition that is read, or another of the thread once that one is gone.
RetryMarkRead ==
    /\ Reader /\ view.open # NoThread /\ Room
    /\ \E m \in InFolder(view.open, FALSE) :
         LET gone == view.item \notin Of(view.open, list)
             unread == IF view.folder = Feed THEN {m} ELSE InFolder(view.open, FALSE)
         IN  /\ view.folder = Feed => m = view.item \/ gone
             /\ \A n \in unread : ~Reading(n)
             /\ calls' = [calls EXCEPT !.read = @ \cup
                            {[of |-> n, ahead |-> FALSE, held |-> TRUE] : n \in unread}]
             /\ UNCHANGED refresh
             /\ Differ(Crossed(unread))
    /\ UNCHANGED <<server, list, view, going>>

\* closeMessage.
Close ==
    /\ Reader /\ view.open # NoThread
    /\ GoingTo(Folder(view.folder)) /\ Differ({})
    /\ UNCHANGED <<server, list, view, calls>>

\* markOpenThreadUnseen.
MarkUnseen ==
    /\ Reader /\ view.open # NoThread /\ ~Busy(calls.unseen) /\ Room
    /\ LET read == InFolder(view.open, TRUE)
       IN  /\ read # {}
           /\ list' = SetRead(list, read, FALSE)
           /\ calls' = [calls EXCEPT !.unseen =
                          [at |-> "unseen", of |-> view.open, from |-> view.folder, held |-> read]]
           /\ UNCHANGED refresh
           /\ Differ(Crossed(read))
    /\ UNCHANGED <<server, view, going>>

\* The server marks every message of the thread, and its page is closed, whichever page
\* is shown by then.
UnseenAnswered ==
    /\ Busy(calls.unseen)
    /\ LET u == calls.unseen
           marked == Of(u.of, server)
           done == [m \in DOMAIN server |-> IF m \in marked
                      THEN [server[m] EXCEPT !.read = FALSE] ELSE server[m]]
       IN  /\ calls' = [calls EXCEPT !.unseen = None]
           /\ \/ /\ server' = done
                 /\ GoingTo(Folder(u.from))
                 /\ UNCHANGED list
              \/ /\ server' \in {server, done}
                 /\ list' = SetRead(list, u.held \cap DOMAIN list, TRUE)
                 /\ Refresh
                 /\ UNCHANGED going
    /\ Differ({})
    /\ UNCHANGED view

\* The rows of the thread are replaced by rows with a body, or the load fails.
ContentAnswered(t) ==
    /\ t \in calls.content
    /\ LET ms == Of(t, list)
           rest == [calls EXCEPT !.content = @ \ {t}]
       IN  \/ /\ list' = [m \in DOMAIN list |-> IF m \in ms
                             THEN [list[m] EXCEPT !.body = TRUE] ELSE list[m]]
              /\ calls' = LetGo(rest, ms)
           \/ /\ calls' = rest
              /\ UNCHANGED list
    /\ UNCHANGED <<server, view, going, refresh, known>>

-----------------------------------------------------------------------------
(* Folders, and what moves threads or marks several of them.               *)

GoTo(folder) ==
    /\ Reader /\ folder # view.folder
    /\ GoingTo(Folder(folder)) /\ Differ({})
    /\ UNCHANGED <<server, list, view, calls>>

\* applyBulkAction on what is selected in the folder.  One such request at a time, and
\* none before the list that the last one asked for has come.
Bulk(ts, what) ==
    /\ Reader /\ view.open = NoThread /\ ts # {} /\ ts \subseteq Shown(view.folder)
    /\ ~Busy(calls.move) /\ Room
    /\ calls' = [calls EXCEPT !.move =
                   [at |-> "call", of |-> ts, from |-> view.folder, what |-> what, go |-> "stay"]]
    /\ UNCHANGED <<server, list, view, going, refresh, known>>

\* What is open is set aside, answered later or moved, which takes the reader there; or
\* thrown away or restored, which leaves the reader in the folder.
Act(to, go) ==
    /\ Reader /\ view.open # NoThread /\ ~Busy(calls.move) /\ Room /\ to # view.folder
    /\ go \in {to, view.folder}
    /\ calls' = [calls EXCEPT !.move =
                   [at |-> "call", of |-> {view.open}, from |-> view.folder, what |-> to, go |-> go]]
    /\ UNCHANGED <<server, list, view, going, refresh, known>>

\* The server refuses when a thread has no message left in the folder it is told.
Done(call) ==
    LET ms == {m \in DOMAIN server : ThreadOf[m] \in call.of /\ server[m].box = call.from}
    IN  IF {ThreadOf[m] : m \in ms} # call.of THEN server
        ELSE [m \in DOMAIN server |->
                IF m \notin ms THEN server[m]
                ELSE IF call.what \in Boxes THEN [server[m] EXCEPT !.box = call.what]
                ELSE [server[m] EXCEPT !.read = call.what = "seen"]]

Touched(call) == {m \in DOMAIN server : ThreadOf[m] \in call.of}

\* Done, and the list is asked for again; or refused, or its answer is lost.
MoveAnswered ==
    /\ calls.move.at = "call"
    /\ \/ /\ server' = Done(calls.move) /\ server' # server
          /\ calls' = [calls EXCEPT !.move.at = "done"]
          /\ Refresh
          /\ Differ({})
       \/ /\ server' \in {server, Done(calls.move)}
          /\ calls' = [calls EXCEPT !.move = None]
          /\ Overtake(Touched(calls.move))
          /\ Differ(Touched(calls.move))
    /\ UNCHANGED <<list, view, going>>

-----------------------------------------------------------------------------
(* The list is fetched again.                                              *)

\* Other pages, the activity menu and the button that retries.
AskRefresh ==
    /\ ~Busy(refresh)
    /\ Refresh /\ Differ({})
    /\ UNCHANGED <<server, list, view, going, calls>>

\* Whoever waited for the list goes on: the page that waited is shown, and a thread that
\* was acted on takes the reader where it went, whichever page is shown by then.
GoOn(c, rows) ==
    LET waited == LoadOpen(c, rows)
        shown == IF Busy(going) THEN LoadFirst(c, rows) ELSE waited
    IN  /\ view' = IF Busy(going) THEN going ELSE view
        /\ calls' = IF c.move.at = "done" THEN [shown EXCEPT !.move = None] ELSE shown
        /\ IF c.move.at = "done" /\ c.move.go # "stay"
           THEN /\ going' = Folder(c.move.go)
                /\ refresh' = [at |-> "refresh", asked |-> FALSE]
           ELSE going' = None /\ refresh' = None

\* GET /api/messages reads the rows.
RefreshRead ==
    /\ refresh.at = "refresh"
    /\ refresh' = [at |-> "answer", asked |-> refresh.asked, held |-> server, late |-> {}]
    /\ UNCHANGED <<server, list, view, going, calls, known>>

RefreshAnswered ==
    /\ refresh.at = "answer"
    /\ list' = Rows(refresh.held)
    /\ GoOn(LetGo(calls, Messages), Rows(refresh.held))
    /\ known' = IF Busy(refresh') THEN {} ELSE refresh.late
    /\ UNCHANGED server

\* The list is emptied; nothing is said to who waits.
RefreshFails ==
    /\ Busy(refresh)
    /\ list' = Rows([m \in {} |-> server[m]])
    /\ GoOn(LetGo(calls, Messages), Rows([m \in {} |-> server[m]]))
    /\ known' = {}
    /\ UNCHANGED server

ListNext ==
    \/ Close \/ RetryMarkRead \/ MarkUnseen \/ UnseenAnswered
    \/ MoveAnswered \/ AskRefresh \/ RefreshRead \/ RefreshAnswered \/ RefreshFails
    \/ \E m \in Messages, together \in BOOLEAN : Open(m, together)
    \/ \E r \in calls.read : ReadAnswered(r)
    \/ \E t \in calls.content : ContentAnswered(t)
    \/ \E folder \in Boxes : GoTo(folder) \/ \E go \in Boxes : Act(folder, go)
    \/ \E ts \in SUBSET Threads : \E what \in BulkActions : Bulk(ts, what)

ListSpec == ListInit /\ [][ListNext]_listVars

-----------------------------------------------------------------------------

\* When nothing is under way, a row shows a message as read exactly when the server
\* does, except where an answer was lost or found that its row had been replaced, where
\* two requests about the message crossed, or where the list that came was read before a
\* request about the message was carried out (openMessage, markOpenThreadUnseen).
ReadIsExplained ==
    calls.read = {} /\ ~Busy(calls.unseen) /\ ~Busy(calls.move) /\ ~Busy(refresh)
    => \A m \in DOMAIN list \cap DOMAIN server :
         list[m].read = server[m].read \/ m \in known

=============================================================================
