-------------------------- MODULE MailPanelProofs ---------------------------
(***************************************************************************)
(* What the mail pages show: a row of the list tells what the server       *)
(* holds, and beside the messages the subject of a thread is the one typed *)
(* in its own editor, a contact is whole however editors and imports       *)
(* cross, the photo it names is in the store, and a search shows the       *)
(* answer to what is typed.                                                *)
(***************************************************************************)
EXTENDS MailList, MailSearch, ThreadPanel, ReplyComposer, Contacts, FiniteSetTheorems, TLAPS

-----------------------------------------------------------------------------
(* The list of messages.                                                   *)

HeldRow == [box : Boxes, read : BOOLEAN]
ShownRow == [box : Boxes, read : BOOLEAN, body : BOOLEAN]
ReadCall == [of : Messages, ahead : BOOLEAN, held : BOOLEAN]
UnseenCall == [at : {"unseen"}, of : Threads, from : Boxes, held : SUBSET Messages]
MoveCall ==
    [at : {"call", "done"}, of : SUBSET Threads, from : Boxes,
     what : Boxes \cup {"seen", "unseen"}, go : Boxes \cup {"stay"}]
Calls ==
    [read : SUBSET ReadCall, unseen : UnseenCall \cup {None}, move : MoveCall \cup {None},
     content : SUBSET Threads]
Views ==
    [at : {"page"}, folder : Boxes, open : Threads \cup {NoThread},
     item : Messages \cup {NoThread}, together : BOOLEAN]
RefreshAsked == [at : {"refresh"}, asked : BOOLEAN]
RefreshOnItsWay ==
    [at : {"answer"}, asked : BOOLEAN, held : [Messages -> HeldRow], late : SUBSET Messages]
RefreshCalls == RefreshAsked \cup RefreshOnItsWay \cup {None}

ListType ==
    /\ server \in [Messages -> HeldRow]
    /\ DOMAIN list \subseteq Messages /\ list \in [DOMAIN list -> ShownRow]
    /\ calls \in Calls
    /\ view \in Views /\ going \in Views \cup {None}
    /\ refresh \in RefreshCalls

\* The requests about a message that are under way.
Mine(m) == {r \in calls.read : r.of = m}
Aimed(m) == Busy(calls.unseen) /\ ThreadOf[m] = calls.unseen.of

\* What a row says of a message, and the server, while requests about it are under way.
Tells(mine, aimed, held, shows, holds) ==
    \/ \E r \in mine : ~r.held
    \/ aimed /\ ~held
    \/ aimed /\ held /\ mine = {} /\ ~shows
    \/ ~aimed /\ mine = {} /\ shows = holds
    \/ ~aimed /\ \E r : /\ mine = {r} /\ r.held
                        /\ r.ahead => shows /\ ~holds
                        /\ ~r.ahead => shows = holds

RowStands(m) == Tells(Mine(m), Aimed(m), m \in calls.unseen.held, list[m].read, server[m].read)

\* A list that is on its way is the server's, but for what was carried out since.
ListIsRecent ==
    refresh.at = "answer" =>
        \A m \in Messages : refresh.held[m].read = server[m].read \/ m \in refresh.late

ListInvariant ==
    /\ ListType /\ ListIsRecent
    /\ ~Busy(refresh) => \A m \in DOMAIN list \ known : RowStands(m)

LEMMA PageIsView ==
  ASSUME NEW folder \in Boxes, NEW t \in Threads \cup {NoThread},
         NEW item \in Messages \cup {NoThread}, NEW together \in BOOLEAN
  PROVE  Page(folder, t, item, together) \in Views
BY DEF Page, Views

LEMMA FolderIsView == ASSUME NEW folder \in Boxes PROVE Folder(folder) \in Views
BY PageIsView DEF Folder

LEMMA FetchedType ==
  ASSUME NEW held, DOMAIN held \subseteq Messages, held \in [DOMAIN held -> HeldRow]
  PROVE  /\ DOMAIN Rows(held) = DOMAIN held
         /\ Rows(held) \in [DOMAIN held -> ShownRow]
         /\ \A m \in DOMAIN held : Rows(held)[m].read = held[m].read
BY DEF Rows, HeldRow, ShownRow

LEMMA SetReadType ==
  ASSUME ListType, NEW ms, NEW read \in BOOLEAN
  PROVE  /\ DOMAIN SetRead(list, ms, read) = DOMAIN list
         /\ SetRead(list, ms, read) \in [DOMAIN list -> ShownRow]
         /\ \A m \in DOMAIN list :
              SetRead(list, ms, read)[m].read = IF m \in ms THEN read ELSE list[m].read
<1>1. ASSUME NEW m \in DOMAIN list
      PROVE  /\ [list[m] EXCEPT !.read = read] \in ShownRow
             /\ [list[m] EXCEPT !.read = read].read = read
  BY DEF ListType, ShownRow
<1> QED
  BY <1>1 DEF ListType, SetRead

LEMMA ShownThreads ==
  ASSUME ListAssumption, ListType, NEW folder
  PROVE  Shown(folder) \subseteq Threads
BY DEF Shown, ListAssumption, ListType

LEMMA CallsFields ==
  ASSUME NEW c \in Calls
  PROVE  /\ \A read \in SUBSET ReadCall :
              /\ [c EXCEPT !.read = read] \in Calls
              /\ [c EXCEPT !.read = read].read = read
              /\ [c EXCEPT !.read = read].unseen = c.unseen
         /\ \A u \in UnseenCall \cup {None} :
              /\ [c EXCEPT !.unseen = u] \in Calls
              /\ [c EXCEPT !.unseen = u].read = c.read
              /\ [c EXCEPT !.unseen = u].unseen = u
         /\ \A v \in MoveCall \cup {None} :
              /\ [c EXCEPT !.move = v] \in Calls
              /\ [c EXCEPT !.move = v].read = c.read
              /\ [c EXCEPT !.move = v].unseen = c.unseen
         /\ \A ts \in SUBSET Threads :
              /\ [c EXCEPT !.content = ts] \in Calls
              /\ [c EXCEPT !.content = ts].read = c.read
              /\ [c EXCEPT !.content = ts].unseen = c.unseen
BY DEF Calls

LEMMA LoadKeeps ==
  ASSUME NEW c \in Calls, NEW listed, NEW t \in Threads
  PROVE  /\ Load(c, listed, t) \in Calls
         /\ Load(c, listed, t).read = c.read /\ Load(c, listed, t).unseen = c.unseen
<1>1. c.content \cup {t} \in SUBSET Threads
  BY DEF Calls
<1> QED
  BY <1>1, CallsFields DEF Load

LEMMA ListStarts == ASSUME ListAssumption PROVE ListInit => ListInvariant
<1> SUFFICES ASSUME ListInit PROVE ListInvariant
  OBVIOUS
<1>1. server \in [Messages -> HeldRow] /\ DOMAIN server = Messages
  BY DEF ListInit, HeldRow, ListAssumption
<1>2. /\ DOMAIN list = Messages /\ list \in [Messages -> ShownRow]
      /\ \A m \in Messages : list[m].read = server[m].read
  BY <1>1, FetchedType DEF ListInit
<1>3. calls \in Calls /\ calls.read = {} /\ calls.unseen = None
  BY DEF ListInit, Calls
<1>4. view \in Views /\ going = None /\ refresh = None
  BY FolderIsView DEF ListInit, ListAssumption
<1>5. ~Busy(calls.unseen)
  BY <1>3 DEF Busy, None
<1>6. ASSUME NEW m \in DOMAIN list PROVE RowStands(m)
  BY <1>2, <1>3, <1>5 DEF RowStands, Tells, Mine, Aimed
<1> QED
  BY <1>1, <1>2, <1>3, <1>4, <1>6 DEF ListInvariant, ListType, ListIsRecent, RefreshCalls, None

\* While the list is asked for, nothing is said of its rows.
LEMMA RefreshIsAsked ==
  ASSUME ListType', refresh'.at = "refresh"
  PROVE  ListInvariant'
BY DEF ListInvariant, ListIsRecent, Busy

LEMMA GoingToType ==
  ASSUME ListType, NEW p \in Views, GoingTo(p)
  PROVE  /\ going' \in Views \cup {None}
         /\ refresh' \in RefreshCalls /\ refresh'.at = "refresh"
<1>1. Busy(refresh) => refresh.asked \in BOOLEAN
  BY DEF ListType, RefreshCalls, RefreshAsked, RefreshOnItsWay, None, Busy
<1>2. (Busy(refresh) /\ refresh.asked) \in BOOLEAN
  BY <1>1
<1> QED
  BY <1>2 DEF GoingTo, RefreshCalls, RefreshAsked

LEMMA RefreshType ==
  ASSUME Refresh
  PROVE  refresh' \in RefreshCalls /\ refresh'.at = "refresh"
BY DEF Refresh, RefreshCalls, RefreshAsked

\* What is carried out about ms is counted, if the list that is on its way was read before.
LEMMA OvertakeKeeps ==
  ASSUME ListType, ListIsRecent, NEW ms \in SUBSET Messages, Overtake(ms),
         server' \in [Messages -> HeldRow], \A m \in Messages \ ms : server'[m].read = server[m].read
  PROVE  /\ refresh' \in RefreshCalls /\ ListIsRecent'
         /\ Busy(refresh') <=> Busy(refresh)
<1>1. CASE refresh.at = "answer"
  <2>1. refresh \in RefreshOnItsWay
    BY <1>1 DEF ListType, RefreshCalls, RefreshAsked, None
  <2>2. refresh' = [at |-> "answer", asked |-> refresh.asked, held |-> refresh.held,
                    late |-> refresh.late \cup ms]
    BY <1>1, <2>1 DEF Overtake, RefreshOnItsWay
  <2>3. refresh' \in RefreshOnItsWay
    BY <2>1, <2>2 DEF RefreshOnItsWay
  <2>4. refresh'.at = "answer" /\ refresh'.held = refresh.held /\ refresh'.late = refresh.late \cup ms
    BY <2>2
  <2>5. ListIsRecent'
    BY <1>1, <2>4 DEF ListIsRecent
  <2> QED
    BY <1>1, <2>3, <2>4, <2>5 DEF RefreshCalls, Busy
<1>2. CASE refresh.at # "answer"
  BY <1>2 DEF Overtake, ListType, ListIsRecent
<1> QED
  BY <1>1, <1>2

LEMMA CrossedIsDiffering ==
  ASSUME NEW ms, Differ(ms), UNCHANGED refresh, ~Busy(refresh)
  PROVE  known' = known \cup ms
BY DEF Differ

LEMMA LetGoReads ==
  ASSUME NEW c \in Calls, NEW ms
  PROVE  /\ LetGo(c, ms).read \in SUBSET ReadCall
         /\ \A m \in ms : \A r \in LetGo(c, ms).read : r.of = m => ~r.held
         /\ \A m : (\E r \in c.read : r.of = m) <=> (\E r \in LetGo(c, ms).read : r.of = m)
         /\ \A m : m \notin ms => {r \in LetGo(c, ms).read : r.of = m} = {r \in c.read : r.of = m}
<1> DEFINE dropped(r) == IF r.of \in ms THEN [r EXCEPT !.held = FALSE] ELSE r
           reads == {dropped(r) : r \in c.read}
<1>1. c.read \subseteq ReadCall
  BY DEF Calls
<1>2. ASSUME NEW r \in ReadCall
      PROVE  /\ dropped(r) \in ReadCall /\ dropped(r).of = r.of
             /\ r.of \in ms => ~dropped(r).held
             /\ r.of \notin ms => dropped(r) = r
  BY DEF ReadCall
<1>3. LetGo(c, ms).read = reads
  BY DEF LetGo, Calls
<1>4. \A r \in c.read : dropped(r) \in reads
  OBVIOUS
<1>5. \A q \in reads : \E r \in c.read : q = dropped(r)
  OBVIOUS
<1> HIDE DEF dropped, reads
<1> QED
  BY <1>1, <1>2, <1>3, <1>4, <1>5

LEMMA LetGoKeeps ==
  ASSUME NEW c \in Calls, NEW ms
  PROVE  /\ LetGo(c, ms) \in Calls
         /\ Busy(LetGo(c, ms).unseen) <=> Busy(c.unseen)
         /\ Busy(c.unseen) => /\ LetGo(c, ms).unseen.of = c.unseen.of
                              /\ LetGo(c, ms).unseen.held = c.unseen.held \ ms
<1> DEFINE unseen == IF Busy(c.unseen)
                       THEN [c.unseen EXCEPT !.held = c.unseen.held \ ms] ELSE None
<1>1. c.unseen \in UnseenCall \cup {None}
  BY DEF Calls
<1>2. /\ unseen \in UnseenCall \cup {None}
      /\ Busy(unseen) <=> Busy(c.unseen)
      /\ Busy(c.unseen) => unseen.of = c.unseen.of /\ unseen.held = c.unseen.held \ ms
  BY <1>1 DEF UnseenCall, None, Busy
<1> HIDE DEF unseen
<1>3. LetGo(c, ms) = [c EXCEPT !.read = LetGo(c, ms).read, !.unseen = unseen]
  BY DEF LetGo, Calls, unseen
<1>4. LetGo(c, ms).unseen = unseen
  BY <1>3 DEF Calls
<1>5. LetGo(c, ms) \in Calls
  BY <1>2, <1>3, LetGoReads DEF Calls
<1> QED
  BY <1>2, <1>4, <1>5

\* Messages about which nothing else is under way are asked to be marked.
LEMMA AskingKeeps ==
  ASSUME ListInvariant, ~Busy(refresh), NEW ms \in SUBSET DOMAIN list, NEW ahead \in BOOLEAN,
         \A m \in ms : ~list[m].read,
         calls'.read = calls.read \cup {[of |-> m, ahead |-> ahead, held |-> TRUE] : m \in ms},
         calls'.unseen = calls.unseen, server' = server,
         \A m \in DOMAIN list : list'[m].read = IF m \in ms /\ ahead THEN TRUE ELSE list[m].read,
         known' = known \cup Crossed(ms)
  PROVE  \A m \in DOMAIN list \ known' : RowStands(m)'
<1> SUFFICES ASSUME NEW m \in DOMAIN list, m \notin known' PROVE RowStands(m)'
  OBVIOUS
<1> DEFINE call(x) == [of |-> x, ahead |-> ahead, held |-> TRUE]
           made == {call(x) : x \in ms}
<1>1. RowStands(m) /\ m \notin Crossed(ms)
  BY DEF ListInvariant
<1>2. Aimed(m)' = Aimed(m) /\ (m \in calls.unseen.held)' = (m \in calls.unseen.held)
  BY DEF Aimed
<1>3. \A r \in made : \E x \in ms : r = call(x)
  OBVIOUS
<1>4. \A x \in ms : call(x) \in made
  OBVIOUS
<1>5. \A x : call(x).of = x /\ call(x).ahead = ahead /\ call(x).held
  OBVIOUS
<1>6. calls'.read = calls.read \cup made
  OBVIOUS
<1> HIDE DEF call, made
<1>7. CASE m \notin ms
  <2>1. Mine(m)' = Mine(m)
    BY <1>3, <1>5, <1>6, <1>7 DEF Mine
  <2>2. list'[m].read = list[m].read /\ server'[m].read = server[m].read
    BY <1>7
  <2> QED
    BY <1>1, <1>2, <2>1, <2>2 DEF RowStands
<1>8. CASE m \in ms
  <2>1. Mine(m) = {} /\ ~Aimed(m)
    BY <1>1, <1>8 DEF Crossed, Reading, Mine, Aimed
  <2>2. Mine(m)' = {call(m)}
    BY <1>3, <1>4, <1>5, <1>6, <1>8, <2>1 DEF Mine
  <2>3. list[m].read = server[m].read /\ ~list[m].read
    BY <1>1, <1>8, <2>1 DEF RowStands, Tells
  <2>4. ahead => list'[m].read
    BY <1>8
  <2>5. ~ahead => list'[m].read = server'[m].read
    BY <1>8, <2>3
  <2> QED
    BY <1>2, <1>5, <2>1, <2>2, <2>3, <2>4, <2>5 DEF RowStands, Tells
<1> QED
  BY <1>7, <1>8

LEMMA OpenKeepsList ==
  ASSUME ListAssumption, ListInvariant, NEW n \in Messages, NEW together \in BOOLEAN,
         Open(n, together)
  PROVE  ListInvariant'
<1> DEFINE unread == Opened(n)
           target == PageOf(n, together)
           listed == SetRead(list, unread, TRUE)
           read == calls.read \cup {[of |-> m, ahead |-> TRUE, held |-> TRUE] : m \in unread}
           wanted == [calls EXCEPT !.read = read]
<1>1. ListType /\ view.folder \in Boxes
  BY DEF ListInvariant, ListType, Views
<1>2. unread \subseteq DOMAIN list /\ \A m \in unread : ~list[m].read
  BY <1>1 DEF Opened, InFolder, Of
<1>3. /\ DOMAIN listed = DOMAIN list /\ listed \in [DOMAIN list -> ShownRow]
      /\ \A m \in DOMAIN list : listed[m].read = IF m \in unread THEN TRUE ELSE list[m].read
  BY <1>1, SetReadType
<1>4. read \in SUBSET ReadCall
  <2>1. calls.read \subseteq ReadCall /\ unread \subseteq Messages
    BY <1>1, <1>2 DEF ListType, Calls
  <2>2. ASSUME NEW m \in unread PROVE [of |-> m, ahead |-> TRUE, held |-> TRUE] \in ReadCall
    BY <2>1 DEF ReadCall
  <2> QED
    BY <2>1, <2>2
<1>5. wanted \in Calls /\ wanted.read = read /\ wanted.unseen = calls.unseen
  BY <1>1, <1>4, CallsFields, ZenonT(60) DEF ListType
<1>6. target \in Views /\ target.open \in Threads
  <2>1. ThreadOf[n] \in Threads
    BY DEF ListAssumption
  <2>2. (IF view.folder = Feed THEN n ELSE NoThread) \in Messages \cup {NoThread}
    OBVIOUS
  <2>3. target \in Views
    BY <1>1, <2>1, <2>2, PageIsView DEF PageOf
  <2> QED
    BY <2>1, <2>3 DEF PageOf, Page
<1>7. list' = listed /\ server' = server /\ Differ(Crossed(unread))
  BY DEF Open
<1>8. \/ /\ view' = target /\ UNCHANGED <<going, refresh>>
         /\ calls' = wanted \/ calls' = Load(wanted, listed, target.open)
      \/ calls' = wanted /\ GoingTo(target) /\ UNCHANGED view
  BY DEF Open
<1> HIDE DEF listed, wanted, target
<1>9. CASE /\ view' = target /\ UNCHANGED <<going, refresh>>
           /\ calls' = wanted \/ calls' = Load(wanted, listed, target.open)
  <2>1. calls' \in Calls /\ calls'.read = read /\ calls'.unseen = calls.unseen
    BY <1>5, <1>6, <1>9, LoadKeeps
  <2>2. ListType'
    BY <1>1, <1>3, <1>6, <1>7, <1>9, <2>1 DEF ListType
  <2>3. ListIsRecent'
    BY <1>7, <1>9 DEF ListInvariant, ListIsRecent
  <2>4. ASSUME ~Busy(refresh) PROVE \A m \in DOMAIN list \ known' : RowStands(m)'
    <3>1. known' = known \cup Crossed(unread)
      BY <1>7, <1>9, <2>4, CrossedIsDiffering
    <3> QED
      BY <1>2, <1>3, <1>7, <2>1, <2>4, <3>1, AskingKeeps
  <2> QED
    BY <1>3, <1>7, <1>9, <2>2, <2>3, <2>4 DEF ListInvariant
<1>10. CASE calls' = wanted /\ GoingTo(target) /\ UNCHANGED view
  <2>1. ListType' /\ refresh'.at = "refresh"
    BY <1>1, <1>3, <1>5, <1>6, <1>7, <1>10, GoingToType DEF ListType
  <2> QED
    BY <2>1, RefreshIsAsked
<1> QED
  BY <1>8, <1>9, <1>10

LEMMA RetryKeepsList ==
  ASSUME ListAssumption, ListInvariant, RetryMarkRead
  PROVE  ListInvariant'
<1>1. ListType
  BY DEF ListInvariant
<1>2. PICK unread \in SUBSET InFolder(view.open, FALSE) :
         /\ calls' = [calls EXCEPT !.read = @ \cup
                        {[of |-> n, ahead |-> FALSE, held |-> TRUE] : n \in unread}]
         /\ UNCHANGED refresh /\ Differ(Crossed(unread))
  <2>1. PICK m \in InFolder(view.open, FALSE) :
          LET ms == IF view.folder = Feed THEN {m} ELSE InFolder(view.open, FALSE)
          IN  /\ calls' = [calls EXCEPT !.read = @ \cup
                             {[of |-> n, ahead |-> FALSE, held |-> TRUE] : n \in ms}]
              /\ UNCHANGED refresh /\ Differ(Crossed(ms))
    BY Zenon DEF RetryMarkRead
  <2> DEFINE ms == IF view.folder = Feed THEN {m} ELSE InFolder(view.open, FALSE)
  <2>2. ms \in SUBSET InFolder(view.open, FALSE)
    OBVIOUS
  <2>3. /\ calls' = [calls EXCEPT !.read = @ \cup
                       {[of |-> n, ahead |-> FALSE, held |-> TRUE] : n \in ms}]
        /\ UNCHANGED refresh /\ Differ(Crossed(ms))
    BY <2>1
  <2> HIDE DEF ms
  <2> QED
    BY <2>2, <2>3
<1> DEFINE read == calls.read \cup {[of |-> m, ahead |-> FALSE, held |-> TRUE] : m \in unread}
<1>3. unread \subseteq DOMAIN list /\ \A m \in unread : ~list[m].read
  BY <1>1 DEF InFolder, Of
<1>4. read \in SUBSET ReadCall
  <2>1. calls.read \subseteq ReadCall /\ unread \subseteq Messages
    BY <1>1, <1>3 DEF ListType, Calls
  <2>2. ASSUME NEW m \in unread PROVE [of |-> m, ahead |-> FALSE, held |-> TRUE] \in ReadCall
    BY <2>1 DEF ReadCall
  <2> QED
    BY <2>1, <2>2
<1>5. calls' = [calls EXCEPT !.read = read] /\ UNCHANGED <<server, list, view, going, refresh>>
  BY <1>2 DEF RetryMarkRead
<1>6. calls' \in Calls /\ calls'.read = read /\ calls'.unseen = calls.unseen
  BY <1>1, <1>4, <1>5, CallsFields, ZenonT(60) DEF ListType
<1>7. ListType'
  BY <1>1, <1>5, <1>6 DEF ListType
<1>8. ASSUME ~Busy(refresh) PROVE \A m \in DOMAIN list \ known' : RowStands(m)'
  <2>1. known' = known \cup Crossed(unread)
    BY <1>2, <1>8, CrossedIsDiffering
  <2> QED
    BY <1>3, <1>5, <1>6, <1>8, <2>1, AskingKeeps
<1>9. ListIsRecent'
  BY <1>5 DEF ListInvariant, ListIsRecent
<1> QED
  BY <1>5, <1>7, <1>8, <1>9 DEF ListInvariant

LEMMA MarkUnseenKeepsList ==
  ASSUME ListAssumption, ListInvariant, MarkUnseen
  PROVE  ListInvariant'
<1> DEFINE read == InFolder(view.open, TRUE)
           call == [at |-> "unseen", of |-> view.open, from |-> view.folder, held |-> read]
<1>1. ListType /\ view.open \in Threads /\ view.folder \in Boxes
  BY DEF ListInvariant, ListType, MarkUnseen, Views
<1>2. read \subseteq DOMAIN list /\ \A m \in read : ThreadOf[m] = view.open
  BY <1>1 DEF InFolder, Of
<1>3. call \in UnseenCall /\ Busy(call) /\ call.of = view.open /\ call.held = read
  BY <1>1, <1>2 DEF UnseenCall, Busy, ListType
<1>4. /\ list' = SetRead(list, read, FALSE) /\ calls' = [calls EXCEPT !.unseen = call]
      /\ Differ(Crossed(read)) /\ ~Busy(calls.unseen)
      /\ UNCHANGED <<server, view, going, refresh>>
  BY DEF MarkUnseen
<1>5. /\ DOMAIN list' = DOMAIN list /\ list' \in [DOMAIN list -> ShownRow]
      /\ \A m \in DOMAIN list : list'[m].read = IF m \in read THEN FALSE ELSE list[m].read
  <2> DEFINE listed == SetRead(list, read, FALSE)
  <2>1. /\ DOMAIN listed = DOMAIN list /\ listed \in [DOMAIN list -> ShownRow]
        /\ \A m \in DOMAIN list : listed[m].read = IF m \in read THEN FALSE ELSE list[m].read
    BY <1>1, SetReadType
  <2>2. list' = listed
    BY <1>4
  <2> HIDE DEF listed
  <2> QED
    BY <2>1, <2>2
<1>6. calls' \in Calls /\ calls'.read = calls.read /\ calls'.unseen = call
  BY <1>1, <1>3, <1>4, CallsFields, ZenonT(60) DEF ListType
<1>7. ListType'
  BY <1>1, <1>4, <1>5, <1>6 DEF ListType
<1>8. ASSUME ~Busy(refresh), NEW m \in DOMAIN list, m \notin known' PROVE RowStands(m)'
  <2>1. RowStands(m) /\ Mine(m)' = Mine(m) /\ ~Aimed(m)
    BY <1>4, <1>6, <1>8 DEF ListInvariant, Differ, Mine, Aimed
  <2>2. Aimed(m)' <=> ThreadOf[m] = view.open
    BY <1>3, <1>6 DEF Aimed
  <2>3. (m \in calls.unseen.held)' <=> m \in read
    BY <1>3, <1>6
  <2>4. m \in read => Mine(m) = {}
    BY <1>4, <1>8 DEF Differ, Crossed, Reading, Mine
  <2>5. list'[m].read = (IF m \in read THEN FALSE ELSE list[m].read) /\ server' = server
    BY <1>4, <1>5
  <2>6. m \in read => Aimed(m)'
    BY <1>2, <2>2
  <2> HIDE DEF read
  <2>7. CASE m \in read
    BY <2>1, <2>3, <2>4, <2>5, <2>6, <2>7 DEF RowStands, Tells
  <2>8. CASE m \notin read /\ Aimed(m)'
    BY <2>3, <2>8 DEF RowStands, Tells
  <2>9. CASE m \notin read /\ ~Aimed(m)'
    BY <2>1, <2>5, <2>9 DEF RowStands, Tells
  <2> QED
    BY <2>7, <2>8, <2>9
<1>9. ListIsRecent'
  BY <1>4 DEF ListInvariant, ListIsRecent
<1> QED
  BY <1>4, <1>5, <1>7, <1>8, <1>9 DEF ListInvariant

\* The answers.
LEMMA ReadAnsweredKeepsList ==
  ASSUME ListAssumption, ListInvariant, NEW r \in calls.read, ReadAnswered(r)
  PROVE  ListInvariant'
<1>1. ListType /\ r \in ReadCall
  BY DEF ListInvariant, ListType, Calls
<1>2. /\ calls' = [calls EXCEPT !.read = calls.read \ {r}]
      /\ UNCHANGED <<view, going>>
      /\ (UNCHANGED <<server, refresh>>) \/ Overtake({r.of})
  BY DEF ReadAnswered
<1>3. calls.read \ {r} \in SUBSET ReadCall
  BY <1>1 DEF ListType, Calls
<1>4. calls' \in Calls /\ calls'.read = calls.read \ {r} /\ calls'.unseen = calls.unseen
  BY <1>1, <1>2, <1>3, CallsFields DEF ListType
<1>5. /\ server' \in [Messages -> HeldRow]
      /\ \A m \in Messages \ {r.of} : server'[m].read = server[m].read
      /\ server' = server \/ server'[r.of].read = TRUE
  <2>1. server' = server \/ server' = [server EXCEPT ![r.of].read = TRUE]
    BY DEF ReadAnswered
  <2>2. r.of \in Messages
    BY <1>1 DEF ReadCall
  <2>3. [server[r.of] EXCEPT !.read = TRUE] \in HeldRow /\ [server[r.of] EXCEPT !.read = TRUE].read
    BY <1>1, <2>2 DEF ListType, HeldRow
  <2>4. server \in [Messages -> HeldRow]
    BY <1>1 DEF ListType
  <2> QED
    BY <2>1, <2>2, <2>3, <2>4
<1>6. /\ DOMAIN list' = DOMAIN list /\ list' \in [DOMAIN list -> ShownRow]
      /\ \A m \in DOMAIN list : m # r.of => list'[m].read = list[m].read
  <2>1. \/ list' = list
        \/ list' = SetRead(list, {r.of}, TRUE)
        \/ list' = SetRead(list, {r.of}, FALSE)
    BY DEF ReadAnswered, RollBack
  <2>2. CASE list' = list
    BY <1>1, <2>2 DEF ListType
  <2>3. ASSUME NEW read \in BOOLEAN, list' = SetRead(list, {r.of}, read)
        PROVE  /\ DOMAIN list' = DOMAIN list /\ list' \in [DOMAIN list -> ShownRow]
               /\ \A m \in DOMAIN list : m # r.of => list'[m].read = list[m].read
    BY <1>1, <2>3, SetReadType
  <2> QED
    BY <2>1, <2>2, <2>3
<1>10. refresh' \in RefreshCalls /\ ListIsRecent' /\ (Busy(refresh') <=> Busy(refresh))
  <2>1. {r.of} \in SUBSET Messages /\ ListIsRecent
    BY <1>1 DEF ReadCall, ListInvariant
  <2>2. CASE UNCHANGED <<server, refresh>>
    BY <1>1, <2>1, <2>2 DEF ListType, ListIsRecent
  <2>3. CASE Overtake({r.of})
    BY <1>1, <1>5, <2>1, <2>3, OvertakeKeeps
  <2> QED
    BY <1>2, <2>2, <2>3
<1>7. ListType'
  BY <1>1, <1>2, <1>4, <1>5, <1>6, <1>10 DEF ListType
<1>8. ASSUME ~Busy(refresh), NEW m \in DOMAIN list, m \notin known' PROVE RowStands(m)'
  <2>5. /\ \/ Differ(IF r.held THEN {} ELSE {r.of})
           \/ Differ({r.of})
        /\ m \notin known
        /\ m = r.of => r.held
    <3>1. Differ(IF r.held THEN {} ELSE {r.of}) \/ Differ({r.of})
      BY DEF ReadAnswered
    <3>2. /\ \/ known' = known \cup (IF r.held THEN {} ELSE {r.of})
             \/ known' = known \cup {r.of}
      BY <1>8, <1>10, <3>1 DEF Differ
    <3> QED
      BY <1>8, <3>1, <3>2
  <2>1. RowStands(m) /\ m \in Messages
    BY <1>1, <1>8, <2>5 DEF ListInvariant, ListType
  <2>2. Aimed(m)' = Aimed(m) /\ (m \in calls.unseen.held)' = (m \in calls.unseen.held)
    BY <1>4 DEF Aimed
  <2>3. CASE m # r.of
    <3>1. Mine(m)' = Mine(m)
      BY <1>4, <2>3 DEF Mine
    <3>2. list'[m].read = list[m].read /\ server'[m].read = server[m].read
      BY <1>5, <1>6, <2>1, <2>3
    <3> QED
      BY <2>1, <2>2, <3>1, <3>2 DEF RowStands
  <2>4. CASE m = r.of
    <3>1. r.held /\ Mine(m)' = Mine(m) \ {r} /\ r \in Mine(m)
      BY <1>4, <2>4, <2>5 DEF Mine
    <3>2. CASE \E q \in Mine(m) : ~q.held
      <4>1. \E q \in Mine(m)' : ~q.held
        BY <3>1, <3>2
      <4> QED
        BY <4>1 DEF RowStands, Tells
    <3>3. CASE Aimed(m) /\ m \notin calls.unseen.held
      BY <2>2, <3>3 DEF RowStands, Tells
    <3>4. CASE /\ ~Aimed(m) /\ Mine(m) = {r}
               /\ r.ahead => list[m].read /\ ~server[m].read
               /\ ~r.ahead => list[m].read = server[m].read
      <4>1. Mine(m)' = {}
        BY <3>1, <3>4
      <4>2. list'[m].read = server'[m].read
        <5>1. CASE /\ server' = [server EXCEPT ![r.of].read = TRUE]
                   /\ list' = IF ~r.ahead /\ r.held /\ r.of \in DOMAIN list
                                THEN SetRead(list, {r.of}, TRUE) ELSE list
          <6>1. server'[m].read = TRUE
            BY <2>1, <2>4, <5>1, <1>1 DEF ListType, HeldRow
          <6>2. r.ahead => list'[m].read = list[m].read /\ list[m].read \in BOOLEAN
            BY <5>1, <1>1, <1>8 DEF ListType, ShownRow
          <6>3. ~r.ahead => list'[m].read = TRUE
            BY <5>1, <3>1, <2>4, <1>1, <1>8, SetReadType
          <6> QED
            BY <6>1, <6>2, <6>3, <3>4
        <5>2. CASE RollBack(r) /\ server' = server
          <6>1. r.ahead => list'[m].read = FALSE
            BY <5>2, <3>1, <2>4, <1>1, <1>8, SetReadType DEF RollBack
          <6>2. ~r.ahead => list' = list
            BY <5>2 DEF RollBack
          <6>3. server[m].read \in BOOLEAN
            BY <1>1, <2>1 DEF ListType, HeldRow
          <6> QED
            BY <5>2, <6>1, <6>2, <6>3, <3>4
        <5>3. CASE Differ({r.of})
          BY <5>3, <1>8, <1>10, <2>4 DEF Differ
        <5> QED
          BY <5>1, <5>2, <5>3 DEF ReadAnswered
      <4> QED
        BY <2>2, <3>4, <4>1, <4>2 DEF RowStands, Tells
    <3> QED
      BY <2>1, <3>1, <3>2, <3>3, <3>4 DEF RowStands, Tells
  <2> QED
    BY <2>3, <2>4
<1> QED
  BY <1>6, <1>7, <1>8, <1>10 DEF ListInvariant

\* The list is asked for: by this answer, or again.
LEMMA UnseenAnsweredKeepsList ==
  ASSUME ListAssumption, ListInvariant, UnseenAnswered
  PROVE  ListInvariant'
<1> DEFINE u == calls.unseen
           marked == Of(u.of, server)
           done == [m \in DOMAIN server |-> IF m \in marked
                      THEN [server[m] EXCEPT !.read = FALSE] ELSE server[m]]
<1>1. ListType /\ u \in UnseenCall
  BY DEF ListInvariant, ListType, Calls, UnseenAnswered, Busy, None
<1>2. done \in [Messages -> HeldRow]
  <2>1. DOMAIN server = Messages /\ \A m \in Messages : server[m] \in HeldRow
    BY <1>1 DEF ListType
  <2>2. ASSUME NEW m \in Messages PROVE [server[m] EXCEPT !.read = FALSE] \in HeldRow
    BY <2>1 DEF HeldRow
  <2> HIDE DEF marked
  <2> QED
    BY <2>1, <2>2
<1>3. calls' = [calls EXCEPT !.unseen = None] /\ view' = view
  BY DEF UnseenAnswered
<1>4. calls' \in Calls
  BY <1>1, <1>3, CallsFields DEF ListType
<1>5. \/ /\ server' = done /\ GoingTo(Folder(u.from)) /\ list' = list
      \/ /\ server' \in {server, done} /\ list' = SetRead(list, u.held \cap DOMAIN list, TRUE)
         /\ Refresh /\ going' = going
  BY DEF UnseenAnswered
<1>6. server' \in [Messages -> HeldRow]
  BY <1>1, <1>2, <1>5 DEF ListType
<1>7. Folder(u.from) \in Views
  BY <1>1, FolderIsView DEF UnseenCall
<1> HIDE DEF done
<1>8. CASE GoingTo(Folder(u.from)) /\ list' = list
  <2>1. ListType' /\ refresh'.at = "refresh"
    BY <1>1, <1>3, <1>4, <1>6, <1>7, <1>8, GoingToType DEF ListType
  <2> QED
    BY <2>1, RefreshIsAsked
<1>9. CASE list' = SetRead(list, u.held \cap DOMAIN list, TRUE) /\ Refresh /\ going' = going
  <2> DEFINE listed == SetRead(list, u.held \cap DOMAIN list, TRUE)
  <2>1. DOMAIN listed = DOMAIN list /\ listed \in [DOMAIN list -> ShownRow]
    BY <1>1, SetReadType
  <2>2. list' = listed
    BY <1>9
  <2> HIDE DEF listed
  <2>3. ListType' /\ refresh'.at = "refresh"
    BY <1>1, <1>3, <1>4, <1>6, <1>9, <2>1, <2>2, RefreshType DEF ListType
  <2> QED
    BY <2>3, RefreshIsAsked
<1> QED
  BY <1>5, <1>8, <1>9

\* The rows get their bodies, and the requests about them let them go.
LEMMA ContentAnsweredKeepsList ==
  ASSUME ListAssumption, ListInvariant, NEW t \in calls.content, ContentAnswered(t)
  PROVE  ListInvariant'
<1> DEFINE ms == Of(t, list)
           content == calls.content \ {t}
           rest == [calls EXCEPT !.content = content]
<1>1. ListType /\ content \in SUBSET Threads
  BY DEF ListInvariant, ListType, Calls
<1>2. rest \in Calls /\ rest.read = calls.read /\ rest.unseen = calls.unseen
  BY <1>1, CallsFields DEF ListType
<1>3. UNCHANGED <<server, view, going, refresh, known>> /\ ListIsRecent'
  BY DEF ContentAnswered, ListInvariant, ListIsRecent
<1>4. \/ /\ list' = [m \in DOMAIN list |-> IF m \in ms
                       THEN [list[m] EXCEPT !.body = TRUE] ELSE list[m]]
         /\ calls' = LetGo(rest, ms)
      \/ calls' = rest /\ list' = list
  BY DEF ContentAnswered
<1> HIDE DEF ms, rest, content
<1>5. CASE /\ list' = [m \in DOMAIN list |-> IF m \in ms
                         THEN [list[m] EXCEPT !.body = TRUE] ELSE list[m]]
           /\ calls' = LetGo(rest, ms)
  <2>1. ASSUME NEW m \in DOMAIN list
        PROVE  /\ [list[m] EXCEPT !.body = TRUE] \in ShownRow
               /\ [list[m] EXCEPT !.body = TRUE].read = list[m].read
    BY <1>1 DEF ListType, ShownRow
  <2>2. /\ DOMAIN list' = DOMAIN list /\ list' \in [DOMAIN list -> ShownRow]
        /\ \A m \in DOMAIN list : list'[m].read = list[m].read
    BY <1>1, <1>5, <2>1 DEF ListType
  <2>3. /\ calls' \in Calls
        /\ Busy(calls'.unseen) <=> Busy(calls.unseen)
        /\ Busy(calls.unseen) => /\ calls'.unseen.of = calls.unseen.of
                                 /\ calls'.unseen.held = calls.unseen.held \ ms
    BY <1>2, <1>5, LetGoKeeps
  <2>4. /\ \A m \in ms : \A r \in calls'.read : r.of = m => ~r.held
        /\ \A m : (\E r \in calls.read : r.of = m) <=> (\E r \in calls'.read : r.of = m)
        /\ \A m : m \notin ms => {r \in calls'.read : r.of = m} = {r \in calls.read : r.of = m}
    <3>1. /\ \A m \in ms : \A r \in LetGo(rest, ms).read : r.of = m => ~r.held
          /\ \A m : (\E r \in rest.read : r.of = m) <=> (\E r \in LetGo(rest, ms).read : r.of = m)
          /\ \A m : m \notin ms =>
               {r \in LetGo(rest, ms).read : r.of = m} = {r \in rest.read : r.of = m}
      BY <1>2, LetGoReads
    <3>2. rest.read = calls.read /\ calls' = LetGo(rest, ms)
      BY <1>2, <1>5
    <3>3. calls'.read = LetGo(rest, ms).read
      BY <3>2
    <3>4. \A m \in ms : \A r \in calls'.read : r.of = m => ~r.held
      BY <3>1, <3>3
    <3>5. \A m : (\E r \in calls.read : r.of = m) <=> (\E r \in calls'.read : r.of = m)
      BY <3>1, <3>2, <3>3
    <3>6. \A m : m \notin ms =>
            {r \in calls'.read : r.of = m} = {r \in calls.read : r.of = m}
      BY <3>1, <3>2, <3>3
    <3> QED
      BY <3>4, <3>5, <3>6
  <2>5. ListType'
    BY <1>1, <1>3, <1>5, <2>2, <2>3 DEF ListType
  <2>6. ASSUME ~Busy(refresh), NEW m \in DOMAIN list, m \notin known PROVE RowStands(m)'
    <3>1. RowStands(m)
      BY <2>6 DEF ListInvariant
    <3>2. Aimed(m)' <=> Aimed(m)
      BY <2>3 DEF Aimed
    <3>3. list'[m].read = list[m].read /\ server' = server
      BY <1>3, <2>2
    <3>4. CASE m \notin ms
      <4>1. Mine(m)' = Mine(m)
        BY <2>4, <3>4 DEF Mine
      <4>2. Aimed(m) => ((m \in calls.unseen.held)' <=> m \in calls.unseen.held)
        BY <2>3, <3>4 DEF Aimed
      <4> QED
        BY <3>1, <3>2, <3>3, <4>1, <4>2 DEF RowStands, Tells
    <3>5. CASE m \in ms
      <4>1. \A r \in Mine(m)' : ~r.held
        BY <2>4, <3>5 DEF Mine
      <4>2. Mine(m)' = {} <=> Mine(m) = {}
        BY <2>4 DEF Mine
      <4>3. Aimed(m) => (m \notin calls.unseen.held)'
        BY <2>3, <3>5 DEF Aimed
      <4>4. CASE Mine(m)' # {}
        BY <4>1, <4>4 DEF RowStands, Tells
      <4>5. CASE Aimed(m)'
        BY <3>2, <4>3, <4>5 DEF RowStands, Tells
      <4>6. CASE Mine(m)' = {} /\ ~Aimed(m)'
        BY <3>1, <3>2, <3>3, <4>2, <4>6 DEF RowStands, Tells
      <4> QED
        BY <4>4, <4>5, <4>6
    <3> QED
      BY <3>4, <3>5
  <2> QED
    BY <1>3, <2>2, <2>5, <2>6 DEF ListInvariant
<1>6. CASE calls' = rest /\ list' = list
  <2>2. ListType'
    BY <1>1, <1>2, <1>3, <1>6 DEF ListType
  <2>3. ASSUME NEW m \in DOMAIN list, RowStands(m) PROVE RowStands(m)'
    BY <1>2, <1>3, <1>6, <2>3 DEF RowStands, Mine, Aimed
  <2> QED
    BY <1>3, <1>6, <2>2, <2>3 DEF ListInvariant
<1> QED
  BY <1>4, <1>5, <1>6

\* What is done to several threads, or to the one that is open.
LEMMA AskMoveKeepsList ==
  ASSUME ListInvariant, NEW v \in MoveCall, calls' = [calls EXCEPT !.move = v],
         UNCHANGED <<server, list, view, going, refresh, known>>
  PROVE  ListInvariant'
<1>1. ListType
  BY DEF ListInvariant
<1>2. calls' \in Calls /\ calls'.read = calls.read /\ calls'.unseen = calls.unseen
  BY <1>1, CallsFields DEF ListType
<1>3. ListType'
  BY <1>1, <1>2 DEF ListType
<1>4. ASSUME NEW m \in DOMAIN list, RowStands(m) PROVE RowStands(m)'
  BY <1>2, <1>4 DEF RowStands, Mine, Aimed
<1>5. ListIsRecent'
  BY DEF ListInvariant, ListIsRecent
<1> QED
  BY <1>3, <1>4, <1>5 DEF ListInvariant

LEMMA BulkKeepsList ==
  ASSUME ListAssumption, ListInvariant, NEW ts \in SUBSET Threads, NEW what \in BulkActions, Bulk(ts, what)
  PROVE  ListInvariant'
<1>1. view.folder \in Boxes
  BY DEF ListInvariant, ListType, Views
<1>2. [at |-> "call", of |-> ts, from |-> view.folder, what |-> what, go |-> "stay"] \in MoveCall
  BY <1>1 DEF MoveCall, ListAssumption
<1> QED
  BY <1>2, AskMoveKeepsList DEF Bulk

LEMMA ActKeepsList ==
  ASSUME ListAssumption, ListInvariant, NEW to \in Boxes, NEW go \in Boxes, Act(to, go)
  PROVE  ListInvariant'
<1>1. view.folder \in Boxes /\ view.open \in Threads
  BY DEF ListInvariant, ListType, Views, Act
<1>2. [at |-> "call", of |-> {view.open}, from |-> view.folder, what |-> to, go |-> go] \in MoveCall
  BY <1>1 DEF MoveCall, ListAssumption
<1> QED
  BY <1>2, AskMoveKeepsList DEF Act

LEMMA DoneType ==
  ASSUME ListType, NEW call \in MoveCall
  PROVE  /\ Done(call) \in [Messages -> HeldRow]
         /\ \A m \in Messages \ Touched(call) : Done(call)[m] = server[m]
<1> DEFINE ms == {m \in DOMAIN server : ThreadOf[m] \in call.of /\ server[m].box = call.from}
           seen == call.what = "seen"
           new(m) == IF m \notin ms THEN server[m]
                     ELSE IF call.what \in Boxes THEN [server[m] EXCEPT !.box = call.what]
                     ELSE [server[m] EXCEPT !.read = seen]
<1>1. server \in [Messages -> HeldRow] /\ DOMAIN server = Messages /\ seen \in BOOLEAN
  BY DEF ListType
<1>2. Done(call) = IF {ThreadOf[m] : m \in ms} # call.of THEN server
                   ELSE [m \in Messages |-> new(m)]
  BY <1>1 DEF Done
<1>3. ms \subseteq Touched(call)
  BY DEF Touched
<1> HIDE DEF ms, seen
<1>4. ASSUME NEW m \in Messages PROVE new(m) \in HeldRow /\ (m \notin ms => new(m) = server[m])
  BY <1>1 DEF HeldRow
<1> HIDE DEF new
<1> QED
  BY <1>1, <1>2, <1>3, <1>4

LEMMA MoveAnsweredKeepsList ==
  ASSUME ListAssumption, ListInvariant, MoveAnswered
  PROVE  ListInvariant'
<1>1. ListType /\ calls.move \in MoveCall
  BY DEF ListInvariant, ListType, Calls, MoveAnswered, None
<1>2. UNCHANGED <<list, view, going>>
  BY DEF MoveAnswered
<1>3. /\ Done(calls.move) \in [Messages -> HeldRow]
      /\ \A m \in Messages \ Touched(calls.move) : Done(calls.move)[m] = server[m]
  BY <1>1, DoneType
<1>4. CASE server' = Done(calls.move) /\ calls' = [calls EXCEPT !.move.at = "done"] /\ Refresh
  <2>1. [calls.move EXCEPT !.at = "done"] \in MoveCall
    BY <1>1 DEF MoveCall
  <2>2. calls' = [calls EXCEPT !.move = [calls.move EXCEPT !.at = "done"]]
    BY <1>1, <1>4 DEF ListType, Calls
  <2>3. calls' \in Calls
    BY <1>1, <2>1, <2>2, CallsFields DEF ListType
  <2>4. ListType' /\ refresh'.at = "refresh"
    BY <1>1, <1>2, <1>3, <1>4, <2>3, RefreshType DEF ListType
  <2> QED
    BY <2>4, RefreshIsAsked
<1>5. CASE /\ server' \in {server, Done(calls.move)} /\ calls' = [calls EXCEPT !.move = None]
           /\ Overtake(Touched(calls.move)) /\ Differ(Touched(calls.move))
  <2>1. calls' \in Calls /\ calls'.read = calls.read /\ calls'.unseen = calls.unseen
    BY <1>1, <1>5, CallsFields DEF ListType
  <2>4. refresh' \in RefreshCalls /\ ListIsRecent' /\ (Busy(refresh') <=> Busy(refresh))
    <3>1. Touched(calls.move) \in SUBSET Messages /\ ListIsRecent
      BY <1>1 DEF Touched, ListType, ListInvariant
    <3>2. /\ server' \in [Messages -> HeldRow]
          /\ \A m \in Messages \ Touched(calls.move) : server'[m].read = server[m].read
      BY <1>1, <1>3, <1>5 DEF ListType
    <3> QED
      BY <1>1, <1>5, <3>1, <3>2, OvertakeKeeps
  <2>2. ListType'
    BY <1>1, <1>2, <1>3, <1>5, <2>1, <2>4 DEF ListType
  <2>3. ASSUME ~Busy(refresh), NEW m \in DOMAIN list, m \notin known' PROVE RowStands(m)'
    <3>1. m \notin Touched(calls.move) /\ m \notin known
      BY <1>5, <2>3, <2>4 DEF Differ
    <3>2. RowStands(m) /\ m \in Messages
      BY <1>1, <2>3, <3>1 DEF ListInvariant, ListType
    <3>3. server'[m] = server[m] /\ list' = list
      BY <1>2, <1>3, <1>5, <3>1, <3>2
    <3> QED
      BY <2>1, <3>2, <3>3 DEF RowStands, Mine, Aimed
  <2> QED
    BY <1>2, <2>2, <2>3, <2>4 DEF ListInvariant
<1> QED
  BY <1>4, <1>5 DEF MoveAnswered

LEMMA NavigationKeepsList ==
  ASSUME ListAssumption, ListInvariant, Close \/ AskRefresh \/ \E folder \in Boxes : GoTo(folder)
  PROVE  ListInvariant'
<1>1. ListType /\ view.folder \in Boxes
  BY DEF ListInvariant, ListType, Views
<1>2. CASE AskRefresh
  <2>1. ListType' /\ refresh'.at = "refresh"
    BY <1>1, <1>2, RefreshType DEF ListType, AskRefresh
  <2> QED
    BY <2>1, RefreshIsAsked
<1>3. CASE Close \/ \E folder \in Boxes : GoTo(folder)
  <2>1. PICK folder \in Boxes : GoingTo(Folder(folder))
    BY <1>1, <1>3 DEF Close, GoTo
  <2>2. Folder(folder) \in Views
    BY FolderIsView
  <2>3. UNCHANGED <<server, list, view, calls>>
    BY <1>3 DEF Close, GoTo
  <2>4. ListType' /\ refresh'.at = "refresh"
    BY <1>1, <2>1, <2>2, <2>3, GoingToType DEF ListType
  <2> QED
    BY <2>4, RefreshIsAsked
<1> QED
  BY <1>2, <1>3

\* Who waited for the list goes on, and asks for no reading.
LEMMA GoOnKeeps ==
  ASSUME ListAssumption, ListType, NEW c \in Calls,
         NEW listed, DOMAIN listed \subseteq Messages, GoOn(c, listed)
  PROVE  /\ calls' \in Calls /\ calls'.read = c.read /\ calls'.unseen = c.unseen
         /\ view' \in Views /\ going' \in Views \cup {None}
         /\ refresh' \in RefreshCalls /\ refresh'.at # "answer"
<1> DEFINE waited == LoadOpen(c, listed)
           forgotten == [c EXCEPT !.content = {}]
           first == LoadFirst(c, listed)
           loaded == IF Busy(going) THEN first ELSE waited
<1>1. view.open \in Threads \cup {NoThread}
  BY DEF ListType, Views
<1>2. waited \in Calls /\ waited.read = c.read /\ waited.unseen = c.unseen
  BY <1>1, LoadKeeps DEF LoadOpen
<1>3. forgotten \in Calls /\ forgotten.read = c.read /\ forgotten.unseen = c.unseen
  BY CallsFields
<1>4. ASSUME Busy(going)
      PROVE  first \in Calls /\ first.read = c.read /\ first.unseen = c.unseen
  <2>1. going.open \in Threads \cup {NoThread}
    BY <1>4 DEF ListType, Views, Busy, None
  <2>2. (\E m \in Of(going.open, listed) : TRUE) => going.open \in Threads
    BY DEF Of, ListAssumption
  <2>3. \/ first = forgotten
        \/ first = Load(forgotten, listed, going.open) /\ going.open \in Threads
    BY <2>2 DEF LoadFirst, Forget
  <2> HIDE DEF first, forgotten
  <2> QED
    BY <1>3, <2>3, LoadKeeps
<1> HIDE DEF waited, forgotten, first
<1>5. loaded \in Calls /\ loaded.read = c.read /\ loaded.unseen = c.unseen
  BY <1>2, <1>4
<1> HIDE DEF loaded
<1>6. calls' = loaded \/ calls' = [loaded EXCEPT !.move = None]
  BY DEF GoOn, loaded, waited, first
<1>7. calls' \in Calls /\ calls'.read = c.read /\ calls'.unseen = c.unseen
  <2>1. CASE calls' = loaded
    BY <1>5, <2>1
  <2>2. CASE calls' = [loaded EXCEPT !.move = None]
    <3>1. None \in MoveCall \cup {None}
      OBVIOUS
    <3>2. loaded = [read |-> loaded.read, unseen |-> loaded.unseen, move |-> loaded.move,
                   content |-> loaded.content]
      BY <1>5 DEF Calls
    <3>3. calls' = [read |-> loaded.read, unseen |-> loaded.unseen, move |-> None,
                    content |-> loaded.content]
      BY <2>2, <3>2
    <3> QED
      BY <1>5, <3>1, <3>3 DEF Calls
  <2> QED
    BY <1>6, <2>1, <2>2
<1>8. view' \in Views
  BY DEF GoOn, ListType, Busy, None
<1>9. /\ going' \in Views \cup {None}
      /\ refresh' \in RefreshCalls /\ refresh'.at # "answer"
  <2>1. CASE c.move.at = "done" /\ c.move.go # "stay"
    <3>1. c.move.go \in Boxes
      BY <2>1 DEF Calls, MoveCall, None
    <3>2. going' = Folder(c.move.go) /\ refresh' = [at |-> "refresh", asked |-> FALSE]
      BY <2>1 DEF GoOn
    <3> QED
      BY <3>1, <3>2, FolderIsView DEF RefreshCalls, RefreshAsked
  <2>2. CASE ~(c.move.at = "done" /\ c.move.go # "stay")
    BY <2>2 DEF GoOn, RefreshCalls, None
  <2> QED
    BY <2>1, <2>2
<1> QED
  BY <1>7, <1>8, <1>9

\* A list that was received tells what the server held; nobody holds its rows yet.
LEMMA NewListKeeps ==
  ASSUME ListAssumption, ListInvariant, UNCHANGED server,
         NEW held, DOMAIN held \subseteq Messages, held \in [DOMAIN held -> HeldRow],
         ~Busy(refresh') =>
             \A m \in DOMAIN held : held[m].read = server[m].read \/ m \in known',
         list' = Rows(held), GoOn(LetGo(calls, Messages), Rows(held))
  PROVE  ListInvariant'
<1> DEFINE c == LetGo(calls, Messages)
<1>1. ListType /\ calls \in Calls
  BY DEF ListInvariant, ListType
<1>3. /\ DOMAIN list' = DOMAIN held /\ list' \in [DOMAIN held -> ShownRow]
      /\ \A m \in DOMAIN held : list'[m].read = held[m].read
  BY FetchedType
<1>4. DOMAIN Rows(held) \subseteq Messages
  BY FetchedType
<1>5. /\ c \in Calls
      /\ Busy(c.unseen) <=> Busy(calls.unseen)
      /\ Busy(calls.unseen) => /\ c.unseen.of = calls.unseen.of
                               /\ c.unseen.held = calls.unseen.held \ Messages
  BY <1>1, LetGoKeeps
<1>6. \A m \in Messages : \A r \in c.read : r.of = m => ~r.held
  BY <1>1, LetGoReads
<1> HIDE DEF c
<1>7. /\ calls' \in Calls /\ calls'.read = c.read /\ calls'.unseen = c.unseen
      /\ view' \in Views /\ going' \in Views \cup {None}
      /\ refresh' \in RefreshCalls /\ refresh'.at # "answer"
  BY <1>1, <1>4, <1>5, GoOnKeeps DEF c
<1>8. ListType' /\ ListIsRecent'
  BY <1>1, <1>3, <1>7 DEF ListType, ListIsRecent
<1>9. ASSUME ~Busy(refresh'), NEW m \in DOMAIN held, m \notin known' PROVE RowStands(m)'
  <2>1. \A r \in Mine(m)' : ~r.held
    BY <1>6, <1>7 DEF Mine
  <2>2. Aimed(m)' => (m \notin calls.unseen.held)'
    BY <1>5, <1>7 DEF Aimed
  <2>3. list'[m].read = server'[m].read
    BY <1>3, <1>9
  <2>4. CASE Mine(m)' # {}
    BY <2>1, <2>4 DEF RowStands, Tells
  <2>5. CASE Aimed(m)'
    BY <2>2, <2>5 DEF RowStands, Tells
  <2>6. CASE Mine(m)' = {} /\ ~Aimed(m)'
    BY <2>3, <2>6 DEF RowStands, Tells
  <2> QED
    BY <2>4, <2>5, <2>6
<1> QED
  BY <1>3, <1>8, <1>9 DEF ListInvariant

LEMMA RefreshReadKeepsList ==
  ASSUME ListInvariant, RefreshRead
  PROVE  ListInvariant'
<1>1. ListType /\ Busy(refresh) /\ refresh.asked \in BOOLEAN
  BY DEF ListInvariant, ListType, RefreshRead, Busy, RefreshCalls, RefreshAsked, RefreshOnItsWay, None
<1>2. /\ refresh' = [at |-> "answer", asked |-> refresh.asked, held |-> server, late |-> {}]
      /\ UNCHANGED <<server, list, view, going, calls, known>>
  BY DEF RefreshRead
<1>3. refresh' \in RefreshOnItsWay /\ Busy(refresh')
  BY <1>1, <1>2 DEF RefreshOnItsWay, ListType, Busy
<1>4. ListType' /\ ListIsRecent'
  BY <1>1, <1>2, <1>3 DEF ListType, ListIsRecent, RefreshCalls
<1> QED
  BY <1>3, <1>4 DEF ListInvariant

LEMMA RefreshAnsweredKeepsList ==
  ASSUME ListAssumption, ListInvariant, RefreshAnswered
  PROVE  ListInvariant'
<1> DEFINE held == refresh.held
<1>1. ListType /\ refresh \in RefreshOnItsWay
  BY DEF ListInvariant, ListType, RefreshAnswered, RefreshCalls, RefreshAsked, None
<1>2. DOMAIN held = Messages /\ held \in [Messages -> HeldRow]
  BY <1>1 DEF RefreshOnItsWay
<1>3. \A m \in Messages : held[m].read = server[m].read \/ m \in refresh.late
  BY DEF ListInvariant, ListIsRecent, RefreshAnswered
<1>4. ~Busy(refresh') => known' = refresh.late
  BY DEF RefreshAnswered
<1>5. UNCHANGED server /\ list' = Rows(held) /\ GoOn(LetGo(calls, Messages), Rows(held))
  BY DEF RefreshAnswered
<1> HIDE DEF held
<1> QED
  BY <1>2, <1>3, <1>4, <1>5, NewListKeeps

LEMMA RefreshFailsKeepsList ==
  ASSUME ListAssumption, ListInvariant, RefreshFails
  PROVE  ListInvariant'
<1> DEFINE held == [m \in {} |-> server[m]]
<1>1. DOMAIN held = {} /\ held \in [DOMAIN held -> HeldRow]
  OBVIOUS
<1>2. UNCHANGED server /\ list' = Rows(held) /\ GoOn(LetGo(calls, Messages), Rows(held))
  BY DEF RefreshFails
<1> HIDE DEF held
<1> QED
  BY <1>1, <1>2, NewListKeeps

LEMMA ListInvariantStep ==
  ASSUME ListAssumption PROVE ListInvariant /\ [ListNext]_listVars => ListInvariant'
<1> SUFFICES ASSUME ListInvariant, [ListNext]_listVars PROVE ListInvariant'
  OBVIOUS
<1>1. CASE \E m \in Messages, together \in BOOLEAN : Open(m, together)
  BY <1>1, OpenKeepsList
<1>2. CASE Close \/ AskRefresh \/ \E folder \in Boxes : GoTo(folder)
  BY <1>2, NavigationKeepsList
<1>3. CASE RetryMarkRead
  BY <1>3, RetryKeepsList
<1>4. CASE MarkUnseen
  BY <1>4, MarkUnseenKeepsList
<1>5. CASE UnseenAnswered
  BY <1>5, UnseenAnsweredKeepsList
<1>6. CASE MoveAnswered
  BY <1>6, MoveAnsweredKeepsList
<1>7. CASE RefreshRead \/ RefreshAnswered \/ RefreshFails
  BY <1>7, RefreshReadKeepsList, RefreshAnsweredKeepsList, RefreshFailsKeepsList
<1>8. CASE \E r \in calls.read : ReadAnswered(r)
  BY <1>8, ReadAnsweredKeepsList
<1>9. CASE \E t \in calls.content : ContentAnswered(t)
  BY <1>9, ContentAnsweredKeepsList
<1>10. CASE \E folder \in Boxes : \E go \in Boxes : Act(folder, go)
  BY <1>10, ActKeepsList
<1>11. CASE \E ts \in SUBSET Threads : \E what \in BulkActions : Bulk(ts, what)
  BY <1>11, BulkKeepsList
<1>12. CASE UNCHANGED listVars
  BY <1>12 DEF listVars, ListInvariant, ListType, ListIsRecent, RowStands, Mine, Aimed
<1> QED
  BY <1>1, <1>2, <1>3, <1>4, <1>5, <1>6, <1>7, <1>8, <1>9, <1>10, <1>11, <1>12 DEF ListNext

\* Whatever is answered, a row that is not known to differ tells what the server holds,
\* or what the requests under way will make of it, unless one of them lost its row.
THEOREM ListInvariantHolds == ListSpec => []ListInvariant
BY ListAssumption, ListStarts, ListInvariantStep, PTL DEF ListSpec

\* What a row shows as read is what the server holds, for any number of messages, threads
\* and requests, in whatever order they are answered and however often the list is
\* replaced, unless one was lost, found its row replaced or crossed another, or the list
\* that came was read before it was carried out (useMailThreadContent.ts, MailView.vue).
THEOREM ReadStaysExplained == ListSpec => []ReadIsExplained
<1>1. ListInvariant => ReadIsExplained
  BY DEF ListInvariant, RowStands, Tells, Mine, Aimed, ReadIsExplained
<1> QED
  BY <1>1, ListInvariantHolds, PTL

-----------------------------------------------------------------------------
(* The editor of the subject.                                              *)

\* An open editor holds the text of the thread that is shown: whatever shows another
\* thread closes it.
EditorIsHere == editor.editing => editor.typedIn = shown.of

\* A save under way was asked for by the editor of its own thread.
SavesAreOwn == \A a \in asked : a.kind = "subject" => a.of = a.typedIn

PanelType ==
    /\ shown \in [page : Pages, of : Conversations \cup {NoConversation}, together : BOOLEAN]
    /\ editor \in [editing : BOOLEAN, typedIn : Conversations \cup {NoConversation}]
    /\ subjects \in [Conversations -> Conversations \cup {NoConversation}]

PanelInvariant == PanelType /\ EditorIsHere /\ SavesAreOwn /\ SubjectIsItsOwn

LEMMA PanelStarts == PanelInit => PanelInvariant
BY DEF PanelInit, PanelInvariant, PanelType, EditorIsHere, SavesAreOwn, SubjectIsItsOwn, Closed, Pages

\* Another page, or none: its editor is closed.
LEMMA NavigateIsClosed ==
  ASSUME PanelType, NEW o, NEW t \in Conversations \cup {NoConversation}, NEW together \in BOOLEAN,
         Navigate(o, t, together)
  PROVE  /\ shown' \in [page : Pages, of : Conversations \cup {NoConversation}, together : BOOLEAN]
         /\ editor' \in [editing : BOOLEAN, typedIn : Conversations \cup {NoConversation}]
         /\ ~editor.editing'
BY DEF Navigate, PanelType, Closed, Pages


\* An answer never makes a thread's subject another's.
LEMMA SubjectSaved ==
  ASSUME PanelInvariant, NEW a \in asked, SubjectAnswered(a)
  PROVE  PanelInvariant'
<1> DEFINE kept == [subjects EXCEPT ![a.of] = a.typedIn]
<1>1. kept = subjects
  BY DEF PanelInvariant, SavesAreOwn, SubjectIsItsOwn, SubjectAnswered, PanelType
<1>2. subjects' = subjects /\ shown' = shown
  BY <1>1 DEF SubjectAnswered
<1>3. editor' \in {editor, ResetEditor(editor)}
  BY DEF SubjectAnswered
<1>4. \A b \in asked' : b \in asked
  BY DEF SubjectAnswered, Answered
<1> QED
  BY <1>2, <1>3, <1>4 DEF PanelInvariant, PanelType, EditorIsHere, SavesAreOwn, SubjectIsItsOwn, ResetEditor

\* A change that is answered closes the thread and with it the editor, or leaves both.
LEMMA ChangeKeepsSubjects ==
  ASSUME PanelInvariant, NEW a \in asked, ChangeAnswered(a)
  PROVE  PanelInvariant'
<1>1. subjects' = subjects /\ \A b \in asked' : b \in asked
  BY DEF ChangeAnswered, Answered
<1>2. CASE UNCHANGED <<shown, editor>>
  BY <1>1, <1>2 DEF PanelInvariant, PanelType, EditorIsHere, SavesAreOwn, SubjectIsItsOwn
<1>3. CASE \E o : Navigate(o, NoConversation, FALSE)
  <2>1. PICK o : Navigate(o, NoConversation, FALSE)
    BY <1>3
  <2>2. PanelType
    BY DEF PanelInvariant
  <2> QED
    BY <1>1, <2>1, <2>2, NavigateIsClosed DEF PanelInvariant, PanelType, EditorIsHere, SavesAreOwn, SubjectIsItsOwn
<1> QED
  BY <1>2, <1>3 DEF ChangeAnswered, Succeeds, Fails

LEMMA PanelSteps == PanelInvariant /\ [PanelNext]_panelVars => PanelInvariant'
<1> SUFFICES ASSUME PanelInvariant, [PanelNext]_panelVars PROVE PanelInvariant'
  OBVIOUS
<1> USE DEF PanelInvariant, PanelType, EditorIsHere, SavesAreOwn, SubjectIsItsOwn
<1>1. CASE ClearAll \/ Undo
  BY <1>1 DEF ClearAll, Undo, Ask
<1>2. CASE \E scope \in Scopes : SaveClassification(scope) \/ ScreenerAction(scope)
  BY <1>2 DEF SaveClassification, ScreenerAction, Ask
<1>3. CASE BeginEdit
  BY <1>3 DEF BeginEdit
<1>4. CASE CancelEdit
  BY <1>4 DEF CancelEdit, ResetEditor
<1>5. CASE SaveSubject
  BY <1>5 DEF SaveSubject, Ask
<1>6. CASE \E a \in asked : ChangeAnswered(a)
  BY <1>6, ChangeKeepsSubjects
<1>7. CASE \E a \in asked : UndoAnswered(a)
  BY <1>7 DEF UndoAnswered, Answered
<1>8. CASE \E a \in asked : SubjectAnswered(a)
  BY <1>8, SubjectSaved
<1>9. CASE \E id \in offer.timers : OfferTimerFires(id)
  BY <1>9 DEF OfferTimerFires
<1>10. CASE \/ Go(NoConversation, FALSE)
            \/ \E t \in Conversations, together \in BOOLEAN : Go(t, together)
  <2>1. PICK t \in Conversations \cup {NoConversation}, together \in BOOLEAN : Go(t, together)
    BY <1>10
  <2> QED
    BY <2>1, NavigateIsClosed DEF Go
<1>11. CASE \E t \in Conversations : Select(t)
  BY <1>11 DEF Select, ResetEditor
<1>12. CASE UNCHANGED panelVars
  BY <1>12 DEF panelVars
<1> QED
  BY <1>1, <1>2, <1>3, <1>4, <1>5, <1>6, <1>7, <1>8, <1>9, <1>10, <1>11, <1>12 DEF PanelNext

\* A thread is never given the subject typed in another thread's editor: the editor
\* closes when another thread is shown, and a save names the thread it was asked for
\* (useMailThreadSubject.ts).
THEOREM SubjectStaysItsOwn == PanelSpec => []SubjectIsItsOwn
<1>1. PanelInvariant => SubjectIsItsOwn
  BY DEF PanelInvariant
<1> QED
  BY <1>1, PanelStarts, PanelSteps, PTL DEF PanelSpec


-----------------------------------------------------------------------------
(* The contacts: what their variables hold.                                *)

Cards == [addresses : Seq(Addresses), photo : Photos \cup {NoPhoto}]

Contact == [avatar : Nat, from : Cards]

AddressRow == [address : Addresses, contact : Nat, primary : BOOLEAN]

CardRequests ==
    [step : {"sent", "found", "checked"}, source : Addresses, holder : SUBSET Nat,
     target : SUBSET Nat, primary : Addresses, others : SUBSET Addresses]

PhotoRequests ==
    [step : {"read", "put", "named"}, of : Nat, photo : Photos \cup {NoPhoto}, old : Nat, key : Nat]

Imports ==
    [cards : {<<>>} \cup Files, left : SUBSET Nat, checked : BOOLEAN, used : SUBSET Addresses,
     created : Seq([id : Nat, primary : Addresses]), photos : Nat]

PageStates ==
    [step : {"idle", "importing", "photos"}, known : SUBSET Addresses,
     preview : {<<>>} \cup Files, chosen : SUBSET Nat, import : Imports, replaced : BOOLEAN]

\* The cards that can be made a contact.
Addressed(cards) == {i \in DOMAIN cards : cards[i].addresses # <<>>}

ContactsType ==
    /\ contacts \in Seq(Contact)
    /\ rows \subseteq AddressRow
    /\ photos \in Seq(Photos)
    /\ saving \in [Editors -> CardRequests \cup {Free}]
    /\ taking \in [Photographers -> PhotoRequests \cup {Free}]
    /\ page \in PageStates
    /\ page.chosen \subseteq Addressed(page.preview)
    /\ page.import.left \subseteq Addressed(page.import.cards)

LEMMA FilesHoldCards ==
  ASSUME NEW f \in {<<>>} \cup Files
  PROVE  /\ f \in Seq(Cards)
         /\ \A i \in DOMAIN f : f[i] \in Cards
         /\ DOMAIN f \subseteq Nat
<1>1. f \in Seq(Cards)
  <2>1. Files \subseteq Seq(Cards)
    BY ContactsAssumption DEF Cards
  <2>2. <<>> \in Seq(Cards)
    OBVIOUS
  <2> QED
    BY <2>1, <2>2
<1> QED
  BY <1>1

LEMMA CardsHoldAddresses ==
  ASSUME NEW card \in Cards
  PROVE  /\ AddressesIn(card) \subseteq Addresses
         /\ card.addresses # <<>> =>
               Head(card.addresses) \in Addresses /\ Head(card.addresses) \in AddressesIn(card)
BY DEF Cards, AddressesIn, ToSet

LEMMA RowsHoldAddresses ==
  ASSUME NEW W \in SUBSET Addresses, NEW c \in Nat, NEW first,
         NEW r \in CardRows(W, first, c)
  PROVE  r \in AddressRow
<1>1. PICK a \in W : r = Row(a, c, a = first)
  BY DEF CardRows
<1>2. PICK b \in BOOLEAN : b = (a = first)
  OBVIOUS
<1>3. r = [address |-> a, contact |-> c, primary |-> b]
  BY <1>1, <1>2 DEF Row
<1> QED
  BY <1>3 DEF AddressRow

LEMMA Appended ==
  ASSUME NEW S, NEW q \in Seq(S), NEW x \in S
  PROVE  /\ Append(q, x) \in Seq(S)
         /\ Len(Append(q, x)) = Len(q) + 1
         /\ DOMAIN Append(q, x) = DOMAIN q \cup {Len(q) + 1}
         /\ Append(q, x)[Len(q) + 1] = x
         /\ \A i \in DOMAIN q : Append(q, x)[i] = q[i]
OBVIOUS

LEMMA ContactsStart == ContactsInit => ContactsType
<1> SUFFICES ASSUME ContactsInit PROVE ContactsType
  OBVIOUS
<1>1. NoCard \in Cards
  BY DEF NoCard, Cards
<1>2. contacts \in Seq(Contact)
  <2>1. [avatar |-> 1, from |-> NoCard] \in Contact
    BY <1>1 DEF Contact
  <2> QED
    BY <2>1 DEF ContactsInit
<1>3. rows \subseteq AddressRow
  BY DEF ContactsInit, Row, AddressRow
<1>4. NoImport \in Imports
  BY DEF NoImport, Imports
<1>5. page \in PageStates
  BY <1>4 DEF ContactsInit, PageStates
<1>6. page.chosen = {} /\ page.import.left = {}
  BY DEF ContactsInit, NoImport
<1>7. photos \in Seq(Photos)
  BY DEF ContactsInit
<1>8. /\ saving \in [Editors -> CardRequests \cup {Free}]
      /\ taking \in [Photographers -> PhotoRequests \cup {Free}]
  BY DEF ContactsInit
<1> QED
  BY <1>2, <1>3, <1>5, <1>6, <1>7, <1>8 DEF ContactsType

\* The requests of the editors.
LEMMA SavingType ==
  ASSUME ContactsType, ContactsNext
  PROVE  saving' \in [Editors -> CardRequests \cup {Free}]
<1> USE DEF ContactsType
<1>1. \A a : HolderOf(a) \subseteq Nat
  BY DEF HolderOf, AddressRow
<1>2. ASSUME NEW e \in Editors, NEW a \in Addresses, OpenEditor(e, a) PROVE saving' \in [Editors -> CardRequests \cup {Free}]
  BY <1>1, <1>2 DEF OpenEditor, CardRequests
<1>3. ASSUME NEW e \in Editors, LookUp(e) PROVE saving' \in [Editors -> CardRequests \cup {Free}]
  <2>1. saving[e] \in CardRequests
    BY <1>3 DEF LookUp, Free
  <2> QED
    BY <1>1, <1>3, <2>1 DEF LookUp, CardRequests
<1>4. ASSUME NEW e \in Editors, CheckCard(e) PROVE saving' \in [Editors -> CardRequests \cup {Free}]
  <2>1. saving[e] \in CardRequests
    BY <1>4 DEF CheckCard, Free
  <2>2. saving' = [saving EXCEPT ![e] = Free] \/ saving' = [saving EXCEPT ![e] = [saving[e] EXCEPT !.step = "checked"]]
    BY <1>4 DEF CheckCard
  <2>3. [saving[e] EXCEPT !.step = "checked"] \in CardRequests
    BY <2>1 DEF CardRequests
  <2> QED
    BY <2>2, <2>3
<1>5. ASSUME NEW e \in Editors, CreateCard(e) PROVE saving' \in [Editors -> CardRequests \cup {Free}]
  BY <1>5 DEF CreateCard, CardRequests
<1>6. ASSUME NEW e \in Editors, SaveCard(e) PROVE saving' \in [Editors -> CardRequests \cup {Free}]
  BY <1>6 DEF SaveCard
<1>7. CASE TakesPhotos(Photographers) \/ ImportsCards
  <2>1. UNCHANGED saving
    BY <1>7 DEF TakesPhotos, ImportsCards, StartRemoval, Upload, PutPhoto, NamePhoto, NamingFails,
       FreePhoto, RemovePhoto, LoadContacts, CloseImport, ImportSelected, ImportCheck, ImportCard,
       ImportAnswered, SendPhoto, ImportDone, ReadVcard, Toggle
  <2> QED
    BY <2>1
<1> QED
  BY <1>2, <1>3, <1>4, <1>5, <1>6, <1>7 DEF ContactsNext, SavesCards

\* The rows: those of a card that was saved or imported are new.
LEMMA RowsType ==
  ASSUME ContactsType, ContactsNext
  PROVE  /\ rows' \subseteq AddressRow
         /\ contacts' \in Seq(Contact)
<1> USE DEF ContactsType
<1>1. NoCard \in Cards
  BY DEF NoCard, Cards
<1>2. ASSUME NEW e \in Editors, SaveCard(e)
      PROVE  /\ rows' \subseteq AddressRow
             /\ contacts' \in Seq(Contact)
  <2> DEFINE s == saving[e]
             c == IF s.target = {} THEN Len(contacts) + 1 ELSE CHOOSE x \in s.target : TRUE
  <2>1. s \in CardRequests
    BY <1>2 DEF SaveCard, Free
  <2>2. c \in Nat
    BY <2>1 DEF CardRequests
  <2>3. CardRows(Wanted(s), s.primary, c) \subseteq AddressRow
    <3>1. Wanted(s) \subseteq Addresses
      BY <2>1 DEF CardRequests, Wanted
    <3> HIDE DEF s, c
    <3> QED
      BY <2>2, <3>1, RowsHoldAddresses
  <2>4. rows' \subseteq rows \cup CardRows(Wanted(s), s.primary, c)
    BY <1>2 DEF SaveCard, SavedRows
  <2>5. contacts' = Append(contacts, [avatar |-> NoKey, from |-> NoCard]) \/ contacts' = contacts
    BY <1>2 DEF SaveCard
  <2>6. rows' \subseteq AddressRow
    BY <2>3, <2>4
  <2>7. [avatar |-> NoKey, from |-> NoCard] \in Contact
    BY <1>1 DEF NoKey, Contact
  <2>8. contacts' \in Seq(Contact)
    BY <2>5, <2>7, Appended
  <2> QED
    BY <2>6, <2>8
<1>3. ASSUME ImportCard
      PROVE  /\ rows' \subseteq AddressRow
             /\ contacts' \in Seq(Contact)
  <2>1. PICK n \in First(page.import.left) :
           /\ rows' \subseteq rows \cup CardRows(AddressesIn(page.import.cards[n]),
                                                Head(page.import.cards[n].addresses), Len(contacts) + 1)
           /\ \/ contacts' = contacts
              \/ contacts' = Append(contacts, [avatar |-> NoKey, from |-> page.import.cards[n]])
    BY <1>3 DEF ImportCard
  <2>2. page.import.cards[n] \in Cards
    <3>1. n \in DOMAIN page.import.cards
      BY DEF First, Addressed
    <3>2. page.import.cards \in {<<>>} \cup Files
      BY DEF PageStates, Imports
    <3> QED
      BY <3>1, <3>2, FilesHoldCards
  <2>3. PICK card : card = page.import.cards[n]
    OBVIOUS
  <2>4. AddressesIn(card) \subseteq Addresses /\ Len(contacts) + 1 \in Nat
    BY <2>2, <2>3, CardsHoldAddresses
  <2>5. rows' \subseteq AddressRow
    BY <2>1, <2>3, <2>4, RowsHoldAddresses
  <2>6. contacts' \in Seq(Contact)
    <3>1. [avatar |-> NoKey, from |-> card] \in Contact
      BY <2>2, <2>3 DEF NoKey, Contact
    <3>2. contacts \in Seq(Contact)
      BY DEF ContactsType
    <3>3. Append(contacts, [avatar |-> NoKey, from |-> card]) \in Seq(Contact)
      BY <3>1, <3>2, Appended
    <3>4. contacts' = contacts \/ contacts' = Append(contacts, [avatar |-> NoKey, from |-> card])
      BY <2>1, <2>3
    <3> QED
      BY <3>2, <3>3, <3>4
  <2> QED
    BY <2>5, <2>6
<1>4. ASSUME NEW u \in Photographers, NamePhoto(u) \/ NamingFails(u) \/ RemovePhoto(u)
      PROVE  rows' = rows /\ contacts' \in Seq(Contact)
  <2>1. taking[u] \in PhotoRequests
    BY <1>4 DEF NamePhoto, NamingFails, RemovePhoto, Free
  <2>2. PICK k \in Nat, c \in Nat : contacts' = contacts \/ contacts' = [contacts EXCEPT ![c].avatar = k]
    BY <1>4, <2>1 DEF NamePhoto, NamingFails, RemovePhoto, NoKey, PhotoRequests
  <2>3. contacts' \in Seq(Contact)
    <3>1. CASE c \in 1..Len(contacts)
      <4>0. contacts[c] \in Contact
        BY <3>1
      <4>1. [contacts[c] EXCEPT !.avatar = k] \in Contact
        BY <4>0 DEF Contact
      <4>2. [contacts EXCEPT ![c] = [contacts[c] EXCEPT !.avatar = k]] \in Seq(Contact)
        BY <3>1, <4>1
      <4> QED
        BY <2>2, <4>2
    <3>2. CASE c \notin 1..Len(contacts)
      BY <2>2, <3>2
    <3> QED
      BY <3>1, <3>2
  <2> QED
    BY <1>4, <2>3 DEF NamePhoto, NamingFails, RemovePhoto
<1>5. CASE UNCHANGED <<rows, contacts>>
  BY <1>5
<1> QED
  BY <1>2, <1>3, <1>4, <1>5 DEF ContactsNext, SavesCards, TakesPhotos, ImportsCards, OpenEditor, LookUp,
     CheckCard, CreateCard, StartRemoval, Upload, PutPhoto, FreePhoto, LoadContacts, CloseImport,
     ImportSelected, ImportCheck, ImportAnswered, SendPhoto, ImportDone, ReadVcard, Toggle


\* The requests for photos.
LEMMA TakingType ==
  ASSUME ContactsType, ContactsNext
  PROVE  /\ taking' \in [Photographers -> PhotoRequests \cup {Free}]
         /\ photos' \in Seq(Photos)
<1> DEFINE Goal == /\ taking' \in [Photographers -> PhotoRequests \cup {Free}]
                   /\ photos' \in Seq(Photos)
<1> USE DEF ContactsType
<1>1. ASSUME NEW u \in Photographers, NEW c, NEW photo \in Photos \cup {NoPhoto}, StartUpload(u, c, photo)
      PROVE  taking' \in [Photographers -> PhotoRequests \cup {Free}]
  <2>1. contacts[c] \in Contact /\ c \in Nat
    BY <1>1 DEF StartUpload
  <2> QED
    BY <1>1, <2>1 DEF StartUpload, PhotoRequest, PhotoRequests, NoKey, Contact
<1>2. ASSUME NEW u \in Photographers, NEW c, StartRemoval(u, c)
      PROVE  taking' \in [Photographers -> PhotoRequests \cup {Free}]
  <2>1. contacts[c] \in Contact /\ c \in Nat
    BY <1>2 DEF StartRemoval
  <2> QED
    BY <1>2, <2>1 DEF StartRemoval, PhotoRequest, PhotoRequests, NoKey, Contact
<1>3. ASSUME NEW u \in Photographers, PutPhoto(u) PROVE Goal
  <2>1. taking[u] \in PhotoRequests
    BY <1>3 DEF PutPhoto, Free
  <2>2. taking[u].photo \in Photos
    BY <1>3, <2>1 DEF PutPhoto, PhotoRequests
  <2>3. photos' \in Seq(Photos)
    BY <1>3, <2>2, Appended DEF PutPhoto
  <2>4. [taking[u] EXCEPT !.step = "put", !.key = Len(photos) + 1] \in PhotoRequests
    <3>1. Len(photos) + 1 \in Nat
      OBVIOUS
    <3> QED
      BY <2>1, <3>1 DEF PhotoRequests
  <2> QED
    BY <1>3, <2>3, <2>4 DEF PutPhoto
<1>4. ASSUME NEW u \in Photographers, NamePhoto(u) \/ RemovePhoto(u) PROVE Goal
  <2>1. taking[u] \in PhotoRequests
    BY <1>4 DEF NamePhoto, RemovePhoto, Free
  <2>2. [taking[u] EXCEPT !.step = "named"] \in PhotoRequests
    BY <2>1 DEF PhotoRequests
  <2> QED
    BY <1>4, <2>2 DEF NamePhoto, RemovePhoto
<1>5. ASSUME NEW u \in Photographers, NamingFails(u) \/ FreePhoto(u) PROVE Goal
  BY <1>5 DEF NamingFails, FreePhoto
<1>6. CASE SendPhoto
  <2>1. ThePage \in Photographers /\ photos' = photos
    BY <1>6, ContactsAssumption DEF SendPhoto
  <2>2. CASE UNCHANGED taking
    BY <2>1, <2>2
  <2>3. CASE \E p \in PhotoFor(Head(page.import.created).primary) :
                StartUpload(ThePage, Head(page.import.created).id, p)
    <3>1. PICK p \in PhotoFor(Head(page.import.created).primary) :
             StartUpload(ThePage, Head(page.import.created).id, p)
      BY <2>3
    <3>2. PICK i \in page.chosen : p = page.preview[i].photo
      BY <3>1 DEF PhotoFor, First
    <3>3. page.preview[i] \in Cards
      BY <3>2, FilesHoldCards DEF PageStates, Addressed
    <3>4. p \in Photos \cup {NoPhoto}
      BY <3>2, <3>3 DEF Cards
    <3> QED
      BY <1>1, <2>1, <3>1, <3>4
  <2> QED
    BY <1>6, <2>2, <2>3 DEF SendPhoto
<1>7. CASE UNCHANGED <<taking, photos>>
  BY <1>7
<1> QED
  BY <1>1, <1>2, <1>3, <1>4, <1>5, <1>6, <1>7 DEF ContactsNext, SavesCards, TakesPhotos, ImportsCards,
     OpenEditor, LookUp, CheckCard, CreateCard, SaveCard, Upload, StartRemoval, LoadContacts, CloseImport,
     ImportSelected, ImportCheck, ImportCard, ImportAnswered, ImportDone, ReadVcard, Toggle

\* What the page does to its import.
LEMMA ImportMade ==
  ASSUME NEW i \in Imports
  PROVE  [i EXCEPT !.cards = <<>>] \in Imports /\ [i EXCEPT !.cards = <<>>].left = i.left
BY DEF Imports

LEMMA PhotoOfImport ==
  ASSUME NEW i \in Imports, NEW k \in Nat, NEW created \in Seq([id : Nat, primary : Addresses])
  PROVE  /\ [i EXCEPT !.created = created, !.photos = k] \in Imports
         /\ [i EXCEPT !.created = created, !.photos = k].left = i.left
         /\ [i EXCEPT !.created = created, !.photos = k].cards = i.cards
BY DEF Imports

LEMMA NothingImported == NoImport \in Imports /\ NoImport.left = {} /\ NoImport.cards = <<>>
BY DEF NoImport, Imports

\* The page and its import.
LEMMA PageType ==
  ASSUME ContactsType, ContactsNext
  PROVE  /\ page' \in PageStates
         /\ page'.chosen \subseteq Addressed(page'.preview)
         /\ page'.import.left \subseteq Addressed(page'.import.cards)
<1> DEFINE Goal == /\ page' \in PageStates
                   /\ page'.chosen \subseteq Addressed(page'.preview)
                   /\ page'.import.left \subseteq Addressed(page'.import.cards)
<1> USE DEF ContactsType
<1>0. Held \subseteq Addresses
  BY DEF Held, AddressRow
<1>1. CASE LoadContacts \/ CloseImport
  BY <1>0, <1>1 DEF LoadContacts, CloseImport, PageStates
<1>2. ASSUME NEW f \in Files, ReadVcard(f) PROVE Goal
  <2>1. Choosable(f) \subseteq Addressed(f) /\ Choosable(f) \subseteq Nat
    BY FilesHoldCards DEF Choosable, Addressed
  <2>2. PICK b \in BOOLEAN : b = (page.replaced \/ page.step # "idle")
    OBVIOUS
  <2>3. page' = [page EXCEPT !.preview = f, !.chosen = Choosable(f), !.replaced = b]
    BY <1>2, <2>2 DEF ReadVcard
  <2> QED
    BY <2>1, <2>3 DEF PageStates
<1>3. ASSUME NEW i \in DOMAIN page.preview, Toggle(i) PROVE Goal
  <2>1. i \in Addressed(page.preview) /\ i \in Nat
    BY <1>3, FilesHoldCards DEF Toggle, Choosable, Addressed, PageStates
  <2> QED
    BY <1>3, <2>1 DEF Toggle, PageStates
<1>4. CASE ImportSelected
  <2> DEFINE i == [NoImport EXCEPT !.cards = page.preview, !.left = page.chosen]
  <2>1. i \in Imports /\ i.cards = page.preview /\ i.left = page.chosen
    <3>1. page.preview \in {<<>>} \cup Files /\ page.chosen \in SUBSET Nat
      BY DEF PageStates
    <3> QED
      <4>1. PICK none \in Imports : none = NoImport
        BY NothingImported
      <4>2. PICK cards \in {<<>>} \cup Files, left \in SUBSET Nat : cards = page.preview /\ left = page.chosen
        BY <3>1
      <4>3. i = [none EXCEPT !.cards = cards, !.left = left]
        BY <4>1, <4>2
      <4> HIDE DEF i
      <4>4. i \in Imports /\ i.cards = cards /\ i.left = left
        BY <4>3 DEF Imports
      <4> QED
        BY <4>2, <4>4
  <2>2. page' = [page EXCEPT !.step = "importing", !.replaced = FALSE, !.import = i]
    BY <1>4 DEF ImportSelected
  <2> HIDE DEF i
  <2> QED
    BY <2>1, <2>2 DEF PageStates
<1>5. ASSUME NEW n \in page.import.left
      PROVE  /\ NextCard(page.import, n) \in Imports
             /\ NextCard(page.import, n).left \subseteq page.import.left
             /\ NextCard(page.import, n).cards = page.import.cards
             /\ NextCard(page.import, n).created = page.import.created
  <2>1. page.import \in Imports
    BY DEF PageStates
  <2>2. page.import.cards[n] \in Cards
    BY <1>5, <2>1, FilesHoldCards DEF Imports, Addressed
  <2> QED
    BY <2>1, <2>2, CardsHoldAddresses DEF NextCard, Imports
<1>6. CASE ImportCheck
  <2>1. PICK n \in First(page.import.left) :
           \/ page' = [page EXCEPT !.import = NextCard(page.import, n)]
           \/ page' = [page EXCEPT !.import = [page.import EXCEPT !.checked = TRUE]]
    BY <1>6 DEF ImportCheck
  <2>3. PICK i : /\ i \in {NextCard(page.import, n), [page.import EXCEPT !.checked = TRUE]}
                 /\ page' = [page EXCEPT !.import = i]
    BY <2>1
  <2>2. i \in Imports /\ i.cards = page.import.cards /\ i.left \subseteq page.import.left
    <3>1. n \in page.import.left /\ page.import \in Imports
      BY DEF First, PageStates
    <3>2. CASE i = NextCard(page.import, n)
      BY <1>5, <3>1, <3>2
    <3>3. CASE i = [page.import EXCEPT !.checked = TRUE]
      BY <3>1, <3>3 DEF Imports
    <3> QED
      BY <2>3, <3>2, <3>3
  <2> QED
    BY <2>3, <2>2 DEF PageStates
<1>7. CASE ImportCard
  <2>1. PICK n \in First(page.import.left) : \E created :
           /\ created \in {NextCard(page.import, n).created,
                          Append(NextCard(page.import, n).created,
                              [id |-> Len(contacts) + 1, primary |-> Head(page.import.cards[n].addresses)])}
           /\ page' = [page EXCEPT !.import = [NextCard(page.import, n) EXCEPT !.created = created]]
    BY <1>7 DEF ImportCard
  <2>11. PICK created :
           /\ created \in {NextCard(page.import, n).created,
                          Append(NextCard(page.import, n).created,
                              [id |-> Len(contacts) + 1, primary |-> Head(page.import.cards[n].addresses)])}
           /\ page' = [page EXCEPT !.import = [NextCard(page.import, n) EXCEPT !.created = created]]
    BY <2>1
  <2>2. n \in page.import.left /\ page.import \in Imports
    BY <2>1 DEF First, PageStates
  <2>3. Head(page.import.cards[n].addresses) \in Addresses
    BY <2>2, FilesHoldCards, CardsHoldAddresses DEF Addressed, Imports
  <2>4. [id |-> Len(contacts) + 1, primary |-> Head(page.import.cards[n].addresses)] \in [id : Nat, primary : Addresses]
    BY <2>3
  <2>5. PICK next : next = NextCard(page.import, n)
    OBVIOUS
  <2>6. /\ next \in Imports /\ next.left \subseteq page.import.left
        /\ next.cards = page.import.cards
    BY <1>5, <2>2, <2>5
  <2>7. next.created \in Seq([id : Nat, primary : Addresses])
    BY <2>6 DEF Imports
  <2>8. created \in Seq([id : Nat, primary : Addresses])
    <3>1. PICK made \in [id : Nat, primary : Addresses] :
             made = [id |-> Len(contacts) + 1, primary |-> Head(page.import.cards[n].addresses)]
      BY <2>4
    <3>2. Append(next.created, made) \in Seq([id : Nat, primary : Addresses])
      BY <2>7, <3>1, Appended
    <3>3. created \in {next.created, Append(next.created, made)}
      BY <2>11, <2>5, <3>1
    <3> QED
      BY <2>7, <3>2, <3>3
  <2>9. page' = [page EXCEPT !.import = [next EXCEPT !.created = created]]
    BY <2>11, <2>5
  <2>10. /\ [next EXCEPT !.created = created] \in Imports
         /\ [next EXCEPT !.created = created].left = next.left
         /\ [next EXCEPT !.created = created].cards = next.cards
    BY <2>6, <2>8 DEF Imports
  <2> QED
    BY <2>6, <2>9, <2>10 DEF PageStates
<1>8. CASE ImportAnswered
  <2>1. \/ page' = [page EXCEPT !.step = "idle", !.import = NoImport]
        \/ page' = [page EXCEPT !.step = "photos", !.import = [page.import EXCEPT !.cards = <<>>]]
    BY <1>8 DEF ImportAnswered
  <2>2. page.import \in Imports /\ page.import.left = {}
    BY <1>8 DEF ImportAnswered, PageStates
  <2>3. PICK i : /\ i \in {NoImport, [page.import EXCEPT !.cards = <<>>]}
                 /\ \E step \in {"idle", "photos"} : page' = [page EXCEPT !.step = step, !.import = i]
    BY <2>1
  <2>4. i \in Imports /\ i.left = {}
    BY <2>2, <2>3, ImportMade, NothingImported
  <2> QED
    BY <2>3, <2>4 DEF PageStates
<1>9. CASE SendPhoto
  <2>1. page.import \in Imports
    BY DEF PageStates
  <2>2. page.import.created \in Seq([id : Nat, primary : Addresses]) /\ page.import.created # <<>>
    BY <1>9, <2>1 DEF SendPhoto, Imports
  <2>3. Tail(page.import.created) \in Seq([id : Nat, primary : Addresses])
    BY <2>2
  <2>4. page' = [page EXCEPT !.import = [page.import EXCEPT !.created = Tail(page.import.created),
                                                            !.photos = page.import.photos + 1]]
    BY <1>9 DEF SendPhoto, PageStates
  <2>5. PICK i : i = [page.import EXCEPT !.created = Tail(page.import.created),
                                         !.photos = page.import.photos + 1]
    OBVIOUS
  <2>6. i \in Imports /\ i.left = page.import.left /\ i.cards = page.import.cards
    <3>1. page.import.photos + 1 \in Nat
      BY <2>1 DEF Imports
    <3> QED
      BY <2>1, <2>3, <2>5, <3>1, PhotoOfImport
  <2> QED
    BY <2>4, <2>5, <2>6 DEF PageStates
<1>10. CASE ImportDone
  BY <1>0, <1>10 DEF ImportDone, PageStates, NoImport, Imports
<1>11. CASE UNCHANGED page
  BY <1>11
<1> QED
  BY <1>1, <1>2, <1>3, <1>4, <1>6, <1>7, <1>8, <1>9, <1>10, <1>11 DEF ContactsNext, SavesCards,
     TakesPhotos, ImportsCards, OpenEditor, LookUp, CheckCard, CreateCard, SaveCard, Upload, StartRemoval,
     PutPhoto, NamePhoto, NamingFails, FreePhoto, RemovePhoto

LEMMA ContactsTypeStep == ContactsType /\ ContactsNext => ContactsType'
BY SavingType, RowsType, TakingType, PageType DEF ContactsType


-----------------------------------------------------------------------------
(* A contact is whole: it has one primary address, and no address is two   *)
(* contacts'.                                                              *)

Primaries(c) == {r \in rows : r.contact = c /\ r.primary}

CardsAreWhole ==
    /\ \A c \in DOMAIN contacts : \E r : Primaries(c) = {r}
    /\ \A r, s \in rows : r.address = s.address => r = s
    /\ \A r \in rows : r.contact \in DOMAIN contacts

\* None, or one of the contacts.
StandsFor(S) == S = {} \/ \E c \in DOMAIN contacts : S = {c}

\* An editor keeps the contact it was opened for.
TargetsStand ==
    \A e \in Editors : saving[e] # Free => StandsFor(saving[e].holder) /\ StandsFor(saving[e].target)

LEMMA HoldersStand ==
  ASSUME CardsAreWhole, NEW a
  PROVE  StandsFor(HolderOf(a))
<1>1. CASE \E r \in rows : r.address = a
  <2>1. PICK r \in rows : r.address = a
    BY <1>1
  <2>2. \A x \in rows : x.address = a => x = r
    BY <2>1 DEF CardsAreWhole
  <2>3. HolderOf(a) = {r.contact}
    BY <2>1, <2>2 DEF HolderOf
  <2> QED
    BY <2>1, <2>3 DEF StandsFor, CardsAreWhole
<1>2. CASE ~\E r \in rows : r.address = a
  BY <1>2 DEF HolderOf, StandsFor
<1> QED
  BY <1>1, <1>2

\* A contact whose rows are those of a new card is whole, and so is every other, if no
\* other holds an address of the card.
LEMMA CardReplaced ==
  ASSUME ContactsType, CardsAreWhole, NEW W \in SUBSET Addresses, NEW first \in W, NEW c \in Nat,
         \A r \in rows : r.contact # c => r.address \notin W,
         rows' = {r \in rows : r.contact # c} \cup CardRows(W, first, c),
         DOMAIN contacts' = DOMAIN contacts \cup {c}
  PROVE  CardsAreWhole'
<1>1. \A r \in CardRows(W, first, c) :
         /\ r.contact = c /\ r.address \in W
         /\ \A s \in CardRows(W, first, c) : s.address = r.address => s = r
         /\ r.primary => r = Row(first, c, TRUE)
  <2> TAKE r \in CardRows(W, first, c)
  <2>1. PICK a \in W : r = Row(a, c, a = first)
    BY DEF CardRows
  <2>2. r.contact = c /\ r.address = a
    BY <2>1 DEF Row
  <2>3. ASSUME NEW s \in CardRows(W, first, c), s.address = r.address PROVE s = r
    <3>1. PICK d \in W : s = Row(d, c, d = first)
      BY DEF CardRows
    <3>2. d = a
      BY <2>2, <2>3, <3>1 DEF Row
    <3> QED
      BY <2>1, <3>1, <3>2, Zenon
  <2>4. ASSUME r.primary PROVE r = Row(first, c, TRUE)
    <3>1. PICK b \in BOOLEAN : b = (a = first)
      OBVIOUS
    <3>2. r = Row(a, c, b)
      BY <2>1, <3>1, Zenon
    <3>3. r.primary = b
      BY <3>2 DEF Row
    <3>4. b = TRUE
      BY <2>4, <3>3
    <3>5. a = first
      BY <3>1, <3>4
    <3> QED
      BY <3>2, <3>4, <3>5
  <2> QED
    BY <2>2, <2>3, <2>4
<1>2. Row(first, c, TRUE) \in CardRows(W, first, c)
  <2>1. PICK r \in CardRows(W, first, c) : r = Row(first, c, first = first)
    BY DEF CardRows
  <2>2. (first = first) = TRUE
    OBVIOUS
  <2>3. r = Row(first, c, TRUE)
    BY <2>1, <2>2, Zenon
  <2> QED
    BY <2>3
<1>3. ASSUME NEW d \in DOMAIN contacts' PROVE \E r : Primaries(d)' = {r}
  <2>1. CASE d = c
    <3>1. \A r \in rows' : r.contact = c => r \in CardRows(W, first, c)
      OBVIOUS
    <3>2. \A r \in rows' : r.contact = c /\ r.primary => r = Row(first, c, TRUE)
      BY <1>1, <3>1 DEF Row
    <3>3. Row(first, c, TRUE).contact = c /\ Row(first, c, TRUE).primary
      BY DEF Row
    <3>4. Primaries(d)' = {Row(first, c, TRUE)}
      BY <1>2, <2>1, <3>2, <3>3 DEF Primaries
    <3> QED
      BY <3>4
  <2>2. CASE d # c
    <3>1. d \in DOMAIN contacts
      BY <2>2
    <3>2. PICK r : Primaries(d) = {r}
      BY <3>1 DEF CardsAreWhole
    <3>3. Primaries(d)' = Primaries(d)
      BY <1>1, <2>2 DEF Primaries
    <3> QED
      BY <3>2, <3>3
  <2> QED
    BY <2>1, <2>2
<1>4. ASSUME NEW r \in rows', NEW s \in rows', r.address = s.address PROVE r = s
  <2>1. CASE r \in CardRows(W, first, c) /\ s \in CardRows(W, first, c)
    BY <1>1, <1>4, <2>1
  <2>2. CASE r \notin CardRows(W, first, c) /\ s \notin CardRows(W, first, c)
    BY <1>4, <2>2 DEF CardsAreWhole
  <2>3. CASE r \in CardRows(W, first, c) /\ s \notin CardRows(W, first, c)
    BY <1>1, <1>4, <2>3
  <2>4. CASE r \notin CardRows(W, first, c) /\ s \in CardRows(W, first, c)
    BY <1>1, <1>4, <2>4
  <2> QED
    BY <2>1, <2>2, <2>3, <2>4
<1>5. \A r \in rows' : r.contact \in DOMAIN contacts'
  BY <1>1 DEF CardsAreWhole
<1> QED
  BY <1>3, <1>4, <1>5 DEF CardsAreWhole

LEMMA CardsStart == ContactsInit => CardsAreWhole /\ TargetsStand
<1> SUFFICES ASSUME ContactsInit PROVE CardsAreWhole /\ TargetsStand
  OBVIOUS
<1>1. PICK a \in Addresses : rows = {Row(a, 1, TRUE)}
  BY DEF ContactsInit
<1>2. DOMAIN contacts = {1}
  BY DEF ContactsInit
<1>3. Primaries(1) = {Row(a, 1, TRUE)}
  BY <1>1 DEF Primaries, Row
<1>4. CardsAreWhole
  <2>1. \A r \in rows : r = Row(a, 1, TRUE)
    BY <1>1
  <2>2. Row(a, 1, TRUE).contact = 1
    BY DEF Row
  <2>3. \A r \in rows : r.contact \in DOMAIN contacts
    BY <1>2, <2>1, <2>2
  <2>4. \A r, s \in rows : r = s
    BY <2>1
  <2>5. \A c \in DOMAIN contacts : \E r : Primaries(c) = {r}
    BY <1>2, <1>3
  <2> QED
    BY <2>3, <2>4, <2>5 DEF CardsAreWhole
<1> QED
  BY <1>4 DEF ContactsInit, TargetsStand

\* The batch of an editor leaves every contact whole: it replaces the rows of one, or
\* adds a contact with its rows, or does nothing.
LEMMA SaveIsWhole ==
  ASSUME ContactsType, CardsAreWhole, TargetsStand, NEW e \in Editors, SaveCard(e)
  PROVE  CardsAreWhole' /\ DOMAIN contacts \subseteq DOMAIN contacts'
<1> DEFINE s == saving[e]
           c == IF s.target = {} THEN Len(contacts) + 1 ELSE CHOOSE x \in s.target : TRUE
<1>1. s \in CardRequests /\ StandsFor(s.target)
  BY DEF SaveCard, ContactsType, Free, TargetsStand
<1>2. /\ s.target # {} => c \in DOMAIN contacts /\ s.target = {c}
      /\ s.target = {} => c = Len(contacts) + 1
  BY <1>1 DEF StandsFor
<1>3. contacts \in Seq(Contact)
  BY DEF ContactsType
<1>4. CASE TakenFrom(s)
  <2>1. rows' = rows /\ contacts' = contacts
    BY <1>4 DEF SaveCard, SavedRows
  <2> QED
    BY <2>1 DEF CardsAreWhole, Primaries
<1>5. CASE ~TakenFrom(s)
  <2>1. /\ rows' = {r \in rows : r.contact # c} \cup CardRows(Wanted(s), s.primary, c)
        /\ contacts' = IF s.target = {} THEN Append(contacts, [avatar |-> NoKey, from |-> NoCard]) ELSE contacts
    BY <1>5 DEF SaveCard, SavedRows
  <2> HIDE DEF s, c
  <2>2. Wanted(s) \in SUBSET Addresses /\ s.primary \in Wanted(s)
    BY <1>1 DEF CardRequests, Wanted
  <2>3. c \in Nat /\ (s.target = {} => c \notin DOMAIN contacts)
    BY <1>2, <1>3
  <2>4. \A r \in rows : r.contact # c => r.address \notin Wanted(s)
    BY <1>2, <1>5, <2>3 DEF TakenFrom
  <2>5. DOMAIN contacts' = DOMAIN contacts \cup {c}
    <3>1. CASE s.target = {}
      BY <1>2, <1>3, <2>1, <3>1
    <3>2. CASE s.target # {}
      BY <1>2, <2>1, <3>2
    <3> QED
      BY <3>1, <3>2
  <2> QED
    BY <2>1, <2>2, <2>3, <2>4, <2>5, CardReplaced
<1> QED
  BY <1>4, <1>5

LEMMA ImportIsWhole ==
  ASSUME ContactsType, CardsAreWhole, ImportCard
  PROVE  CardsAreWhole' /\ DOMAIN contacts \subseteq DOMAIN contacts'
<1>1. PICK n \in First(page.import.left) :
        LET card == page.import.cards[n]
            c == Len(contacts) + 1
        IN  \/ rows' = rows /\ contacts' = contacts
            \/ /\ AddressesIn(card) \cap Held = {}
               /\ contacts' = Append(contacts, [avatar |-> NoKey, from |-> card])
               /\ rows' = rows \cup CardRows(AddressesIn(card), Head(card.addresses), c)
  BY DEF ImportCard
<1>2. PICK card : card = page.import.cards[n]
  OBVIOUS
<1>3. card \in Cards /\ card.addresses # <<>>
  <2>1. page.import.cards \in {<<>>} \cup Files /\ n \in Addressed(page.import.cards)
    BY DEF ContactsType, PageStates, Imports, First
  <2> QED
    BY <1>2, <2>1, FilesHoldCards DEF Addressed
<1>4. contacts \in Seq(Contact)
  BY DEF ContactsType
<1>5. CASE rows' = rows /\ contacts' = contacts
  BY <1>5 DEF CardsAreWhole, Primaries
<1>6. CASE /\ AddressesIn(card) \cap Held = {}
           /\ contacts' = Append(contacts, [avatar |-> NoKey, from |-> card])
           /\ rows' = rows \cup CardRows(AddressesIn(card), Head(card.addresses), Len(contacts) + 1)
  <2>1. PICK c \in Nat : c = Len(contacts) + 1
    BY <1>4
  <2>2. DOMAIN contacts' = DOMAIN contacts \cup {c} /\ c \notin DOMAIN contacts
    BY <1>4, <1>6, <2>1
  <2>3. rows = {r \in rows : r.contact # c}
    BY <2>2 DEF CardsAreWhole
  <2>4. \A r \in rows : r.address \notin AddressesIn(card)
    BY <1>6 DEF Held
  <2>5. PICK W \in SUBSET Addresses : \E first \in W : W = AddressesIn(card) /\ first = Head(card.addresses)
    BY <1>3, CardsHoldAddresses
  <2>7. PICK first \in W : first = Head(card.addresses)
    BY <2>5
  <2>6. rows' = {r \in rows : r.contact # c} \cup CardRows(W, first, c)
    BY <1>6, <2>1, <2>3, <2>5, <2>7
  <2> QED
    BY <2>2, <2>4, <2>5, <2>6, CardReplaced
<1> QED
  BY <1>1, <1>2, <1>5, <1>6


\* What a request for a photo does to a contact leaves its rows, and no contact goes.
LEMMA CardsStep ==
  ASSUME ContactsType, CardsAreWhole, TargetsStand, ContactsNext
  PROVE  CardsAreWhole' /\ DOMAIN contacts \subseteq DOMAIN contacts'
<1>1. CASE \E e \in Editors : SaveCard(e)
  BY <1>1, SaveIsWhole
<1>2. CASE ImportCard
  BY <1>2, ImportIsWhole
<1>3. CASE rows' = rows /\ DOMAIN contacts' = DOMAIN contacts
  BY <1>3 DEF CardsAreWhole, Primaries
<1>4. CASE \E u \in Photographers : NamePhoto(u) \/ NamingFails(u) \/ RemovePhoto(u)
  <2>1. rows' = rows /\ DOMAIN contacts' = DOMAIN contacts
    BY <1>4 DEF NamePhoto, NamingFails, RemovePhoto
  <2> QED
    BY <1>3, <2>1
<1>5. CASE UNCHANGED <<rows, contacts>>
  BY <1>3, <1>5
<1> QED
  BY <1>1, <1>2, <1>4, <1>5 DEF ContactsNext, SavesCards, TakesPhotos, ImportsCards, OpenEditor, LookUp,
     CheckCard, CreateCard, StartRemoval, Upload, PutPhoto, FreePhoto, LoadContacts, CloseImport,
     ImportSelected, ImportCheck, ImportAnswered, SendPhoto, ImportDone, ReadVcard, Toggle

LEMMA TargetsStep ==
  ASSUME ContactsType, CardsAreWhole, TargetsStand, ContactsNext
  PROVE  TargetsStand'
<1> DEFINE Fits(s) == s # Free => StandsFor(s.holder) /\ StandsFor(s.target)
<1>1. ASSUME NEW S, StandsFor(S) PROVE StandsFor(S)'
  BY <1>1, CardsStep DEF StandsFor
<1>2. \A e \in Editors : Fits(saving[e])
  BY DEF TargetsStand
<1>3. SUFFICES \A e \in Editors : Fits(saving'[e])
  BY <1>1 DEF TargetsStand
<1>4. ASSUME NEW e \in Editors, NEW s, Fits(s), saving' = [saving EXCEPT ![e] = s]
      PROVE  \A d \in Editors : Fits(saving'[d])
  BY <1>2, <1>4 DEF ContactsType
<1>5. \A a : StandsFor(HolderOf(a))
  BY HoldersStand
<1>6. StandsFor({})
  BY DEF StandsFor
<1>7. ASSUME NEW e \in Editors, NEW a \in Addresses, OpenEditor(e, a) PROVE \A d \in Editors : Fits(saving'[d])
  <2>1. PICK primary, others :
           saving' = [saving EXCEPT ![e] = [step |-> "sent", source |-> a, holder |-> HolderOf(a),
                                            target |-> {}, primary |-> primary, others |-> others]]
    BY <1>7 DEF OpenEditor
  <2>2. PICK s : s = [step |-> "sent", source |-> a, holder |-> HolderOf(a),
                      target |-> {}, primary |-> primary, others |-> others]
    OBVIOUS
  <2>3. Fits(s)
    BY <1>5, <1>6, <2>2
  <2> QED
    BY <1>4, <2>1, <2>2, <2>3
<1>8. ASSUME NEW e \in Editors, LookUp(e) PROVE \A d \in Editors : Fits(saving'[d])
  <2>1. saving[e] \in CardRequests
    BY <1>8 DEF LookUp, ContactsType, Free
  <2>2. CASE saving' = [saving EXCEPT ![e] = Free]
    BY <1>4, <2>2
  <2>3. CASE saving' # [saving EXCEPT ![e] = Free]
    <3> DEFINE t == IF saving[e].holder # {} THEN saving[e].holder ELSE HolderOf(saving[e].source)
    <3>1. saving' = [saving EXCEPT ![e] = [saving[e] EXCEPT !.step = "found", !.target = t]]
      BY <1>8, <2>3 DEF LookUp
    <3>2. saving[e] # Free
      BY <1>8 DEF LookUp, Free
    <3>3. StandsFor(t)
      BY <1>2, <1>5, <3>2
    <3> HIDE DEF t
    <3>4. PICK s : s = [saving[e] EXCEPT !.step = "found", !.target = t]
      OBVIOUS
    <3>5. s.holder = saving[e].holder /\ s.target = t
      BY <2>1, <3>4 DEF CardRequests
    <3>6. Fits(s)
      BY <1>2, <3>2, <3>3, <3>5
    <3> QED
      BY <1>4, <3>1, <3>4, <3>6
  <2> QED
    BY <2>2, <2>3
<1>9. ASSUME NEW e \in Editors, CheckCard(e) PROVE \A d \in Editors : Fits(saving'[d])
  <2>1. saving[e] \in CardRequests /\ saving[e] # Free
    BY <1>9 DEF CheckCard, ContactsType, Free
  <2>2. CASE saving' = [saving EXCEPT ![e] = Free]
    BY <1>4, <2>2
  <2>3. CASE saving' = [saving EXCEPT ![e] = [saving[e] EXCEPT !.step = "checked"]]
    <3>1. PICK s : s = [saving[e] EXCEPT !.step = "checked"]
      OBVIOUS
    <3>2. s.holder = saving[e].holder /\ s.target = saving[e].target
      BY <2>1, <3>1 DEF CardRequests
    <3>3. Fits(s)
      BY <1>2, <2>1, <3>2
    <3> QED
      BY <1>4, <2>3, <3>1, <3>3
  <2> QED
    BY <1>9, <2>2, <2>3 DEF CheckCard
<1>10. ASSUME NEW e \in Editors, CreateCard(e) PROVE \A d \in Editors : Fits(saving'[d])
  <2>1. PICK primary, others :
           saving' = [saving EXCEPT ![e] = [step |-> "checked", source |-> primary, holder |-> {},
                                            target |-> {}, primary |-> primary, others |-> others]]
    BY <1>10 DEF CreateCard
  <2>2. PICK s : s = [step |-> "checked", source |-> primary, holder |-> {},
                      target |-> {}, primary |-> primary, others |-> others]
    OBVIOUS
  <2>3. Fits(s)
    BY <1>6, <2>2
  <2> QED
    BY <1>4, <2>1, <2>2, <2>3
<1>11. ASSUME NEW e \in Editors, SaveCard(e) PROVE \A d \in Editors : Fits(saving'[d])
  <2>1. saving' = [saving EXCEPT ![e] = Free]
    BY <1>11 DEF SaveCard
  <2> QED
    BY <1>4, <2>1
<1>12. CASE UNCHANGED saving
  BY <1>2, <1>12
<1>13. CASE TakesPhotos(Photographers) \/ ImportsCards
  <2>1. UNCHANGED saving
    BY <1>13 DEF TakesPhotos, ImportsCards, StartRemoval, Upload, PutPhoto, NamePhoto, NamingFails,
       FreePhoto, RemovePhoto, LoadContacts, CloseImport, ImportSelected, ImportCheck, ImportCard,
       ImportAnswered, SendPhoto, ImportDone, ReadVcard, Toggle
  <2> QED
    BY <1>12, <2>1
<1> QED
  BY <1>7, <1>8, <1>9, <1>10, <1>11, <1>13 DEF ContactsNext, SavesCards

CardsInvariant == ContactsType /\ CardsAreWhole /\ TargetsStand

LEMMA CardsInvariantStep == CardsInvariant /\ [ContactsNext]_contactVars => CardsInvariant'
<1> SUFFICES ASSUME CardsInvariant, [ContactsNext]_contactVars PROVE CardsInvariant'
  OBVIOUS
<1>1. CASE ContactsNext
  BY <1>1, ContactsTypeStep, CardsStep, TargetsStep DEF CardsInvariant
<1>2. CASE UNCHANGED contactVars
  BY <1>2 DEF CardsInvariant, ContactsType, CardsAreWhole, Primaries, TargetsStand, StandsFor, contactVars
<1> QED
  BY <1>1, <1>2

\* However editors and imports cross, each contact has one primary address, no address is
\* two contacts', and none is left to a contact that is not there: a save replaces the
\* rows of one contact in a batch that fails when another holds an address
\* (profile.put.ts:89-121).
THEOREM CardsStayWhole == ContactsSpec => []CardIsWhole
<1>1. ContactsInit => CardsInvariant
  BY ContactsStart, CardsStart DEF CardsInvariant
<1>2. CardsInvariant => CardIsWhole
  <2> SUFFICES ASSUME CardsInvariant PROVE CardIsWhole
    OBVIOUS
  <2>1. ASSUME NEW c \in DOMAIN contacts
        PROVE  Cardinality({r \in rows : r.contact = c /\ r.primary}) = 1
    <3>1. PICK r : Primaries(c) = {r}
      BY DEF CardsInvariant, CardsAreWhole
    <3>2. Cardinality({r}) = 1
      BY FS_Singleton
    <3> QED
      BY <3>1, <3>2 DEF Primaries
  <2> QED
    BY <2>1 DEF CardIsWhole, CardsInvariant, CardsAreWhole
<1> QED
  BY <1>1, <1>2, CardsInvariantStep, PTL DEF ContactsSpec


-----------------------------------------------------------------------------
(* The photo of a contact is in the store.  The invariant is stated of the *)
(* keys that the contacts name, the number of photos that were put, the    *)
(* objects of the store and the requests.                                  *)

Names == [c \in DOMAIN contacts |-> contacts[c].avatar]

\* A key is one contact's at most.
NamesDiffer(names, n) ==
    /\ \A c \in DOMAIN names : names[c] \in 0..n
    /\ \A c, d \in DOMAIN names : names[c] = names[d] /\ names[c] # NoKey => c = d

\* The key that was read is no other contact's; a photo that was put is there, and no
\* contact's yet; the old key is nobody's once the new one is named.
RequestStands(t, names, n, stored) ==
    t # Free =>
        /\ t.of \in DOMAIN names
        /\ t.old \in 0..n
        /\ \A c \in DOMAIN names : t.old # NoKey /\ names[c] = t.old => c = t.of
        /\ t.step = "put" =>
              /\ t.key \in 1..n /\ t.key \in stored /\ t.key # t.old
              /\ \A c \in DOMAIN names : names[c] # t.key
        /\ t.step = "named" => t.old = NoKey \/ \A c \in DOMAIN names : names[c] # t.old

\* What one request has put no other has put or is about to free.
Apart(t, v) ==
    t.step = "put" => (v.step = "put" => v.key # t.key) /\ (v # Free => v.old # t.key)

PhotosStand(names, n, stored, doubtful, requests) ==
    /\ NamesDiffer(names, n)
    /\ \A u \in Photographers : RequestStands(requests[u], names, n, stored)
    /\ \A u, v \in Photographers : u # v => Apart(requests[u], requests[v])
    /\ \A c \in DOMAIN names : names[c] \in {NoKey} \cup stored \cup doubtful

PhotosInvariant == PhotosStand(Names, Len(photos), objects, unsure, taking)

LEMMA PhotosStart == ContactsInit => PhotosInvariant
<1> SUFFICES ASSUME ContactsInit PROVE PhotosInvariant
  OBVIOUS
<1>1. DOMAIN Names = {1} /\ Names[1] = 1
  BY DEF ContactsInit, Names
<1>2. Len(photos) = 1 /\ objects = {1}
  BY DEF ContactsInit
<1>3. \A u \in Photographers : taking[u] = Free
  BY DEF ContactsInit
<1> QED
  BY <1>1, <1>2, <1>3 DEF PhotosInvariant, PhotosStand, NamesDiffer, RequestStands, Apart, Free, NoKey

\* A contact that is made has no photo.
LEMMA MadeWithoutPhoto ==
  ASSUME NEW names, NEW n \in Nat, NEW stored, NEW doubtful, NEW requests,
         PhotosStand(names, n, stored, doubtful, requests),
         NEW more, NEW c, c \notin DOMAIN names, DOMAIN more = DOMAIN names \cup {c},
         more[c] = NoKey, \A d \in DOMAIN names : more[d] = names[d]
  PROVE  PhotosStand(more, n, stored, doubtful, requests)
<1> USE DEF PhotosStand
<1>1. NamesDiffer(more, n)
  BY DEF NamesDiffer, NoKey
<1>2. \A u \in Photographers : RequestStands(requests[u], more, n, stored)
  <2> SUFFICES ASSUME NEW u \in Photographers PROVE RequestStands(requests[u], more, n, stored)
    OBVIOUS
  <2>1. PICK t : t = requests[u]
    OBVIOUS
  <2>2. RequestStands(t, names, n, stored)
    BY <2>1
  <2>3. RequestStands(t, more, n, stored)
    BY <2>2 DEF RequestStands, NoKey
  <2> QED
    BY <2>1, <2>3
<1>3. \A d \in DOMAIN more : more[d] \in {NoKey} \cup stored \cup doubtful
  OBVIOUS
<1> QED
  BY <1>1, <1>2, <1>3

\* One request changes, to one that stands and is apart from the others.
LEMMA OneRequestChanges ==
  ASSUME NEW names, NEW n, NEW stored, NEW doubtful,
         NEW requests \in [Photographers -> PhotoRequests \cup {Free}],
         NEW u \in Photographers, NEW t,
         NamesDiffer(names, n), RequestStands(t, names, n, stored),
         \A v \in Photographers : v # u => RequestStands(requests[v], names, n, stored),
         \A v \in Photographers : v # u => Apart(t, requests[v]) /\ Apart(requests[v], t),
         \A v, w \in Photographers : v # w => Apart(requests[v], requests[w]),
         \A c \in DOMAIN names : names[c] \in {NoKey} \cup stored \cup doubtful
  PROVE  PhotosStand(names, n, stored, doubtful, [requests EXCEPT ![u] = t])
<1>1. \A v \in Photographers : [requests EXCEPT ![u] = t][v] = IF v = u THEN t ELSE requests[v]
  OBVIOUS
<1> QED
  BY <1>1 DEF PhotosStand

\* A request reads the key of its contact.
LEMMA KeyRead ==
  ASSUME NEW names, NEW n \in Nat, NEW stored, NEW doubtful,
         NEW requests \in [Photographers -> PhotoRequests \cup {Free}],
         PhotosStand(names, n, stored, doubtful, requests),
         NEW u \in Photographers, NEW c \in DOMAIN names, NEW photo
  PROVE  PhotosStand(names, n, stored, doubtful,
                     [requests EXCEPT ![u] = PhotoRequest("read", c, photo, names[c], NoKey)])
<1>1. PICK t : t = PhotoRequest("read", c, photo, names[c], NoKey)
  OBVIOUS
<1>2. t.step = "read" /\ t.of = c /\ t.old = names[c]
  BY <1>1 DEF PhotoRequest
<1>3. RequestStands(t, names, n, stored)
  BY <1>2 DEF RequestStands, PhotosStand, NamesDiffer
<1>4. ASSUME NEW v \in Photographers, v # u PROVE Apart(t, requests[v]) /\ Apart(requests[v], t)
  <2>1. requests[v].step = "put" => requests[v].key # names[c]
    BY DEF PhotosStand, RequestStands, Free
  <2> QED
    BY <1>2, <2>1 DEF Apart
<1>5. PhotosStand(names, n, stored, doubtful, [requests EXCEPT ![u] = t])
  BY <1>3, <1>4, OneRequestChanges DEF PhotosStand
<1> QED
  BY <1>1, <1>5

\* The photo is put under a key that was never used.
LEMMA PhotoPut ==
  ASSUME NEW names, NEW n \in Nat, NEW stored, NEW doubtful,
         NEW requests \in [Photographers -> PhotoRequests \cup {Free}],
         PhotosStand(names, n, stored, doubtful, requests),
         NEW u \in Photographers, requests[u].step = "read"
  PROVE  PhotosStand(names, n + 1, stored \cup {n + 1}, doubtful,
                     [requests EXCEPT ![u] = [requests[u] EXCEPT !.step = "put", !.key = n + 1]])
<1>1. requests[u] \in PhotoRequests /\ requests[u] # Free
  BY DEF Free
<1>2. PICK t : t = [requests[u] EXCEPT !.step = "put", !.key = n + 1]
  OBVIOUS
<1>3. t.step = "put" /\ t.of = requests[u].of /\ t.old = requests[u].old /\ t.key = n + 1 /\ t # Free
  BY <1>1, <1>2 DEF PhotoRequests, Free
<1>4. NamesDiffer(names, n + 1) /\ \A c \in DOMAIN names : names[c] # n + 1
  BY DEF PhotosStand, NamesDiffer
<1>5. \A v \in Photographers : RequestStands(requests[v], names, n + 1, stored \cup {n + 1})
  BY DEF PhotosStand, RequestStands
<1>6. RequestStands(t, names, n + 1, stored \cup {n + 1})
  BY <1>1, <1>3, <1>4 DEF PhotosStand, RequestStands
<1>7. ASSUME NEW v \in Photographers, v # u PROVE Apart(t, requests[v]) /\ Apart(requests[v], t)
  <2>1. requests[v].step = "put" => requests[v].key \in 1..n
    BY DEF PhotosStand, RequestStands, Free
  <2>2. requests[v] # Free => requests[v].old \in 0..n
    BY DEF PhotosStand, RequestStands
  <2>3. Apart(requests[v], requests[u])
    BY <1>7 DEF PhotosStand
  <2>4. Apart(t, requests[v])
    BY <1>3, <2>1, <2>2 DEF Apart
  <2>5. Apart(requests[v], t)
    BY <1>1, <1>3, <2>1, <2>3 DEF Apart
  <2> QED
    BY <2>4, <2>5
<1>8. PhotosStand(names, n + 1, stored \cup {n + 1}, doubtful, [requests EXCEPT ![u] = t])
  BY <1>4, <1>5, <1>6, <1>7, OneRequestChanges DEF PhotosStand
<1> QED
  BY <1>2, <1>8


\* What stands when the contact of a request is given a key: the names, the other
\* requests, and that the key it named before is nobody's.
NamingStands(more, n, stored, doubtful, requests, u, key) ==
    /\ NamesDiffer(more, n)
    /\ \A v \in Photographers : v # u => RequestStands(requests[v], more, n, stored)
    /\ requests[u].old = NoKey \/ \A c \in DOMAIN more : more[c] # requests[u].old
    /\ \A c \in DOMAIN more : more[c] \in {key, NoKey} \cup stored \cup doubtful

\* A contact is given the photo that was put for it, or none.
LEMMA PhotoNamed ==
  ASSUME NEW names, NEW n \in Nat, NEW stored, NEW doubtful,
         NEW requests \in [Photographers -> PhotoRequests \cup {Free}],
         PhotosStand(names, n, stored, doubtful, requests),
         NEW u \in Photographers, requests[u] # Free, NEW key,
         key = NoKey \/ (requests[u].step = "put" /\ key = requests[u].key)
  PROVE  NamingStands([names EXCEPT ![requests[u].of] = key], n, stored, doubtful, requests, u, key)
<1>11. PICK t : t = requests[u]
  OBVIOUS
<1>12. PICK more : more = [names EXCEPT ![t.of] = key]
  OBVIOUS
<1>13. t # Free /\ (key = NoKey \/ (t.step = "put" /\ key = t.key))
  BY <1>11
<1> USE <1>11, <1>12, <1>13
<1> USE DEF PhotosStand
<1>1. RequestStands(t, names, n, stored)
  OBVIOUS
<1>2. /\ DOMAIN more = DOMAIN names /\ t.of \in DOMAIN names
      /\ \A c \in DOMAIN names : more[c] = IF c = t.of THEN key ELSE names[c]
  BY <1>1 DEF RequestStands
<1>3. key = NoKey \/ (key \in 1..n /\ key # t.old /\ \A c \in DOMAIN names : names[c] # key)
  BY <1>1 DEF RequestStands
<1>4. NamesDiffer(more, n)
  BY <1>2, <1>3 DEF NamesDiffer, NoKey
<1>5. ASSUME NEW v \in Photographers, v # u PROVE RequestStands(requests[v], more, n, stored)
  <2>1. PICK s : s = requests[v]
    OBVIOUS
  <2>2. RequestStands(s, names, n, stored) /\ Apart(t, s)
    BY <1>5, <2>1
  <2>3. s # Free => key = NoKey \/ s.old # key
    BY <2>2 DEF Apart
  <2>4. s.step = "put" => key = NoKey \/ s.key # key
    BY <2>2 DEF Apart
  <2>5. s.step = "put" /\ s # Free => s.key # NoKey
    BY <2>2 DEF RequestStands, NoKey
  <2>6. RequestStands(s, more, n, stored)
    BY <1>2, <2>2, <2>3, <2>4, <2>5 DEF RequestStands
  <2> QED
    BY <2>1, <2>6
<1>6. t.old = NoKey \/ \A c \in DOMAIN more : more[c] # t.old
  BY <1>1, <1>2, <1>3 DEF RequestStands
<1>7. \A c \in DOMAIN more : more[c] \in {key, NoKey} \cup stored \cup doubtful
  BY <1>2
<1>8. NamingStands(more, n, stored, doubtful, requests, u, key)
  BY <1>4, <1>5, <1>6, <1>7 DEF NamingStands
<1> QED
  BY <1>8

LEMMA RequestNames ==
  ASSUME NEW names, NEW n \in Nat, NEW stored, NEW doubtful,
         NEW requests \in [Photographers -> PhotoRequests \cup {Free}],
         PhotosStand(names, n, stored, doubtful, requests),
         NEW u \in Photographers, requests[u] # Free, NEW key,
         key = NoKey \/ (requests[u].step = "put" /\ key = requests[u].key)
  PROVE  PhotosStand([names EXCEPT ![requests[u].of] = key], n, stored, doubtful,
                     [requests EXCEPT ![u] = [requests[u] EXCEPT !.step = "named"]])
<1>1. PICK t : t = requests[u]
  OBVIOUS
<1>2. t \in PhotoRequests /\ RequestStands(t, names, n, stored)
  BY <1>1 DEF PhotosStand
<1>3. PICK s : s = [t EXCEPT !.step = "named"]
  OBVIOUS
<1>4. s.step = "named" /\ s.of = t.of /\ s.old = t.old
  BY <1>2, <1>3 DEF PhotoRequests
<1>5. PICK more : more = [names EXCEPT ![t.of] = key]
  OBVIOUS
<1>6. /\ NamesDiffer(more, n)
      /\ \A v \in Photographers : v # u => RequestStands(requests[v], more, n, stored)
      /\ t.old = NoKey \/ \A c \in DOMAIN more : more[c] # t.old
      /\ \A c \in DOMAIN more : more[c] \in {key, NoKey} \cup stored \cup doubtful
  <2>1. NamingStands([names EXCEPT ![requests[u].of] = key], n, stored, doubtful, requests, u, key)
    BY PhotoNamed
  <2>2. NamingStands(more, n, stored, doubtful, requests, u, key)
    BY <1>1, <1>5, <2>1
  <2> QED
    BY <1>1, <2>2 DEF NamingStands
<1>7. key = NoKey \/ key \in stored
  BY <1>1, <1>2 DEF RequestStands
<1>8. RequestStands(s, more, n, stored)
  <2>1. DOMAIN more = DOMAIN names
    BY <1>5
  <2> QED
    BY <1>1, <1>2, <1>4, <1>6, <2>1 DEF RequestStands, NoKey
<1>9. ASSUME NEW v \in Photographers, v # u PROVE Apart(s, requests[v]) /\ Apart(requests[v], s)
  <2>1. Apart(requests[v], t)
    BY <1>1, <1>9 DEF PhotosStand
  <2> QED
    BY <1>1, <1>4, <2>1 DEF Apart
<1>10. PhotosStand(more, n, stored, doubtful, [requests EXCEPT ![u] = s])
  <2>1. \A c \in DOMAIN more : more[c] \in {NoKey} \cup stored \cup doubtful
    BY <1>6, <1>7
  <2>2. \A v, w \in Photographers : v # w => Apart(requests[v], requests[w])
    BY DEF PhotosStand
  <2> QED
    BY <1>6, <1>8, <1>9, <2>1, <2>2, OneRequestChanges
<1> QED
  BY <1>1, <1>3, <1>5, <1>10

\* An object is deleted that no contact is known to name and no other request has put.
LEMMA ObjectDeleted ==
  ASSUME NEW names, NEW n \in Nat, NEW stored, NEW doubtful,
         NEW requests \in [Photographers -> PhotoRequests \cup {Free}],
         NEW u \in Photographers, NEW key, NamesDiffer(names, n),
         \A v \in Photographers : v # u => RequestStands(requests[v], names, n, stored),
         \A v \in Photographers : v # u /\ requests[v].step = "put" => requests[v].key # key,
         \A v, w \in Photographers : v # w => Apart(requests[v], requests[w]),
         \A c \in DOMAIN names : names[c] \in {NoKey} \cup (stored \ {key}) \cup doubtful
  PROVE  PhotosStand(names, n, stored \ {key}, doubtful, [requests EXCEPT ![u] = Free])
<1>1. RequestStands(Free, names, n, stored \ {key})
  BY DEF RequestStands
<1>2. ASSUME NEW v \in Photographers, v # u PROVE RequestStands(requests[v], names, n, stored \ {key})
  BY <1>2 DEF RequestStands
<1>3. ASSUME NEW v \in Photographers, v # u PROVE Apart(Free, requests[v]) /\ Apart(requests[v], Free)
  BY DEF Apart, Free
<1> QED
  BY <1>1, <1>2, <1>3, OneRequestChanges


\* The UPDATE that names the photo throws, and the photo is deleted: a contact that names
\* it nevertheless is a doubtful one.
LEMMA NamingForgotten ==
  ASSUME NEW names, NEW n \in Nat, NEW stored, NEW doubtful,
         NEW requests \in [Photographers -> PhotoRequests \cup {Free}],
         PhotosStand(names, n, stored, doubtful, requests),
         NEW u \in Photographers, requests[u].step = "put"
  PROVE  /\ PhotosStand(names, n, stored \ {requests[u].key}, doubtful, [requests EXCEPT ![u] = Free])
         /\ PhotosStand([names EXCEPT ![requests[u].of] = requests[u].key], n,
                        stored \ {requests[u].key}, doubtful \cup {requests[u].key},
                        [requests EXCEPT ![u] = Free])
<1>1. PICK key : key = requests[u].key
  OBVIOUS
<1>2. requests[u] # Free
  BY DEF Free
<1>3. \A c \in DOMAIN names : names[c] # key
  BY <1>1, <1>2 DEF PhotosStand, RequestStands
<1>4. \A v \in Photographers : v # u /\ requests[v].step = "put" => requests[v].key # key
  BY <1>1 DEF PhotosStand, Apart
<1>5. \A v, w \in Photographers : v # w => Apart(requests[v], requests[w])
  BY DEF PhotosStand
<1>6. PhotosStand(names, n, stored \ {key}, doubtful, [requests EXCEPT ![u] = Free])
  <2>1. \A c \in DOMAIN names : names[c] \in {NoKey} \cup (stored \ {key}) \cup doubtful
    BY <1>3 DEF PhotosStand
  <2>2. NamesDiffer(names, n) /\ \A v \in Photographers : RequestStands(requests[v], names, n, stored)
    BY DEF PhotosStand
  <2> QED
    BY <1>4, <1>5, <2>1, <2>2, ObjectDeleted
<1>7. PICK more : more = [names EXCEPT ![requests[u].of] = key]
  OBVIOUS
<1>8. NamingStands(more, n, stored, doubtful, requests, u, key)
  <2>1. NamingStands([names EXCEPT ![requests[u].of] = requests[u].key], n, stored, doubtful, requests, u,
                     requests[u].key)
    BY <1>2, PhotoNamed
  <2> QED
    BY <1>1, <1>7, <2>1
<1>9. PhotosStand(more, n, stored \ {key}, doubtful \cup {key}, [requests EXCEPT ![u] = Free])
  <2>1. \A c \in DOMAIN more : more[c] \in {NoKey} \cup (stored \ {key}) \cup (doubtful \cup {key})
    BY <1>8 DEF NamingStands
  <2> QED
    BY <1>4, <1>5, <1>8, <2>1, ObjectDeleted DEF NamingStands
<1> QED
  BY <1>1, <1>6, <1>7, <1>9

\* The object of the photo before is deleted once no contact names it.
LEMMA PhotoFreed ==
  ASSUME NEW names, NEW n \in Nat, NEW stored, NEW doubtful,
         NEW requests \in [Photographers -> PhotoRequests \cup {Free}],
         PhotosStand(names, n, stored, doubtful, requests),
         NEW u \in Photographers, requests[u].step = "named"
  PROVE  /\ PhotosStand(names, n, stored \ {requests[u].old}, doubtful, [requests EXCEPT ![u] = Free])
         /\ PhotosStand(names, n, stored, doubtful, [requests EXCEPT ![u] = Free])
<1>1. PICK key : key = requests[u].old
  OBVIOUS
<1>2. requests[u] # Free
  BY DEF Free
<1>3. key = NoKey \/ \A c \in DOMAIN names : names[c] # key
  BY <1>1, <1>2 DEF PhotosStand, RequestStands
<1>4. \A v \in Photographers : v # u /\ requests[v].step = "put" => requests[v].key # key
  BY <1>1, <1>2 DEF PhotosStand, Apart
<1>5. \A v, w \in Photographers : v # w => Apart(requests[v], requests[w])
  BY DEF PhotosStand
<1>6. PhotosStand(names, n, stored \ {key}, doubtful, [requests EXCEPT ![u] = Free])
  <2>1. \A c \in DOMAIN names : names[c] \in {NoKey} \cup (stored \ {key}) \cup doubtful
    BY <1>3 DEF PhotosStand
  <2>2. NamesDiffer(names, n) /\ \A v \in Photographers : RequestStands(requests[v], names, n, stored)
    BY DEF PhotosStand
  <2> QED
    BY <1>4, <1>5, <2>1, <2>2, ObjectDeleted
<1>7. PhotosStand(names, n, stored, doubtful, [requests EXCEPT ![u] = Free])
  <2>1. RequestStands(Free, names, n, stored)
    BY DEF RequestStands
  <2>2. \A v \in Photographers : v # u => Apart(Free, requests[v]) /\ Apart(requests[v], Free)
    BY DEF Apart, Free
  <2> QED
    BY <1>5, <2>1, <2>2, OneRequestChanges DEF PhotosStand
<1> QED
  BY <1>1, <1>6, <1>7

LEMMA NameGiven ==
  ASSUME NEW c \in DOMAIN contacts, NEW key, contacts \in Seq(Contact)
  PROVE  contacts' = [contacts EXCEPT ![c].avatar = key] => Names' = [Names EXCEPT ![c] = key]
<1> SUFFICES ASSUME contacts' = [contacts EXCEPT ![c].avatar = key]
             PROVE  Names' = [Names EXCEPT ![c] = key]
  OBVIOUS
<1>1. DOMAIN contacts' = DOMAIN contacts
  OBVIOUS
<1>2. ASSUME NEW d \in DOMAIN contacts PROVE contacts'[d].avatar = IF d = c THEN key ELSE contacts[d].avatar
  <2>1. contacts[d] \in Contact
    OBVIOUS
  <2> QED
    BY <2>1 DEF Contact
<1> QED
  BY <1>1, <1>2 DEF Names

LEMMA PhotosStep ==
  ASSUME CardsInvariant, PhotosInvariant, [ContactsNext]_contactVars
  PROVE  PhotosInvariant'
<1> USE DEF PhotosInvariant
<1>1. /\ Len(photos) \in Nat /\ contacts \in Seq(Contact)
      /\ taking \in [Photographers -> PhotoRequests \cup {Free}]
  BY DEF CardsInvariant, ContactsType
<1>2. \A u \in Photographers : taking[u] # Free => taking[u].of \in DOMAIN contacts
  BY DEF PhotosStand, RequestStands, Names
<1>3. CASE UNCHANGED <<photos, objects, unsure, taking>> /\ (UNCHANGED contacts \/ \E from :
               contacts' = Append(contacts, [avatar |-> NoKey, from |-> from]))
  <2>1. CASE UNCHANGED contacts
    BY <1>3, <2>1 DEF Names
  <2>2. ASSUME NEW from, contacts' = Append(contacts, [avatar |-> NoKey, from |-> from]) PROVE PhotosInvariant'
    <3>1. PICK c : c = Len(contacts) + 1
      OBVIOUS
    <3>2. /\ DOMAIN Names' = DOMAIN Names \cup {c} /\ c \notin DOMAIN Names
          /\ Names'[c] = NoKey
          /\ \A d \in DOMAIN Names : Names'[d] = Names[d]
      BY <1>1, <2>2, <3>1 DEF Names
    <3> QED
      BY <1>1, <1>3, <3>2, MadeWithoutPhoto
  <2> QED
    BY <1>3, <2>1, <2>2
<1>4. ASSUME NEW u \in Photographers, NEW c \in DOMAIN contacts, NEW photo,
             taking' = [taking EXCEPT ![u] = PhotoRequest("read", c, photo, contacts[c].avatar, NoKey)],
             UNCHANGED <<contacts, photos, objects, unsure>>
      PROVE  PhotosInvariant'
  <2>1. Names' = Names /\ c \in DOMAIN Names /\ contacts[c].avatar = Names[c]
    BY <1>4 DEF Names
  <2>2. PhotosStand(Names, Len(photos), objects, unsure,
                    [taking EXCEPT ![u] = PhotoRequest("read", c, photo, Names[c], NoKey)])
    BY <1>1, <2>1, KeyRead
  <2> QED
    BY <1>4, <2>1, <2>2
<1>5. ASSUME NEW u \in Photographers, PutPhoto(u) PROVE PhotosInvariant'
  <2>1. /\ Names' = Names /\ unsure' = unsure /\ objects' = objects \cup {Len(photos) + 1}
        /\ taking' = [taking EXCEPT ![u] = [taking[u] EXCEPT !.step = "put", !.key = Len(photos) + 1]]
        /\ taking[u].step = "read"
    BY <1>5 DEF PutPhoto, Put, Names
  <2>2. Len(photos') = Len(photos) + 1
    <3>1. photos \in Seq(Photos)
      BY DEF CardsInvariant, ContactsType
    <3> QED
      BY <1>5, <3>1 DEF PutPhoto
  <2>3. PhotosStand(Names, Len(photos) + 1, objects \cup {Len(photos) + 1}, unsure,
                    [taking EXCEPT ![u] = [taking[u] EXCEPT !.step = "put", !.key = Len(photos) + 1]])
    BY <1>1, <2>1, PhotoPut
  <2> QED
    BY <2>1, <2>2, <2>3
<1>6. ASSUME NEW u \in Photographers, NamePhoto(u) \/ RemovePhoto(u) PROVE PhotosInvariant'
  <2>1. PICK key : /\ key = NoKey \/ (taking[u].step = "put" /\ key = taking[u].key)
                   /\ contacts' = [contacts EXCEPT ![taking[u].of].avatar = key]
    BY <1>6 DEF NamePhoto, RemovePhoto
  <2>2. /\ taking[u] # Free /\ UNCHANGED <<photos, objects, unsure>>
        /\ taking' = [taking EXCEPT ![u] = [taking[u] EXCEPT !.step = "named"]]
    BY <1>6 DEF NamePhoto, RemovePhoto, Free
  <2>3. Names' = [Names EXCEPT ![taking[u].of] = key]
    BY <1>1, <1>2, <2>1, <2>2, NameGiven
  <2>4. PhotosStand([Names EXCEPT ![taking[u].of] = key], Len(photos), objects, unsure,
                    [taking EXCEPT ![u] = [taking[u] EXCEPT !.step = "named"]])
    BY <1>1, <2>1, <2>2, RequestNames
  <2> QED
    BY <2>2, <2>3, <2>4
<1>7. ASSUME NEW u \in Photographers, NamingFails(u) PROVE PhotosInvariant'
  <2>1. /\ taking[u].step = "put" /\ taking[u] # Free /\ photos' = photos
        /\ objects' = objects \ {taking[u].key} /\ taking' = [taking EXCEPT ![u] = Free]
    BY <1>7 DEF NamingFails, Free
  <2>2. CASE contacts' = contacts /\ unsure' = unsure
    BY <1>1, <2>1, <2>2, NamingForgotten DEF Names
  <2>3. CASE /\ contacts' = [contacts EXCEPT ![taking[u].of].avatar = taking[u].key]
             /\ unsure' = unsure \cup {taking[u].key}
    <3>1. Names' = [Names EXCEPT ![taking[u].of] = taking[u].key]
      BY <1>1, <1>2, <2>1, <2>3, NameGiven
    <3> QED
      BY <1>1, <2>1, <2>3, <3>1, NamingForgotten
  <2> QED
    BY <1>7, <2>2, <2>3 DEF NamingFails
<1>8. ASSUME NEW u \in Photographers, FreePhoto(u) PROVE PhotosInvariant'
  <2>1. /\ taking[u].step = "named" /\ photos' = photos /\ unsure' = unsure /\ Names' = Names
        /\ objects' \in {objects \ {taking[u].old}, objects} /\ taking' = [taking EXCEPT ![u] = Free]
    BY <1>8 DEF FreePhoto, Names
  <2>2. /\ PhotosStand(Names, Len(photos), objects \ {taking[u].old}, unsure, [taking EXCEPT ![u] = Free])
        /\ PhotosStand(Names, Len(photos), objects, unsure, [taking EXCEPT ![u] = Free])
    BY <1>1, <2>1, PhotoFreed
  <2> QED
    BY <2>1, <2>2
<1>9. CASE \E e \in Editors : SaveCard(e)
  <2>1. \/ contacts' = contacts
        \/ contacts' = Append(contacts, [avatar |-> NoKey, from |-> NoCard])
    BY <1>9 DEF SaveCard
  <2> QED
    BY <1>3, <1>9, <2>1 DEF SaveCard
<1>10. CASE ImportCard
  BY <1>3, <1>10 DEF ImportCard
<1>11. ASSUME NEW u \in Photographers, NEW c, NEW photo,
              StartUpload(u, c, photo), UNCHANGED <<contacts, photos, objects, unsure>>
       PROVE  PhotosInvariant'
  BY <1>4, <1>11 DEF StartUpload
<1>12. CASE \E u \in Photographers, c \in 1..MaxContacts, p \in Photos : Upload(u, c, p)
  BY <1>11, <1>12 DEF Upload
<1>13. CASE SendPhoto
  BY <1>3, <1>11, <1>13, ContactsAssumption DEF SendPhoto
<1>14. CASE \E u \in Photographers, c \in 1..MaxContacts : StartRemoval(u, c)
  BY <1>4, <1>14 DEF StartRemoval
<1>15. CASE UNCHANGED <<contacts, photos, objects, unsure, taking>>
  BY <1>3, <1>15
<1> QED
  BY <1>5, <1>6, <1>7, <1>8, <1>9, <1>10, <1>12, <1>13, <1>14, <1>15 DEF ContactsNext, SavesCards,
     TakesPhotos, ImportsCards, OpenEditor, LookUp, CheckCard, CreateCard, LoadContacts, CloseImport,
     ImportSelected, ImportCheck, ImportAnswered, ImportDone, ReadVcard, Toggle, contactVars

\* The photo a contact names is in the store, whatever uploads and removals cross or fail
\* on the way, unless the answer to the UPDATE that named it was lost
\* (avatar.post.ts:14-44, avatar.delete.ts:10-22).
THEOREM AvatarStaysKept == ContactsSpec => []AvatarIsKept
<1>1. ContactsInit => CardsInvariant /\ PhotosInvariant
  BY ContactsStart, CardsStart, PhotosStart DEF CardsInvariant
<1>2. CardsInvariant /\ PhotosInvariant /\ [ContactsNext]_contactVars => (CardsInvariant /\ PhotosInvariant)'
  BY CardsInvariantStep, PhotosStep
<1>3. PhotosInvariant => AvatarIsKept
  BY DEF PhotosInvariant, PhotosStand, AvatarIsKept, Names
<1> QED
  BY <1>1, <1>2, <1>3, PTL DEF ContactsSpec


-----------------------------------------------------------------------------
(* What is sent is what was shown.                                         *)

Loads == {NoReplyRequest} \cup [at : {"load"}, target : Targets]

Saves == {NoReplyRequest} \cup [at : {"save"}, target : Targets, text : Nat]

Sends == {NoReplyRequest} \cup [at : {"send"}, target : Targets, shown : Nat]

Composer ==
    [open : BOOLEAN, target : Targets \cup {NoTarget}, body : Nat, timer : BOOLEAN, newer : BOOLEAN,
     saved : BOOLEAN, status : {"draft", "sending"}, load : Loads, save : Saves, asked : BOOLEAN,
     dialog : BOOLEAN, send : Sends]

ReplyType ==
    /\ active \in Targets
    /\ reply \in [Composers -> Composer]
    /\ draft \in [Targets -> Nat]
    /\ last \in [Targets -> Nat]
    /\ typed \in Nat

\* A save under way is for the message of its composer, or its text is known to be lost.
SaveStands(r, fate) == ~Idle(r.save) => r.save.target = r.target \/ fate[r.save.target] = Lost

\* Of a composer whatever happened to its text.
HereStands(r) ==
    /\ r.open \/ r.dialog \/ ~Idle(r.save) => r.target # NoTarget
    /\ r.timer => r.newer
    /\ r.asked => ~Idle(r.save)
    /\ ~Idle(r.load) => r.load.target = r.target
    /\ ~Idle(r.send) => r.send.target = r.target

\* The text of its message is not lost.
Keeps(r, fate) == r.target # NoTarget /\ fate[r.target] # Lost

\* What is being confirmed or sent is in the draft, and no save will change it: none of
\* another text is under way or due, no load, and none of the page that is gone.
TextStands(r, far, texts) ==
    /\ ~Idle(r.load) => Idle(r.save) /\ ~r.timer /\ ~r.asked /\ ~r.dialog /\ Idle(r.send)
    /\ Idle(r.load) => far.target # r.target
    /\ ~Idle(r.save) => r.save.target = r.target /\ (r.newer \/ r.save.text = r.body)
    /\ r.dialog \/ ~Idle(r.send) => texts[r.target] = r.body /\ ~r.newer
    /\ ~Idle(r.send) => r.send.shown = r.body

ReplyStands(r, far, texts, fate) ==
    /\ HereStands(r)
    /\ SaveStands(r, fate) /\ SaveStands(far, fate)
    /\ Keeps(r, fate) => TextStands(r, far, texts)

ReplyInvariant == ReplyType /\ ReplyStands(Here, reply["gone"], draft, last)


LEMMA FoldedStands ==
  /\ Folded \in Composer /\ HereStands(Folded)
  /\ Folded.target = NoTarget /\ Idle(Folded.save)
  /\ \A fate : SaveStands(Folded, fate) /\ ~Keeps(Folded, fate)
<1>1. Folded \in Composer
  BY DEF Folded, Composer, Loads, Saves, Sends
<1> QED
  BY <1>1 DEF Folded, HereStands, SaveStands, Keeps, Idle, NoReplyRequest

LEMMA ReplyStarts == ReplyInit => ReplyInvariant
<1> SUFFICES ASSUME ReplyInit PROVE ReplyInvariant
  OBVIOUS
<1>1. Here = Folded /\ reply["gone"] = Folded
  BY DEF ReplyInit, Here, Composers
<1>2. ReplyType
  BY FoldedStands, ReplyAssumption DEF ReplyInit, ReplyType, NoReplyDraft
<1> QED
  BY <1>1, <1>2, FoldedStands DEF ReplyInvariant, ReplyStands

LEMMA ReplyHolds ==
  ASSUME ReplyInvariant
  PROVE  /\ Here \in Composer /\ reply["gone"] \in Composer /\ ReplyType
         /\ ReplyStands(Here, reply["gone"], draft, last)
BY DEF ReplyInvariant, ReplyType, Here, Composers

\* The composer of the page that is here changes, the other does not.
LEMMA Changed ==
  ASSUME ReplyType, NEW r \in Composer, Change(r)
  PROVE  /\ Here' = r /\ reply'["gone"] = reply["gone"]
         /\ reply' \in [Composers -> Composer]
BY DEF ReplyType, Change, Here, Composers

\* What was lost stays lost.
LEMMA LostStays ==
  ASSUME ReplyType, NEW ts, Lose(ts)
  PROVE  /\ last' \in [Targets -> Nat]
         /\ \A t \in Targets : last[t] = Lost => last'[t] = Lost
         /\ \A t \in Targets : t \in ts => last'[t] = Lost
         /\ \A t \in Targets : last'[t] # Lost => last[t] # Lost
BY ReplyAssumption DEF ReplyType, Lose, Lost

\* A save takes the text there is; or one is under way, or there is nothing to save.
LEMMA SaveFields ==
  ASSUME NEW r \in Composer
  PROVE  /\ SaveReply(r) \in Composer
         /\ SaveReply(r).open = r.open /\ SaveReply(r).target = r.target /\ SaveReply(r).body = r.body
         /\ SaveReply(r).saved = r.saved /\ SaveReply(r).status = r.status /\ SaveReply(r).load = r.load
         /\ SaveReply(r).asked = r.asked /\ SaveReply(r).dialog = r.dialog /\ SaveReply(r).send = r.send
         /\ \/ /\ SaveReply(r) = r
               /\ r.target = NoTarget \/ r.status = "sending" \/ ~Idle(r.save)
            \/ /\ r.target # NoTarget /\ r.status # "sending" /\ Idle(r.save)
               /\ ~SaveReply(r).timer /\ ~SaveReply(r).newer
               /\ ~Idle(SaveReply(r).save) /\ SaveReply(r).save.target = r.target /\ SaveReply(r).save.text = r.body
<1>1. CASE r.target = NoTarget \/ r.status = "sending" \/ ~Idle(r.save)
  BY <1>1 DEF SaveReply
<1>2. CASE ~(r.target = NoTarget \/ r.status = "sending" \/ ~Idle(r.save))
  <2>1. PICK q : q = [at |-> "save", target |-> r.target, text |-> r.body]
    OBVIOUS
  <2>2. q \in Saves /\ ~Idle(q) /\ q.target = r.target /\ q.text = r.body
    BY <1>2, <2>1 DEF Composer, Saves, Idle
  <2>3. PICK s : s = [r EXCEPT !.timer = FALSE, !.newer = FALSE, !.save = q]
    OBVIOUS
  <2>4. SaveReply(r) = s
    BY <1>2, <2>1, <2>3 DEF SaveReply
  <2>5. s \in Composer /\ ~s.timer /\ ~s.newer /\ s.save = q
    BY <2>2, <2>3 DEF Composer
  <2>6. /\ s.open = r.open /\ s.target = r.target /\ s.body = r.body
        /\ s.saved = r.saved /\ s.status = r.status /\ s.load = r.load
        /\ s.asked = r.asked /\ s.dialog = r.dialog /\ s.send = r.send
    BY <2>3 DEF Composer
  <2> QED
    BY <1>2, <2>2, <2>4, <2>5, <2>6
<1> QED
  BY <1>1, <1>2

LEMMA WatchedFields ==
  ASSUME NEW r \in Composer
  PROVE  /\ Watched(r) \in Composer
         /\ Watched(r).open = r.open /\ Watched(r).target = r.target /\ Watched(r).body = r.body
         /\ Watched(r).status = r.status /\ Watched(r).load = r.load /\ Watched(r).save = r.save
         /\ Watched(r).asked = r.asked /\ Watched(r).dialog = r.dialog /\ Watched(r).send = r.send
         /\ \/ Watched(r) = r /\ (~r.open \/ r.status = "sending")
            \/ Watched(r).newer /\ Watched(r).timer
<1>1. CASE ~r.open \/ r.status = "sending"
  BY <1>1 DEF Watched
<1>2. CASE ~(~r.open \/ r.status = "sending")
  <2>1. PICK s : s = [r EXCEPT !.newer = TRUE, !.saved = FALSE, !.timer = TRUE]
    OBVIOUS
  <2>2. Watched(r) = s
    BY <1>2, <2>1 DEF Watched
  <2>3. s \in Composer /\ s.newer /\ s.timer
    BY <2>1 DEF Composer
  <2>4. /\ s.open = r.open /\ s.target = r.target /\ s.body = r.body
        /\ s.status = r.status /\ s.load = r.load /\ s.save = r.save
        /\ s.asked = r.asked /\ s.dialog = r.dialog /\ s.send = r.send
    BY <2>1 DEF Composer
  <2> QED
    BY <2>2, <2>3, <2>4
<1> QED
  BY <1>1, <1>2

\* The dialog opens when the save is over, and only then.
LEMMA ConfirmFields ==
  ASSUME NEW r \in Composer
  PROVE  /\ ConfirmWhenSaved(r) \in Composer
         /\ ConfirmWhenSaved(r).open = r.open /\ ConfirmWhenSaved(r).target = r.target
         /\ ConfirmWhenSaved(r).body = r.body /\ ConfirmWhenSaved(r).timer = r.timer
         /\ ConfirmWhenSaved(r).newer = r.newer /\ ConfirmWhenSaved(r).load = r.load
         /\ ConfirmWhenSaved(r).save = r.save /\ ConfirmWhenSaved(r).send = r.send
         /\ \/ ConfirmWhenSaved(r) = r /\ (~r.asked \/ ~Idle(r.save))
            \/ ~ConfirmWhenSaved(r).asked /\ Idle(r.save) /\ r.asked
<1>1. CASE ~r.asked \/ ~Idle(r.save)
  BY <1>1 DEF ConfirmWhenSaved
<1>2. CASE ~(~r.asked \/ ~Idle(r.save))
  <2>1. PICK s : s = [r EXCEPT !.asked = FALSE, !.dialog = r.saved]
    OBVIOUS
  <2>2. ConfirmWhenSaved(r) = s
    BY <1>2, <2>1 DEF ConfirmWhenSaved
  <2>3. s \in Composer /\ ~s.asked
    BY <2>1 DEF Composer
  <2>4. /\ s.open = r.open /\ s.target = r.target /\ s.body = r.body
        /\ s.timer = r.timer /\ s.newer = r.newer
        /\ s.load = r.load /\ s.save = r.save /\ s.send = r.send
    BY <2>1 DEF Composer
  <2> QED
    BY <1>2, <2>2, <2>3, <2>4
<1> QED
  BY <1>1, <1>2


\* Texts are lost, and nothing else of a composer changes.
LEMMA LosesMore ==
  ASSUME ReplyType, NEW ts, Lose(ts), NEW r \in Composer
  PROVE  /\ SaveStands(r, last) => SaveStands(r, last')
         /\ Keeps(r, last') => Keeps(r, last) /\ r.target \notin ts
<1>1. ~Idle(r.save) => r.save.target \in Targets
  BY DEF Composer, Saves, Idle, NoReplyRequest
<1>2. r.target # NoTarget => r.target \in Targets
  BY DEF Composer
<1> QED
  BY <1>1, <1>2, LostStays DEF SaveStands, Keeps

LEMMA SaveKeepsFate ==
  ASSUME NEW r \in Composer, NEW fate, SaveStands(r, fate)
  PROVE  SaveStands(SaveReply(r), fate)
BY SaveFields DEF SaveStands

\* The page is gone: the save that is under way, or begins, is what is left of it.
LEMMA LeftStands ==
  ASSUME NEW r \in Composer, NEW fate, SaveStands(r, fate)
  PROVE  Left(r) \in Composer /\ SaveStands(Left(r), fate) /\ Left(r).target \in {r.target, NoTarget}
<1> DEFINE s == IF ~r.timer THEN r
                ELSE IF Idle(r.save) THEN SaveReply(r) ELSE [r EXCEPT !.newer = TRUE]
<1>1. s \in Composer /\ s.target = r.target /\ SaveStands(s, fate)
  <2>1. CASE ~r.timer
    BY <2>1
  <2>2. CASE r.timer /\ Idle(r.save)
    BY <2>2, SaveFields, SaveKeepsFate
  <2>3. CASE r.timer /\ ~Idle(r.save)
    <3>1. PICK q : q = [r EXCEPT !.newer = TRUE]
      OBVIOUS
    <3>2. q \in Composer /\ q.target = r.target /\ q.save = r.save
      BY <3>1 DEF Composer
    <3> QED
      BY <2>3, <3>1, <3>2 DEF SaveStands
  <2> QED
    BY <2>1, <2>2, <2>3
<1>2. Left(r) = IF Idle(s.save) THEN Folded
                ELSE [Folded EXCEPT !.target = s.target, !.body = s.body, !.status = s.status,
                                    !.newer = s.newer, !.save = s.save]
  BY DEF Left
<1> HIDE DEF s
<1>3. CASE Idle(s.save)
  BY <1>2, <1>3, FoldedStands
<1>4. CASE ~Idle(s.save)
  <2>1. PICK q : q = [Folded EXCEPT !.target = s.target, !.body = s.body, !.status = s.status,
                                    !.newer = s.newer, !.save = s.save]
    OBVIOUS
  <2>2. q \in Composer /\ q.target = s.target /\ q.save = s.save
    BY <1>1, <2>1, FoldedStands DEF Composer
  <2> QED
    BY <1>1, <1>2, <1>4, <2>1, <2>2 DEF SaveStands
<1> QED
  BY <1>3, <1>4

\* The composer opens: a text that is not settled yet is lost, and so is what is written
\* after it.
LEMMA OpenStands ==
  ASSUME ReplyInvariant, OpenComposer
  PROVE  ReplyInvariant'
<1>1. PICK r : r = Here
  OBVIOUS
<1>2. /\ r \in Composer /\ reply["gone"] \in Composer /\ ReplyType
      /\ ReplyStands(r, reply["gone"], draft, last)
  BY <1>1, ReplyHolds
<1>3. PICK q \in Loads : q = [at |-> "load", target |-> active]
  BY <1>2 DEF Loads, ReplyType
<1>4. PICK s : s = [r EXCEPT !.open = TRUE, !.target = active, !.body = 0, !.status = "draft",
                             !.saved = FALSE, !.load = q]
  OBVIOUS
<1>5. /\ s \in Composer /\ s.target = active /\ s.load = q /\ s.dialog = r.dialog
      /\ s.timer = r.timer /\ s.newer = r.newer /\ s.asked = r.asked /\ s.save = r.save /\ s.send = r.send
  BY <1>2, <1>4 DEF Composer, ReplyType
<1>6. Change(s)
  BY <1>1, <1>3, <1>4 DEF OpenComposer
<1>7. Here' = s /\ reply'["gone"] = reply["gone"] /\ reply' \in [Composers -> Composer]
  BY <1>2, <1>5, <1>6, Changed
<1>8. PICK ts : Lose(ts) /\ ts = IF Unsettled(r) THEN {r.target, active} ELSE {}
  BY <1>1 DEF OpenComposer
<1>9. ReplyType'
  BY <1>2, <1>7, <1>8, LostStays DEF OpenComposer, ReplyType
<1>10. ~Idle(q) /\ q.target = active /\ active # NoTarget /\ active \in Targets
  BY <1>2, <1>3, ReplyAssumption DEF Idle, ReplyType
<1>11. ~r.dialog /\ Idle(r.send)
  BY <1>1 DEF OpenComposer
<1>12. HereStands(s)
  BY <1>2, <1>5, <1>10, <1>11 DEF HereStands, ReplyStands
<1>13. SaveStands(s, last')
  <2>1. CASE Idle(r.save)
    BY <1>5, <2>1 DEF SaveStands
  <2>2. CASE ~Idle(r.save)
    <3>1. r.save.target \in Targets
      BY <1>2, <2>2 DEF Composer, Saves, Idle, NoReplyRequest
    <3>2. r.save.target = r.target \/ last[r.save.target] = Lost
      BY <1>2, <2>2 DEF ReplyStands, SaveStands
    <3>3. r.target \in ts
      BY <1>8, <2>2 DEF Unsettled
    <3> QED
      BY <1>2, <1>5, <1>8, <3>1, <3>2, <3>3, LostStays DEF SaveStands
  <2> QED
    BY <2>1, <2>2
<1>14. SaveStands(reply["gone"], last')
  BY <1>2, <1>8, LosesMore DEF ReplyStands
<1>15. Keeps(s, last') => TextStands(s, reply["gone"], draft)
  <2> SUFFICES ASSUME Keeps(s, last') PROVE TextStands(s, reply["gone"], draft)
    OBVIOUS
  <2>1. ~Unsettled(r)
    BY <1>2, <1>5, <1>8, <1>10, LosesMore
  <2> QED
    BY <1>2, <1>5, <1>10, <1>11, <2>1 DEF TextStands, Unsettled, ReplyStands, HereStands
<1> QED
  BY <1>7, <1>9, <1>12, <1>13, <1>14, <1>15 DEF ReplyInvariant, ReplyStands, OpenComposer


LEMMA LoadedStands ==
  ASSUME ReplyInvariant, ReplyLoaded
  PROVE  ReplyInvariant'
<1>1. PICK r : r = Here
  OBVIOUS
<1>2. /\ r \in Composer /\ reply["gone"] \in Composer /\ ReplyType
      /\ ReplyStands(r, reply["gone"], draft, last)
  BY <1>1, ReplyHolds
<1>3. ~Idle(r.load) /\ r.load.target = r.target /\ r.target \in Targets
  BY <1>1, <1>2 DEF ReplyLoaded, ReplyStands, HereStands, Composer, Loads, Idle, NoReplyRequest
<1>4. PICK held \in BOOLEAN : held = (draft[r.target] # NoReplyDraft)
  OBVIOUS
<1>5. PICK body \in Nat : body = IF held THEN draft[r.target] ELSE 0
  BY <1>2, <1>3 DEF ReplyType
<1>6. PICK status \in {"draft", "sending"} : status = IF r.target \in sending THEN "sending" ELSE "draft"
  OBVIOUS
<1>7. PICK q : q = [r EXCEPT !.load = NoReplyRequest, !.body = body, !.saved = held, !.status = status]
  OBVIOUS
<1>8. /\ q \in Composer /\ q.open = r.open /\ q.target = r.target /\ q.load = NoReplyRequest
      /\ q.timer = r.timer /\ q.newer = r.newer /\ q.save = r.save
      /\ q.asked = r.asked /\ q.dialog = r.dialog /\ q.send = r.send
  BY <1>2, <1>7 DEF Composer, Loads
<1>9. PICK s : s = IF q.body = 0 THEN q ELSE Watched(q)
  OBVIOUS
<1>10. /\ s \in Composer /\ s.open = r.open /\ s.target = r.target /\ Idle(s.load) /\ s.save = r.save
       /\ s.asked = r.asked /\ s.dialog = r.dialog /\ s.send = r.send
       /\ s.timer => s.newer \/ r.timer
       /\ r.newer => s.newer
  BY <1>8, <1>9, WatchedFields DEF Idle, NoReplyRequest
<1>11. Change(s)
  <2>1. Change(IF q.body = 0 THEN q ELSE Watched(q))
    BY <1>1, <1>3, <1>4, <1>5, <1>6, <1>7 DEF ReplyLoaded
  <2> QED
    BY <1>9, <2>1
<1>12. Here' = s /\ reply'["gone"] = reply["gone"] /\ reply' \in [Composers -> Composer]
  BY <1>2, <1>10, <1>11, Changed
<1>13. PICK ts : Lose(ts) /\ (Lingers(r.target) => r.target \in ts)
  BY <1>1, <1>3 DEF ReplyLoaded
<1>14. ReplyType' /\ UNCHANGED draft
  BY <1>2, <1>12, <1>13, LostStays DEF ReplyLoaded, ReplyType
<1>15. HereStands(s)
  BY <1>2, <1>10 DEF HereStands, ReplyStands
<1>16. SaveStands(s, last') /\ SaveStands(reply["gone"], last')
  BY <1>2, <1>10, <1>13, LosesMore DEF ReplyStands, SaveStands
<1>17. Keeps(s, last') => TextStands(s, reply["gone"], draft)
  <2> SUFFICES ASSUME Keeps(s, last') PROVE TextStands(s, reply["gone"], draft)
    OBVIOUS
  <2>1. Keeps(r, last) /\ ~Lingers(r.target)
    BY <1>2, <1>10, <1>13, LosesMore DEF Keeps
  <2>2. Idle(r.save) /\ ~r.dialog /\ Idle(r.send)
    BY <1>2, <1>3, <2>1 DEF ReplyStands, TextStands
  <2> QED
    BY <1>10, <2>1, <2>2 DEF TextStands, Lingers
<1> QED
  BY <1>12, <1>14, <1>15, <1>16, <1>17 DEF ReplyInvariant, ReplyStands

LEMMA LoadFailsStands ==
  ASSUME ReplyInvariant, ReplyLoadFails
  PROVE  ReplyInvariant'
<1>1. PICK r : r = Here
  OBVIOUS
<1>2. /\ r \in Composer /\ reply["gone"] \in Composer /\ ReplyType
      /\ ReplyStands(r, reply["gone"], draft, last)
  BY <1>1, ReplyHolds
<1>3. ~Idle(r.load) /\ r.load.target = r.target
  BY <1>1, <1>2 DEF ReplyLoadFails, ReplyStands, HereStands
<1>4. PICK s : s = [r EXCEPT !.load = NoReplyRequest]
  OBVIOUS
<1>5. /\ s \in Composer /\ s.open = r.open /\ s.target = r.target /\ Idle(s.load) /\ s.save = r.save
      /\ s.asked = r.asked /\ s.dialog = r.dialog /\ s.send = r.send /\ s.timer = r.timer /\ s.newer = r.newer
  BY <1>2, <1>4 DEF Composer, Loads, Idle, NoReplyRequest
<1>6. Here' = s /\ reply'["gone"] = reply["gone"] /\ reply' \in [Composers -> Composer]
  BY <1>1, <1>2, <1>4, <1>5, Changed DEF ReplyLoadFails
<1>7. Lose({r.target})
  BY <1>1, <1>3 DEF ReplyLoadFails
<1>8. ReplyType' /\ UNCHANGED draft
  BY <1>2, <1>6, <1>7, LostStays DEF ReplyLoadFails, ReplyType
<1>9. HereStands(s)
  BY <1>2, <1>5 DEF HereStands, ReplyStands
<1>10. SaveStands(s, last') /\ SaveStands(reply["gone"], last')
  BY <1>2, <1>5, <1>7, LosesMore DEF ReplyStands, SaveStands
<1>11. ~Keeps(s, last')
  BY <1>5, <1>7, <1>8, LosesMore, <1>2
<1> QED
  BY <1>6, <1>8, <1>9, <1>10, <1>11 DEF ReplyInvariant, ReplyStands

LEMMA TypeStands ==
  ASSUME ReplyInvariant, TypeReply
  PROVE  ReplyInvariant'
<1>1. PICK r : r = Here
  OBVIOUS
<1>2. /\ r \in Composer /\ reply["gone"] \in Composer /\ ReplyType
      /\ ReplyStands(r, reply["gone"], draft, last)
  BY <1>1, ReplyHolds
<1>3. /\ r.open /\ Idle(r.load) /\ Idle(r.send) /\ ~r.dialog /\ r.status = "draft"
      /\ typed' = typed + 1 /\ typed' \in Nat
  BY <1>1, <1>2 DEF TypeReply, ReplyType
<1>4. PICK body \in Nat : body = typed'
  BY <1>3
<1>5. PICK q : q = [r EXCEPT !.body = body]
  OBVIOUS
<1>6. /\ q \in Composer /\ q.open = r.open /\ q.target = r.target /\ q.load = r.load /\ q.save = r.save
      /\ q.asked = r.asked /\ q.dialog = r.dialog /\ q.send = r.send /\ q.status = r.status
  BY <1>2, <1>5 DEF Composer
<1>7. PICK s : s = Watched(q)
  OBVIOUS
<1>8. /\ s \in Composer /\ s.open = r.open /\ s.target = r.target /\ s.load = r.load /\ s.save = r.save
      /\ s.asked = r.asked /\ s.dialog = r.dialog /\ s.send = r.send /\ s.newer /\ s.timer
  BY <1>3, <1>6, <1>7, WatchedFields
<1>9. Here' = s /\ reply'["gone"] = reply["gone"] /\ reply' \in [Composers -> Composer]
  BY <1>1, <1>2, <1>4, <1>5, <1>7, <1>8, Changed DEF TypeReply
<1>10. last' = [last EXCEPT ![r.target] = IF @ = Lost THEN Lost ELSE body]
  BY <1>1, <1>4 DEF TypeReply
<1>11. /\ last' \in [Targets -> Nat]
       /\ \A t \in Targets : last[t] = Lost => last'[t] = Lost
  BY <1>2, <1>10, ReplyAssumption DEF ReplyType, Lost
<1>12. ReplyType' /\ UNCHANGED draft
  BY <1>2, <1>3, <1>9, <1>11 DEF TypeReply, ReplyType
<1>13. HereStands(s)
  BY <1>2, <1>8 DEF HereStands, ReplyStands
<1>14. ASSUME NEW c \in Composer, SaveStands(c, last) PROVE SaveStands(c, last')
  <2>1. ~Idle(c.save) => c.save.target \in Targets
    BY DEF Composer, Saves, Idle, NoReplyRequest
  <2> QED
    BY <1>11, <1>14, <2>1 DEF SaveStands
<1>15. SaveStands(s, last') /\ SaveStands(reply["gone"], last')
  BY <1>2, <1>8, <1>14 DEF ReplyStands, SaveStands
<1>16. Keeps(s, last') => Keeps(r, last)
  BY <1>2, <1>8, <1>11 DEF Keeps, Composer
<1>17. Keeps(r, last) => TextStands(s, reply["gone"], draft)
  BY <1>2, <1>3, <1>8 DEF TextStands, ReplyStands
<1> QED
  BY <1>9, <1>12, <1>13, <1>15, <1>16, <1>17 DEF ReplyInvariant, ReplyStands

\* A composer that saves what it holds stands as it did.
LEMMA SavingStands ==
  ASSUME NEW r \in Composer, NEW far, NEW texts, NEW fate, ReplyStands(r, far, texts, fate)
  PROVE  /\ HereStands(SaveReply(r)) /\ SaveStands(SaveReply(r), fate)
         /\ Keeps(r, fate) /\ Idle(r.load) => TextStands(SaveReply(r), far, texts)
<1>1. PICK s : s = SaveReply(r)
  OBVIOUS
<1>2. CASE s = r
  BY <1>1, <1>2 DEF ReplyStands
<1>3. CASE /\ r.target # NoTarget /\ r.status # "sending" /\ Idle(r.save)
           /\ ~s.timer /\ ~s.newer
           /\ ~Idle(s.save) /\ s.save.target = r.target /\ s.save.text = r.body
  <2>1. /\ s.open = r.open /\ s.target = r.target /\ s.body = r.body /\ s.load = r.load
        /\ s.asked = r.asked /\ s.dialog = r.dialog /\ s.send = r.send
    BY <1>1, SaveFields
  <2>2. HereStands(s)
    BY <1>3, <2>1 DEF HereStands, ReplyStands
  <2>3. Keeps(r, fate) /\ Idle(r.load) => TextStands(s, far, texts)
    BY <1>3, <2>1 DEF TextStands, ReplyStands
  <2> QED
    BY <1>1, <1>3, <2>1, <2>2, <2>3 DEF SaveStands
<1> QED
  BY <1>1, <1>2, <1>3, SaveFields


LEMMA NothingLost == ReplyType /\ UNCHANGED last => Lose({})
BY DEF ReplyType, Lose

\* A step that changes the composer of the page that is here, loses texts, and leaves the
\* drafts.
LEMMA Becomes ==
  ASSUME ReplyInvariant, NEW s \in Composer, Change(s), NEW ts, Lose(ts),
         active' \in Targets, UNCHANGED <<draft, typed>>, HereStands(s), SaveStands(s, last),
         Keeps(s, last) /\ s.target \notin ts => TextStands(s, reply["gone"], draft)
  PROVE  ReplyInvariant'
<1>1. /\ reply["gone"] \in Composer /\ ReplyType /\ ReplyStands(Here, reply["gone"], draft, last)
  BY ReplyHolds
<1>2. Here' = s /\ reply'["gone"] = reply["gone"] /\ reply' \in [Composers -> Composer]
  BY <1>1, Changed
<1>3. ReplyType'
  BY <1>1, <1>2, LostStays DEF ReplyType
<1>4. SaveStands(s, last') /\ SaveStands(reply["gone"], last')
  BY <1>1, LosesMore DEF ReplyStands
<1>5. Keeps(s, last') => TextStands(s, reply["gone"], draft)
  BY <1>1, LosesMore
<1> QED
  BY <1>2, <1>3, <1>4, <1>5 DEF ReplyInvariant, ReplyStands

LEMMA GoStands ==
  ASSUME ReplyInvariant, NEW t \in Targets, GoToMessage(t)
  PROVE  ReplyInvariant'
<1>1. PICK r : r = Here
  OBVIOUS
<1>2. r \in Composer /\ ReplyType /\ ReplyStands(r, reply["gone"], draft, last)
  BY <1>1, ReplyHolds
<1>3. PICK q : q = [r EXCEPT !.open = FALSE]
  OBVIOUS
<1>4. /\ q \in Composer /\ ~q.open /\ q.target = r.target /\ q.body = r.body /\ q.load = r.load
      /\ q.save = r.save /\ q.timer = r.timer /\ q.newer = r.newer
      /\ q.asked = r.asked /\ q.dialog = r.dialog /\ q.send = r.send
  BY <1>2, <1>3 DEF Composer
<1>5. ReplyStands(q, reply["gone"], draft, last)
  BY <1>2, <1>4 DEF ReplyStands, HereStands, SaveStands, Keeps, TextStands
<1>6. PICK away \in BOOLEAN : away = (r.open /\ r.target # t)
  OBVIOUS
<1>7. PICK s : s = IF away THEN SaveReply(q) ELSE r
  OBVIOUS
<1>8. PICK ts : ts = IF away /\ ~Idle(r.load) THEN {r.target} ELSE {}
  OBVIOUS
<1>9. Change(s) /\ Lose(ts) /\ active' \in Targets /\ UNCHANGED <<draft, typed>>
  BY <1>1, <1>3, <1>6, <1>7, <1>8 DEF GoToMessage
<1>10. s \in Composer /\ s.target = r.target /\ HereStands(s) /\ SaveStands(s, last)
  BY <1>2, <1>4, <1>5, <1>7, SaveFields, SavingStands DEF ReplyStands
<1>11. Keeps(s, last) /\ s.target \notin ts => TextStands(s, reply["gone"], draft)
  <2>1. CASE away
    BY <1>4, <1>5, <1>7, <1>8, <1>10, <2>1, SavingStands DEF Keeps
  <2>2. CASE ~away
    BY <1>2, <1>7, <2>2 DEF ReplyStands
  <2> QED
    BY <2>1, <2>2
<1> QED
  BY <1>9, <1>10, <1>11, Becomes

\* The page is left: what its composer holds is the gone page's.
LEMMA LeaveStands ==
  ASSUME ReplyInvariant, LeaveReply
  PROVE  ReplyInvariant'
<1>1. PICK r : r = Here
  OBVIOUS
<1>2. r \in Composer /\ ReplyType /\ ReplyStands(r, reply["gone"], draft, last)
  BY <1>1, ReplyHolds
<1>3. reply' = [w \in Composers |-> IF w = "here" THEN Folded ELSE Left(r)]
  BY <1>1 DEF LeaveReply
<1>4. Left(r) \in Composer /\ SaveStands(Left(r), last)
  BY <1>2, LeftStands DEF ReplyStands
<1>5. Here' = Folded /\ reply'["gone"] = Left(r) /\ reply' \in [Composers -> Composer]
  BY <1>3, <1>4, FoldedStands DEF Here, Composers
<1>6. PICK ts : Lose(ts)
  BY DEF LeaveReply
<1>7. ReplyType'
  BY <1>2, <1>5, <1>6, LostStays DEF LeaveReply, ReplyType
<1>8. SaveStands(Left(r), last')
  BY <1>2, <1>4, <1>6, LosesMore
<1> QED
  BY <1>5, <1>7, <1>8, FoldedStands DEF ReplyInvariant, ReplyStands

LEMMA FoldStands ==
  ASSUME ReplyInvariant, Fold \/ CancelReply
  PROVE  ReplyInvariant'
<1>1. PICK r : r = Here
  OBVIOUS
<1>2. r \in Composer /\ ReplyType /\ ReplyStands(r, reply["gone"], draft, last)
  BY <1>1, ReplyHolds
<1>3. PICK s : /\ s = [r EXCEPT !.open = FALSE] \/ s = [r EXCEPT !.dialog = FALSE]
               /\ Change(s)
  BY <1>1 DEF Fold, CancelReply
<1>4. /\ s \in Composer /\ s.target = r.target /\ s.body = r.body /\ s.load = r.load
      /\ s.save = r.save /\ s.timer = r.timer /\ s.newer = r.newer /\ s.asked = r.asked /\ s.send = r.send
      /\ s.open => r.open
      /\ s.dialog => r.dialog
  BY <1>2, <1>3 DEF Composer
<1>5. ReplyStands(s, reply["gone"], draft, last)
  BY <1>2, <1>4 DEF ReplyStands, HereStands, SaveStands, Keeps, TextStands
<1>6. Lose({}) /\ active' \in Targets /\ UNCHANGED <<draft, typed>>
  BY <1>2, NothingLost DEF Fold, CancelReply, ReplyType
<1> QED
  BY <1>3, <1>4, <1>5, <1>6, Becomes DEF ReplyStands

LEMMA RequestStandsStill ==
  ASSUME ReplyInvariant, RequestSend
  PROVE  ReplyInvariant'
<1>1. PICK r : r = Here
  OBVIOUS
<1>2. r \in Composer /\ ReplyType /\ ReplyStands(r, reply["gone"], draft, last)
  BY <1>1, ReplyHolds
<1>3. /\ r.open /\ Idle(r.send) /\ Idle(r.save) /\ ~r.dialog /\ r.status = "draft" /\ Idle(r.load)
      /\ r.target # NoTarget
  BY <1>1, <1>2 DEF RequestSend, ReplyStands, HereStands
<1>4. PICK q : q = [r EXCEPT !.asked = TRUE, !.timer = FALSE]
  OBVIOUS
<1>5. /\ q \in Composer /\ q.open = r.open /\ q.target = r.target /\ q.body = r.body /\ q.load = r.load
      /\ q.save = r.save /\ q.status = r.status /\ q.dialog = r.dialog /\ q.send = r.send
  BY <1>2, <1>4 DEF Composer
<1>6. PICK s : s = SaveReply(q)
  OBVIOUS
<1>7. /\ s \in Composer /\ s.target = r.target /\ s.body = r.body /\ s.load = r.load
      /\ s.dialog = r.dialog /\ s.send = r.send /\ ~s.timer
      /\ ~Idle(s.save) /\ s.save.target = r.target /\ s.save.text = r.body
  BY <1>3, <1>5, <1>6, SaveFields
<1>8. HereStands(s) /\ SaveStands(s, last)
  BY <1>3, <1>7 DEF HereStands, SaveStands
<1>9. Keeps(s, last) => TextStands(s, reply["gone"], draft)
  BY <1>2, <1>3, <1>7 DEF Keeps, TextStands, ReplyStands
<1>10. Change(s) /\ Lose({}) /\ active' \in Targets /\ UNCHANGED <<draft, typed>>
  BY <1>1, <1>2, <1>4, <1>6, NothingLost DEF RequestSend, ReplyType
<1> QED
  BY <1>7, <1>8, <1>9, <1>10, Becomes

LEMMA SendStands ==
  ASSUME ReplyInvariant, Send
  PROVE  ReplyInvariant'
<1>1. PICK r : r = Here
  OBVIOUS
<1>2. r \in Composer /\ ReplyType /\ ReplyStands(r, reply["gone"], draft, last)
  BY <1>1, ReplyHolds
<1>3. r.dialog /\ Idle(r.send) /\ r.target \in Targets
  BY <1>1, <1>2 DEF Send, ReplyStands, HereStands, Composer
<1>4. PICK q : q = [at |-> "send", target |-> r.target, shown |-> r.body]
  OBVIOUS
<1>5. q \in Sends /\ q.target = r.target /\ q.shown = r.body /\ ~Idle(q)
  BY <1>2, <1>3, <1>4 DEF Sends, Composer, Idle
<1>6. PICK s : s = [r EXCEPT !.send = q]
  OBVIOUS
<1>7. /\ s \in Composer /\ s.open = r.open /\ s.target = r.target /\ s.body = r.body /\ s.load = r.load
      /\ s.save = r.save /\ s.timer = r.timer /\ s.newer = r.newer /\ s.asked = r.asked
      /\ s.dialog = r.dialog /\ s.send = q
  BY <1>2, <1>5, <1>6 DEF Composer
<1>8. HereStands(s) /\ SaveStands(s, last)
  BY <1>2, <1>5, <1>7 DEF HereStands, SaveStands, ReplyStands
<1>9. Keeps(s, last) => TextStands(s, reply["gone"], draft)
  BY <1>2, <1>3, <1>5, <1>7 DEF Keeps, TextStands, ReplyStands
<1>10. Change(s) /\ Lose({}) /\ active' \in Targets /\ UNCHANGED <<draft, typed>>
  BY <1>1, <1>2, <1>4, <1>6, NothingLost DEF Send, ReplyType
<1> QED
  BY <1>7, <1>8, <1>9, <1>10, Becomes

LEMMA TimerStands ==
  ASSUME ReplyInvariant, ReplyTimerFires
  PROVE  ReplyInvariant'
<1>1. PICK r : r = Here
  OBVIOUS
<1>2. r \in Composer /\ ReplyType /\ ReplyStands(r, reply["gone"], draft, last)
  BY <1>1, ReplyHolds
<1>3. PICK q : q = [r EXCEPT !.timer = FALSE]
  OBVIOUS
<1>4. /\ q \in Composer /\ q.open = r.open /\ q.target = r.target /\ q.body = r.body /\ q.load = r.load
      /\ q.save = r.save /\ ~q.timer /\ q.newer = r.newer /\ q.asked = r.asked
      /\ q.dialog = r.dialog /\ q.send = r.send
  BY <1>2, <1>3 DEF Composer
<1>5. ReplyStands(q, reply["gone"], draft, last)
  BY <1>2, <1>4 DEF ReplyStands, HereStands, SaveStands, Keeps, TextStands
<1>6. Keeps(r, last) => Idle(r.load)
  BY <1>1, <1>2 DEF ReplyTimerFires, ReplyStands, TextStands
<1>7. /\ SaveReply(q) \in Composer /\ HereStands(SaveReply(q)) /\ SaveStands(SaveReply(q), last)
      /\ Keeps(SaveReply(q), last) => TextStands(SaveReply(q), reply["gone"], draft)
  BY <1>4, <1>5, <1>6, SaveFields, SavingStands DEF Keeps
<1>8. Change(SaveReply(q)) /\ Lose({}) /\ active' \in Targets /\ UNCHANGED <<draft, typed>>
  BY <1>1, <1>2, <1>3, NothingLost DEF ReplyTimerFires, ReplyType
<1> QED
  BY <1>7, <1>8, Becomes


\* A save is over: the text that came after it is saved next, or nothing is saved any more
\* and what was asked to be sent is confirmed.
LEMMA EndSaveFields ==
  ASSUME NEW r \in Composer, Idle(r.save)
  PROVE  /\ EndSave(r) \in Composer
         /\ EndSave(r).open = r.open /\ EndSave(r).target = r.target /\ EndSave(r).body = r.body
         /\ EndSave(r).load = r.load /\ EndSave(r).send = r.send
         /\ \/ /\ r.newer /\ ~EndSave(r).timer /\ ~EndSave(r).newer
               /\ EndSave(r).asked = r.asked /\ EndSave(r).dialog = r.dialog
               /\ ~Idle(EndSave(r).save) /\ EndSave(r).save.target = r.target
               /\ EndSave(r).save.text = r.body
            \/ /\ ~r.newer \/ r.status = "sending" \/ r.target = NoTarget
               /\ EndSave(r).timer = r.timer /\ EndSave(r).newer = r.newer
               /\ ~EndSave(r).asked /\ Idle(EndSave(r).save)
<1>1. PICK m : m = IF r.newer /\ r.status # "sending" THEN SaveReply(r) ELSE r
  OBVIOUS
<1>2. EndSave(r) = ConfirmWhenSaved(m)
  BY <1>1 DEF EndSave
<1>3. CASE r.newer /\ r.status # "sending" /\ r.target # NoTarget
  <2>1. /\ m \in Composer
        /\ m.open = r.open /\ m.target = r.target /\ m.body = r.body /\ m.load = r.load
        /\ m.asked = r.asked /\ m.dialog = r.dialog /\ m.send = r.send /\ ~m.timer /\ ~m.newer
        /\ ~Idle(m.save) /\ m.save.target = r.target /\ m.save.text = r.body
    BY <1>1, <1>3, SaveFields
  <2>2. EndSave(r) = m
    BY <1>2, <2>1 DEF ConfirmWhenSaved
  <2> QED
    BY <1>3, <2>1, <2>2
<1>4. CASE ~(r.newer /\ r.status # "sending" /\ r.target # NoTarget)
  <2>1. m = r
    BY <1>1, <1>4, SaveFields
  <2> QED
    BY <1>2, <1>4, <2>1, ConfirmFields
<1> QED
  BY <1>3, <1>4

\* The save of the page that is here was carried out.
LEMMA SavedStands ==
  ASSUME ReplyInvariant, NEW r, r = Here, ~Idle(r.save), NEW s, s = r.save,
         draft' = [draft EXCEPT ![s.target] = s.text],
         NEW e, e = EndSave([r EXCEPT !.save = NoReplyRequest, !.saved = TRUE, !.status = "draft"]),
         Change(e), UNCHANGED <<last, active, typed>>
  PROVE  ReplyInvariant'
<1>1. r \in Composer /\ ReplyType /\ ReplyStands(r, reply["gone"], draft, last)
  BY ReplyHolds
<1>2. s.target \in Targets /\ s.text \in Nat /\ r.target # NoTarget
  BY <1>1 DEF Composer, Saves, Idle, NoReplyRequest, ReplyStands, HereStands
<1>3. PICK q : q = [r EXCEPT !.save = NoReplyRequest, !.saved = TRUE, !.status = "draft"]
  OBVIOUS
<1>4. /\ q \in Composer /\ q.open = r.open /\ q.target = r.target /\ q.body = r.body /\ q.load = r.load
      /\ Idle(q.save) /\ q.status = "draft" /\ q.timer = r.timer /\ q.newer = r.newer
      /\ q.asked = r.asked /\ q.dialog = r.dialog /\ q.send = r.send
  BY <1>1, <1>3 DEF Composer, Saves, Idle, NoReplyRequest
<1>5. e = EndSave(q)
  BY <1>3
<1>6. /\ e \in Composer /\ e.open = r.open /\ e.target = r.target /\ e.body = r.body
      /\ e.load = r.load /\ e.send = r.send
      /\ \/ /\ r.newer /\ ~e.timer /\ ~e.newer /\ e.asked = r.asked /\ e.dialog = r.dialog
            /\ ~Idle(e.save) /\ e.save.target = r.target /\ e.save.text = r.body
         \/ /\ ~r.newer /\ e.timer = r.timer /\ e.newer = r.newer /\ ~e.asked /\ Idle(e.save)
  BY <1>2, <1>4, <1>5, EndSaveFields
<1>7. Here' = e /\ reply'["gone"] = reply["gone"] /\ reply' \in [Composers -> Composer]
  BY <1>1, <1>6, Changed
<1>8. ReplyType' /\ last' = last
  BY <1>1, <1>2, <1>7 DEF ReplyType
<1>9. HereStands(e) /\ SaveStands(e, last)
  BY <1>1, <1>2, <1>6 DEF HereStands, SaveStands, ReplyStands
<1>10. Keeps(e, last) => TextStands(e, reply["gone"], draft')
  <2> SUFFICES ASSUME Keeps(e, last) PROVE TextStands(e, reply["gone"], draft')
    OBVIOUS
  <2>1. TextStands(r, reply["gone"], draft)
    BY <1>1, <1>6 DEF Keeps, ReplyStands
  <2>2. s.target = r.target /\ Idle(r.load) /\ draft'[r.target] = s.text
    BY <1>1, <1>2, <2>1 DEF TextStands, ReplyType
  <2> QED
    BY <1>6, <2>1, <2>2 DEF TextStands
<1> QED
  BY <1>1, <1>7, <1>8, <1>9, <1>10 DEF ReplyInvariant, ReplyStands

\* It failed, or its answer was lost: the text counts as lost.
LEMMA NotSavedStands ==
  ASSUME ReplyInvariant, NEW r, r = Here, ~Idle(r.save), NEW s, s = r.save,
         draft' \in {draft, [draft EXCEPT ![s.target] = s.text]},
         NEW e, e = EndSave([r EXCEPT !.save = NoReplyRequest, !.saved = FALSE]),
         Change(e), Lose({s.target}), UNCHANGED <<active, typed>>
  PROVE  ReplyInvariant'
<1>1. /\ r \in Composer /\ reply["gone"] \in Composer /\ ReplyType
      /\ ReplyStands(r, reply["gone"], draft, last)
  BY ReplyHolds
<1>2. s.target \in Targets /\ s.text \in Nat /\ r.target # NoTarget
  BY <1>1 DEF Composer, Saves, Idle, NoReplyRequest, ReplyStands, HereStands
<1>3. PICK q : q = [r EXCEPT !.save = NoReplyRequest, !.saved = FALSE]
  OBVIOUS
<1>4. /\ q \in Composer /\ q.open = r.open /\ q.target = r.target /\ q.body = r.body /\ q.load = r.load
      /\ Idle(q.save) /\ q.timer = r.timer /\ q.newer = r.newer
      /\ q.asked = r.asked /\ q.dialog = r.dialog /\ q.send = r.send
  BY <1>1, <1>3 DEF Composer, Saves, Idle, NoReplyRequest
<1>5. e = EndSave(q)
  BY <1>3
<1>6. /\ e \in Composer /\ e.open = r.open /\ e.target = r.target /\ e.load = r.load /\ e.send = r.send
      /\ e.timer => e.newer
      /\ e.asked => ~Idle(e.save)
      /\ ~Idle(e.save) => e.save.target = r.target
  BY <1>1, <1>4, <1>5, EndSaveFields DEF ReplyStands, HereStands
<1>7. Here' = e /\ reply'["gone"] = reply["gone"] /\ reply' \in [Composers -> Composer]
  BY <1>1, <1>6, Changed
<1>8. ReplyType'
  BY <1>1, <1>2, <1>7, LostStays DEF ReplyType
<1>9. HereStands(e) /\ SaveStands(e, last') /\ SaveStands(reply["gone"], last')
  BY <1>1, <1>2, <1>6, LosesMore DEF HereStands, SaveStands, ReplyStands
<1>10. ~Keeps(e, last')
  <2>1. Keeps(r, last) => s.target = r.target
    BY <1>1 DEF ReplyStands, TextStands
  <2>2. Keeps(e, last') => Keeps(r, last) /\ r.target # s.target
    BY <1>1, <1>6, LosesMore DEF Keeps
  <2> QED
    BY <2>1, <2>2
<1> QED
  BY <1>7, <1>8, <1>9, <1>10 DEF ReplyInvariant, ReplyStands

\* The save of the page that is gone: the page that is here holds another message, or its
\* text is loading or lost.
LEMMA GoneSaveStands ==
  ASSUME ReplyInvariant, ReplySaveAnswered("gone")
  PROVE  ReplyInvariant'
<1>1. PICK r, far : r = Here /\ far = reply["gone"]
  OBVIOUS
<1>2. /\ r \in Composer /\ far \in Composer /\ ReplyType /\ ReplyStands(r, far, draft, last)
  BY <1>1, ReplyHolds
<1>3. PICK s : s = far.save
  OBVIOUS
<1>4. ~Idle(s) /\ s.target \in Targets /\ s.text \in Nat
  BY <1>1, <1>2, <1>3 DEF ReplySaveAnswered, Composer, Saves, Idle, NoReplyRequest
<1>5. PICK q : /\ \/ q = [far EXCEPT !.save = NoReplyRequest, !.saved = TRUE, !.status = "draft"]
                  \/ q = [far EXCEPT !.save = NoReplyRequest, !.saved = FALSE]
               /\ reply' = [reply EXCEPT !["gone"] = Left(EndSave(q))]
  BY <1>1 DEF ReplySaveAnswered, Settle
<1>6. q \in Composer /\ q.target = far.target /\ Idle(q.save)
  <2>1. CASE q = [far EXCEPT !.save = NoReplyRequest, !.saved = TRUE, !.status = "draft"]
    BY <1>2, <2>1 DEF Composer, Saves, Idle, NoReplyRequest
  <2>2. CASE q = [far EXCEPT !.save = NoReplyRequest, !.saved = FALSE]
    BY <1>2, <2>2 DEF Composer, Saves, Idle, NoReplyRequest
  <2> QED
    BY <1>5, <2>1, <2>2
<1>7. PICK e : e = EndSave(q)
  OBVIOUS
<1>8. e \in Composer /\ e.target = far.target /\ SaveStands(e, last)
  BY <1>6, <1>7, EndSaveFields DEF SaveStands
<1>9. Left(e) \in Composer /\ SaveStands(Left(e), last) /\ Left(e).target \in {far.target, NoTarget}
  BY <1>8, LeftStands
<1>10. Here' = r /\ reply'["gone"] = Left(e) /\ reply' \in [Composers -> Composer]
  BY <1>1, <1>2, <1>5, <1>7, <1>9 DEF ReplyType, Composers, Here
<1>11. PICK ts : Lose(ts)
  BY <1>2, NothingLost DEF ReplySaveAnswered
<1>12. draft' \in {draft, [draft EXCEPT ![s.target] = s.text]}
  BY <1>1, <1>3 DEF ReplySaveAnswered
<1>13. ReplyType'
  BY <1>2, <1>4, <1>10, <1>11, <1>12, LostStays DEF ReplyType, ReplySaveAnswered
<1>14. SaveStands(r, last') /\ SaveStands(Left(e), last')
  BY <1>2, <1>9, <1>11, LosesMore DEF ReplyStands
<1>15. Keeps(r, last') => TextStands(r, Left(e), draft')
  <2> SUFFICES ASSUME Keeps(r, last') PROVE TextStands(r, Left(e), draft')
    OBVIOUS
  <2>1. Keeps(r, last) /\ TextStands(r, far, draft)
    BY <1>2, <1>11, LosesMore DEF ReplyStands
  <2>2. Left(e).target # r.target \/ ~Idle(r.load)
    BY <1>9, <2>1 DEF TextStands, Keeps
  <2>3. s.target = far.target \/ s.target # r.target
    BY <1>2, <1>3, <1>4, <2>1 DEF ReplyStands, SaveStands, Keeps
  <2>4. ASSUME Idle(r.load) PROVE draft'[r.target] = draft[r.target]
    <3>1. s.target # r.target
      BY <2>1, <2>3, <2>4 DEF TextStands
    <3> QED
      BY <1>2, <1>12, <2>1, <3>1 DEF ReplyType, Keeps, Composer
  <2> QED
    BY <2>1, <2>2, <2>4 DEF TextStands
<1> QED
  BY <1>2, <1>10, <1>13, <1>14, <1>15 DEF ReplyInvariant, ReplyStands


\* Sent, refused or uncertain: the draft goes or stays, and nothing is confirmed any more.
LEMMA SentStands ==
  ASSUME ReplyInvariant, ReplySendAnswered
  PROVE  ReplyInvariant'
<1>1. PICK r : r = Here
  OBVIOUS
<1>2. /\ r \in Composer /\ reply["gone"] \in Composer /\ ReplyType
      /\ ReplyStands(r, reply["gone"], draft, last)
  BY <1>1, ReplyHolds
<1>3. PICK t \in Targets : t = r.send.target
  BY <1>1, <1>2 DEF ReplySendAnswered, Composer, Sends, Idle, NoReplyRequest
<1>4. PICK q : q = [r EXCEPT !.send = NoReplyRequest, !.dialog = FALSE]
  OBVIOUS
<1>5. PICK s : /\ s \in {q, [q EXCEPT !.open = FALSE], [q EXCEPT !.status = "sending"]}
               /\ Change(s)
  BY <1>1, <1>4 DEF ReplySendAnswered
<1>6. /\ q \in Composer /\ q.open = r.open /\ q.target = r.target /\ q.body = r.body /\ q.load = r.load
      /\ q.save = r.save /\ q.timer = r.timer /\ q.newer = r.newer /\ q.asked = r.asked
      /\ ~q.dialog /\ Idle(q.send)
  BY <1>2, <1>4 DEF Composer, Sends, Idle, NoReplyRequest
<1>7. /\ s \in Composer /\ (s.open => r.open) /\ s.target = r.target /\ s.body = r.body
      /\ s.load = r.load /\ s.save = r.save /\ s.timer = r.timer /\ s.newer = r.newer
      /\ s.asked = r.asked /\ ~s.dialog /\ Idle(s.send)
  <2>1. CASE s = q
    BY <1>6, <2>1
  <2>2. CASE s = [q EXCEPT !.open = FALSE]
    BY <1>6, <2>2 DEF Composer
  <2>3. CASE s = [q EXCEPT !.status = "sending"]
    BY <1>6, <2>3 DEF Composer
  <2> QED
    BY <1>5, <2>1, <2>2, <2>3
<1>8. Here' = s /\ reply'["gone"] = reply["gone"] /\ reply' \in [Composers -> Composer]
  BY <1>2, <1>5, <1>7, Changed
<1>9. \/ UNCHANGED <<draft, last>>
      \/ /\ draft' = [draft EXCEPT ![t] = NoReplyDraft]
         /\ last' = [last EXCEPT ![t] = IF last[t] = Lost THEN Lost ELSE 0]
  BY <1>1, <1>3 DEF ReplySendAnswered
<1>10. /\ draft' \in [Targets -> Nat] /\ last' \in [Targets -> Nat]
       /\ \A u \in Targets : last[u] = Lost <=> last'[u] = Lost
  BY <1>2, <1>9, ReplyAssumption DEF ReplyType, NoReplyDraft, Lost
<1>11. ReplyType'
  BY <1>2, <1>8, <1>10 DEF ReplyType, ReplySendAnswered
<1>12. HereStands(s)
  BY <1>2, <1>7 DEF HereStands, ReplyStands
<1>13. ASSUME NEW c \in Composer, SaveStands(c, last) PROVE SaveStands(c, last')
  <2>1. ~Idle(c.save) => c.save.target \in Targets
    BY DEF Composer, Saves, Idle, NoReplyRequest
  <2> QED
    BY <1>10, <1>13, <2>1 DEF SaveStands
<1>14. SaveStands(s, last') /\ SaveStands(reply["gone"], last')
  BY <1>2, <1>7, <1>13 DEF ReplyStands, SaveStands
<1>15. Keeps(s, last') => Keeps(r, last)
  BY <1>2, <1>7, <1>10 DEF Keeps, Composer
<1>16. Keeps(r, last) => TextStands(s, reply["gone"], draft')
  BY <1>2, <1>7 DEF TextStands, ReplyStands
<1> QED
  BY <1>8, <1>11, <1>12, <1>14, <1>15, <1>16 DEF ReplyInvariant, ReplyStands

LEMMA HereSaveStands ==
  ASSUME ReplyInvariant, ReplySaveAnswered("here")
  PROVE  ReplyInvariant'
<1>1. PICK r, s : r = Here /\ s = r.save
  OBVIOUS
<1>2. ~Idle(s) /\ UNCHANGED <<active, typed>>
  BY <1>1 DEF ReplySaveAnswered, Here
<1>3. ASSUME NEW e, Settle("here", e) PROVE Change(e)
  BY <1>3 DEF Settle, Change
<1>4. CASE /\ draft' = [draft EXCEPT ![s.target] = s.text]
           /\ Settle("here", EndSave([r EXCEPT !.save = NoReplyRequest, !.saved = TRUE, !.status = "draft"]))
           /\ UNCHANGED last
  BY <1>1, <1>2, <1>3, <1>4, SavedStands
<1>5. CASE /\ draft' \in {draft, [draft EXCEPT ![s.target] = s.text]}
           /\ Settle("here", EndSave([r EXCEPT !.save = NoReplyRequest, !.saved = FALSE]))
           /\ Lose({s.target})
  BY <1>1, <1>2, <1>3, <1>5, NotSavedStands
<1> QED
  BY <1>1, <1>4, <1>5 DEF ReplySaveAnswered, Here

LEMMA ReplySteps == ReplyInvariant /\ [ReplyNext]_replyVars => ReplyInvariant'
<1> SUFFICES ASSUME ReplyInvariant, [ReplyNext]_replyVars PROVE ReplyInvariant'
  OBVIOUS
<1>1. CASE UNCHANGED replyVars
  BY <1>1 DEF ReplyInvariant, ReplyType, Here, replyVars
<1> QED
  BY <1>1, OpenStands, LoadedStands, LoadFailsStands, TypeStands, FoldStands, LeaveStands,
     RequestStandsStill, SendStands, TimerStands, SentStands, HereSaveStands, GoneSaveStands, GoStands
     DEF ReplyNext, Composers

\* What is sent is the text that was shown when the writer confirmed, whatever saves are
\* late or lost, pages are left or messages changed on the way, except where the composer
\* was opened again before its text was stored (useMailReply.ts).
THEOREM ShownIsSent == ReplySpec => SentIsShown
<1> DEFINE Sent == ~Idle(Here.send) /\ reply'["here"].send # Here.send
                     /\ <<draft, sending>>' # <<draft, sending>>
                   => draft[Here.send.target] = Here.send.shown \/ last[Here.send.target] = Lost
<1>1. ReplyInvariant => Sent
  <2> SUFFICES ASSUME ReplyInvariant, ~Idle(Here.send)
               PROVE  draft[Here.send.target] = Here.send.shown \/ last[Here.send.target] = Lost
    OBVIOUS
  <2>1. /\ Here \in Composer /\ ReplyStands(Here, reply["gone"], draft, last)
    BY ReplyHolds
  <2>2. Here.send.target = Here.target /\ Here.send.target \in Targets
    BY <2>1 DEF ReplyStands, HereStands, Composer, Sends, Idle, NoReplyRequest
  <2>3. CASE last[Here.target] = Lost
    BY <2>2, <2>3
  <2>4. CASE last[Here.target] # Lost
    <3>1. TextStands(Here, reply["gone"], draft)
      BY <2>1, <2>2, <2>4, ReplyAssumption DEF ReplyStands, Keeps
    <3> QED
      BY <2>2, <3>1 DEF TextStands
  <2> QED
    BY <2>3, <2>4
<1>2. ReplyInvariant /\ [ReplyNext]_replyVars => [Sent]_replyVars
  BY <1>1
<1>3. SentIsShown <=> [][Sent]_replyVars
  BY PTL DEF SentIsShown, Here
<1> QED
  BY <1>2, <1>3, ReplyStarts, ReplySteps, PTL DEF ReplySpec

-----------------------------------------------------------------------------
(* The rows of a search (MailSearch).                                      *)

LEMMA RowsDiffer ==
  ASSUME NEW hits \in SUBSET Nat, IsFiniteSet(hits), NEW x \in hits, NEW y \in hits, x < y
  PROVE  RowOf(hits, y) < RowOf(hits, x)
<1> DEFINE From(z) == {h \in hits : h >= z}
<1>1. IsFiniteSet(From(x)) /\ IsFiniteSet(From(y))
  BY FS_Subset
<1>2. From(y) \subseteq From(x) /\ x \in From(x) /\ x \notin From(y)
  <2>1. x \in Nat /\ y \in Nat /\ \A h \in hits : h \in Nat
    OBVIOUS
  <2>2. \A h \in hits : h >= y => h >= x
    BY <2>1
  <2>3. x >= x /\ ~(x >= y)
    BY <2>1
  <2> QED
    BY <2>2, <2>3
<1>3. Cardinality(From(y)) <= Cardinality(From(x)) /\ Cardinality(From(y)) # Cardinality(From(x))
  BY <1>1, <1>2, FS_Subset
<1>4. Cardinality(From(x)) \in Nat /\ Cardinality(From(y)) \in Nat
  BY <1>1, FS_CardinalityType
<1> QED
  BY <1>3, <1>4 DEF RowOf

LEMMA RowsKnown ==
  ASSUME NEW hits \in SUBSET Nat, IsFiniteSet(hits)
  PROVE  /\ Cardinality(hits) \in Nat
         /\ \A x \in hits : RowOf(hits, x) \in 1..Cardinality(hits)
         /\ \A x, y \in hits : RowOf(hits, x) = RowOf(hits, y) => x = y
<1>1. Cardinality(hits) \in Nat
  BY FS_CardinalityType
<1>2. ASSUME NEW x \in hits
      PROVE  RowOf(hits, x) \in 1..Cardinality(hits)
  <2> DEFINE From == {h \in hits : h >= x}
  <2>1. IsFiniteSet(From) /\ Cardinality(From) <= Cardinality(hits)
    BY FS_Subset
  <2>2. Cardinality(From) \in Nat
    BY <2>1, FS_CardinalityType
  <2>3. From # {}
    OBVIOUS
  <2>4. Cardinality(From) # 0
    BY <2>1, <2>3, FS_EmptySet
  <2> QED
    BY <1>1, <2>1, <2>2, <2>4 DEF RowOf
<1>3. ASSUME NEW x \in hits, NEW y \in hits, RowOf(hits, x) = RowOf(hits, y)
      PROVE  x = y
  <2>1. x \in Nat /\ y \in Nat /\ RowOf(hits, x) \in Nat
    BY <1>2
  <2>2. ~(x < y)
    BY <1>3, <2>1, RowsDiffer
  <2>3. ~(y < x)
    BY <1>3, <2>1, RowsDiffer
  <2> QED
    BY <2>1, <2>2, <2>3
<1> QED
  BY <1>1, <1>2, <1>3

\* Each row up to the last holds a hit.
LEMMA RowsFilled ==
  ASSUME NEW hits \in SUBSET Nat, IsFiniteSet(hits), NEW r \in 1..Cardinality(hits)
  PROVE  \E x \in hits : RowOf(hits, x) = r
<1> DEFINE n == Cardinality(hits)
           places == [x \in hits |-> RowOf(hits, x)]
           filled == {RowOf(hits, x) : x \in hits}
<1>1. /\ n \in Nat /\ filled \subseteq 1..n
      /\ \A x, y \in hits : RowOf(hits, x) = RowOf(hits, y) => x = y
  BY RowsKnown
<1>2. places \in Bijection(hits, filled)
  BY <1>1 DEF Bijection, Injection, Surjection, IsInjective
<1>3. IsFiniteSet(filled) /\ Cardinality(filled) = n
  BY <1>2, FS_Bijection DEF ExistsBijection
<1>4. IsFiniteSet(1..n) /\ Cardinality(1..n) = n
  BY <1>1, FS_Interval
<1>5. filled = 1..n
  BY <1>1, <1>3, <1>4, FS_Subset
<1> QED
  BY <1>5

Hits == [q : Queries, id : Nat]

LEMMA ResultsKnown ==
  ASSUME NEW q \in Queries, NEW ids \in SUBSET Nat, IsFiniteSet(ids),
         NEW listed, listed = Results(q, ids)
  PROVE  /\ listed \in Seq(Hits) /\ Len(listed) = Cardinality(ids)
         /\ {listed[i] : i \in DOMAIN listed} = {[q |-> q, id |-> id] : id \in ids}
         /\ \A i, j \in 1..Len(listed) : listed[i] = listed[j] => i = j
<1> DEFINE n == Cardinality(ids)
           At(i) == CHOOSE id \in ids : RowOf(ids, id) = i
<1>1. /\ n \in Nat /\ \A x \in ids : RowOf(ids, x) \in 1..n
      /\ \A x, y \in ids : RowOf(ids, x) = RowOf(ids, y) => x = y
  BY RowsKnown
<1>2. \A i \in 1..n : At(i) \in ids /\ RowOf(ids, At(i)) = i
  <2> TAKE i \in 1..n
  <2>1. \E x \in ids : RowOf(ids, x) = i
    BY RowsFilled
  <2> QED
    BY <2>1
<1>3. \A id \in ids : RowOf(ids, id) \in 1..n /\ At(RowOf(ids, id)) = id
  <2> TAKE id \in ids
  <2>1. RowOf(ids, id) \in 1..n
    BY <1>1
  <2>2. At(RowOf(ids, id)) \in ids /\ RowOf(ids, At(RowOf(ids, id))) = RowOf(ids, id)
    BY <1>2, <2>1
  <2> QED
    BY <1>1, <2>1, <2>2
<1>4. listed = [i \in 1..n |-> [q |-> q, id |-> At(i)]]
  BY DEF Results
<1> HIDE DEF At, n
<1>5. listed \in Seq(Hits) /\ Len(listed) = n /\ DOMAIN listed = 1..n
  <2>1. \A i \in 1..n : [q |-> q, id |-> At(i)] \in Hits
    BY <1>2 DEF Hits
  <2> QED
    BY <1>1, <1>4, <2>1
<1>6. {listed[i] : i \in DOMAIN listed} = {[q |-> q, id |-> id] : id \in ids}
  <2>1. \A i \in 1..n : listed[i] = [q |-> q, id |-> At(i)]
    BY <1>4
  <2>2. \A i \in DOMAIN listed : listed[i] \in {[q |-> q, id |-> id] : id \in ids}
    BY <1>2, <1>5, <2>1
  <2>3. \A id \in ids : \E i \in DOMAIN listed : listed[i] = [q |-> q, id |-> id]
    BY <1>3, <1>5, <2>1
  <2> QED
    BY <2>2, <2>3
<1>7. ASSUME NEW i \in 1..n, NEW j \in 1..n, listed[i] = listed[j]
      PROVE  i = j
  <2>1. listed[i] = [q |-> q, id |-> At(i)] /\ listed[j] = [q |-> q, id |-> At(j)]
    BY <1>4
  <2>2. listed[i].id = At(i) /\ listed[j].id = At(j)
    BY <2>1
  <2>3. At(i) = At(j)
    BY <1>7, <2>2
  <2> QED
    BY <1>2, <2>3
<1> QED
  BY <1>5, <1>6, <1>7 DEF n

\* A page holds the hits from its offset on, as many as there are or as fit.
LEMMA PageKnown ==
  ASSUME SearchAssumption, NEW hits \in SUBSET Nat, IsFiniteSet(hits), NEW offset \in Nat, NEW ids,
         ids = {id \in hits : RowOf(hits, id) \in RowsFrom(offset)}
  PROVE  /\ ids \subseteq hits /\ IsFiniteSet(ids) /\ Cardinality(ids) \in Nat
         /\ \A id \in hits : RowOf(hits, id) <= offset + Cardinality(ids) =>
              RowOf(hits, id) <= offset \/ id \in ids
<1>1. /\ Cardinality(hits) \in Nat /\ \A x \in hits : RowOf(hits, x) \in 1..Cardinality(hits)
      /\ \A x, y \in hits : RowOf(hits, x) = RowOf(hits, y) => x = y
  BY RowsKnown
<1>2. ids \subseteq hits /\ IsFiniteSet(ids) /\ Cardinality(ids) \in Nat
  BY FS_Subset, FS_CardinalityType
<1>3. PageSize \in Nat
  BY DEF SearchAssumption
<1>4. Cardinality(ids) <= PageSize
  <2> DEFINE row == [x \in ids |-> RowOf(hits, x)]
             places == RowsFrom(offset)
  <2>1. IsFiniteSet(places) /\ Cardinality(places) = PageSize
    <3>1. offset + 1 \in Int /\ offset + PageSize \in Int
      BY <1>3
    <3>2. /\ IsFiniteSet((offset + 1)..(offset + PageSize))
          /\ Cardinality((offset + 1)..(offset + PageSize)) =
               IF offset + 1 > offset + PageSize THEN 0 ELSE (offset + PageSize) - (offset + 1) + 1
      BY ONLY <3>1, FS_Interval
    <3>3. (IF offset + 1 > offset + PageSize THEN 0
           ELSE (offset + PageSize) - (offset + 1) + 1) = PageSize
      BY <1>3
    <3> QED
      BY <3>2, <3>3 DEF RowsFrom
  <2>2. row \in Injection(ids, places)
    BY <1>1 DEF Injection, IsInjective
  <2>3. Cardinality(ids) <= Cardinality(places)
    BY <2>1, <2>2, FS_Injection
  <2> QED
    BY <2>1, <2>3
<1>5. ASSUME NEW id \in hits, RowOf(hits, id) <= offset + PageSize
      PROVE  RowOf(hits, id) <= offset \/ id \in ids
  <2>1. RowOf(hits, id) \in Nat
    BY <1>1
  <2>2. RowOf(hits, id) <= offset \/ RowOf(hits, id) \in RowsFrom(offset)
    BY <1>3, <1>5, <2>1 DEF RowsFrom
  <2> QED
    BY <2>2
<1>6. ASSUME NEW id \in hits, RowOf(hits, id) <= offset + Cardinality(ids)
      PROVE  RowOf(hits, id) <= offset \/ id \in ids
  <2>1. RowOf(hits, id) \in Nat
    BY <1>1
  <2>2. RowOf(hits, id) <= offset + PageSize
    BY <1>2, <1>3, <1>4, <1>6, <2>1
  <2> QED
    BY <1>5, <2>2
<1> QED
  BY <1>2, <1>6

\* What comes in between moves a hit down, never up.
LEMMA RowsGrow ==
  ASSUME NEW hits \in SUBSET Nat, NEW more \in SUBSET Nat, IsFiniteSet(more), hits \subseteq more,
         NEW id \in hits
  PROVE  RowOf(hits, id) \in Nat /\ RowOf(more, id) \in Nat /\ RowOf(hits, id) <= RowOf(more, id)
<1> DEFINE Few == {h \in hits : h >= id}
           Many == {h \in more : h >= id}
<1>1. IsFiniteSet(Many) /\ Few \subseteq Many
  BY FS_Subset
<1>2. IsFiniteSet(Few) /\ Cardinality(Few) <= Cardinality(Many)
  BY <1>1, FS_Subset
<1>3. Cardinality(Few) \in Nat /\ Cardinality(Many) \in Nat
  BY <1>1, <1>2, FS_CardinalityType
<1> QED
  BY <1>2, <1>3 DEF RowOf

-----------------------------------------------------------------------------
(* What a search shows, and what it waits for (MailSearch).                *)

Panes == [results : Seq(Hits), offset : Nat, more : BOOLEAN, error : BOOLEAN]
Searches == [query : Queries \cup {NoQuery}, everywhere : BOOLEAN, loading : BOOLEAN,
             timer : BOOLEAN, shown : Panes]
Requests == [q : Queries, offset : Nat, first : BOOLEAN, current : BOOLEAN]

SearchType ==
    /\ found \in [Queries -> SUBSET (1..MaxHits)]
    /\ search \in Searches
    /\ pages \in SUBSET Requests
    /\ start \in SUBSET (1..MaxHits)

\* Each result answers the query, and stands there once.
ListIsClean(listed, query) ==
    /\ \A i \in 1..Len(listed) : listed[i].q = query
    /\ \A i, j \in 1..Len(listed) : listed[i] = listed[j] => i = j

\* The one answer that is awaited goes on where what is shown ends, or begins anew.
AwaitedGoesOn(s, requests, begun) ==
    /\ \A p \in requests : p.current =>
         /\ p.q = s.query /\ ~s.timer
         /\ IF p.first THEN p.offset = 0 /\ begun = {} ELSE p.offset = s.shown.offset
    /\ \A p, r \in requests : p.current /\ r.current => p = r

InList(listed, query, id) == \E i \in 1..Len(listed) : listed[i] = [q |-> query, id |-> id]

\* Of what was there at the start, all that stands above the offset is shown; and all of
\* it when there is no more.
StartIsShown(s, hits, begun) ==
    /\ begun \subseteq hits
    /\ \A id \in begun : ~s.shown.more \/ RowOf(hits, id) <= s.shown.offset =>
         InList(s.shown.results, s.query, id)

SearchInvariant ==
    /\ SearchType
    /\ ListIsClean(search.shown.results, search.query)
    /\ AwaitedGoesOn(search, pages, start)
    /\ search.timer => search.query \in Queries /\ start = {} /\ ~search.shown.more
    /\ start # {} => search.query \in Queries /\ StartIsShown(search, found[search.query], start)

LEMMA HitsKnown ==
  ASSUME SearchAssumption, SearchType, NEW q \in Queries
  PROVE  found[q] \in SUBSET Nat /\ IsFiniteSet(found[q]) /\ found[q] \in SUBSET (1..MaxHits)
<1>1. MaxHits \in Nat /\ found[q] \in SUBSET (1..MaxHits)
  BY DEF SearchAssumption, SearchType
<1>2. IsFiniteSet(1..MaxHits)
  BY <1>1, FS_Interval
<1> QED
  BY <1>1, <1>2, FS_Subset

LEMMA BlankView ==
  /\ Blank \in Panes /\ Blank.results = <<>> /\ Blank.offset = 0 /\ ~Blank.more
  /\ \A query : ListIsClean(Blank.results, query)
<1>1. Blank.results = <<>> /\ Len(<<>>) = 0 /\ <<>> \in Seq(Hits)
  BY DEF Blank
<1>2. Blank \in Panes
  BY <1>1 DEF Blank, Panes
<1>3. Blank.offset = 0 /\ ~Blank.more
  BY DEF Blank
<1> QED
  BY <1>1, <1>2, <1>3 DEF ListIsClean

LEMMA OutdatedKnown ==
  ASSUME SearchType
  PROVE  Outdated \in SUBSET Requests /\ \A p \in Outdated : ~p.current
<1>1. ASSUME NEW p \in pages
      PROVE  [p EXCEPT !.current = FALSE] \in Requests /\ ~[p EXCEPT !.current = FALSE].current
  BY DEF SearchType, Requests
<1> QED
  BY <1>1 DEF Outdated

LEMMA SearchOver ==
  ASSUME SearchInvariant, NEW s \in Searches, StartOver(s), UNCHANGED found
  PROVE  SearchInvariant'
<1>1. Global(s) \in BOOLEAN /\ (Global(s) => s.query \in Queries)
  BY DEF Global, Searches
<1>2. PICK next : next = [s EXCEPT !.shown = Blank, !.loading = Global(s), !.timer = Global(s)]
  OBVIOUS
<1>3. /\ next \in Searches /\ next.query = s.query /\ next.shown = Blank
      /\ next.timer = Global(s)
  BY <1>1, <1>2, BlankView DEF Searches
<1>4. search' = next /\ pages' = Outdated /\ start' = {}
  BY <1>2 DEF StartOver
<1>5. SearchType'
  BY <1>3, <1>4, OutdatedKnown DEF SearchInvariant, SearchType
<1>6. AwaitedGoesOn(next, pages', {})
  BY <1>4, OutdatedKnown DEF AwaitedGoesOn, SearchInvariant
<1> QED
  BY <1>1, <1>3, <1>4, <1>5, <1>6, BlankView DEF SearchInvariant

LEMMA SearchTyped ==
  ASSUME SearchInvariant, NEW q \in Queries \cup {NoQuery}, Type(q)
  PROVE  SearchInvariant'
<1>1. [search EXCEPT !.query = q] \in Searches
  BY DEF SearchInvariant, SearchType, Searches
<1> QED
  BY <1>1, SearchOver DEF Type

LEMMA SearchFolder ==
  ASSUME SearchInvariant, ChangeFolder
  PROVE  SearchInvariant'
<1>1. [search EXCEPT !.everywhere = ~search.everywhere] \in Searches
  BY DEF SearchInvariant, SearchType, Searches
<1> QED
  BY <1>1, SearchOver DEF ChangeFolder

\* A request that is sent is the only one awaited.
LEMMA AskedAlone ==
  ASSUME SearchType, NEW offset \in Nat, NEW first \in BOOLEAN, search.query \in Queries,
         AskPage(offset, first), NEW s, s.query = search.query, ~s.timer, NEW begun,
         IF first THEN offset = 0 /\ begun = {} ELSE offset = s.shown.offset
  PROVE  pages' \in SUBSET Requests /\ AwaitedGoesOn(s, pages', begun)
<1>1. PICK p : p = [q |-> search.query, offset |-> offset, first |-> first, current |-> TRUE]
  OBVIOUS
<1>2. /\ p \in Requests /\ p.q = search.query /\ p.offset = offset /\ p.first = first
  BY <1>1 DEF Requests
<1>3. pages' = Outdated \cup {p}
  BY <1>1 DEF AskPage
<1>4. \A r \in pages' : r.current => r = p
  BY <1>3, OutdatedKnown
<1>5. pages' \in SUBSET Requests
  BY <1>2, <1>3, OutdatedKnown
<1> QED
  BY <1>2, <1>4, <1>5 DEF AwaitedGoesOn

LEMMA SearchFires ==
  ASSUME SearchInvariant, SearchTimerFires
  PROVE  SearchInvariant'
<1>1. /\ SearchType /\ search \in Searches /\ search.query \in Queries /\ start = {}
  BY DEF SearchInvariant, SearchType, SearchTimerFires
<1>2. PICK next : next = [search EXCEPT !.timer = FALSE, !.loading = TRUE, !.shown = Blank]
  OBVIOUS
<1>3. /\ next \in Searches /\ next.query = search.query /\ next.shown = Blank /\ ~next.timer
  BY <1>1, <1>2, BlankView DEF Searches
<1>4. search' = next /\ AskPage(0, TRUE) /\ start' = {} /\ found' = found
  BY <1>1, <1>2 DEF SearchTimerFires
<1>5. pages' \in SUBSET Requests /\ AwaitedGoesOn(next, pages', {})
  BY <1>1, <1>3, <1>4, AskedAlone
<1>6. SearchType'
  BY <1>1, <1>3, <1>4, <1>5 DEF SearchType
<1> QED
  BY <1>3, <1>4, <1>5, <1>6, BlankView DEF SearchInvariant

LEMMA SearchMore ==
  ASSUME SearchInvariant, LoadMore
  PROVE  SearchInvariant'
<1>1. /\ SearchType /\ search \in Searches /\ search.query \in Queries /\ search.shown.more
      /\ ~search.timer /\ search.shown \in Panes /\ search.shown.offset \in Nat
  BY DEF SearchInvariant, SearchType, LoadMore, Global, Searches, Panes
<1>2. PICK next : next = [search EXCEPT !.loading = TRUE, !.shown.error = FALSE]
  OBVIOUS
<1>3. /\ next \in Searches /\ next.query = search.query /\ next.timer = search.timer
      /\ next.shown.results = search.shown.results /\ next.shown.offset = search.shown.offset
      /\ next.shown.more = search.shown.more
  BY <1>1, <1>2 DEF Searches, Panes
<1>4. search' = next /\ AskPage(search.shown.offset, FALSE) /\ start' = start /\ found' = found
  BY <1>2 DEF LoadMore
<1>5. pages' \in SUBSET Requests /\ AwaitedGoesOn(next, pages', start)
  BY <1>1, <1>3, <1>4, AskedAlone
<1>6. SearchType'
  BY <1>1, <1>3, <1>4, <1>5 DEF SearchType
<1>7. start # {} => StartIsShown(next, found[search.query], start)
  BY <1>3 DEF SearchInvariant, StartIsShown
<1> QED
  BY <1>1, <1>3, <1>4, <1>5, <1>6, <1>7 DEF SearchInvariant

LEMMA SearchArrival ==
  ASSUME SearchAssumption, SearchInvariant, NEW q \in Queries, NEW id \in 1..MaxHits, Arrive(q, id)
  PROVE  SearchInvariant'
<1>1. SearchType /\ UNCHANGED <<search, pages, start>>
  BY DEF SearchInvariant, Arrive
<1>2. found' = [found EXCEPT ![q] = @ \cup {id}]
  BY DEF Arrive
<1>3. SearchType'
  BY <1>1, <1>2 DEF SearchType
<1>4. ASSUME start # {}
      PROVE  StartIsShown(search, found'[search.query], start)
  <2>1. search.query \in Queries /\ StartIsShown(search, found[search.query], start)
    BY <1>4 DEF SearchInvariant
  <2>2. found[search.query] \subseteq found'[search.query]
    BY <1>1, <1>2, <2>1 DEF SearchType
  <2>3. found[search.query] \in SUBSET Nat
    BY <1>1, <2>1, HitsKnown
  <2>4. found'[search.query] \in SUBSET Nat /\ IsFiniteSet(found'[search.query])
    <3>1. MaxHits \in Nat /\ found'[search.query] \in SUBSET (1..MaxHits)
      BY <1>3, <2>1 DEF SearchAssumption, SearchType
    <3>2. IsFiniteSet(1..MaxHits)
      BY <3>1, FS_Interval
    <3> QED
      BY <3>1, <3>2, FS_Subset
  <2>5. ASSUME NEW x \in start,
               ~search.shown.more \/ RowOf(found'[search.query], x) <= search.shown.offset
        PROVE  InList(search.shown.results, search.query, x)
    <3>1. x \in found[search.query]
      BY <2>1 DEF StartIsShown
    <3>2. /\ RowOf(found[search.query], x) \in Nat /\ RowOf(found'[search.query], x) \in Nat
          /\ RowOf(found[search.query], x) <= RowOf(found'[search.query], x)
      BY <2>2, <2>3, <2>4, <3>1, RowsGrow
    <3>3. search.shown.offset \in Nat
      BY <1>1 DEF SearchType, Searches, Panes
    <3>4. ~search.shown.more \/ RowOf(found[search.query], x) <= search.shown.offset
      BY <2>5, <3>2, <3>3
    <3> QED
      BY <2>1, <3>4 DEF StartIsShown
  <2> QED
    BY <2>1, <2>2, <2>5 DEF StartIsShown
<1> QED
  BY <1>1, <1>3, <1>4 DEF SearchInvariant

LEMMA SearchThrow ==
  ASSUME SearchInvariant, NEW q \in Queries, NEW id \in 1..MaxHits, Throw(q, id)
  PROVE  SearchInvariant'
<1>1. SearchType /\ UNCHANGED <<search, pages>>
  BY DEF SearchInvariant, Throw
<1>2. found' = [found EXCEPT ![q] = @ \ {id}]
  BY DEF Throw
<1>3. start' = start \/ start' = {}
  BY DEF Throw
<1>4. SearchType'
  BY <1>1, <1>2, <1>3 DEF SearchType
<1>5. start' # {} => start' = start /\ q # search.query
  BY DEF Throw
<1>6. start' # {} => found'[search.query] = found[search.query]
  BY <1>1, <1>2, <1>5 DEF SearchType, SearchInvariant
<1>7. AwaitedGoesOn(search, pages, start')
  BY <1>3 DEF SearchInvariant, AwaitedGoesOn
<1> QED
  BY <1>1, <1>3, <1>4, <1>5, <1>6, <1>7 DEF SearchInvariant

\* Results that are new follow those that are shown.
LEMMA ResultsFollow ==
  ASSUME NEW a \in Seq(Hits), NEW b \in Seq(Hits), NEW query,
         ListIsClean(a, query), ListIsClean(b, query),
         \A i \in 1..Len(a), j \in 1..Len(b) : a[i] # b[j]
  PROVE  /\ a \o b \in Seq(Hits) /\ ListIsClean(a \o b, query)
         /\ \A id : InList(a, query, id) \/ InList(b, query, id) => InList(a \o b, query, id)
<1> DEFINE m == Len(a)
           n == Len(b)
<1>1. PICK c : c = a \o b
  OBVIOUS
<1>2. /\ m \in Nat /\ n \in Nat /\ c \in Seq(Hits) /\ Len(c) = m + n
      /\ \A i \in 1..m : c[i] = a[i]
      /\ \A j \in 1..n : c[m + j] = b[j]
  BY <1>1
<1> HIDE DEF m, n
<1>3. \A i \in 1..(m + n) : i \in 1..m \/ (i - m \in 1..n /\ m + (i - m) = i)
  BY <1>2
<1>4. \A i \in 1..(m + n) : c[i] = IF i \in 1..m THEN a[i] ELSE b[i - m]
  <2> TAKE i \in 1..(m + n)
  <2>1. i \notin 1..m => i - m \in 1..n /\ m + (i - m) = i
    BY <1>3
  <2> QED
    BY <1>2, <2>1
<1>5. ASSUME NEW i \in 1..(m + n)
      PROVE  c[i].q = query
  <2>1. \A j \in 1..m : a[j].q = query
    BY DEF ListIsClean, m
  <2>2. \A j \in 1..n : b[j].q = query
    BY DEF ListIsClean, n
  <2> QED
    BY <1>3, <1>4, <2>1, <2>2
<1>6. ASSUME NEW i \in 1..(m + n), NEW j \in 1..(m + n), c[i] = c[j]
      PROVE  i = j
  <2>1. \A k, l \in 1..m : a[k] = a[l] => k = l
    BY DEF ListIsClean, m
  <2>2. \A k, l \in 1..n : b[k] = b[l] => k = l
    BY DEF ListIsClean, n
  <2>3. \A k \in 1..m, l \in 1..n : a[k] # b[l]
    BY DEF m, n
  <2>4. CASE i \in 1..m /\ j \in 1..m
    BY <1>4, <1>6, <2>1, <2>4
  <2>5. CASE i \in 1..m <=> j \notin 1..m
    BY <1>3, <1>4, <1>6, <2>3, <2>5
  <2>6. CASE i \notin 1..m /\ j \notin 1..m
    <3>1. i - m \in 1..n /\ j - m \in 1..n /\ b[i - m] = b[j - m]
      BY <1>3, <1>4, <1>6, <2>6
    <3>2. i - m = j - m
      BY <2>2, <3>1
    <3> QED
      BY <1>2, <3>2
  <2> QED
    BY <2>4, <2>5, <2>6
<1>7. ListIsClean(c, query)
  BY <1>2, <1>5, <1>6 DEF ListIsClean
<1>8. ASSUME NEW id, InList(a, query, id) \/ InList(b, query, id)
      PROVE  InList(c, query, id)
  <2>1. CASE InList(a, query, id)
    <3>1. PICK i \in 1..m : a[i] = [q |-> query, id |-> id]
      BY <2>1 DEF InList, m
    <3>2. i \in 1..(m + n)
      BY <1>2
    <3> QED
      BY <1>2, <3>1, <3>2 DEF InList
  <2>2. CASE InList(b, query, id)
    <3>1. PICK j \in 1..n : b[j] = [q |-> query, id |-> id]
      BY <2>2 DEF InList, n
    <3>2. m + j \in 1..(m + n)
      BY <1>2
    <3> QED
      BY <1>2, <3>1, <3>2 DEF InList
  <2> QED
    BY <1>8, <2>1, <2>2
<1> QED
  BY <1>1, <1>2, <1>7, <1>8

\* The results of a page are clean, and they are those asked for.
LEMMA PageClean ==
  ASSUME NEW q \in Queries, NEW ids \in SUBSET Nat, IsFiniteSet(ids),
         NEW listed, listed = Results(q, ids)
  PROVE  /\ listed \in Seq(Hits) /\ ListIsClean(listed, q)
         /\ \A id \in ids : InList(listed, q, id)
         /\ \A i \in 1..Len(listed) : \E id \in ids : listed[i] = [q |-> q, id |-> id]
<1>1. /\ listed \in Seq(Hits)
      /\ {listed[i] : i \in DOMAIN listed} = {[q |-> q, id |-> id] : id \in ids}
      /\ \A i, j \in 1..Len(listed) : listed[i] = listed[j] => i = j
  BY ResultsKnown
<1>2. DOMAIN listed = 1..Len(listed)
  BY <1>1
<1>3. \A i \in 1..Len(listed) : \E id \in ids : listed[i] = [q |-> q, id |-> id]
  BY <1>1, <1>2
<1>4. \A id \in ids : \E i \in 1..Len(listed) : listed[i] = [q |-> q, id |-> id]
  <2> TAKE id \in ids
  <2>1. [q |-> q, id |-> id] \in {listed[i] : i \in DOMAIN listed}
    BY <1>1
  <2> QED
    BY <1>2, <2>1
<1>5. \A i \in 1..Len(listed) : listed[i].q = q
  <2> TAKE i \in 1..Len(listed)
  <2>1. PICK id \in ids : listed[i] = [q |-> q, id |-> id]
    BY <1>3
  <2> QED
    BY <2>1
<1>6. ListIsClean(listed, q)
  BY <1>1, <1>5 DEF ListIsClean
<1>7. \A id \in ids : InList(listed, q, id)
  BY <1>4 DEF InList
<1> QED
  BY <1>1, <1>3, <1>6, <1>7

\* A page of results none of which was shown follows what is shown.
LEMMA PageFollows ==
  ASSUME NEW q \in Queries, NEW new \in SUBSET Nat, IsFiniteSet(new),
         NEW old \in Seq(Hits), ListIsClean(old, q),
         \A id \in new, i \in 1..Len(old) : old[i] # [q |-> q, id |-> id],
         NEW listed, listed = old \o Results(q, new)
  PROVE  /\ listed \in Seq(Hits) /\ ListIsClean(listed, q)
         /\ \A id : InList(old, q, id) \/ id \in new => InList(listed, q, id)
<1>1. PICK tail : tail = Results(q, new)
  OBVIOUS
<1>2. q \in Queries /\ new \in SUBSET Nat /\ IsFiniteSet(new)
  OBVIOUS
<1>3. tail \in Seq(Hits) /\ ListIsClean(tail, q)
  BY ONLY <1>1, <1>2, PageClean
<1>4. \A id \in new : InList(tail, q, id)
  BY ONLY <1>1, <1>2, PageClean
<1>5. \A i \in 1..Len(tail) : \E id \in new : tail[i] = [q |-> q, id |-> id]
  BY ONLY <1>1, <1>2, PageClean, SMTT(60)
<1>6. \A i \in 1..Len(old), j \in 1..Len(tail) : old[i] # tail[j]
  BY <1>5
<1>7. /\ old \o tail \in Seq(Hits) /\ ListIsClean(old \o tail, q)
      /\ \A id : InList(old, q, id) \/ InList(tail, q, id) => InList(old \o tail, q, id)
  BY <1>3, <1>6, ResultsFollow
<1>8. listed = old \o tail
  BY <1>1
<1> QED
  BY <1>4, <1>7, <1>8

LEMMA SearchAnswered ==
  ASSUME SearchAssumption, SearchInvariant, NEW p \in pages, PageAnswered(p)
  PROVE  SearchInvariant'
<1>1. SearchType /\ pages' = pages \ {p} /\ UNCHANGED found
  BY DEF SearchInvariant, PageAnswered
<1>2. /\ search \in Searches /\ search.shown \in Panes /\ search.shown.results \in Seq(Hits)
      /\ search.shown.offset \in Nat /\ p \in Requests
  BY <1>1 DEF SearchType, Searches, Panes
<1>3. pages' \in SUBSET Requests /\ AwaitedGoesOn(search, pages', start)
  BY <1>1 DEF SearchInvariant, SearchType, AwaitedGoesOn
<1>4. CASE UNCHANGED <<search, start>>
  <2>1. SearchType'
    BY <1>1, <1>3, <1>4 DEF SearchType
  <2> QED
    BY <1>1, <1>3, <1>4, <2>1 DEF SearchInvariant
<1>5. CASE search' = [search EXCEPT !.loading = FALSE, !.shown.error = TRUE] /\ UNCHANGED start
  <2>1. PICK next : next = [search EXCEPT !.loading = FALSE, !.shown.error = TRUE]
    OBVIOUS
  <2>2. /\ next \in Searches /\ next.query = search.query /\ next.timer = search.timer
        /\ next.shown.results = search.shown.results /\ next.shown.offset = search.shown.offset
        /\ next.shown.more = search.shown.more
    BY <1>2, <2>1 DEF Searches, Panes
  <2>3. SearchType'
    BY <1>1, <1>3, <1>5, <2>1, <2>2 DEF SearchType
  <2>4. AwaitedGoesOn(next, pages', start)
    BY <1>3, <2>2 DEF AwaitedGoesOn
  <2>5. start # {} => StartIsShown(next, found[search.query], start)
    BY <2>2 DEF SearchInvariant, StartIsShown
  <2> QED
    BY <1>1, <1>5, <2>1, <2>2, <2>3, <2>4, <2>5 DEF SearchInvariant
<1> DEFINE q == p.q
           hits == found[q]
           ids == {id \in hits : RowOf(hits, id) \in RowsFrom(p.offset)}
           new == {id \in ids : [q |-> q, id |-> id] \notin ResultsShown}
           listed == IF p.first THEN Results(q, ids) ELSE search.shown.results \o Results(q, new)
           begun == IF p.first THEN hits ELSE start
           pane == [results |-> listed, offset |-> p.offset + Cardinality(ids),
                    more |-> Cardinality(hits) > p.offset + PageSize, error |-> FALSE]
<1>6. CASE /\ p.current /\ start' = begun
           /\ search' = [search EXCEPT !.loading = FALSE, !.shown = pane]
  <2>1. /\ q = search.query /\ ~search.timer /\ q \in Queries /\ p.offset \in Nat
        /\ p.first \in BOOLEAN
        /\ p.first => p.offset = 0
        /\ ~p.first => p.offset = search.shown.offset
        /\ \A r \in pages' : ~r.current
    BY <1>1, <1>2, <1>6 DEF SearchInvariant, AwaitedGoesOn, Requests
  <2> HIDE DEF q
  <2>2. hits \in SUBSET Nat /\ IsFiniteSet(hits) /\ hits \in SUBSET (1..MaxHits)
    BY <1>1, <2>1, HitsKnown
  <2> HIDE DEF hits
  <2>3. /\ ids \subseteq hits /\ IsFiniteSet(ids) /\ Cardinality(ids) \in Nat
        /\ \A id \in hits : RowOf(hits, id) <= p.offset + Cardinality(ids) =>
             RowOf(hits, id) <= p.offset \/ id \in ids
        /\ Cardinality(hits) <= p.offset + PageSize =>
             \A id \in hits : RowOf(hits, id) <= p.offset \/ id \in ids
    <3>1. ids = {id \in hits : RowOf(hits, id) \in RowsFrom(p.offset)}
      OBVIOUS
    <3>2. SearchAssumption /\ hits \in SUBSET Nat /\ IsFiniteSet(hits) /\ p.offset \in Nat
      BY <2>1, <2>2
    <3> HIDE DEF ids
    <3>3. ids \subseteq hits /\ IsFiniteSet(ids) /\ Cardinality(ids) \in Nat
      BY ONLY <3>1, <3>2, PageKnown, SMTT(60)
    <3>4. \A id \in hits : RowOf(hits, id) <= p.offset + Cardinality(ids) =>
            RowOf(hits, id) <= p.offset \/ id \in ids
      BY ONLY <3>1, <3>2, PageKnown, SMTT(60)
    <3>5. ASSUME Cardinality(hits) <= p.offset + PageSize, NEW id \in hits
          PROVE  RowOf(hits, id) <= p.offset \/ id \in ids
      <4>1. RowOf(hits, id) \in 1..Cardinality(hits) /\ Cardinality(hits) \in Nat
        BY <3>2, RowsKnown
      <4>2. PageSize \in Nat
        BY DEF SearchAssumption
      <4>3. RowOf(hits, id) <= p.offset \/ RowOf(hits, id) \in RowsFrom(p.offset)
        BY <3>2, <3>5, <4>1, <4>2 DEF RowsFrom
      <4> QED
        BY <3>1, <4>3
    <3> QED
      BY <3>3, <3>4, <3>5
  <2>4. /\ Cardinality(hits) \in Nat /\ PageSize \in Nat
        /\ \A x \in hits : RowOf(hits, x) \in Nat /\ ~(RowOf(hits, x) <= 0)
    <3>1. Cardinality(hits) \in Nat /\ \A x \in hits : RowOf(hits, x) \in 1..Cardinality(hits)
      BY <2>2, RowsKnown
    <3> QED
      BY <3>1 DEF SearchAssumption
  <2> HIDE DEF ids
  <2>5. new \subseteq ids /\ IsFiniteSet(new) /\ new \in SUBSET Nat /\ ids \in SUBSET Nat
    BY <2>2, <2>3, FS_Subset
  <2>6. /\ listed \in Seq(Hits) /\ ListIsClean(listed, q)
        /\ \A id \in ids : InList(listed, q, id)
        /\ ~p.first => \A id : InList(search.shown.results, q, id) => InList(listed, q, id)
    <3>1. CASE p.first
      BY <2>1, <2>3, <2>5, <3>1, PageClean
    <3>2. CASE ~p.first
      <4>1. PICK old \in Seq(Hits) : old = search.shown.results
        BY <1>2
      <4>2. ListIsClean(old, q) /\ DOMAIN old = 1..Len(old)
        BY <2>1, <4>1 DEF SearchInvariant
      <4>3. \A id \in new, i \in 1..Len(old) : old[i] # [q |-> q, id |-> id]
        BY <4>1, <4>2 DEF ResultsShown
      <4>4. \A id \in ids : id \in new \/ InList(old, q, id)
        BY <4>1, <4>2 DEF ResultsShown, InList
      <4>5. listed = old \o Results(q, new)
        BY <3>2, <4>1
      <4> HIDE DEF listed, new
      <4>6. /\ listed \in Seq(Hits) /\ ListIsClean(listed, q)
            /\ \A id : InList(old, q, id) \/ id \in new => InList(listed, q, id)
        BY <2>1, <2>5, <4>2, <4>3, <4>5, PageFollows
      <4>7. \A id \in ids : InList(listed, q, id)
        BY <4>4, <4>6
      <4> QED
        BY <4>1, <4>6, <4>7
    <3> QED
      BY <3>1, <3>2
  <2> HIDE DEF listed
  <2>7. pane \in Panes
    BY <2>1, <2>3, <2>4, <2>6 DEF Panes
  <2>8. /\ pane.results = listed /\ pane.offset = p.offset + Cardinality(ids)
        /\ Cardinality(hits) > p.offset + PageSize => pane.more
    OBVIOUS
  <2> HIDE DEF pane, new
  <2>9. PICK next : next = [search EXCEPT !.loading = FALSE, !.shown = pane]
    OBVIOUS
  <2>10. /\ next \in Searches /\ next.query = q /\ next.timer = search.timer /\ next.shown = pane
    BY <1>2, <2>1, <2>7, <2>9 DEF Searches
  <2>11. begun \subseteq hits
    <3>1. start # {} => start \subseteq hits
      BY <2>1 DEF SearchInvariant, StartIsShown, hits, q
    <3> QED
      BY <3>1
  <2>12. ASSUME NEW id \in begun, ~pane.more \/ RowOf(hits, id) <= pane.offset
         PROVE  InList(listed, q, id)
    <3>1. id \in hits /\ RowOf(hits, id) \in Nat
      BY <2>4, <2>11
    <3>2. RowOf(hits, id) <= p.offset \/ id \in ids
      <4>1. CASE ~pane.more
        <5>1. Cardinality(hits) <= p.offset + PageSize
          BY <2>1, <2>4, <2>8, <4>1
        <5> QED
          BY <2>3, <3>1, <5>1
      <4>2. CASE RowOf(hits, id) <= pane.offset
        BY <2>3, <2>8, <3>1, <4>2
      <4> QED
        BY <2>12, <4>1, <4>2
    <3>3. CASE p.first
      BY <2>1, <2>4, <2>6, <3>1, <3>2, <3>3
    <3>4. CASE ~p.first /\ id \notin ids
      <4>1. RowOf(hits, id) <= search.shown.offset /\ id \in start /\ start # {}
        BY <2>1, <3>2, <3>4
      <4>2. InList(search.shown.results, q, id)
        BY <2>1, <4>1 DEF SearchInvariant, StartIsShown, hits, q
      <4> QED
        BY <2>6, <3>4, <4>2
    <3> QED
      BY <2>6, <3>3, <3>4
  <2>13. StartIsShown(next, hits, begun)
    BY <2>8, <2>10, <2>11, <2>12 DEF StartIsShown
  <2>14. begun \in SUBSET (1..MaxHits)
    BY <2>2, <2>11
  <2> HIDE DEF begun
  <2>15. SearchType'
    BY <1>1, <1>3, <1>6, <2>9, <2>10, <2>14 DEF SearchType
  <2>16. AwaitedGoesOn(next, pages', begun)
    BY <2>1 DEF AwaitedGoesOn
  <2>17. found'[next.query] = hits
    BY <1>1, <2>10 DEF hits
  <2> QED
    BY <1>6, <2>1, <2>6, <2>8, <2>9, <2>10, <2>13, <2>15, <2>16, <2>17 DEF SearchInvariant
<1>7. \/ UNCHANGED <<search, start>>
      \/ search' = [search EXCEPT !.loading = FALSE, !.shown.error = TRUE] /\ UNCHANGED start
      \/ /\ p.current /\ start' = begun
         /\ search' = [search EXCEPT !.loading = FALSE, !.shown = pane]
  BY DEF PageAnswered, Awaited, NextOffset
<1> QED
  BY <1>4, <1>5, <1>6, <1>7

LEMMA SearchBegins == SearchAssumption /\ SearchInit => SearchInvariant
<1> SUFFICES ASSUME SearchAssumption, SearchInit
             PROVE  SearchInvariant
  OBVIOUS
<1>1. PICK s : s = [query |-> NoQuery, everywhere |-> TRUE, loading |-> FALSE, timer |-> FALSE,
                    shown |-> Blank]
  OBVIOUS
<1>2. s \in Searches /\ s.shown = Blank /\ s.query = NoQuery /\ ~s.timer
  BY <1>1, BlankView DEF Searches
<1>3. search = s /\ pages = {} /\ start = {} /\ found \in [Queries -> SUBSET (1..MaxHits)]
  BY <1>1 DEF SearchInit
<1>4. SearchType
  BY <1>2, <1>3 DEF SearchType
<1>5. AwaitedGoesOn(search, pages, start)
  BY <1>3 DEF AwaitedGoesOn
<1> QED
  BY <1>2, <1>3, <1>4, <1>5, BlankView DEF SearchInvariant

LEMMA SearchStep ==
  SearchAssumption /\ SearchInvariant /\ [SearchNext]_searchVars => SearchInvariant'
<1> SUFFICES ASSUME SearchAssumption, SearchInvariant, [SearchNext]_searchVars
             PROVE  SearchInvariant'
  OBVIOUS
<1>1. CASE ChangeFolder
  BY <1>1, SearchFolder
<1>2. CASE SearchTimerFires
  BY <1>2, SearchFires
<1>3. CASE LoadMore
  BY <1>3, SearchMore
<1>4. CASE \E q \in Queries \cup {NoQuery} : Type(q)
  BY <1>4, SearchTyped
<1>5. CASE \E p \in pages : PageAnswered(p)
  BY <1>5, SearchAnswered
<1>6. CASE \E q \in Queries, id \in 1..MaxHits : Arrive(q, id)
  BY <1>6, SearchArrival
<1>7. CASE \E q \in Queries, id \in 1..MaxHits : Throw(q, id)
  BY <1>7, SearchThrow
<1>8. CASE UNCHANGED searchVars
  BY <1>8 DEF searchVars, SearchInvariant, SearchType
<1> QED
  BY <1>1, <1>2, <1>3, <1>4, <1>5, <1>6, <1>7, <1>8 DEF SearchNext

LEMMA ResultsAnswer == SearchInvariant => ResultsAnswerTheQuery
<1> SUFFICES ASSUME SearchInvariant
             PROVE  ResultsAnswerTheQuery
  OBVIOUS
<1>1. PICK results : results = search.shown.results
  OBVIOUS
<1>2. /\ results \in Seq(Hits) /\ DOMAIN results = 1..Len(results) /\ Len(results) \in Nat
      /\ \A i \in 1..Len(results) : results[i].q = search.query
      /\ \A i, j \in 1..Len(results) : results[i] = results[j] => i = j
  <2>1. results \in Seq(Hits)
    BY <1>1 DEF SearchInvariant, SearchType, Searches, Panes
  <2> QED
    BY <1>1, <2>1 DEF SearchInvariant, ListIsClean
<1>3. ResultsShown = {results[i] : i \in 1..Len(results)}
  BY <1>1, <1>2 DEF ResultsShown
<1>4. Cardinality(ResultsShown) = Len(results)
  <2> DEFINE n == Len(results)
             places == [i \in 1..n |-> results[i]]
  <2>1. n \in Nat
    BY <1>2
  <2>2. places \in Bijection(1..n, ResultsShown)
    BY <1>2, <1>3 DEF Bijection, Injection, Surjection, IsInjective
  <2>3. IsFiniteSet(1..n) /\ Cardinality(1..n) = n
    <3> HIDE DEF n
    <3> QED
      BY <2>1, FS_Interval
  <2>4. Cardinality(ResultsShown) = Cardinality(1..n)
    BY <2>2, <2>3, FS_Bijection DEF ExistsBijection
  <2> QED
    BY <2>3, <2>4
<1>5. ASSUME ~search.shown.more, NEW id \in start
      PROVE  id \in {h.id : h \in ResultsShown}
  <2>1. StartIsShown(search, found[search.query], start)
    BY <1>5 DEF SearchInvariant
  <2>2. InList(results, search.query, id)
    BY <1>1, <1>5, <2>1 DEF StartIsShown
  <2>3. PICK i \in 1..Len(results) : results[i] = [q |-> search.query, id |-> id]
    BY <2>2 DEF InList
  <2>4. results[i] \in ResultsShown /\ results[i].id = id
    BY <1>3, <2>3
  <2> QED
    BY <2>4
<1> QED
  BY <1>1, <1>2, <1>4, <1>5 DEF ResultsAnswerTheQuery

\* What a search shows answers what is in the field (useMailViewSearch.ts, search.get.ts):
\* whatever was typed while pages were under way, and whatever mail arrived between two of
\* them, no result of another query is shown, none is shown twice, and when the last page
\* has come none that was there at the start is missing, unless one was thrown away.
THEOREM ResultsStayTrue == SearchSpec => []ResultsAnswerTheQuery
<1>1. SearchInit => SearchInvariant
  BY SearchAssumption, SearchBegins
<1>2. SearchInvariant /\ [SearchNext]_searchVars => SearchInvariant'
  BY SearchAssumption, SearchStep
<1>3. SearchInvariant => ResultsAnswerTheQuery
  BY ResultsAnswer
<1> QED
  BY <1>1, <1>2, <1>3, PTL DEF SearchSpec
=============================================================================
