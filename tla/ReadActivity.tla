---------------------------- MODULE ReadActivity ----------------------------
(***************************************************************************)
(* The reading state of messages, and the activities by which a member     *)
(* undoes a "mark as unread" within twenty seconds: read.patch.ts,         *)
(* mark-unseen.post.ts, the reading actions of bulk-action.patch.ts, the   *)
(* two undo.post.ts under activity, and the nightly pruning of             *)
(* workspace-activity.ts.                                                  *)
(*                                                                         *)
(* No lock is held between what a request reads and the D1 batch that it   *)
(* sends: each message carries read_state_version, which every change of   *)
(* is_read increments, and a batch acts only if the versions it was        *)
(* prepared for are still there.  A request is therefore a read step and a *)
(* write step, with any other step in between; one that returns before its *)
(* batch changes nothing, and is left out.                                 *)
(***************************************************************************)
EXTENDS Naturals, FiniteSets

CONSTANTS
  Messages,
  ThreadOf,     \* the conversation of a message
  Mailboxes,    \* the active mailboxes of the domain
  Revocable,    \* those whose grants are given and taken
  MailboxOf,    \* the one a message is of
  Sent,         \* messages that were sent from here: inserted as read
  Markers,      \* requests that mark; the name of one also names its batch of activities
  Undoers,      \* requests that undo
  MaxVersion    \* bound on read_state_version, for each message

\* An activity is named by the request that recorded it and the message it was aimed at.
Requests == Markers \cup Undoers
Activities == Markers \X Messages

ASSUME DataAssumption ==
  /\ IsFiniteSet(Messages)
  /\ MailboxOf \in [Messages -> Mailboxes]
  /\ DOMAIN ThreadOf = Messages
  /\ Sent \subseteq Messages
  /\ Revocable \subseteq Mailboxes
  /\ Markers \cap Undoers = {}
  /\ MaxVersion \in [Messages -> Nat]

VARIABLES
  isRead,     \* messages.is_read
  version,    \* messages.read_state_version
  granted,    \* the mailboxes the member has an active grant for
  activity,   \* rows of workspace_activity
  request,    \* what each request has read, and how far it is
  late,       \* requests whose activities can no longer be undone: undo_expires_at has passed
  stale       \* history: activities one of whose messages has changed since

messageVars == <<isRead, version, stale>>
vars == <<isRead, version, granted, activity, request, late, stale>>

Kinds == {"mark", "bulk", "seen", "undo", "batch"}

\* state: no row yet, a row, a row with undone_at, a deleted row; msgs, prev: the
\* messages of undo_data_json, with the versions they were marked at; none when NULL.
Row == [state : {"none", "kept", "undone", "gone"}, msgs : SUBSET Messages,
        prev : [Messages -> Nat]]

\* aim: the activities to record, or to undo; noted, found: the messages to change, and
\* the versions they were read at.
Request == [step : {"new", "write", "done"}, kind : Kinds, aim : SUBSET Activities,
            noted : SUBSET Messages, found : [Messages -> Nat]]

NoVersions == [m \in Messages |-> 0]

WithoutData(state) == [state |-> state, msgs |-> {}, prev |-> NoVersions]

Init ==
  /\ isRead = [m \in Messages |-> m \in Sent]
  /\ version = [m \in Messages |-> 0]
  /\ granted = Mailboxes
  /\ activity = [a \in Activities |-> WithoutData("none")]
  /\ request = [r \in Requests |->
       [step |-> "new", kind |-> "mark", aim |-> {}, noted |-> {}, found |-> NoVersions]]
  /\ late = {}
  /\ stale = {}

Thread(m) == {n \in Messages : ThreadOf[n] = ThreadOf[m]}

\* workspaceMessageScope, and workspaceDomainScope: every mailbox of the domain is granted.
Visible(m) == MailboxOf[m] \in granted
WholeDomain == Mailboxes # {} /\ granted = Mailboxes

\* Sets is_read of some messages and increments their versions.
Change(S, read) ==
  /\ \A m \in S : version[m] < MaxVersion[m]
  /\ isRead' = [m \in Messages |-> IF m \in S THEN read ELSE isRead[m]]
  /\ version' = [m \in Messages |-> IF m \in S THEN version[m] + 1 ELSE version[m]]
  /\ stale' = stale \cup {a \in Activities : activity[a].msgs \cap S # {}}

\* The request has read what it needs, and is about to send its batch.
Prepare(r, kind, aim, noted) ==
  /\ request[r].step = "new"
  /\ request' = [request EXCEPT ![r] =
       [step |-> "write", kind |-> kind, aim |-> aim, noted |-> noted,
        found |-> [m \in Messages |-> IF m \in noted THEN version[m] ELSE 0]]]
  /\ UNCHANGED <<messageVars, granted, activity, late>>

\* Afterwards only batches are told apart.
Finish(r, kind) ==
  /\ request[r].step = "write" /\ request[r].kind = kind
  /\ request' = [request EXCEPT ![r] =
       [step |-> "done", kind |-> IF kind = "bulk" THEN "bulk" ELSE "mark", aim |-> {}, noted |-> {}, found |-> NoVersions]]

-----------------------------------------------------------------------------
(***************************************************************************)
(* Marking.                                                                *)
(***************************************************************************)

\* read.patch.ts is one statement; setting the state a message has changes nothing.
PatchRead(m) ==
  /\ Visible(m)
  /\ Change({m}, ~isRead[m])
  /\ UNCHANGED <<granted, activity, request, late>>

ReadThread(r, m) ==
  LET marked == {n \in Thread(m) : Visible(n) /\ isRead[n]}
  IN /\ Visible(m)
     /\ marked # {}
     /\ Prepare(r, "mark", {<<r, m>>}, marked)

\* One message stands for each selected conversation.
IsSelection(S) ==
  S # {} /\ \A m, n \in S : ThreadOf[m] = ThreadOf[n] => m = n

Members(S) == UNION {Thread(m) : m \in S}

ReadBulk(r, S) ==
  LET marked == {n \in Members(S) : isRead[n]}
  IN /\ WholeDomain /\ IsSelection(S)
     /\ marked # {}
     /\ Prepare(r, "bulk", {<<r, m>> : m \in {n \in S : Thread(n) \cap marked # {}}}, marked)

ReadSeen(r, S) ==
  WholeDomain /\ IsSelection(S) /\ Prepare(r, "seen", {}, Members(S))

\* Mutant: whether the message is read is all that is compared.
AsFoundRead(r, m) == isRead[m]

\* A message is as the request read it.
AsFound(r, m) == isRead[m] /\ version[m] = request[r].found[m]

\* The messages that an activity the request wants to record is about.
Marked(r, a) == request[r].noted \cap Thread(a[2])

\* The batch inserts those activities whose messages are all as found, and marks the
\* messages of the inserted activities.
Record(r, inserted) ==
  /\ Change(UNION {Marked(r, a) : a \in inserted}, FALSE)
  /\ activity' = [a \in Activities |->
       IF a \in inserted
         THEN [state |-> "kept", msgs |-> Marked(r, a), prev |-> request[r].found]
         ELSE activity[a]]
  /\ UNCHANGED <<granted, late>>

WriteThread(r) ==
  /\ Finish(r, "mark")
  /\ Record(r, {a \in request[r].aim : \A m \in Marked(r, a) : AsFound(r, m) /\ Visible(m)})

WriteBulk(r) ==
  /\ Finish(r, "bulk")
  /\ Record(r, {a \in request[r].aim : WholeDomain /\ \A m \in Marked(r, a) : AsFound(r, m)})

\* mark-seen does not look at versions; the activity it records cannot be undone.
WriteSeen(r) ==
  /\ Finish(r, "seen")
  /\ Change({m \in request[r].noted : WholeDomain /\ ~isRead[m]}, TRUE)
  /\ UNCHANGED <<granted, activity, late>>

-----------------------------------------------------------------------------
(***************************************************************************)
(* Undoing.                                                                *)
(***************************************************************************)

Exists(a) == activity[a].state \in {"kept", "undone"}
Batch(b) == {a \in Activities : a[1] = b /\ Exists(a)}
IsBatch(b) == request[b].kind = "bulk" /\ Batch(b) # {}

\* What both handlers check first.
MayUndo(a) ==
  /\ activity[a].state = "kept" /\ activity[a].msgs # {} /\ a[1] \notin late
  /\ Visible(a[2])

ReadUndo(r, a) ==
  MayUndo(a) /\ Prepare(r, "undo", {a}, {})

ReadUndoBatch(r, b) ==
  /\ IsBatch(b)
  /\ \A a \in Batch(b) : MayUndo(a)
  /\ Prepare(r, "batch", Batch(b), {})

\* Mutant: the versions are not compared.
StillAppliesUnversioned(a) ==
  /\ activity[a].state = "kept" /\ activity[a].msgs # {}
  /\ Visible(a[2])
  /\ \A m \in activity[a].msgs : ~isRead[m] /\ Visible(m)

\* What the batch checks again.  It compares undo_expires_at with the clock that was
\* read before: an undo that was in time stays in time.
StillApplies(a) ==
  /\ activity[a].state = "kept" /\ activity[a].msgs # {}
  /\ Visible(a[2])
  /\ \A m \in activity[a].msgs :
       ~isRead[m] /\ version[m] = activity[a].prev[m] + 1 /\ Visible(m)

Undo(undone) ==
  /\ Change(UNION {activity[a].msgs : a \in undone}, TRUE)
  /\ activity' = [a \in Activities |->
       IF a \in undone THEN WithoutData("undone") ELSE activity[a]]
  /\ UNCHANGED <<granted, late>>

WriteUndo(r) ==
  /\ Finish(r, "undo")
  /\ Undo({a \in request[r].aim : StillApplies(a)})

\* The rows of the batch are counted: as many as were read, and as many that apply.
WriteUndoBatch(r) ==
  /\ Finish(r, "batch")
  /\ \E b \in Markers :
       /\ \A a \in request[r].aim : a[1] = b
       /\ LET complete == /\ Cardinality(Batch(b)) = Cardinality(request[r].aim)
                          /\ \A a \in Batch(b) : StillApplies(a)
          IN Undo(IF complete THEN Batch(b) ELSE {})

-----------------------------------------------------------------------------
(***************************************************************************)
(* Time, pruning, and grants that come and go.                             *)
(***************************************************************************)

\* undo_expires_at passes, for all that one request recorded.
Lapse(r) ==
  /\ \E a \in Activities : a[1] = r /\ Exists(a)
  /\ late' = late \cup {r}
  /\ UNCHANGED <<messageVars, granted, activity, request>>

\* pruneWorkspaceActivity forgets how to undo what is late, and deletes the rows that are
\* a year old.
Prune(old) ==
  /\ old \subseteq late
  /\ activity' = [a \in Activities |->
       IF a[1] \in old /\ Exists(a) THEN WithoutData("gone")
       ELSE IF a[1] \in late THEN WithoutData(activity[a].state)
       ELSE activity[a]]
  /\ UNCHANGED <<messageVars, granted, request, late>>

\* An owner grants the member a mailbox, or revokes it.
SetGrant(b) ==
  /\ granted' = IF b \in granted THEN granted \ {b} ELSE granted \cup {b}
  /\ UNCHANGED <<messageVars, activity, request, late>>

Mark(r) ==
  \/ \E m \in Messages : ReadThread(r, m)
  \/ \E S \in SUBSET Messages : ReadBulk(r, S) \/ ReadSeen(r, S)
  \/ WriteThread(r) \/ WriteBulk(r) \/ WriteSeen(r)

Revert(r) ==
  \/ \E a \in Activities : ReadUndo(r, a)
  \/ \E b \in Markers : ReadUndoBatch(r, b)
  \/ WriteUndo(r) \/ WriteUndoBatch(r)

Next ==
  \/ \E m \in Messages : PatchRead(m)
  \/ \E r \in Markers : Mark(r) \/ Lapse(r)
  \/ \E r \in Undoers : Revert(r)
  \/ \E old \in SUBSET Markers : Prune(old)
  \/ \E b \in Revocable : SetGrant(b)

Spec == Init /\ [][Next]_vars

-----------------------------------------------------------------------------
(***************************************************************************)
(* Properties.                                                             *)
(***************************************************************************)

\* Every variable keeps its type; an activity has undo data only while it is kept.
TypeOK ==
  /\ isRead \in [Messages -> BOOLEAN]
  /\ version \in [Messages -> Nat]
  /\ granted \subseteq Mailboxes
  /\ activity \in [Activities -> Row]
  /\ \A a \in Activities : activity[a].msgs # {} => activity[a].state = "kept"
  /\ request \in [Requests -> Request]
  /\ late \subseteq Markers
  /\ stale \subseteq Activities

\* read_state_version identifies the state it was read with: a message that comes back
\* to a version has the same is_read, so that comparing versions is enough.
VersionNamesState ==
  \A m \in Messages : isRead[m] = ((version[m] % 2 = 1) # (m \in Sent))

\* Two activities never record the same marking of a message, however many members mark
\* its conversation at once: each marking can be undone by one activity only.
OneRecordPerMarking ==
  \A a, b \in Activities : \A m \in activity[a].msgs \cap activity[b].msgs :
    a # b => activity[a].prev[m] # activity[b].prev[m]

\* An undo reverses the marking it was recorded for and nothing that came after it: none
\* of its messages has changed since, and they all become read again.
UndoOnlyItsOwn ==
  [][\A a \in Activities :
       activity[a].state # "undone" /\ activity'[a].state = "undone" =>
         a \notin stale /\ \A m \in activity[a].msgs : isRead'[m]]_vars

\* The undo of a batch undoes all that is left of it, or nothing: never the
\* conversations that happen to be unchanged or accessible.
BatchIsWhole ==
  [][\A r \in Requests :
       request[r].kind = "batch" /\ request[r].step = "write" /\ request'[r].step = "done" =>
         LET undone == {a \in Activities : activity[a].state # "undone"
                                           /\ activity'[a].state = "undone"}
         IN undone = {} \/ undone = request[r].aim]_vars

-----------------------------------------------------------------------------
(***************************************************************************)
(* The inductive invariant behind the properties.                          *)
(***************************************************************************)

\* What an activity would undo lies in the past of its messages.
RecordedPast ==
  \A a \in Activities : \A m \in activity[a].msgs : activity[a].prev[m] < version[m]

\* A message that has changed since an activity bears the mark of it in its version.
StaleHasMoved ==
  \A a \in stale : activity[a].msgs # {} =>
    \E m \in activity[a].msgs : version[m] > activity[a].prev[m] + 1

\* A request that has not written has no activities yet.
NothingRecordedBefore ==
  \A a \in Activities : request[a[1]].step # "done" =>
    activity[a].state = "none" /\ activity[a].msgs = {} /\ a \notin stale

\* It is about to record activities of its own, of different conversations.
AimsAtOwn ==
  \A r \in Requests : request[r].step = "write" /\ request[r].kind \in {"mark", "bulk"} =>
    /\ r \in Markers
    /\ \A a \in request[r].aim : a[1] = r
    /\ \A a, b \in request[r].aim : ThreadOf[a[2]] = ThreadOf[b[2]] => a = b

\* A batch has no row that the request to undo it has not read.
AimsAtBatch ==
  \A r \in Requests : request[r].step = "write" /\ request[r].kind = "batch" =>
    \E b \in Markers : /\ request[b].step = "done"
                       /\ request[r].aim # {}
                       /\ \A a \in request[r].aim : a[1] = b
                       /\ Batch(b) \subseteq request[r].aim

\* Requests mark and undo by comparing versions only: this is what makes it enough.
UndoInvariant ==
  /\ TypeOK
  /\ VersionNamesState
  /\ OneRecordPerMarking
  /\ RecordedPast
  /\ StaleHasMoved
  /\ NothingRecordedBefore
  /\ AimsAtOwn
  /\ AimsAtBatch
=============================================================================
