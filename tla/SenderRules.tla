---------------------------- MODULE SenderRules ----------------------------
(***************************************************************************)
(* The rule that classifies a sender, its changes, and their undo within a *)
(* day (messages/[id]/sender-rule.put.ts, sender-rule-changes/[id]/        *)
(* undo.post.ts), with the arrival of messages (mail-store.ts) and what    *)
(* members do to single messages meanwhile.                                *)
(*                                                                         *)
(* A change of a rule reads the rule, reads whether its last change can    *)
(* still be undone, and then sends one D1 batch: three steps.  An undo     *)
(* reads only columns that never change before its batch: one step.        *)
(*                                                                         *)
(* The other handlers that move, park or trash messages first read which;  *)
(* here they take any set of messages, so that whatever they read, and     *)
(* however old it is, is covered.  Conversations merged by hand, for which *)
(* both handlers do more, are left out, as is the state of the Screener.   *)
(***************************************************************************)
EXTENDS Naturals

CONSTANTS
  Messages,
  Senders,
  SenderOf,    \* the sender of a message
  Changes,     \* requests that change a rule; the name of one is the id of the change
  About,       \* the sender whose rule it changes
  Boxes,       \* Imbox, The Feed, Paper Trail
  Imbox,
  Screener,    \* where messages wait whose sender has no rule
  NoBox,       \* no row: of a message that has not arrived, of a rule, in a snapshot
  NoChange     \* SQL NULL in last_change_id and previous_change_id

ASSUME DataAssumption ==
  /\ SenderOf \in [Messages -> Senders]
  /\ About \in [Changes -> Senders]
  /\ Imbox \in Boxes
  /\ Screener \notin Boxes
  /\ NoBox \notin Boxes \cup {Screener}
  /\ NoChange \notin Changes

VARIABLES
  folder,     \* messages.folder
  queued,     \* messages in Set Aside or Reply Later
  trashed,    \* messages with trashed_at
  rule,       \* rows of sender_rules
  status,     \* status[c]: the await of the request c, then what became of its change
  seen,       \* seen[c]: the rule that c replaces, as it read it
  link,       \* link[c]: previous_change_id
  snapshot,   \* snapshot[c]: sender_rule_change_messages
  apart,      \* history: messages that were parked, trashed or moved by hand
  crossed     \* history: senders for whom a change replaced a rule it had not read

messageVars == <<folder, queued, trashed, apart>>
changeVars == <<status, seen, link, snapshot, crossed>>
vars == <<messageVars, rule, changeVars>>

Places == Boxes \cup {Screener, NoBox}
Rule == [box : Boxes \cup {NoBox}, last : Changes \cup {NoChange}]
NoRule == [box |-> NoBox, last |-> NoChange]
Nothing == [m \in Messages |-> NoBox]

\* Where a rule sends the messages of its sender.
Place(r) == IF r.box = NoBox THEN Screener ELSE r.box

\* Rules older than the changes were created for the senders known then.
Init ==
  /\ folder = Nothing
  /\ queued = {} /\ trashed = {}
  /\ rule \in [Senders -> [box : Boxes \cup {NoBox}, last : {NoChange}]]
  /\ status = [c \in Changes |-> "asked"]
  /\ seen = [c \in Changes |-> NoRule]
  /\ link = [c \in Changes |-> NoChange]
  /\ snapshot = [c \in Changes |-> Nothing]
  /\ apart = {} /\ crossed = {}

-----------------------------------------------------------------------------
(***************************************************************************)
(* sender-rule.put.ts                                                      *)
(***************************************************************************)
ReadRule(c) ==
  /\ status[c] = "asked"
  /\ status' = [status EXCEPT ![c] = "read"]
  /\ seen' = [seen EXCEPT ![c] = rule[About[c]]]
  /\ UNCHANGED <<messageVars, rule, link, snapshot, crossed>>

Undoable(c) == c \in Changes /\ status[c] = "applied"

ReadLastChange(c) ==
  /\ status[c] = "read"
  /\ status' = [status EXCEPT ![c] = "ready"]
  /\ link' = [link EXCEPT ![c] = IF Undoable(seen[c].last) THEN seen[c].last ELSE NoChange]
  /\ UNCHANGED <<messageVars, rule, seen, snapshot, crossed>>

Received(s) == {m \in Messages : SenderOf[m] = s /\ folder[m] # NoBox}

\* The messages that follow a new rule.
Moved(s) == Received(s) \ (trashed \cup queued)

\* The batch, which also deletes the changes that have expired.
ApplyRule(c) ==
  LET s == About[c]
  IN /\ status[c] = "ready"
     /\ \E f \in Boxes :
          /\ rule' = [rule EXCEPT ![s] = [box |-> f, last |-> c]]
          /\ folder' = [m \in Messages |-> IF m \in Moved(s) THEN f ELSE folder[m]]
     /\ status' = [status EXCEPT ![c] = "applied"]
     /\ snapshot' = [d \in Changes |->
                       IF d = c THEN [m \in Messages |-> IF m \in Received(s) \ trashed
                                                         THEN folder[m] ELSE NoBox]
                       ELSE IF status[d] = "expired" THEN Nothing ELSE snapshot[d]]
     /\ crossed' = IF seen[c] = rule[s] THEN crossed ELSE crossed \cup {s}
     /\ UNCHANGED <<queued, trashed, apart, seen, link>>

-----------------------------------------------------------------------------
(***************************************************************************)
(* sender-rule-changes/[id]/undo.post.ts                                   *)
(***************************************************************************)

MayUndo(c) == Undoable(c) /\ rule[About[c]].last = c

\* Mutant: messages that came after the change stay where it sent them.
BroughtBackIfKept(c, m) ==
  IF snapshot[c][m] # NoBox THEN snapshot[c][m] ELSE folder[m]

\* Where the undo of c puts message m.
BroughtBack(c, m) ==
  IF snapshot[c][m] # NoBox THEN snapshot[c][m] ELSE Place(seen[c])

RuleBefore(c) ==
  IF seen[c].box = NoBox THEN NoRule ELSE [box |-> seen[c].box, last |-> link[c]]

Undo(c) ==
  LET s == About[c]
  IN /\ MayUndo(c)
     /\ status' = [status EXCEPT ![c] = "undone"]
     /\ folder' = [m \in Messages |-> IF m \in Received(s) \ queued
                                      THEN BroughtBack(c, m) ELSE folder[m]]
     /\ rule' = [rule EXCEPT ![s] = IF rule[s].last = c THEN RuleBefore(c) ELSE rule[s]]
     /\ UNCHANGED <<queued, trashed, apart, seen, link, snapshot, crossed>>

\* A day later.  An expired change answers as if it were deleted already.
Expire(c) ==
  /\ status[c] = "applied"
  /\ status' = [status EXCEPT ![c] = "expired"]
  /\ UNCHANGED <<messageVars, rule, seen, link, snapshot, crossed>>

-----------------------------------------------------------------------------
(***************************************************************************)
(* The arrival of a message: its folder is chosen in the INSERT.           *)
(***************************************************************************)
ArriveAt(m, f) ==
  /\ folder[m] = NoBox
  /\ folder' = [folder EXCEPT ![m] = f]
  /\ UNCHANGED <<trashed, rule, changeVars>>

Arrive(m) ==
  /\ ArriveAt(m, Place(rule[SenderOf[m]]))
  /\ UNCHANGED <<queued, apart>>

\* A reply to a parked conversation joins it, in the Inbox or, in Reply Later, in the
\* folder of the conversation; when that cannot be looked up it goes to the Inbox.
ArriveAsReply(m) ==
  /\ \/ \E f \in Boxes : ArriveAt(m, f) /\ queued' = queued \cup {m}
     \/ ArriveAt(m, Imbox) /\ UNCHANGED queued
  /\ apart' = apart \cup {m}

-----------------------------------------------------------------------------
(***************************************************************************)
(* What members do to messages, one or a conversation at a time.           *)
(***************************************************************************)
ByHand(S) ==
  /\ \A m \in S : folder[m] # NoBox
  /\ apart' = apart \cup S
  /\ UNCHANGED <<rule, changeVars>>

\* folder.patch.ts and group-folder.patch.ts keep the queues; a move in bulk clears them.
Move(S) ==
  /\ ByHand(S)
  /\ \E f \in Boxes : folder' = [m \in Messages |-> IF m \in S THEN f ELSE folder[m]]
  /\ queued' \in {queued, queued \ S}
  /\ UNCHANGED trashed

Queue(S) ==
  /\ ByHand(S)
  /\ queued' = queued \cup S
  /\ UNCHANGED <<folder, trashed>>

\* Out of Reply Later, or out of Set Aside in bulk, messages stay; set-aside.patch.ts
\* sends them where the rules of their senders agree to.
Unqueue(S) ==
  /\ ByHand(S)
  /\ queued' = queued \ S
  /\ \/ UNCHANGED folder
     \/ \E f \in Boxes : folder' = [m \in Messages |-> IF m \in S THEN f ELSE folder[m]]
  /\ UNCHANGED trashed

Trash(S) ==
  /\ ByHand(S)
  /\ trashed' = trashed \cup S
  /\ UNCHANGED <<folder, queued>>

Restore(m) ==
  /\ m \in trashed
  /\ trashed' = trashed \ {m}
  /\ UNCHANGED <<folder, queued, apart, rule, changeVars>>

Next ==
  \/ \E c \in Changes : ReadRule(c) \/ ReadLastChange(c) \/ ApplyRule(c) \/ Undo(c) \/ Expire(c)
  \/ \E m \in Messages : Arrive(m) \/ ArriveAsReply(m) \/ Restore(m)
  \/ \E S \in SUBSET Messages : Move(S) \/ Queue(S) \/ Unqueue(S) \/ Trash(S)

Spec == Init /\ [][Next]_vars

-----------------------------------------------------------------------------
(***************************************************************************)
(* Properties.                                                             *)
(***************************************************************************)

\* Every variable keeps its type, and a sender without a rule has no last change.
TypeOK ==
  /\ folder \in [Messages -> Places]
  /\ queued \subseteq Messages /\ trashed \subseteq Messages
  /\ rule \in [Senders -> Rule]
  /\ \A s \in Senders : rule[s].box = NoBox => rule[s].last = NoChange
  /\ status \in [Changes -> {"asked", "read", "ready", "applied", "undone", "expired"}]
  /\ seen \in [Changes -> Rule]
  /\ link \in [Changes -> Changes \cup {NoChange}]
  /\ snapshot \in [Changes -> [Messages -> Places]]
  /\ apart \subseteq Messages /\ crossed \subseteq Senders

\* A message that nobody moved, parked or trashed is where the rule of its sender says,
\* or in the Screener: through changes, undos of undos and arrivals in between, as long
\* as no change replaced a rule other than the one it had read.
FollowsRule ==
  \A m \in Messages :
    /\ folder[m] # NoBox
    /\ m \notin apart
    /\ SenderOf[m] \notin crossed
    => folder[m] = Place(rule[SenderOf[m]])

\* A change that was undone does not come back: no rule goes on naming it as its last
\* one, so that it could neither be undone twice nor be restored by a later undo.
UndoneIsOver ==
  \A s \in Senders \ crossed :
    rule[s].last # NoChange => status[rule[s].last] # "undone"

\* docs/MAILBOX-CLASSIFICATION.md: Set Aside and Reply Later take precedence; neither a
\* change of a rule nor its undo moves a message that is parked.
QueuedStay ==
  [][status' # status => \A m \in queued : folder'[m] = folder[m]]_vars

-----------------------------------------------------------------------------
(***************************************************************************)
(* The inductive invariant: the changes that can be undone form a stack.   *)
(***************************************************************************)
Made(c) == status[c] \in {"applied", "undone", "expired"}
Standing(c) == status[c] = "applied" /\ About[c] \notin crossed

ParkedIsApart == queued \cup trashed \subseteq apart

\* What is linked was read, and links lead to changes of the same rule.
LinkIsSeen ==
  \A c \in Changes :
    /\ status[c] = "asked" => seen[c] = NoRule
    /\ link[c] \in {seen[c].last, NoChange}
    /\ seen[c].last # NoChange => seen[c].box # NoBox
    /\ seen[c].last # NoChange => Made(seen[c].last) /\ About[seen[c].last] = About[c]

LastIsMade ==
  \A s \in Senders :
    rule[s].last # NoChange => Made(rule[s].last) /\ About[rule[s].last] = s

\* What a standing change replaced still stands, is not on top, and was replaced once.
LinksStand ==
  \A c \in Changes : Standing(c) /\ link[c] # NoChange =>
    /\ status[link[c]] # "undone"
    /\ rule[About[c]].last # link[c]
    /\ \A d \in Changes : Standing(d) /\ link[d] = link[c] => d = c

\* What a standing change would restore is the rule it replaced.
SnapshotsFollow ==
  \A c \in Changes : Standing(c) =>
    \A m \in Messages :
      snapshot[c][m] # NoBox /\ m \notin apart => snapshot[c][m] = Place(seen[c])

RuleInvariant ==
  /\ TypeOK
  /\ ParkedIsApart
  /\ LinkIsSeen
  /\ LastIsMade
  /\ LinksStand
  /\ SnapshotsFollow
  /\ FollowsRule
  /\ UndoneIsOver

=============================================================================
