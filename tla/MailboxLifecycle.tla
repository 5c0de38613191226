-------------------------- MODULE MailboxLifecycle --------------------------
(***************************************************************************)
(* The life of a mailbox: creation, suspension, archiving, restoration and *)
(* permanent deletion by platform administrators (mailboxes.post.ts, and   *)
(* [id].patch.ts and delete.post.ts under admin/mailboxes), with the       *)
(* Cloudflare rule that routes its address to the Worker, and the          *)
(* messages, sends and relays that the deletion must not cross.            *)
(*                                                                         *)
(* Each request is a sequence of awaits: reads and atomic statements of    *)
(* D1, calls of the Cloudflare API (list the rules, then write one) and of *)
(* R2.  Each may fail, some after having taken effect.  A slot serves one  *)
(* request after the other.                                                *)
(***************************************************************************)
EXTENDS Naturals, FiniteSets

CONSTANTS
  Patches,      \* slots of requests that change the state of the mailbox
  Deletions,    \* slots of requests that delete it
  Creation,     \* the request that creates it
  Incoming,     \* messages that may arrive
  Composed,     \* sends of composed messages; also the names of what they archive
  Replies       \* sends of replies, likewise

Sends == Composed \cup Replies
Requests == Patches \cup Deletions \cup {Creation}

ASSUME RequestsAssumption ==
  /\ Patches \cap Deletions = {}
  /\ Creation \notin Patches \cup Deletions
  /\ IsFiniteSet(Patches)
  /\ Incoming \cap Sends = {} /\ Composed \cap Replies = {}

VARIABLES
  managed,    \* the Worker holds the token that writes Cloudflare rules
  exists,     \* the row of the mailbox: "none" yet, "here" or "gone"
  status,     \* "active" or "suspended"
  archived,   \* archived_at: 0 for NULL
  before,     \* status_before_archive, "null" when there is none
  started,    \* deletion_started_at is set
  claimed,    \* deletion_claimed_at: "no", "held", or "lapsed" after fifteen minutes
  rule,       \* the Cloudflare rules of the address
  pc,         \* pc[q]: the await of the request in slot q, "idle" for none
  api,        \* api[q]: the call of a rule change that q awaits
  local,      \* local[q]: what the request in slot q has read and decided
  held,       \* rows of messages of the mailbox
  lost,       \* those whose objects were deleted
  sending,    \* sends under way
  locks,      \* composed drafts of the mailbox whose row says 'sending'
  relaying,   \* a relay of one of its messages is claimed in the ledger
  crossed     \* history: hands, overlapping requests or failures touched the rule

rowVars == <<exists, status, archived, before, started, claimed>>
requestVars == <<pc, api, local>>
mailVars == <<held, lost, sending, locks, relaying>>
vars == <<managed, rowVars, rule, requestVars, mailVars, crossed>>

Actions == {"activate", "suspend", "archive", "restore"}
Rules == {"missing", "disabled", "enabled", "doubled", "foreign"}
Steps == {"idle", "enable", "conflict", "manual", "route", "check", "save", "current",
          "reroute", "reported", "claim", "disable", "unroute", "remove", "collect",
          "pending", "purge", "erase", "keep", "reopen"}

\* Times of archiving: a new one has to differ from those that requests remember.
Times == 1..(Cardinality(Patches) + 1)

Stati == {"active", "suspended"}

\* What a patch remembers: its action, the columns it read, and whether it wants the
\* rule enabled.  What a deletion remembers: whether it read deletion_started_at as
\* set, and the messages whose objects it is to delete.
Local == [action : Actions, status : Stati, archived : {0} \cup Times,
          before : Stati \cup {"null"}, wanted : BOOLEAN, resumed : BOOLEAN,
          keys : SUBSET (Incoming \cup Sends)]

Blank == [action |-> "activate", status |-> "active", archived |-> 0, before |-> "null",
          wanted |-> FALSE, resumed |-> FALSE, keys |-> {}]

Receiving == exists = "here" /\ status = "active" /\ archived = 0 /\ ~started
InFlight(q) == pc[q] # "idle"

\* The columns of a row that has just been inserted, or that is not there.
NoColumns ==
  /\ status = "active" /\ archived = 0 /\ before = "null"
  /\ started = FALSE /\ claimed = "no"

Init ==
  /\ managed \in BOOLEAN
  /\ exists = "none" /\ NoColumns
  /\ rule \in {"missing", "enabled", "foreign"}
  /\ pc = [q \in Requests |-> "idle"]
  /\ api = [q \in Requests |-> "list"]
  /\ local = [q \in Requests |-> Blank]
  /\ held = {} /\ lost = {} /\ locks = {} /\ sending = {} /\ relaying = FALSE
  /\ crossed = ~managed

\* The request in slot q goes on to a step, remembering what it knew, or ends.
Advance(q, step, known) ==
  /\ pc' = [pc EXCEPT ![q] = step]
  /\ api' = [api EXCEPT ![q] = "list"]
  /\ local' = [local EXCEPT ![q] = known]

Goto(q, step) == Advance(q, step, IF step = "idle" THEN Blank ELSE local[q])
Cross == crossed' = TRUE

\* A request that begins while another is under way may miss what that one changes.
Begin(q) == crossed' = (crossed \/ \E r \in Requests \ {q} : InFlight(r))

-----------------------------------------------------------------------------
(***************************************************************************)
(* setCloudflareMailboxRule: the rules are listed, then one is created or  *)
(* toggled; each answer may be an error, the last one after the change was *)
(* made.                                                                   *)
(***************************************************************************)
ListRules(q, enabled, done, failed, conflict) ==
  /\ api[q] = "list"
  /\ \/ /\ rule = IF enabled THEN "enabled" ELSE "disabled"
        /\ Goto(q, done)
     \/ /\ rule = "missing" /\ ~enabled
        /\ Goto(q, done)
     \/ /\ rule = "missing" /\ enabled
        /\ api' = [api EXCEPT ![q] = "post"] /\ UNCHANGED <<pc, local>>
     \/ /\ rule = IF enabled THEN "disabled" ELSE "enabled"
        /\ api' = [api EXCEPT ![q] = "put"] /\ UNCHANGED <<pc, local>>
     \/ /\ rule \in {"doubled", "foreign"}
        /\ Goto(q, conflict)
     \/ Goto(q, failed)
  /\ UNCHANGED <<rule, crossed>>

WriteRule(q, enabled, done, failed) ==
  /\ \/ /\ api[q] = "post"
        /\ rule' = IF rule = "missing" THEN "enabled" ELSE "doubled"
     \/ /\ api[q] = "put" /\ rule \in {"enabled", "disabled"}
        /\ rule' = IF enabled THEN "enabled" ELSE "disabled"
  /\ \/ Goto(q, done) /\ UNCHANGED crossed
     \/ Goto(q, failed) /\ Cross

WriteFails(q, failed) ==
  /\ api[q] \in {"post", "put"}
  /\ Goto(q, failed)
  /\ UNCHANGED <<rule, crossed>>

SetRule(q, enabled, done, failed, conflict) ==
  \/ ListRules(q, enabled, done, failed, conflict)
  \/ WriteRule(q, enabled, done, failed)
  \/ WriteFails(q, failed)

-----------------------------------------------------------------------------
(***************************************************************************)
(* Creation.                                                               *)
(***************************************************************************)
Create ==
  /\ exists = "none"
  /\ exists' = "here"
  /\ Goto(Creation, IF managed THEN "enable" ELSE "idle")
  /\ UNCHANGED <<managed, status, archived, before, started, claimed, rule, mailVars, crossed>>

EnableRule ==
  /\ pc[Creation] = "enable"
  /\ SetRule(Creation, TRUE, "idle", "manual", "conflict")
  /\ UNCHANGED <<managed, rowVars, mailVars>>

\* The rule could not be set: it is left to the administrator.
LeaveRule ==
  /\ pc[Creation] = "manual"
  /\ Goto(Creation, "idle") /\ Cross
  /\ UNCHANGED <<managed, rowVars, rule, mailVars>>

\* Rules of others for the address: the mailbox is suspended.
SuspendConflict ==
  /\ pc[Creation] = "conflict"
  /\ \/ status' = (IF exists = "here" THEN "suspended" ELSE status) /\ UNCHANGED crossed
     \/ UNCHANGED status /\ Cross
  /\ Goto(Creation, "idle")
  /\ UNCHANGED <<managed, exists, archived, before, started, claimed, rule, mailVars>>

-----------------------------------------------------------------------------
(***************************************************************************)
(* Suspension, reactivation, archiving and restoration.                    *)
(***************************************************************************)
NextStatus(p) ==
  CASE local[p].action = "activate" -> "active"
    [] local[p].action \in {"suspend", "archive"} -> "suspended"
    [] local[p].action = "restore" -> local[p].before

\* Asking for the status that was read changes nothing but the rule.
AsksNothing(p) == local[p].action \in {"activate", "suspend"} /\ NextStatus(p) = local[p].status

ReadPatch(p) ==
  /\ ~InFlight(p)
  /\ exists = "here" /\ ~started
  /\ \E a \in Actions :
       /\ IF a = "restore" THEN archived # 0 /\ before # "null" ELSE archived = 0
       /\ Advance(p, IF managed THEN "route" ELSE "check",
            [action |-> a, status |-> status, archived |-> archived, before |-> before,
             wanted |-> a = "activate" \/ (a = "restore" /\ before = "active"),
             resumed |-> FALSE, keys |-> {}])
  /\ Begin(p)
  /\ UNCHANGED <<managed, rowVars, rule, mailVars>>

\* The rule is changed before the mailbox.
RouteFirst(p) ==
  /\ pc[p] = "route"
  /\ SetRule(p, local[p].wanted, "save", "idle", "idle")
  /\ UNCHANGED <<managed, rowVars, mailVars>>

\* Without the token the administrator has to have changed the rule.
CheckRule(p) ==
  /\ pc[p] = "check"
  /\ \/ rule = (IF local[p].wanted THEN "enabled" ELSE "disabled") /\ Goto(p, "save")
     \/ Goto(p, "idle")
  /\ UNCHANGED <<managed, rowVars, rule, mailVars, crossed>>

SaveNothing(p) ==
  /\ pc[p] = "save" /\ AsksNothing(p)
  /\ Goto(p, "idle")
  /\ UNCHANGED <<managed, rowVars, rule, mailVars, crossed>>

\* Mutant: a deletion that has started does not stop the change.
UnchangedButDeletion(p) ==
  exists = "here" /\ status = local[p].status /\ archived = local[p].archived

\* Mutant: archiving is not told from one before.
UnchangedStatus(p) ==
  exists = "here" /\ status = local[p].status /\ (archived = 0) = (local[p].archived = 0) /\ ~started

\* The mailbox is as it was read, and its deletion has not started.
Unchanged(p) ==
  exists = "here" /\ status = local[p].status /\ archived = local[p].archived /\ ~started

Now == CHOOSE t \in Times : \A p \in Patches : local[p].archived # t

Apply(p) ==
  /\ status' = NextStatus(p)
  /\ archived' = CASE local[p].action = "archive" -> Now
                   [] local[p].action = "restore" -> 0
                   [] OTHER -> local[p].archived
  /\ before' = CASE local[p].action = "archive" -> local[p].status
                 [] local[p].action = "restore" -> "null"
                 [] OTHER -> local[p].before

\* The change is one conditional statement; unless it is known to have been made,
\* the rule is set again for whatever the mailbox is then.
Save(p) ==
  /\ pc[p] = "save" /\ ~AsksNothing(p)
  /\ LET undo == IF managed THEN "current" ELSE "idle"
     IN \/ Unchanged(p) /\ Apply(p) /\ (Goto(p, "idle") \/ Goto(p, undo))
        \/ UNCHANGED <<status, archived, before>> /\ Goto(p, undo)
  /\ UNCHANGED <<managed, exists, started, claimed, rule, mailVars, crossed>>

RerouteTo(p, enabled) == Advance(p, "reroute", [local[p] EXCEPT !.wanted = enabled])

\* Mutant: the rule is set again for the mailbox that was read at the beginning.
ReadFirst(p) ==
  /\ pc[p] = "current"
  /\ RerouteTo(p, local[p].status = "active" /\ local[p].archived = 0)
  /\ UNCHANGED <<managed, rowVars, rule, mailVars, crossed>>

ReadCurrent(p) ==
  /\ pc[p] = "current"
  /\ \/ RerouteTo(p, Receiving) /\ UNCHANGED crossed
     \/ Goto(p, "idle") /\ Cross
  /\ UNCHANGED <<managed, rowVars, rule, mailVars>>

Reroute(p) ==
  /\ pc[p] = "reroute"
  /\ SetRule(p, local[p].wanted, "idle", "reported", "reported")
  /\ UNCHANGED <<managed, rowVars, mailVars>>

\* A failed compensation is reported to the administrator and audited.
ReportRule(p) ==
  /\ pc[p] = "reported"
  /\ Goto(p, "idle") /\ Cross
  /\ UNCHANGED <<managed, rowVars, rule, mailVars>>

-----------------------------------------------------------------------------
(***************************************************************************)
(* Permanent deletion.                                                     *)
(***************************************************************************)
undeleted == <<managed, exists, status, archived, before, mailVars>>

ReadDeletion(d) ==
  /\ ~InFlight(d)
  /\ exists = "here" /\ archived # 0
  /\ Advance(d, "claim", [Blank EXCEPT !.resumed = started])
  /\ Begin(d)
  /\ UNCHANGED <<undeleted, started, claimed, rule>>

\* One statement claims the deletion for fifteen minutes and notes that it started.
ClaimDeletion(d) ==
  /\ pc[d] = "claim"
  /\ \/ /\ exists = "here" /\ archived # 0 /\ claimed # "held"
        /\ started' = TRUE /\ claimed' = "held"
        /\ Goto(d, IF managed THEN "disable" ELSE "check") \/ Goto(d, "idle")
     \/ Goto(d, "idle") /\ UNCHANGED <<started, claimed>>
  /\ UNCHANGED <<undeleted, rule, crossed>>

DisableRule(d) ==
  /\ pc[d] = "disable"
  /\ SetRule(d, FALSE, "unroute", "keep", "keep")
  /\ UNCHANGED <<undeleted, started, claimed>>

\* The disabled rule is to be removed; what the API cannot do is left to do by hand.
FindRule(d) ==
  /\ pc[d] = "unroute"
  /\ \/ rule = "missing" /\ Goto(d, "collect")
     \/ rule = "disabled" /\ Goto(d, "remove")
     \/ rule \in {"enabled", "doubled", "foreign"} /\ Goto(d, "keep")
     \/ Goto(d, "collect")
  /\ UNCHANGED <<undeleted, started, claimed, rule, crossed>>

RemoveRule(d) ==
  /\ pc[d] = "remove"
  /\ rule' \in {rule, CASE rule \in {"enabled", "disabled"} -> "missing"
                        [] rule = "doubled" -> "enabled"
                        [] OTHER -> rule}
  /\ Goto(d, "collect")
  /\ UNCHANGED <<undeleted, started, claimed, crossed>>

\* What a deletion that gives up does: one that it resumed has started for good.
GiveUp(d) == Goto(d, IF local[d].resumed THEN "keep" ELSE "reopen")

\* Without the token the rule has to be disabled or missing.
CheckDisabled(d) ==
  /\ pc[d] = "check"
  /\ \/ rule \in {"disabled", "missing"} /\ Goto(d, "collect")
     \/ GiveUp(d)
  /\ UNCHANGED <<undeleted, started, claimed, rule, crossed>>

CollectKeys(d) ==
  /\ pc[d] = "collect"
  /\ \/ Advance(d, "pending", [local[d] EXCEPT !.keys = held])
     \/ Goto(d, "keep")
  /\ UNCHANGED <<undeleted, started, claimed, rule, crossed>>

\* Mutant: only relays are waited for.
AwaitRelays(d) ==
  /\ pc[d] = "pending"
  /\ \/ relaying /\ GiveUp(d)
     \/ ~relaying /\ Goto(d, "purge")
     \/ Goto(d, "keep")
  /\ UNCHANGED <<undeleted, started, claimed, rule, crossed>>

\* Claimed relays and composed drafts that are being sent make the deletion give up.
CheckPending(d) ==
  /\ pc[d] = "pending"
  /\ \/ (relaying \/ locks # {}) /\ GiveUp(d)
     \/ ~relaying /\ locks = {} /\ Goto(d, "purge")
     \/ Goto(d, "keep")
  /\ UNCHANGED <<undeleted, started, claimed, rule, crossed>>

\* The objects are deleted in batches, any of which may fail.
PurgeObjects(d) ==
  /\ pc[d] = "purge"
  /\ \/ lost' = lost \cup (local[d].keys \cap held) /\ Goto(d, "erase")
     \/ \E some \in SUBSET (local[d].keys \cap held) : lost' = lost \cup some /\ Goto(d, "keep")
  /\ UNCHANGED <<managed, rowVars, rule, held, sending, locks, relaying,
                 crossed>>

\* One batch deletes the rows, while the mailbox is archived and its deletion started.
EraseRows(d) ==
  /\ pc[d] = "erase"
  /\ \/ /\ exists = "here" /\ archived # 0 /\ started
        /\ exists' = "gone"
        /\ status' = "active" /\ archived' = 0 /\ before' = "null"
        /\ started' = FALSE /\ claimed' = "no"
        /\ held' = {} /\ lost' = {} /\ locks' = {} /\ relaying' = FALSE
        /\ Goto(d, "idle") \/ Goto(d, "keep")
     \/ /\ UNCHANGED <<rowVars, held, lost, locks, relaying>>
        /\ Goto(d, "keep")
  /\ UNCHANGED <<managed, rule, sending, crossed>>

\* Mutant: a deletion that gives up always notes that it has not started.
ReopenAlways(d) ==
  /\ pc[d] \in {"keep", "reopen"}
  /\ \/ /\ exists = "here" /\ archived # 0
        /\ claimed' = "no" /\ started' = FALSE
     \/ UNCHANGED <<claimed, started>>
  /\ Goto(d, "idle")
  /\ UNCHANGED <<undeleted, rule, crossed>>

\* The claim is given back, whoever holds it, and with it, when the deletion gave up
\* before it deleted anything, the note that it had started.
Release(d) ==
  /\ pc[d] \in {"keep", "reopen"}
  /\ \/ /\ exists = "here" /\ archived # 0
        /\ claimed' = "no" /\ started' = (started /\ pc[d] = "keep")
     \/ UNCHANGED <<claimed, started>>
  /\ Goto(d, "idle")
  /\ UNCHANGED <<undeleted, rule, crossed>>

-----------------------------------------------------------------------------
(***************************************************************************)
(* The mail of the mailbox, and what the requests do not control.          *)
(***************************************************************************)
notMail == <<managed, rowVars, rule, requestVars, crossed>>

\* The insert of an incoming message tests the mailbox.
Receive(m) ==
  /\ Receiving /\ m \notin held
  /\ held' = held \cup {m}
  /\ UNCHANGED <<notMail, lost, sending, locks, relaying>>

\* The claim of a draft tests the mailbox.
BeginSend(i) ==
  /\ Receiving /\ i \notin sending \cup held \cup locks
  /\ sending' = sending \cup {i}
  /\ locks' = locks \cup ({i} \cap Composed)
  /\ UNCHANGED <<notMail, held, lost, relaying>>

\* The message is archived whatever the mailbox has become, or the send fails; the
\* draft is deleted or unlocked if the mailbox is still accessible.
EndSend(i) ==
  /\ i \in sending
  /\ sending' = sending \ {i}
  /\ \/ held' = held \cup {i} /\ locks' = IF Receiving THEN locks \ {i} ELSE locks
     \/ UNCHANGED held /\ locks' \in {locks, IF Receiving THEN locks \ {i} ELSE locks}
  /\ UNCHANGED <<notMail, lost, relaying>>

\* A relay claims a message of the mailbox, whose state a replay does not test.
ClaimRelay ==
  /\ ~relaying /\ held # {}
  /\ relaying' = TRUE
  /\ UNCHANGED <<notMail, held, lost, sending, locks>>

RecordRelay ==
  /\ relaying
  /\ relaying' = FALSE
  /\ UNCHANGED <<notMail, held, lost, sending, locks>>

LeaseLapses ==
  /\ claimed = "held"
  /\ claimed' = "lapsed"
  /\ UNCHANGED <<managed, exists, status, archived, before, started, rule, requestVars,
                 mailVars, crossed>>

\* The runtime evicts the Worker.
Crash(q) ==
  /\ InFlight(q)
  /\ Goto(q, "idle") /\ Cross
  /\ UNCHANGED <<managed, rowVars, rule, mailVars>>

\* Without the token the administrator edits the rules at Cloudflare.
EditRules ==
  /\ ~managed
  /\ rule' \in {"missing", "disabled", "enabled", "foreign"} \ {rule}
  /\ UNCHANGED <<managed, rowVars, requestVars, mailVars, crossed>>

ProceedPatch(p) ==
  \/ ReadPatch(p) \/ RouteFirst(p) \/ CheckRule(p) \/ SaveNothing(p) \/ Save(p)
  \/ ReadCurrent(p) \/ Reroute(p) \/ ReportRule(p)

ProceedDeletion(d) ==
  \/ ReadDeletion(d) \/ ClaimDeletion(d) \/ DisableRule(d) \/ FindRule(d) \/ RemoveRule(d)
  \/ CheckDisabled(d) \/ CollectKeys(d) \/ CheckPending(d) \/ PurgeObjects(d)
  \/ EraseRows(d) \/ Release(d)

Next ==
  \/ Create \/ EnableRule \/ LeaveRule \/ SuspendConflict
  \/ \E p \in Patches : ProceedPatch(p)
  \/ \E d \in Deletions : ProceedDeletion(d)
  \/ \E m \in Incoming : Receive(m)
  \/ \E i \in Sends : BeginSend(i) \/ EndSend(i)
  \/ ClaimRelay \/ RecordRelay
  \/ LeaseLapses \/ EditRules
  \/ \E q \in Requests : Crash(q)

Spec == Init /\ [][Next]_vars

-----------------------------------------------------------------------------
(***************************************************************************)
(* Properties.                                                             *)
(***************************************************************************)

\* Every variable keeps its type, and status_before_archive is set exactly while
\* the mailbox is archived.
TypeOK ==
  /\ managed \in BOOLEAN
  /\ exists \in {"none", "here", "gone"}
  /\ status \in {"active", "suspended"}
  /\ archived \in {0} \cup Times
  /\ before \in {"null", "active", "suspended"}
  /\ (before = "null") = (archived = 0)
  /\ started \in BOOLEAN /\ claimed \in {"no", "held", "lapsed"}
  /\ rule \in Rules
  /\ pc \in [Requests -> Steps] /\ api \in [Requests -> {"list", "post", "put"}]
  /\ local \in [Requests -> Local]
  /\ held \subseteq Incoming \cup Sends /\ lost \subseteq held
  /\ sending \subseteq Sends /\ locks \subseteq Composed
  /\ relaying \in BOOLEAN
  /\ crossed \in BOOLEAN

\* A mailbox whose deletion has started is archived and receives nothing: neither a
\* patch that read it before, nor its compensation, brings it back.
DeletingIsArchived ==
  started => archived # 0 /\ status = "suspended"

\* migrations/0041_mailbox_deletion.sql: a message loses its objects only in a
\* mailbox whose deletion has started and stays so, which prevents its restoration.
\* It holds while one request at a time deletes the mailbox; two may undo it.
LostOnlyWhileDeleting ==
  lost # {} => started

\* When nothing is under way the rule is enabled exactly if the mailbox receives,
\* even if the answer of the statement that changed it was lost; unless rules are
\* kept by hand, a change of one failed unseen, or requests were cut short or
\* overlapped.
RuleFollowsMailbox ==
  exists # "none" /\ ~crossed /\ (\A q \in Requests : ~InFlight(q))
    => (rule \in {"enabled", "doubled"} <=> Receiving)

\* Restoring a mailbox returns it to the status it had when it was last archived,
\* whatever happened since the restoring request read it.
RestoreReturnsPrior ==
  [][archived # 0 /\ archived' = 0 /\ exists' = "here" => status' = before]_vars

\* While one request at a time deletes it, only replies can leave a message behind in a deleted mailbox.
OnlyRepliesOutlive ==
  exists = "gone" => held \subseteq Replies
=============================================================================
