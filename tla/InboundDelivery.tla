-------------------------- MODULE InboundDelivery --------------------------
(***************************************************************************)
(* Reception of email (server/utils/email-handler.ts and mail-store.ts)    *)
(* and the administrator's replay of a failed copy to the legacy address   *)
(* (server/api/admin/legacy-forward-deliveries/[id]/replay.post.ts).       *)
(*                                                                         *)
(* Every SMTP delivery and every replay is an invocation of a Worker: its  *)
(* steps are separated by awaits, so invocations interleave, and a Worker  *)
(* may be evicted between any two of them.  One D1 statement, and one D1   *)
(* batch, is atomic; the caller may also see an error from a statement     *)
(* that did commit.  An R2 put or delete is a step of its own.             *)
(*                                                                         *)
(* The id of a message row is the SHA-256 of its MIME content, so "raw"    *)
(* names a content, its row, its ledger row and its two kinds of R2        *)
(* objects.  Sender, subject, folder and the other columns are left out.   *)
(***************************************************************************)
EXTENDS Naturals, FiniteSets

CONSTANTS
  Deliveries,   \* invocations of handleIncomingEmail
  Replays,      \* invocations of the replay route
  Raws,         \* MIME contents
  MessageIds,   \* values of the Message-ID header
  Mailboxes,    \* configured addresses
  RawOf,        \* what each delivery carries
  MailboxOf,    \* the envelope recipient of each delivery
  MessageIdOf,  \* the Message-ID of each content
  Relaying,     \* deliveries that run with COURRIER_LEGACY_FORWARD_TO set
  NoOne,        \* SQL NULL in claim_token
  NoMailbox,    \* no row in messages
  NoRaw         \* an invocation that knows no row yet

Invocations == Deliveries \cup Replays

ASSUME InvocationsAssumption ==
  /\ Deliveries \cap Replays = {}
  /\ NoOne \notin Invocations
  /\ Relaying \subseteq Deliveries
ASSUME DataAssumption ==
  /\ RawOf \in [Deliveries -> Raws]
  /\ MailboxOf \in [Deliveries -> Mailboxes]
  /\ MessageIdOf \in [Raws -> MessageIds]
  /\ NoMailbox \notin Mailboxes
  /\ NoRaw \notin Raws

VARIABLES
  open,      \* mailboxes that are active, not archived and not being deleted
  stored,    \* stored[r]: mailbox of the message row of r, or NoMailbox
  objects,   \* R2 objects under messages/<r>/
  ledger,    \* ledger[r]: row of legacy_forward_deliveries
  pc,        \* the await each invocation is at, or how it ended
  row,       \* row[i]: the message id the invocation works on
  seen,      \* seen[p]: the ledger row a replay read before it claims
  lapsed,    \* history: invocations whose current lease ran out
  sent,      \* history: invocations whose relay was accepted under their claim
  loose      \* history: invocations whose relay the ledger does not answer for:
             \* accepted without a claim, or accepted although an error was reported

vars == <<open, stored, objects, ledger, pc, row, seen, lapsed, sent, loose>>
acceptances == <<sent, loose>>
history == <<lapsed, acceptances>>

Parts == {"original", "attachments"}
Keys(r) == {r} \X Parts

\* claim_token and claimed_at are set exactly while a claim is being processed.
LedgerRow ==
  {l \in [status   : {"none", "processing", "failed", "forwarded"},
          holder   : Invocations \cup {NoOne},
          lease    : {"none", "running", "expired"},
          attempts : Nat] :
     /\ l.holder # NoOne <=> l.status = "processing"
     /\ l.lease # "none" <=> l.status = "processing"}

NoRow == [status |-> "none", holder |-> NoOne, lease |-> "none", attempts |-> 0]

\* How an invocation may end.
Ended == {"acknowledged", "rejected", "relayed", "thrown",
          "replayed", "failed", "refused", "crashed"}

\* The awaits at which an invocation holds a claim it means to honour.
Holding == {"confirm", "load", "send", "forward",
            "markForwarded", "markFailed", "markUnforwardable"}

\* The awaits before an invocation writes to D1.
Early == {"received", "mailbox", "existing", "original", "attachments", "insert",
          "requested"}

Steps == Ended \cup Holding \cup Early \cup
  {"reread", "owns", "cleanup", "discard", "claim", "degrade", "replayClaim"}

Init ==
  /\ open = Mailboxes
  /\ stored = [r \in Raws |-> NoMailbox]
  /\ objects = {}
  /\ ledger = [r \in Raws |-> NoRow]
  /\ pc = [i \in Invocations |-> IF i \in Deliveries THEN "received" ELSE "requested"]
  /\ row = [i \in Invocations |-> NoRaw]
  /\ seen = [p \in Replays |-> NoRow]
  /\ lapsed = {}
  /\ sent = {}
  /\ loose = {}

-----------------------------------------------------------------------------
(***************************************************************************)
(* Steps shared by the operations.                                         *)
(***************************************************************************)
Goto(i, step) == pc' = [pc EXCEPT ![i] = step]

WorkOn(i, r) == row' = [row EXCEPT ![i] = r]

\* Storage failed: with a legacy destination the handler still tries to relay
\* the email, otherwise it throws and the sending server will retry.
StorageFails(d) == Goto(d, IF d \in Relaying THEN "degrade" ELSE "thrown")

\* The row with this Message-ID; the column is UNIQUE over all mailboxes.
RowsWith(id) == {r \in Raws : stored[r] # NoMailbox /\ MessageIdOf[r] = id}

\* Mutant: claimed_at is not bound.
UndatedClaim(i, attempts) ==
  [status |-> "processing", holder |-> i, lease |-> "none", attempts |-> attempts]

NewClaim(i, attempts) ==
  [status |-> "processing", holder |-> i, lease |-> "running", attempts |-> attempts]

\* The relay failed, or whoever claimed it has had ten minutes.
Stale(r) ==
  \/ ledger[r].status = "failed"
  \/ ledger[r].status = "processing" /\ ledger[r].lease = "expired"

\* claimLegacyForwardDelivery may take over this row.
Claimable(r) == Stale(r) /\ stored[r] \in open

\* Mutant: the replay route offers every row that is not forwarded.
ImpatientReplayable(r) == ledger[r].status \in {"failed", "processing"}

\* The replay route may take over this row: the mailbox does not matter, and a
\* claim without a date counts as stale.
Replayable(r) ==
  \/ ledger[r].status = "failed"
  \/ ledger[r].status = "processing" /\ ledger[r].lease # "running"

TakeClaim(i, r) ==
  /\ ledger' = [ledger EXCEPT ![r] = NewClaim(i, ledger[r].attempts + 1)]
  /\ lapsed' = lapsed \ {i}

Settled(r, status) ==
  [ledger EXCEPT ![r] = [status |-> status, holder |-> NoOne, lease |-> "none",
                         attempts |-> ledger[r].attempts]]

\* The ledger after markLegacyForwardDelivery with the token of invocation i.
Marked(i, r, status) ==
  IF ledger[r].status = "processing" /\ ledger[r].holder = i
  THEN Settled(r, status)
  ELSE ledger

\* Mutant: only the status guards the result of a replay.
ReplayMarkedByAnyone(p, r, status) ==
  IF ledger[r].status = "processing" THEN Settled(r, status) ELSE ledger

\* The ledger after the UPDATE of markReplayResult.
ReplayMarked(p, r, status) ==
  IF /\ ledger[r].status = "processing"
     /\ ledger[r].holder = p
     /\ ledger[r].attempts = seen[p].attempts + 1
  THEN Settled(r, status)
  ELSE ledger

\* Invocation i made a claim on its row, which it still holds or which ran out.
Claimed(i) == row[i] \in Raws /\ (i \in lapsed \/ ledger[row[i]].holder = i)

\* Cloudflare accepts the relay of invocation i.
Accepted(i) ==
  IF Claimed(i)
  THEN sent' = sent \cup {i} /\ UNCHANGED loose
  ELSE loose' = loose \cup {i} /\ UNCHANGED sent

\* The relay ends in an error, although Cloudflare may have accepted it.
ReportedFailed(i) == loose' \in {loose, loose \cup {i}} /\ UNCHANGED sent
-----------------------------------------------------------------------------
(***************************************************************************)
(* handleIncomingEmail up to storage.                                      *)
(***************************************************************************)

\* The sender check: blocked, impossible to answer, or passed.  A deployment
\* without the D1 or R2 binding goes straight to the legacy relay.
CheckSender(d) ==
  /\ pc[d] = "received"
  /\ \/ Goto(d, "rejected")
     \/ Goto(d, "thrown")
     \/ Goto(d, "mailbox")
     \/ StorageFails(d)
  /\ UNCHANGED <<open, stored, objects, ledger, row, seen, history>>

\* The recipient must be a mailbox that receives (or the lookup fails).
FindMailbox(d) ==
  /\ pc[d] = "mailbox"
  /\ \/ MailboxOf[d] \in open /\ Goto(d, "existing")
     \/ StorageFails(d)
  /\ UNCHANGED <<open, stored, objects, ledger, row, seen, history>>

\* After a duplicate was found under row r: claim its relay, if there is one.
Duplicate(d, r) ==
  /\ WorkOn(d, r)
  /\ Goto(d, IF d \in Relaying THEN "claim" ELSE "acknowledged")

FindExisting(d) ==
  /\ pc[d] = "existing"
  /\ \/ \E r \in RowsWith(MessageIdOf[RawOf[d]]) : Duplicate(d, r)
     \/ /\ RowsWith(MessageIdOf[RawOf[d]]) = {}
        /\ Goto(d, "original")
        /\ UNCHANGED row
     \/ StorageFails(d) /\ UNCHANGED row
  /\ UNCHANGED <<open, stored, objects, ledger, seen, history>>

\* The content goes to R2 before the row goes to D1.
PutOriginal(d) ==
  /\ pc[d] = "original"
  /\ \/ /\ objects' = objects \cup {<<RawOf[d], "original">>}
        /\ Goto(d, "attachments")
     \/ StorageFails(d) /\ UNCHANGED objects
  /\ UNCHANGED <<open, stored, ledger, row, seen, history>>

PutAttachments(d) ==
  /\ pc[d] = "attachments"
  /\ \/ /\ objects' = objects \cup {<<RawOf[d], "attachments">>}
        /\ Goto(d, "insert")
     \/ StorageFails(d) /\ UNCHANGED objects
  /\ UNCHANGED <<open, stored, ledger, row, seen, history>>

\* The D1 batch inserts the message unless its Message-ID exists or the
\* mailbox stopped receiving, and the ledger row unless it exists or the
\* message does not.
BatchInserts(d) ==
  MailboxOf[d] \in open /\ RowsWith(MessageIdOf[RawOf[d]]) = {}

BatchStored(d) ==
  IF BatchInserts(d) THEN [stored EXCEPT ![RawOf[d]] = MailboxOf[d]] ELSE stored

BatchLedger(d) ==
  IF /\ d \in Relaying
     /\ BatchStored(d)[RawOf[d]] # NoMailbox
     /\ ledger[RawOf[d]].status = "none"
  THEN [ledger EXCEPT ![RawOf[d]] = NewClaim(d, 1)]
  ELSE ledger

\* The batch commits and reports one change, or commits and reports none
\* (which it may do although it inserted), or its answer is lost.
InsertBatch(d) ==
  /\ pc[d] = "insert"
  /\ WorkOn(d, RawOf[d])
  /\ stored' = BatchStored(d)
  /\ ledger' = BatchLedger(d)
  /\ \/ BatchInserts(d) /\ Goto(d, IF d \in Relaying THEN "forward" ELSE "acknowledged")
     \/ Goto(d, "reread")
     \/ StorageFails(d)
  /\ UNCHANGED <<open, objects, seen, history>>

InsertBatchFails(d) ==
  /\ pc[d] = "insert"
  /\ StorageFails(d)
  /\ UNCHANGED <<open, stored, objects, ledger, row, seen, history>>

\* Mutant: the row found is taken for another content without comparing ids.
RereadAlwaysLoses(d) ==
  /\ pc[d] = "reread"
  /\ \E r \in RowsWith(MessageIdOf[RawOf[d]]) : WorkOn(d, r) /\ Goto(d, "cleanup")
  /\ UNCHANGED <<open, stored, objects, ledger, seen, history>>

\* Nothing seems inserted: which row holds the Message-ID now?
Reread(d) ==
  /\ pc[d] = "reread"
  /\ \/ \E r \in RowsWith(MessageIdOf[RawOf[d]]) :
          \/ r # RawOf[d] /\ WorkOn(d, r) /\ Goto(d, "cleanup")
          \/ /\ r = RawOf[d]
             /\ WorkOn(d, r)
             /\ Goto(d, IF d \in Relaying THEN "owns" ELSE "acknowledged")
     \/ /\ RowsWith(MessageIdOf[RawOf[d]]) = {}
        /\ Goto(d, "discard")
        /\ UNCHANGED row
     \/ StorageFails(d) /\ UNCHANGED row
  /\ UNCHANGED <<open, stored, objects, ledger, seen, history>>

\* The objects of this content are deleted; a deletion that fails is logged.
DeleteOwnObjects(d) ==
  \E kept \in SUBSET (Keys(RawOf[d]) \cap objects) :
    objects' = (objects \ Keys(RawOf[d])) \cup kept

\* Another content won the Message-ID.
CleanUpLoser(d) ==
  /\ pc[d] = "cleanup"
  /\ DeleteOwnObjects(d)
  /\ Goto(d, IF d \in Relaying THEN "claim" ELSE "acknowledged")
  /\ UNCHANGED <<open, stored, ledger, row, seen, history>>

\* Mutant: an email whose mailbox closed meanwhile is acknowledged.
DiscardAndAcknowledge(d) ==
  /\ pc[d] = "discard"
  /\ DeleteOwnObjects(d)
  /\ Goto(d, "acknowledged")
  /\ UNCHANGED <<open, stored, ledger, row, seen, history>>

\* No row at all: the mailbox stopped receiving meanwhile.
DiscardUnstored(d) ==
  /\ pc[d] = "discard"
  /\ DeleteOwnObjects(d)
  /\ StorageFails(d)
  /\ UNCHANGED <<open, stored, ledger, row, seen, history>>

\* ownsLegacyForwardClaim: was it this batch that inserted the row after all?
CheckOwnClaim(d) ==
  /\ pc[d] = "owns"
  /\ \/ Goto(d, IF ledger[row[d]].status = "processing" /\ ledger[row[d]].holder = d
                THEN "forward" ELSE "claim")
     \/ StorageFails(d)
  /\ UNCHANGED <<open, stored, objects, ledger, row, seen, history>>

-----------------------------------------------------------------------------
(***************************************************************************)
(* handleIncomingEmail after storage: the relay and its ledger.            *)
(***************************************************************************)
ClaimForward(d) ==
  /\ pc[d] = "claim"
  /\ \/ /\ Claimable(row[d])
        /\ TakeClaim(d, row[d])
        /\ Goto(d, "forward") \/ StorageFails(d)
     \/ /\ ~Claimable(row[d])
        /\ Goto(d, "acknowledged")
        /\ UNCHANGED <<ledger, lapsed>>
     \/ StorageFails(d) /\ UNCHANGED <<ledger, lapsed>>
  /\ UNCHANGED <<open, stored, objects, row, seen, acceptances>>

\* message.forward(destination), which Cloudflare may not allow.
Forward(d) ==
  /\ pc[d] = "forward"
  /\ \/ Goto(d, "markUnforwardable") /\ UNCHANGED acceptances
     \/ Goto(d, "markFailed") /\ ReportedFailed(d)
     \/ Goto(d, "markForwarded") /\ Accepted(d)
  /\ UNCHANGED <<open, stored, objects, ledger, row, seen, lapsed>>

\* The email is stored, so a relay that failed still acknowledges it, and so
\* does a result that could not be recorded.
RecordForward(d) ==
  /\ \/ /\ pc[d] = "markForwarded"
        /\ ledger' \in {Marked(d, row[d], "forwarded"), ledger}
     \/ /\ pc[d] = "markFailed"
        /\ ledger' \in {Marked(d, row[d], "failed"), ledger}
  /\ Goto(d, "acknowledged")
  /\ UNCHANGED <<open, stored, objects, row, seen, history>>

\* Recording that the email is not forwardable is not guarded against errors.
RecordUnforwardable(d) ==
  /\ pc[d] = "markUnforwardable"
  /\ \/ /\ ledger' = Marked(d, row[d], "failed")
        /\ Goto(d, "acknowledged") \/ Goto(d, "thrown")
     \/ Goto(d, "thrown") /\ UNCHANGED ledger
  /\ UNCHANGED <<open, stored, objects, row, seen, history>>

\* The relay after storage failed takes no claim, although the invocation may hold
\* one from a statement whose answer was lost; an error may again hide that the
\* relay was accepted.
RelayUnstored(d) ==
  /\ pc[d] = "degrade"
  /\ \/ Accepted(d) /\ (Goto(d, "relayed") \/ Goto(d, "thrown"))
     \/ Goto(d, "thrown") /\ UNCHANGED acceptances
  /\ UNCHANGED <<open, stored, objects, ledger, row, seen, lapsed>>

-----------------------------------------------------------------------------
(***************************************************************************)
(* The replay route.                                                       *)
(***************************************************************************)
RequestReplay(p) ==
  /\ pc[p] = "requested"
  /\ \E r \in Raws :
       /\ WorkOn(p, r)
       /\ \/ /\ Replayable(r)
             /\ seen' = [seen EXCEPT ![p] = ledger[r]]
             /\ Goto(p, "replayClaim")
          \/ /\ ~Replayable(r)
             /\ Goto(p, "refused")
             /\ UNCHANGED seen
  /\ UNCHANGED <<open, stored, objects, ledger, history>>

\* The claim repeats the condition and compares claimed_at with the value
\* read before; every claim has its own date, and a settled row has none.
ReplayMayClaim(p) ==
  /\ Replayable(row[p])
  /\ ledger[row[p]].holder = seen[p].holder

ClaimReplay(p) ==
  /\ pc[p] = "replayClaim"
  /\ \/ /\ ReplayMayClaim(p)
        /\ TakeClaim(p, row[p])
        /\ Goto(p, "confirm") \/ Goto(p, "thrown")
     \/ /\ ~ReplayMayClaim(p)
        /\ Goto(p, "refused")
        /\ UNCHANGED <<ledger, lapsed>>
     \/ Goto(p, "thrown") /\ UNCHANGED <<ledger, lapsed>>
  /\ UNCHANGED <<open, stored, objects, row, seen, acceptances>>

\* The claim is read back, then the audit entry is written.
ConfirmReplay(p) ==
  /\ pc[p] = "confirm"
  /\ \/ Goto(p, IF ledger[row[p]].status = "processing" /\ ledger[row[p]].holder = p
                THEN "load" ELSE "refused")
     \/ Goto(p, "thrown")
  /\ UNCHANGED <<open, stored, objects, ledger, row, seen, history>>

LoadReplay(p) ==
  /\ pc[p] = "load"
  /\ \/ <<row[p], "original">> \in objects /\ Goto(p, "send")
     \/ Goto(p, "markFailed")
  /\ UNCHANGED <<open, stored, objects, ledger, row, seen, history>>

SendReplay(p) ==
  /\ pc[p] = "send"
  /\ \/ Goto(p, "markForwarded") /\ Accepted(p)
     \/ Goto(p, "markFailed") /\ ReportedFailed(p)
  /\ UNCHANGED <<open, stored, objects, ledger, row, seen, lapsed>>

\* A result is recorded only on the claim the replay believes it made; an
\* accepted send whose result does not fit is reported as a conflict.  The audit
\* entry that follows may fail too.
RecordReplay(p) ==
  /\ \/ /\ pc[p] = "markForwarded"
        /\ ledger' = ReplayMarked(p, row[p], "forwarded")
        /\ (ledger' # ledger /\ Goto(p, "replayed")) \/ Goto(p, "thrown")
     \/ /\ pc[p] = "markFailed"
        /\ ledger' = ReplayMarked(p, row[p], "failed")
        /\ Goto(p, "failed") \/ Goto(p, "thrown")
     \/ /\ pc[p] \in {"markForwarded", "markFailed"}
        /\ Goto(p, "thrown")
        /\ UNCHANGED ledger
  /\ UNCHANGED <<open, stored, objects, row, seen, history>>

-----------------------------------------------------------------------------
(***************************************************************************)
(* What the invocations do not control.                                    *)
(***************************************************************************)

\* Ten minutes have passed since the row was claimed.
LeaseExpires(r) ==
  /\ ledger[r].status = "processing"
  /\ ledger[r].lease = "running"
  /\ ledger' = [ledger EXCEPT ![r] =
       [status |-> "processing", holder |-> ledger[r].holder, lease |-> "expired",
        attempts |-> ledger[r].attempts]]
  /\ lapsed' = lapsed \cup {ledger[r].holder}
  /\ UNCHANGED <<open, stored, objects, pc, row, seen, acceptances>>

\* The runtime evicts the Worker, perhaps after the relay it waits for was accepted.
Crash(i) ==
  /\ pc[i] \notin Ended \cup {"received", "requested"}
  /\ Goto(i, "crashed")
  /\ UNCHANGED acceptances \/ (pc[i] \in {"forward", "send", "degrade"} /\ Accepted(i))
  /\ UNCHANGED <<open, stored, objects, ledger, row, seen, lapsed>>

\* An administrator suspends or archives the mailbox, or lets it receive again.
ChangeReception(m) ==
  /\ open' = IF m \in open THEN open \ {m} ELSE open \cup {m}
  /\ UNCHANGED <<stored, objects, ledger, pc, row, seen, history>>

\* A step of a delivery that has begun.
Proceed(d) ==
  \/ FindMailbox(d) \/ FindExisting(d) \/ PutOriginal(d) \/ PutAttachments(d)
  \/ InsertBatch(d) \/ InsertBatchFails(d) \/ Reread(d) \/ CleanUpLoser(d)
  \/ DiscardUnstored(d) \/ CheckOwnClaim(d) \/ ClaimForward(d) \/ Forward(d)
  \/ RecordForward(d) \/ RecordUnforwardable(d) \/ RelayUnstored(d)

\* A step of a replay that has begun.
ProceedReplay(p) ==
  \/ ClaimReplay(p) \/ ConfirmReplay(p) \/ LoadReplay(p)
  \/ SendReplay(p) \/ RecordReplay(p)

Next ==
  \/ \E d \in Deliveries : CheckSender(d) \/ Proceed(d)
  \/ \E p \in Replays : RequestReplay(p) \/ ProceedReplay(p)
  \/ \E i \in Invocations : Crash(i)
  \/ \E r \in Raws : LeaseExpires(r)
  \/ \E m \in Mailboxes : ChangeReception(m)

Spec == Init /\ [][Next]_vars

\* A Worker that has begun is resumed or evicted, and time passes.  Nothing
\* obliges a sender to deliver, or an administrator to replay.
Fairness ==
  /\ \A d \in Deliveries : WF_vars(Proceed(d) \/ Crash(d))
  /\ \A p \in Replays : WF_vars(ProceedReplay(p) \/ Crash(p))
  /\ \A r \in Raws : WF_vars(LeaseExpires(r))

-----------------------------------------------------------------------------
(***************************************************************************)
(* Properties.                                                             *)
(***************************************************************************)

\* Every variable keeps its type; the ledger and the steps stay in their domains.
TypeOK ==
  /\ open \subseteq Mailboxes
  /\ stored \in [Raws -> Mailboxes \cup {NoMailbox}]
  /\ objects \subseteq Raws \X Parts
  /\ ledger \in [Raws -> LedgerRow]
  /\ pc \in [Invocations -> Steps]
  /\ row \in [Invocations -> Raws \cup {NoRaw}]
  /\ seen \in [Replays -> LedgerRow]
  /\ lapsed \subseteq Invocations
  /\ sent \subseteq Invocations
  /\ loose \subseteq Invocations

\* Each part of RelayInvariant is what the next parts need to be inductive.
UniqueMessageId ==
  \A q, r \in Raws :
    /\ stored[q] # NoMailbox /\ stored[r] # NoMailbox
    /\ MessageIdOf[q] = MessageIdOf[r]
    => q = r

LedgerOfStored ==
  \A r \in Raws : ledger[r].status # "none" => stored[r] # NoMailbox

RowKnown ==
  \A i \in Invocations :
    /\ pc[i] \in {"owns", "cleanup", "claim", "replayClaim"} => row[i] \in Raws
    /\ pc[i] \in {"reread", "discard"} => i \in Deliveries /\ row[i] = RawOf[i]

HoldsOnlyItsRow ==
  \A r \in Raws :
    ledger[r].holder # NoOne =>
      row[ledger[r].holder] = r /\ pc[ledger[r].holder] \notin Early

ExpiredHasLapsed ==
  \A r \in Raws : ledger[r].lease = "expired" => ledger[r].holder \in lapsed

HoldingIsClaimed ==
  \A i \in Invocations :
    pc[i] \in Holding => row[i] \in Raws /\ (i \in lapsed \/ ledger[row[i]].holder = i)

SentIsClaimed ==
  \A i \in sent :
    /\ row[i] \in Raws
    /\ pc[i] \in Ended \cup {"markForwarded"}
    /\ \/ i \in lapsed
       \/ ledger[row[i]].holder = i
       \/ ledger[row[i]].status = "forwarded"

\* Whoever may relay a message, or has relayed it and not lapsed, is the holder in
\* its ledger row: a row changes hands only after its holder has lapsed, through
\* every lost answer, re-read and take-over between a claim and its use.
RelayInvariant ==
  /\ UniqueMessageId
  /\ LedgerOfStored
  /\ RowKnown
  /\ HoldsOnlyItsRow
  /\ ExpiredHasLapsed
  /\ HoldingIsClaimed
  /\ SentIsClaimed

\* Two invocations that both believe they may relay the same message, whether
\* deliveries or replays, exist only after the lease of one of them ran out.
OneLiveHolder ==
  \A i, j \in Invocations :
    /\ i # j
    /\ pc[i] \in Holding /\ pc[j] \in Holding
    /\ row[i] = row[j]
    => i \in lapsed \/ j \in lapsed

\* The email that an invocation relays: what a delivery carries, under whichever row
\* its Message-ID is stored, and what a replay reads.
EmailOf(i) == MessageIdOf[IF i \in Deliveries THEN RawOf[i] ELSE row[i]]

\* Two relays of one email are both accepted only if one of the two ran out of its
\* lease, or is one the ledger does not answer for: it was made without a claim after
\* storage failed, or was accepted although an error was reported.  A concurrent
\* duplicate, a retry, a lost answer, an eviction or a replay never adds one by itself.
SecondRelayIsExplained ==
  \A i, j \in sent \cup loose :
    i # j /\ EmailOf(i) = EmailOf(j) => {i, j} \cap (lapsed \cup loose) # {}

\* Once a relay is recorded as accepted the ledger row never changes again: no
\* late failure report and no later claim reopens it.
ForwardedIsFinal ==
  [][\A r \in Raws : ledger[r].status = "forwarded" => ledger'[r] = ledger[r]]_vars

\* An email acknowledged to the sending server, which will not retry, has its
\* Message-ID in D1, whatever races, failures and closed mailboxes it met.
AcknowledgedIsKept ==
  \A d \in Deliveries :
    pc[d] = "acknowledged" => RowsWith(MessageIdOf[RawOf[d]]) # {}

\* The original and the attachments of every stored message are in R2, unless
\* the same content was delivered twice: the loser deletes the objects that it
\* shares with the winner (mail-store.ts, cleanup after a lost insert).
StoredIsComplete ==
  \A r \in Raws :
    stored[r] # NoMailbox =>
      \/ Keys(r) \subseteq objects
      \/ \E d, e \in Deliveries :
           d # e /\ RawOf[d] = r /\ RawOf[e] = r /\ {pc[d], pc[e]} \cap {"received"} = {}

\* A relay that was claimed is eventually recorded or open to another attempt,
\* even when the Worker that claimed it is evicted.
StaleClaimsReopen ==
  \A r \in Raws :
    ledger[r].status = "processing" ~> (ledger[r].status = "forwarded" \/ Stale(r))

=============================================================================
