# A TLA+ model of Courrier

Courrier is a private email application: a Nuxt server on Cloudflare Workers that
receives mail for configured addresses, lets a workspace read, classify and answer
it, and sends mail through Cloudflare's email service. Its state is in D1 (a SQL
database), R2 (objects), sealed cookies, the routing rules of Cloudflare, and in the
pages of the browsers that show it.

Everything that can go wrong in it has one shape. A request is a sequence of
awaits; one D1 statement, or one `DB.batch`, is atomic, and nothing holds a lock
between two of them. Other requests run in between; the Worker may be evicted
there; a statement may commit and its answer be lost. What protects the data is
therefore what each statement tests again: a status, a version, a claim token, an
attempt count. On the pages it is the same: an answer comes after the reader has gone
on, and what protects the page is what the handler of the answer compares again. The
modules here model requests at that grain (one step per await, guards from the WHERE
clauses and early returns) and state what those tests have to ensure.

- [The system](#the-system): inventory, hard behaviours, what makes each part correct
- [Modules](#modules): which module models which part, and how
- [Runs](#runs): what TLC checks, on which instances, and what it shows
- [Proofs](#proofs): what is proved for all instances, and how
- [Findings](#findings): where the code and what is said of it disagree
- [Not modelled](#not-modelled) and the [plan](#plan)

`PROJECT.json` lists components, runs, hazards, theorems and mutants, and maps every
definition to the lines it stands for. Paths below are under `src/`; `U/` is
`server/utils/` and `A/` is `server/api/`.

## The system

### Reception and relay (`U/email-handler.ts`, `U/mail-store.ts`, `A/admin/legacy-forward-deliveries/`)

State: `messages` (one row per MIME content, `message_id` unique), R2 objects
`messages/<id>/`, `legacy_forward_deliveries` (the ledger of relays to a former
address). Operations: `handleIncomingEmail`, and an administrator's replay of a failed
relay. A delivery looks for the sender among the blocked ones, for an active mailbox,
for a row of the same Message-ID; writes to R2; inserts message and ledger row in one
batch; and relays under a claim (token and lease of ten minutes). Hard: SMTP servers
retry while a delivery is still running, one Message-ID arrives with two contents, a
mailbox closes between check and insert, answers are lost, a replay races a delivery.
Correct when: nothing acknowledged is lost; a message in D1 has its objects in R2;
nothing is relayed twice while a lease is held; what was abandoned reopens.

### Mailboxes (`A/admin/mailboxes*`, `U/mailbox-deletion.ts`, `U/cloudflare-email-routing.ts`)

State: the row of the mailbox (status, archive, deletion columns), the Cloudflare rule
that routes its address, everything it owns. Operations: create, activate, suspend,
archive, restore, delete for good; each writes D1 and calls an API that cannot be part
of a transaction. Hard: two administrators, an API call that fails after the row
changed (and its compensation), a deletion that stops half-way, mail that arrives or is
sent meanwhile. Correct when: a started deletion is not undone; objects go only from a
mailbox that cannot come back; the rule follows the row; restoring returns the former
status; nothing is left behind.

### Drafts and sending (`A/outgoing-drafts/`, `A/messages/[id]/send.post.ts`, `draft.put.ts`)

State: `outgoing_drafts`, `outgoing_draft_attachments`, `drafts` (replies), files in R2,
sent rows of `messages`. Operations: save, attach, remove a file, delete, send. A send
claims the draft, reads it again, transmits, copies to R2, archives in one batch; a
definite refusal reopens it, an uncertain answer leaves it locked. Hard: two requests
for one draft, a save, an upload or a withdrawal of access between two reads, an eviction
after transmission. Correct when: a draft is transmitted once; what was accepted is
archived or still shown as being sent; what is archived is what was transmitted.

### Reading state and undo (`read.patch.ts`, `mark-unseen.post.ts`, `bulk-action.patch.ts`, `A/activity/`)

State: `is_read` and `read_state_version` of each message, `workspace_activity` with the
undo data of each "mark as unread". Hard: the undo data is computed from rows read before
the batch; anything may change until it is used, up to twenty seconds later. Correct when:
an undo reverses its own marking and nothing later; a marking is recorded once.

### Classification, queues, merges (`A/messages/[id]/`, `A/sender-rule-changes/`, `A/thread-merges*`, `U/threading.ts`)

State: folder, `is_set_aside`, `is_reply_later` and `trashed_at` of each message;
`sender_rules` and the chain of `sender_rule_changes` with the snapshots their undo restores;
manual merges, which name threads by the root a union-find gives them. Operations: file one
message or the group of a sender, set and undo a rule, park and answer later, throw away and
restore, merge and separate. Hard: every handler reads all messages, groups them into
conversations, judges, and writes rows by id afterwards; two queues exclude each other only
by such a judgement. Correct when: messages are where their sender's rule says, through any
changes and undos; a message is in one queue; what was merged stays together.

### Screener and blocked senders (`block-sender.post.ts`, `unblock-sender.post.ts`, `A/admin/blocked-senders/`)

State: the Screener state of each message, `blocked_senders`. Whether a sender is blocked is
kept twice. Hard: a message out of reach when the other copy is written (in the bin, filed,
still being received). Correct when: the Screener shows as blocked who is blocked.

### Access (`U/account-auth.ts`, `A/workspace/`, `A/invitations/`, `A/admin/platform-admins*`)

State: memberships and roles, mailbox grants, invitations, administrators of the platform.
Every batch repeats the caller's scope in its WHERE clauses. Hard: rights that change between
check and statement, two owners or administrators that remove each other, an invitation used
twice or while it is revoked. Correct when: somebody remains; an invitation settles once;
whoever changes something has the right to when it is written.

### Sign-in and recovery (`U/passkeys.ts`, `U/account-recovery.ts`, `A/auth/`, `A/account/passkeys/`)

State: session version, password, passkeys, challenges, recovery codes, reset links, attempt
counters, sealed cookies. Each secret is spent by a conditional statement; all sessions are
revoked by incrementing a number. Hard: two requests with one secret, a factor added while
another session removes one, an enrolment that stops half-way. Correct when: a live session
knows the present password and has proved a factor if there is one; a secret is used once; an
administrator keeps a passkey.

### Domains (`A/admin/domains*`, `U/domain-verification*.ts`)

State: rows of one name over time, DNS challenges, what the zone publishes. Hard: a challenge
replaced, or the row removed and added to another workspace, while the zone is looked up.
Correct when: a verified domain was verified by its own published token; the record an
administrator was shown stays the one in force.

### Contacts (`A/contacts/`, `app/pages/mail/contacts/`)

State: contacts, their addresses, photos in R2. Hard: editors and imports of the same address,
two uploads, an UPDATE whose answer is lost. Correct when: every contact has one primary
address, no address two contacts; the photo a contact names exists.

### Export and restoration (`A/export.get.ts`, `U/zip-stream.ts`, `scripts/restore-mailbox.mjs`)

State: the stream of the archive; the database and the bucket a restoration creates. Hard: a
stream cut anywhere, an attempt that fails after its work was done and is repeated over what it
left. Correct when: an archive reads back as it was written or is refused; a restoration that
was reported is whole; an archive the program made is accepted.

### The pages (`app/components/MailView.vue`, `OutgoingComposer.vue`, `app/composables/`)

State: the list of messages, changed ahead of the answers; search results read by offset; the
offer to undo; editors of subjects, replies and messages with their timers. Hard: answers after
the page, the thread or the query has changed; a save under way when the text changes, the
window closes or another message is begun. Correct when: what is shown as read is; results answer
the query; a subject reaches its own thread; what is written is saved, and sent as it was shown.

### The rest

The nightly job mirrors R2 and prunes activities and events. Tags, preferences, profiles,
administration pages and scripts change independent rows or none.

## Modules

| module | models | proofs in |
| --- | --- | --- |
| `InboundDelivery` | reception and replay | `InboundDeliveryProofs` |
| `ForwardLedger` | abstract: what the ledger of relays promises | |
| `InboundRefinement` | `InboundDelivery` implements `ForwardLedger` | `InboundDeliveryProofs` |
| `MailboxLifecycle` | a mailbox, its rule, its deletion | `MailboxLifecycleProofs` |
| `OutgoingSend` | drafts, files, sending on the server | `OutgoingSendProofs` |
| `OutgoingComposer` | the page on which a message is written | `OutgoingSendProofs` |
| `ReadActivity` | reading state, activities, undo | `ReadActivityProofs` |
| `SenderRules` | the rule of a sender, its changes and undos | `SenderRulesProofs` |
| `Screener` | who is blocked, and what the Screener shows | `SenderRulesProofs` |
| `Conversations` | folders, queues, bin and merges of conversations | `InboundDeliveryProofs` |
| `Archive` | the manifest of an export and its inspection, over `Conversations` | |
| `ZipArchive` | the writer and the reader of an archive | `MailboxLifecycleProofs` |
| `RestoreScript` | the attempts to restore an archive | `MailboxLifecycleProofs` |
| `WorkspaceAccess` | memberships, invitations, grants, administrators | `WorkspaceAccessProofs` |
| `DomainVerification` | the rows, challenges and zone of one name | `WorkspaceAccessProofs` |
| `SignIn` | one account and what proves who uses it | `SignInProofs` |
| `MailList` | the list of messages on the pages | `MailPanelProofs` |
| `MailSearch` | the search, a page at a time | `MailPanelProofs` |
| `ThreadPanel` | the offer to undo, the editor of a subject | `MailPanelProofs` |
| `ReplyComposer` | the reply at the foot of a thread | `MailPanelProofs` |
| `Contacts` | cards, import, photos | `MailPanelProofs` |
| `MC...` | instances for TLC, in scenes where a run holds several machines | |

**InboundDelivery.** An invocation (a delivery or a replay) has `pc`, the await it is
at. `stored`, `objects` and `ledger` are the tables and the bucket; the id of a row is
the SHA-256 of its content, so a content `r` names its row and its objects. A claim
token is the invocation that drew it; dates are compared for equality only, so a claim
is identified by holder, attempt count and whether its lease ran out (`LeaseExpires`). `sent` holds the
relays the ledger answers for; one made without a claim because storage failed, or accepted although an
error was reported, is in `loose`.
Where the code cannot know whether a batch committed, both outcomes are steps. `Crash` is
the eviction of a Worker between any two steps. `ChangeReception` opens and closes mailboxes.

**ForwardLedger.** Duties: one owner takes a duty at a time; it passes on only when it is
given back unrelayed, or when its owner is late; a finished duty stays finished.
`InboundRefinement` maps a ledger row to a duty, `holder` to its owner and `lapsed` to late
owners.

**MailboxLifecycle.** `pc` and `api` follow a request through its calls: list the rules,
write one, write D1, compensate. `local` is what it has read. A deletion is a claim (fifteen
minutes, `LeaseLapses`), the disabling of the rule, the collection of keys, the checks for
pending relays and sends, the deletion of objects and then of rows, each a step, any of which
may fail or be the last. `EditRules` is a person who changes the rule at Cloudflare.

**OutgoingSend.** The content of a draft is the number of the save it comes from. A send `i`
keeps what it read at which moment: `subject[i]` (first read), `body[i]` (after the claim),
`files[i]`. `Submit` has the three answers of the mail service: accepted, refused, unknown.
Uploads and deletions of files write R2 and D1 in two steps. `access` is the grant each
statement tests again.

**OutgoingComposer.** `page` is the state of the component; `save`, `send`, `load`, `discard` and
`upload` are its requests, one of each kind, with who waits for a save in `callers` (the queue of
promises). A request is carried out and answered in one step, or refused, or its answer is lost.
`Drop` is a page that is gone while its requests go on.

**ReadActivity.** A request is a read step, which computes the undo data from what it sees, and a
write step, the batch, which acts only on rows whose version is still the one it noted. `Lapse`
makes the twenty seconds pass, `Prune` is the nightly job, `SetGrant` gives and takes a grant.

**SenderRules.** A change `c` is the request and the row it inserts: `ReadRule`,
`ReadLastChange`, `ApplyRule`. `seen[c]` is the rule it read (`previous_rule_folder`), `link[c]` the
change it links to (`previous_change_id`), `snapshot[c]` the folders it saves. The handlers that move,
park or trash messages act on *any* set of messages: whatever they read, and however stale, is one of
those sets.

**Conversations.** `Thread(rows, m)` and `Roots(rows, m)` are the connected component of a message, by
what messages answer and by standing merges, and the names the union-find may give it. What a handler
decides after reading is a *plan*; `SetAsidePlans`, `FolderPlans`, `BulkPlans`, `MergePlans`, `RulePlans`
and the others are those that can be made in the present state, one set for each handler. `Quick` makes
and writes a plan at once; `Ask` keeps it in `request` while others write, and `Write` writes it.

**Screener.** `place`, `state` and `binned` of each message, `blocker` of each sender. `Receive` and
`Keep` are the two statements of a reception, between which a block may fall.

**Archive, ZipArchive, RestoreScript.** `Archive` adds to `Conversations` what the export writes of
merges and changes and what the inspection of the restore script demands. `ZipArchive` writes records
of some bytes each, may be cut after any of them, and reads from the end as the script does.
`RestoreScript` runs the commands of the script; each may fail before or after it did its work.

**WorkspaceAccess, DomainVerification, SignIn.** One handler is a read step, whose result is kept in
`req` (or `call`), and a batch whose statements test again; `Lost` is a request that stops in
between. `WorkspaceAccess` has one workspace and one mailbox, `DomainVerification` one name whose rows
come and go, `SignIn` one account, which others make an administrator or not (`Promoted`, `Demoted`) at
any moment. A sealed cookie is never looked up: `cookie[b]` carries the session
version it was sealed with.

**MailList, MailSearch, ThreadPanel, ReplyComposer.** One variable holds what the page shows, one what the
server holds, one the requests under way. A request answers with what holds when it is answered, any time
after it was made; only the list of messages is read in one step (`RefreshRead`) and delivered in another
(`RefreshAnswered`), with the answers of other requests between them. In `MailSearch` the results of a query
are numbered by date, and mail arrives with any date; a row is the number of results from there on. In
`MailList` a request keeps the row object it was made for (`held`), which a refresh or a body replaces. In The
Feed a message is opened, and marked, as an edition of its own; elsewhere with its thread. Pages are dropped
and replaced when the address changes; their requests go on.

**Contacts.** `saving`, `taking` and `page.import` are the requests of editors, photos and the import;
each statement of D1 and each access to R2 is a step.

History variables record what happened, and no guard reads them: `lapsed`, `sent`, `loose` (InboundDelivery),
`crossed` (MailboxLifecycle, SenderRules), `apart` (SenderRules), `stale` (ReadActivity), `odd`, `misplaced`
(Conversations), `missed` (Screener), `doubtful` (OutgoingComposer), `last` (ReplyComposer), `start`
(MailSearch), `known` (MailList), `unsure` (Contacts), `stray` (SignIn). They are what a property exempts, by
name, when the code does not promise it: each says in its comment which step of the code it records.

## Runs

Nine runs pass and three show a violation. A run holds one module, or several that meet in one
question; an `MC` module then chooses a *scene* at the start, and the machines of the others rest.

| run | instance | shows |
| --- | --- | --- |
| `inbound` | scenes: two deliveries of one content and one replay; two deliveries of two contents under one Message-ID while the mailbox opens and closes | `AcknowledgedIsKept`, `StoredIsComplete`, `SecondRelayIsExplained`, the refinement `LedgerKeepsDuties`, the liveness of abandoned claims `StaleClaimsReopen` |
| `mailbox` | scenes: two patches beside a deletion; one patch at a time beside deletions, with an incoming message, a composed one, a reply and a relay | a started deletion stays, the rule follows the row, restoring returns the former status, what loses its objects and what is left behind |
| `outgoing_send` | scenes: a composed message and a reply, two requests to send, an upload, one save; the composer, with two messages from the inbox (two operations waiting for one save) or two drafts of the list (two sizes of the window); the reply of the page, two messages that can be answered and two texts | `SentOnce`, `AcceptedIsRecorded`, `ArchiveIsFaithful`; of the page `NothingForgotten`, `OneDraftPerMessage`, `ClosedIsSaved`, `SentIsApproved`; and of the reply `SentIsShown` |
| `sender_rules` | scenes: three changes of one sender's rule, one message; two editors of a card; an import that an editor crosses; two photo requests | `FollowsRule` through changes, undos and arrivals; `CardIsWhole`, `AvatarIsKept` of the sender's contact |
| `read_activity` | three messages in two conversations and two mailboxes, one of which may be withdrawn; two markers, one request that undoes | `OneRecordPerMarking`, `UndoOnlyItsOwn` |
| `conversations` | scenes: five messages, one unseen Message-ID, three senders, one sent reply, one merge, in four groups of handlers; two mails of one sender before two members; archives of up to two entries cut anywhere; two archives restored under two names | `OneQueue`, `MergedStayTogether`, `BlockIsShown`, `ReadBackIsWritten`, `ReportedIsWhole` |
| `sign_in` | two browsers, two requests at a time, two passkeys, one reset link, one recovery code a set | `LiveKnowsPassword`, `MfaNotSkipped`, `SecretUsedOnce`, `AdminKeepsPasskey` |
| `workspace_access` | scenes: three people and two invitations; two administrators; one name with two rows and three tokens; two requests at a time in each | `SomebodyRemains`, `InvitationsSettle`, `AuthorityIsCurrent`, `VerifiedWasPublished`, `ShownIsInForce` |
| `mail_list` | scenes: two threads, two requests beside the list's; one thread of two messages, read whole in the Imbox and by edition in The Feed; two queries of at most two results, a page of one; the panel of two threads, one rule change | `ReadIsExplained`, `ResultsAnswerTheQuery`, `SubjectIsItsOwn` |
| `mailbox_restored` | one patch, two deletions, one message | violation: [Findings](#findings) |
| `archive` | three messages, one of which answers mail that was never received, one merge | violation: [Findings](#findings) |
| `two_queues` | the instance of `conversations` | violation: [Findings](#findings) |

### Why the bounds are enough

- A race over one row needs two requests; the third kind of interference, time, is a step of
  its own (`LeaseExpires`, `LeaseLapses`, `Lapse`, `Expire`, `WindowEnds`, ...). `sender_rules` has three
  changes: one to undo, one below it, and one that read the rule before either. Its messages meet only
  in their sender's rule, so one is enough.
- A second value is what tells an old read from a new one: one save after the first content
  (`MaxSaves`), two versions of a text, two challenges, two password versions.
- Two conversations, threads, mailboxes, names or entries, because each property relates what belongs to
  one with what reaches the other; three people, because an owner and an admin act on a third.
- The number of claims of a ledger row is not bounded: an attempt is compared with an earlier one only.
  `read_state_version` is bounded per message (`FewChanges`): four changes of the message that is alone in
  its conversation, two of the others.
- `conversations`: a merge, a message that links two threads, one that answers unseen mail, a reply and an
  arrival are one message each. Behaviours are followed until a step leaves a message in both queues or in
  Set Aside outside the Imbox and, in the scenes about merges, until one parts a merge (`NothingOdd`): the
  properties exempt the messages that such a step has touched (`misplaced`, `odd`). `two_queues` shows the
  first kind. `ConvSpec` lets every request cross
  every other and is too large to run: the four scenes split it by handlers that touch the same rows, and
  the proofs of `OneQueue` and `MergedStayTogether` are about `ConvSpec` itself.
- `workspace_access`: a request about people asks of the administrators only that there is one, which
  `SomebodyRemains` gives, so the two scenes need not be multiplied.
- Where a bound hid something, the proof found it. With two requests, a removal of a passkey cannot meet
  both an operator's recovery and a stray enrolment that brings the same credential back; with three,
  `AdminKeepsPasskey` would fail. An authenticator never makes a credential twice, which `Anew` now says.
  Every safety property is proved for all bounds ([Proofs](#proofs)), some under a hypothesis named there.

`SYMMETRY` permutes interchangeable requests or values, only in runs whose temporal properties are action
properties. Deadlock is checked in `inbound`. It is not in the others, where it is no error to stop:
requests are finished, bounds are reached, a deleted mailbox is the end.

### Fairness

One property is a liveness property, `StaleClaimsReopen`, under `Fairness`: a Worker that has begun is
resumed or evicted (weak fairness of its steps or its crash), and time passes (weak fairness of
`LeaseExpires`). Nothing obliges a sender to deliver again or an administrator to replay, so the property
promises only that the row is open to them. All other properties are safety properties, of
specifications that state no fairness.

### Mutants

Each property of a passing run has a mutant in `PROJECT.json`: a definition of the model replaced by a
plausible bug (a dropped guard, an answer that is not compared, a missing reset), under which TLC finds the
property violated.

## Proofs

Eight modules hold what TLAPS checks, for every value of the constants that satisfies the assumptions
declared with them: any number of requests, messages, senders, mailboxes, people, browsers, archives. The
assumptions are typing facts (`NoThread \notin Threads`, `SenderOf \in [Messages -> Senders]`, bounds in
`Nat`), finiteness where the code counts (`RestoreAssumption`), and that requests of different kinds are
different. What a theorem exempts stands in its statement, as a history variable, and the text before it
says what that is. Beyond that four theorems have a hypothesis. Three, about the deletion of a mailbox, suppose one
deletion request at a time; the run `mailbox_restored` shows that they are false without it. `MergedStay`
supposes that the links inside a merge do not go through the bin (`BinLinksNothing`) and speaks of a behaviour
until its first explained step, as the run does: a thread is read without the bin, so that a message in it that
linked two others cuts one of them from the root its merge has recorded, and the next move parts them.

Each proof has the same layout: an invariant stronger than the property, one lemma for each action (or
handler), `Init` and `Next`, and a last temporal step. What had to be added to the properties, and why:

**`InboundDeliveryProofs`.** *The relay.* That whoever acts for a row without having lapsed is the holder the
row names (`OnlyOneLiveHolder`, `RelayedOnce`) is inductive only with: an invocation finds at most one row
(`UniqueMessageId`); a ledger row exists only with its message, so that an insert never resets another's
(`LedgerOfStored`); an invocation works on one row from the moment it may hold it (`RowKnown`,
`HoldsOnlyItsRow`); a lease that ran out has lapsed its holder (`ExpiredHasLapsed`); who is about to relay, or
has relayed, is the holder or has lapsed, or the row is finished (`HoldingIsClaimed`, `SentIsClaimed`).
`ForwardedStays`, `AcknowledgedStaysKept` and `StoredStaysComplete` follow with what each await has already
written. *The refinement.* `LedgerImplementsDuties` proves that every step of every delivery, replay and lease
is one of five steps of the ledger: it leaves it alone, takes a claim, sends, settles its own claim, or a
lease runs out (`Quiet`, `Takes`, `Sends`, `Settles`), each of which `ForwardLedger` allows; two facts about
the history variables (`HistoryInvariant`) connect them with the awaits. *The queues.* `OneQueueHolds`: every
plan that any handler can make keeps a message out of both queues and out of Set Aside elsewhere than in the
Imbox (`KeepsQueues`), and a plan that waits still does while what it was made from is there
(`QueueInvariant`). When it is not there any more, the plan is written all the same; what it can then misplace
is bounded by what others did since (`Overtaken`), and nothing else is exempt. *The merges.* `Component` is
counted off in rounds; that it is the least set around its ids out of which no link leads (`ComponentKnown`)
needs an argument of its own, that each round meets a new link or is the last. With it each row of a merge
stays tied to the names that the merge recorded (`MergeStands`), so that whoever finds one row finds them all
(`PartsAreFound`) and every plan moves them with their merge or not at all (`MovesWhole`). A group under way
must still be the whole of its merges and what undoing a rule remembers of a merge must be true of its rows
(`PlanFits`, `ChangeFits`): this is `MergedInvariant`, and from it `MergedStayTogether`.

**`MailboxLifecycleProofs`.** `Shape` (types, and that a patch remembers a state the row was in) gives
`DeletingIsArchived`, and step by step `RestoreReturnsPrior`. `MailInvariant` says what a deletion knows where it
is: marked from its claim on, nothing lost before its last look, no draft being sent after it; from it
`LostOnlyWhileDeleting` and `OnlyRepliesOutlive`. `RuleHolds` says that as long as nothing crossed, one request at
a time keeps to what it read; from it `RuleFollowsMailbox`. `RestoreInvariant`: what an attempt has created
holds what it has put there and nothing reported is in it; from it `ReportedIsWhole`, where the count the
script makes (`FS_...` facts about cardinalities) is what excludes leftovers. `ZipInvariant`: a record begins where
those before it end, so that an offset names at most one (`RecordFound`); each listed entry has its words behind
its header (`Listed`), and the directory follows whole, in their order (`DirectoryFrom`); with
that a file whose end record was read had nothing cut off (`Ended`), and `ReadBackIsWritten` follows.

**`OutgoingSendProofs`.** `SendInvariant`: the claim of a draft is the only one (`ClaimsStand`); what was
accepted is what its send transmitted and no claim can follow it (`MailsStand`); a send copies and archives
what was accepted (`CopiesStand`, `RowsStand`). From it `SentOnce`, `AcceptedIsRecorded`, `ArchiveIsFaithful`.
*The page.* `ComposerInvariant` says what a page and its requests are to each other (`ClosedShape`, `OpenShape`,
`LoadShape`, `SaveShape`): a save whose revision is still the page's carries what the page shows. From the inbox
it also says that while a send is being confirmed or goes out only the timer waits for a save (`InboxShape`), that
the save then carries what was confirmed (`SendShape`), that what counts as saved, or was confirmed, is what the
draft reads (`Backed`), and that a message being written or saved has no draft but the one at hand (`Single`). Each
lemma `...Fits` shows of one action that it keeps all that and what `ClosedIsSaved` and `SentIsApproved` ask of a
step. Who waits for a save goes on one after the other: `ResumeStays` proves, by the least number at which it
could fail, that what one caller keeps all of them keep. From the invariant `NothingForgotten` and
`OneDraftPerMessage`; from the lemmas the two action properties.

**`ReadActivityProofs`.** `UndoInvariant`: versions alternate between read and unread, so equal versions mean
equal states (`VersionNamesState`); undo data names versions that are over (`RecordedPast`); a message that
changed since an activity has a version beyond its own (`StaleHasMoved`); a request writes what it has read
(`AimsAtOwn`, `AimsAtBatch`). From it `OneRecordPerMarking`, `UndoOnlyItsOwn` and that a batch is undone whole.

**`SenderRulesProofs`.** `RuleInvariant`: the changes of a sender that can be undone form a stack with the rule
on top (`LinkIsSeen`, `LastIsMade`, `LinksStand`), and what a standing change saved of a message that nobody
handled is the folder of the rule it replaced (`SnapshotsFollow`). From it `FollowsRule`, and that no change moves
a parked message. `ScreenerInvariant`: every stored message, in the bin and elsewhere too, shows who is blocked
unless a block missed it; from it `BlockIsShown`.

**`SignInProofs`.** `AuthInvariant`: a session that counts knows the present password, also the one a request
carries (`Knows`); none that counts is without a factor while there is one, unless an enrolment that was
refused has stored one (`CookieHolds`, `stray`); a removal that was let through because another
passkey remained leaves one (`RequestHolds`), whatever role the account has by then. From it `LiveKnowsPassword`,
`MfaNotSkipped`, `AdminKeepsPasskey`, `SecretUsedOnce`.

**`WorkspaceAccessProofs`.** `AccessInvariant`: whoever asked for a change was right about there being a
membership, and an owner remains one; from it `SomebodyRemains`, `InvitationsSettle`, `AuthorityIsCurrent`.
`DomainInvariant`: a row names a token made for it, of which only one can be in force (`DomainsHold`), and a
request that verifies holds one that was published (`DomainRequestsHold`); from it `VerifiedWasPublished`,
`ShownIsInForce`.

**`MailPanelProofs`.** `ListInvariant`: what a row tells while requests about its message are under way, and
which of them still hold it (`RowStands`), and how far a list that was read is behind the server
(`ListIsRecent`); from it `ReadIsExplained`. `PanelInvariant`: an open editor and a save under way belong to
their thread; from it `SubjectIsItsOwn`. `CardsInvariant`: one primary address each, and editors keep the
contact they were opened for; from it `CardIsWhole`. `PhotosInvariant`: a key is one contact's at most, what
one request has put no other frees; from it `AvatarIsKept`. `ReplyInvariant`: what is being confirmed or sent
is in the draft, and no save, load or page that is gone will change it, unless the text is known to be lost;
from it `SentIsShown`. `SearchInvariant`: one answer is awaited, of the query in the field, and it goes on
where what is shown ends (`AwaitedGoesOn`); an arrival moves results down and never up (`RowsGrow`), so what
was there at the start and stands above the offset is shown (`StartIsShown`); from it `ResultsAnswerTheQuery`.
That a page holds every row there is, or as many as fit, is a counting argument (`RowsFilled`, `PageKnown`).

### Only model-checked

| property | why |
| --- | --- |
| `StaleClaimsReopen` | liveness: fairness and ENABLED are beyond the prover |
| `MergedStayTogether` after an explained step | the run and the theorem stop there; the messages it parts are exempt from the property |

## Findings

Three are runs whose property TLC violates; `PROJECT.json` quotes the text each contradicts.

- `mailbox_restored`: of two deletions, the one that gives up clears `deletion_started_at` although the
  other is deleting objects: the mailbox can be restored with messages that have none.
- `archive`: a merge names a thread by the root of its Message-IDs, which may be mail that was never
  received; the inspection of the restore script refuses the archive that has been exported with it
  (`restore-mailbox.mjs:295`).
- `two_queues`: a request for Set Aside and one for Reply Later test the rows they read, not the rows they
  write (`set-aside.patch.ts:66`, `:89-95`): when they cross, the conversation is in both queues.

The following were met while modelling. Properties exempt them by name, or the model leaves them out; no run
reports them, so a run that passes says nothing of them.

Reception and mailboxes
- When storage fails the email is relayed without a claim and accepted (`email-handler.ts:158-166`); if it is
  delivered again it is stored and relayed a second time, and no lease has run out. The same holds for a
  replay whose `EMAIL.send` throws although the mail was accepted (`replay.post.ts:166-172`): its row says
  'failed', and the next replay sends again. `SecondRelayIsExplained` exempts both (`loose`).
- The same content delivered twice around a mailbox that closes and reopens: the loser deletes the objects the
  winner has stored (`mail-store.ts:455`); the exception in `StoredIsComplete`.
- A failed replay stays 'processing' when another replay failed in between (`replay.post.ts:146`).
- An email for two configured addresses is stored for the first only (`message_id` is unique over all).
- A reply that is being sent outlives the deletion of its mailbox (`OnlyRepliesOutlive`); a send left
  'sending' blocks the deletion for ever.

Sending and writing
- The subject of a composed message is taken from the draft as it was before the claim (`send.post.ts:131`),
  recipients, text and archive from the draft as it is after it: a save in between goes out with its new text
  under its old subject, and is archived under a subject that was never transmitted. `ArchiveIsFaithful` is
  about text and files. docs/EMAIL-SENDING.md:7 says that the archived copy « reconstitue le contenu texte
  transmis ».
- When the answer to the insert of an attachment is lost, the object of a file that is shown is deleted
  (`attachments.post.ts:95`).
- The dialog that confirms a reply names the recipient of the message that was read when the page was set up
  (`MailViewReplySendDialog.vue:31`).

Classification
- Undoing a change of a rule separates merged conversations and moves messages in the bin that the change
  had left alone (`undo.post.ts:71`; docs/MAILBOX-CLASSIFICATION.md says exact folders).
- Two changes of one rule that cross record the same predecessor (`sender-rule.put.ts:97-109`, read before the
  batch and not tested again): a change may have read the rule of another that is undone before it is written,
  and its own undo brings that rule back, or one the messages do not follow. docs/MAILBOX-CLASSIFICATION.md:88
  promises « les dossiers exacts des messages et la règle précédente »; `FollowsRule` exempts these senders
  (`crossed`).
- A message that is being received while its sender is blocked is stored, and shows as not blocked
  (`email-handler.ts:115`; `missed`). The documentation promises the refusal of new messages before they are
  stored (docs/MAILBOX-CLASSIFICATION.md:30, :64) and does not say what becomes of one already looked up. So
  does a message that was in the bin, or filed in a box, and comes back (`block-sender.post.ts:60`; `missed`).
- A thread gets into both queues by merging two threads, or by a reply to a queued one; a message moved alone
  keeps `is_set_aside` outside the Imbox (`folder.patch.ts:84`); an arrival that answers an unseen message
  to which a thread in Set Aside also answers does not join it.

Accounts
- A member asks to disable MFA (`disable.delete.ts:18`) or to remove the last passkey
  (`[credentialId].delete.ts:18`, `:32-36`), and is made an administrator before the batch, which asks for the
  session version and not for the role; the promotion increments none and asks for no factor. It leaves an
  administrator without passkey, where docs/identity-and-access.md:76 says « Platform admins cannot disable MFA
  or remove their last passkey. » `AdminKeepsPasskey` exempts these requests (`LetThroughAsMember`).
- An enrolment increments the session version only from the one it read, but its INSERT asks only for the
  number that would have been written (`register/verify.post.ts:71`, `:83-86`): after another request has written
  it the enrolment is refused with 409 and has stored its passkey, with no session revoked, where
  docs/identity-and-access.md:76 says that registering a passkey revokes the other sessions. Sessions go on
  without a factor; `MfaNotSkipped` exempts what follows (`stray`).

The list and the search
- Opening a message marks it and goes to the page of its thread, which asks for the list anew
  (`MailView.vue:706-708`, `:1700`): a list that was read before the PATCH was carried out and comes after it shows
  the message as new again, where docs/IMBOX-UX.md:47 says that « ouvrir un non-lu le marque comme consulté ».
  `ReadIsExplained` exempts it (`known`).
- A request that marks a message is answered by an error, or never, after a refresh has replaced the row:
  the mark is given back to a row that is no longer shown (`MailView.vue:1710`; `known`).
- The search hides the results that the list does not hold, and its offset counts them all the same
  (`MailView.vue:873-875`): mail that arrived after the list was read is not found until it is refreshed.

Contacts and archives
- Two photo uploads that cross leave an object nobody names; a lost answer to the UPDATE names a deleted one
  (`avatar.post.ts:36`). Reading another vCard file during an import can give a contact the photo of another
  card (`contacts/index.vue:481`).
- The inspection also refuses a merge that was separated, and a root whose message stands in another folder
  (`restore-mailbox.mjs:301`, `:312`); 65 535 entries are refused although the documentation allows 100 000.

## Not modelled

- Tags, preferences, profiles and avatars: single statements or objects, last write wins.
- The R2 mirror and the pruning of the event log; the list of files and the text of attachments.
- Settings, administration pages, command palette and profile of a sender: forms over handlers that are modelled.
- The hourly limit of invitations; users of several workspaces; the creation of workspaces.
- In `Archive`: rows of changes that can no longer be undone, tables read at different times.
- Development and canary scripts.
- Abstracted everywhere: MIME, texts, sizes, HTML, cryptography, the audit log, and permissions other than where
  a handler tests them again.

## Plan

1. `Conversations`: behaviours past their first explained step, so that `MergedStay` too exempts only the
   messages that such a step has touched.
