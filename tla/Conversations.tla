----------------------------- MODULE Conversations -----------------------------
(***************************************************************************)
(* Where the messages of a conversation stand: their box, Set Aside and    *)
(* Reply Later, the bin, and the manual merges of several threads.         *)
(*                                                                         *)
(* Almost every handler reads the messages and the merges, decides, and    *)
(* writes in one batch.  What one decides is a plan; Plans holds those     *)
(* that can be made now.  A request keeps its plan until it writes, and    *)
(* others write in between.                                                *)
(*                                                                         *)
(* The Feed and Paper Trail are alike here and are one box.                *)
(***************************************************************************)
EXTENDS Integers, FiniteSets, FiniteSetsExt

CONSTANTS
    Messages,       \* the messages, also their Message-IDs
    Unseen,         \* the Message-IDs of mail this mailbox never received
    Refs,           \* the Message-IDs each message answers
    Senders,
    SenderOf,       \* the visible sender of a message
    Classified,     \* the senders somebody gives a rule to (bound)
    Sent,           \* the replies written here
    Merges          \* what a manual merge may be called

ASSUME ConversationsAssumption ==
    /\ Refs \in [Messages -> SUBSET (Messages \cup Unseen)]
    /\ SenderOf \in [Messages -> Senders]
    /\ IsFiniteSet(Messages) /\ IsFiniteSet(Merges) /\ Classified \subseteq Senders
    /\ Sent \subseteq Messages
    /\ Messages \cap Unseen = {}

VARIABLES
    folder,     \* the box of a message, "Screener", or "absent"
    aside,      \* the messages in Set Aside
    later,      \* the messages in Reply Later
    trashed,    \* the messages in the bin
    rule,       \* the box a sender is sent to, or "none"
    merge,      \* the manual merges: not made, standing or separated
    change,     \* the last change of a rule, while it can be undone
    request,    \* what the request under way goes on with
    odd,        \* messages something explained parted from their merge (history)
    misplaced   \* messages something explained left in both queues, or in Set Aside
                \* outside the Imbox (history)

convVars == <<folder, aside, later, trashed, rule, merge, change, request, odd, misplaced>>

Boxes == {"Imbox", "Feed"}
None == [kind |-> "none"]
Unmade == [state |-> "unmade", box |-> "Imbox", roots |-> {}, parts |-> {}]

Queued == aside \cup later
Present == {m \in Messages : folder[m] # "absent"}
Filed == {m \in Messages : folder[m] \in Boxes}
Live == Filed \ trashed
Standing == {k \in Merges : merge[k].state = "standing"}

(* -------------------------------- threads ------------------------------ *)

Grown(links, ids) == ids \cup UNION {l \in links : l \cap ids # {}}

Component(links, ids) ==
    LET grown[n \in 0..Cardinality(links)] ==
            IF n = 0 THEN ids ELSE Grown(links, grown[n - 1])
    IN  grown[Cardinality(links)]

Headers(rows) == {{m} \cup Refs[m] : m \in rows}
In(rows, box) == {m \in rows : folder[m] = box}

\* The Message-IDs that stand in one conversation with m, in m's box.
Automatic(rows, m) == Component(Headers(In(rows, folder[m])), {m})
Conversation(rows, m) ==
    Component(Headers(In(rows, folder[m]))
                \cup {merge[k].roots : k \in {j \in Standing : merge[j].box = folder[m]}},
              {m})

Thread(rows, m) == In(rows, folder[m]) \cap Conversation(rows, m)
MergesOf(rows, m) ==
    {k \in Standing : merge[k].box = folder[m]
                        /\ merge[k].roots \cap Conversation(rows, m) # {}}

\* What may name an automatic thread: the order of the rows decides.
Roots(rows, m) ==
    LET answered == Automatic(rows, m)
                      \cap UNION {Refs[x] : x \in In(rows, folder[m]) \cap Automatic(rows, m)}
    IN  IF answered = {} THEN {m} ELSE answered

(* --------------------------------- plans ------------------------------- *)

Update(by, ids) ==
    [kind |-> "update", by |-> by, ids |-> ids, from |-> "any", box |-> "same",
     aside |-> "same", later |-> "same", trash |-> FALSE, merges |-> {}, next |-> None]

\* The box the senders of a conversation agree on, when it leaves Set Aside.
RestoreBox(thread) ==
    LET boxes == {IF rule[SenderOf[m]] = "none" THEN "Imbox" ELSE rule[SenderOf[m]] :
                    m \in thread \ Sent}
    IN  IF thread \cap aside = {} \/ Cardinality(boxes) # 1
          THEN "Imbox" ELSE CHOOSE b \in boxes : TRUE

AsideOf(thread, merges) ==
    (IF thread \cap later = {}
       THEN {[Update("aside", thread) EXCEPT !.box = "Imbox", !.aside = "on"]} ELSE {})
    \cup
    {[Update("aside", thread) EXCEPT !.box = RestoreBox(thread), !.aside = "off",
        !.merges = IF RestoreBox(thread) = "Imbox" THEN {} ELSE merges]}

SetAsidePlans == UNION {AsideOf(Thread(Live, m), MergesOf(Live, m)) : m \in In(Live, "Imbox")}

\* Mutant: a conversation in Set Aside may also be put in Reply Later.
ReplyLaterAnyway ==
    UNION {LET thread == Thread(Live, m) IN
           {[Update("later", thread) EXCEPT !.later = s] : s \in {"off", "on"}} : m \in Live}

ReplyLaterPlans ==
    UNION {LET thread == Thread(Live, m) IN
           {[Update("later", thread) EXCEPT !.later = s] :
              s \in {"off"} \cup (IF thread \cap aside = {} THEN {"on"} ELSE {})} :
           m \in Live}

\* One message to another box: out of the Screener, or alone.
ScreenedPlans ==
    UNION {{[Update("folder", {m}) EXCEPT !.from = "Screener", !.box = b] : b \in Boxes} :
             m \in In(Present \ trashed, "Screener")}
SinglePlans ==
    UNION {{[Update("folder", {m}) EXCEPT !.box = b] : b \in Boxes} :
             m \in {x \in Filed \ later : MergesOf(Filed, x) = {}}}

FolderPlans == ScreenedPlans \cup SinglePlans

\* A merged conversation is moved only while it is whole in one box.
Movable(m) ==
    LET thread == Thread(Filed, m) IN
    /\ thread \cap later = {}
    /\ MergesOf(Filed, m) # {}
    /\ Cardinality({Automatic(Filed, y) : y \in thread}) > 1
    /\ \A k \in MergesOf(Filed, m) : merge[k].roots \subseteq UNION {Roots(Filed, y) : y \in thread}
    /\ \A y \in Filed : Component(Headers(Filed), {y}) \cap thread # {} => folder[y] = folder[m]

GroupPlans ==
    UNION {{[Update("group", Thread(Filed, m)) EXCEPT !.from = folder[m], !.box = b,
               !.merges = MergesOf(Filed, m)] : b \in Boxes} :
             m \in {x \in Filed : Movable(x)}}

Listed(source) ==
    CASE source = "Reply Later" -> Live \cap later
      [] source = "Set Aside" -> In(Live, "Imbox") \cap aside
      [] source = "Imbox" -> In(Live, "Imbox") \ Queued
      [] source = "Feed" -> In(Live, "Feed")

\* One or two conversations ticked in a list; one that is refused refuses both.
Lists == {"Reply Later", "Set Aside", "Imbox", "Feed"}
Ticked(source) == {t \in SUBSET Listed(source) : t # {} /\ Cardinality(t) < 3}

BulkOf(source, ticked) ==
    LET ids == UNION {Thread(Live, m) : m \in ticked}
        plan == Update("bulk", ids)
        kept == source \in {"Imbox", "Set Aside"}
    IN  {[plan EXCEPT !.later = "off"]} \cup {[plan EXCEPT !.trash = TRUE]}
          \cup (IF ids \cap aside = {} THEN {[plan EXCEPT !.later = "on"]} ELSE {})
          \cup (IF kept THEN {[plan EXCEPT !.aside = "off"]} ELSE {})
          \cup (IF kept /\ ids \cap later = {} THEN {[plan EXCEPT !.aside = "on"]} ELSE {})
          \cup {[plan EXCEPT !.box = b, !.aside = "off", !.later = "off",
                   !.merges = UNION {MergesOf(Live, m) : m \in ids}] : b \in Boxes}

BulkPlans == UNION {UNION {BulkOf(source, ticked) : ticked \in Ticked(source)} : source \in Lists}

\* Two conversations of one box become one.
Joining(m, n) ==
    LET thread == Thread(Live, m) \cup Thread(Live, n)
    IN  {[kind |-> "merge", box |-> folder[m], roots |-> roots, parts |-> thread] :
            roots \in {r \in SUBSET UNION {Roots(Live, x) : x \in thread} :
               \A x \in thread : Cardinality(r \cap Roots(Live, x)) = 1}}

Joinable(m) == {n \in Live : folder[n] = folder[m] /\ n \notin Thread(Live, m)}

MergePlans == UNION {UNION {Joining(m, n) : n \in Joinable(m)} : m \in Live}

SplitPlans == {[kind |-> "split", merges |-> MergesOf(Live, m)] :
                 m \in {x \in Live : MergesOf(Live, x) # {}}}

\* The merged conversations in which a sender has a message.
Grouped(s) == {Thread(Filed, m) : m \in {x \in Filed : SenderOf[x] = s /\ MergesOf(Filed, x) # {}}}
MergesIn(groups) == UNION {MergesOf(Filed, m) : m \in UNION groups}

RulePlan(s, b) ==
    [kind |-> "rule", sender |-> s, box |-> b,
     snapshot |-> [k \in MergesIn(Grouped(s)) |-> merge[k].box],
     merges |-> MergesIn({g \in Grouped(s) : g \cap Queued = {}})]

RulePlans ==
    UNION {{RulePlan(s, b) : b \in Boxes} :
           s \in {t \in Classified : /\ \E m \in Present : SenderOf[m] = t
                                    /\ \A m \in UNION Grouped(t) : SenderOf[m] = t}}

(* --------------------------------- writes ------------------------------ *)

PartsOf(ms) == UNION {merge[k].parts : k \in ms}

\* The merged conversations some of these messages are part of.
Around(ids) == ids \cup PartsOf({k \in Merges : merge[k].parts \cap ids # {}})

\* Mutant: the messages move and the merge keeps its box.
MovedAlone(ms, box) == merge

Moved(ms, box) == [k \in Merges |-> IF k \in ms /\ k \in Standing
                                      THEN [merge[k] EXCEPT !.box = box] ELSE merge[k]]

Flag(set, ids, value) ==
    CASE value = "on" -> set \cup ids [] value = "off" -> set \ ids [] OTHER -> set

\* What a plan parts from its merge, when it is written on a reading that no longer holds.
\* A group that is moved tests the boxes again as it writes.
Explained(p, ids, current) ==
    IF \/ current
       \/ /\ p.by = "group"
          /\ {k \in Standing : merge[k].parts \cap ids # {}} \subseteq p.merges
    THEN {} ELSE Around(ids) \cup PartsOf(p.merges)

\* What a plan puts in a queue although the other queue has it by now, or in Set Aside
\* although it has left the Imbox: the UPDATE does not ask again.
Overtaken(p, ids) ==
    (IF p.aside = "on" THEN ids \cap later ELSE {})
      \cup (IF p.aside = "on" /\ p.box = "same" THEN ids \ In(Filed, "Imbox") ELSE {})
      \cup (IF p.later = "on" THEN ids \cap aside ELSE {})

\* What a plan may misplace: what has been put elsewhere since it was made; one message or
\* a group moved with its flag; a reply that joins a conversation half in each queue, or
\* half in Set Aside and moved with its flag.
Misplacing(p, ids, current) ==
    (IF current THEN {} ELSE Overtaken(p, ids))
      \cup (IF p.by \in {"folder", "group"} /\ p.box # "Imbox" THEN ids \cap aside ELSE {})
      \cup (IF p.by = "keep" THEN (ids \cap later) \cup (ids \ In(Filed, "Imbox")) ELSE {})

WriteUpdate(p, current) ==
    LET ids == {m \in p.ids : \/ p.from = "any"
                              \/ folder[m] = p.from /\ (p.from = "Screener" => m \notin trashed)}
        ms == {k \in p.merges : p.from = "any" \/ merge[k].box = p.from}
    IN  /\ folder' = [m \in Messages |-> IF m \in ids /\ p.box # "same" THEN p.box ELSE folder[m]]
        /\ aside' = Flag(aside, ids, p.aside)
        /\ later' = Flag(later, ids, p.later)
        /\ trashed' = IF p.trash THEN trashed \cup ids ELSE trashed
        /\ merge' = IF p.box = "same" THEN merge ELSE Moved(ms, p.box)
        /\ odd' = odd \cup Explained(p, ids, current)
        /\ misplaced' = misplaced \cup Misplacing(p, ids, current)
        /\ UNCHANGED <<rule, change>>

\* The merge takes a name of its own.
WriteMerge(p, current) ==
    /\ Standing # Merges
    /\ \E k \in Merges :
          /\ merge[k] = Unmade
          /\ merge' = [merge EXCEPT ![k] =
                [state |-> "standing", box |-> p.box, roots |-> p.roots, parts |-> p.parts]]
    /\ odd' = IF current THEN odd ELSE odd \cup p.parts
    /\ UNCHANGED <<folder, aside, later, trashed, rule, change, misplaced>>

WriteSplit(p) ==
    /\ merge' = [k \in Merges |-> IF k \in p.merges THEN [Unmade EXCEPT !.state = "separated"]
                                                   ELSE merge[k]]
    /\ UNCHANGED <<folder, aside, later, trashed, rule, change, odd, misplaced>>

\* The rule is written with what undoing it needs; the mail of the sender
\* that is not queued follows, a merged conversation with a queued part stays.
WriteRule(p, current) ==
    LET mine == {m \in Present \ trashed : SenderOf[m] = p.sender}
    IN  /\ change' = [change EXCEPT ![p.sender] =
                [previous |-> rule[p.sender], messages |-> [m \in mine |-> folder[m]],
                 merges |-> [k \in DOMAIN p.snapshot \cap Standing |-> p.snapshot[k]]]]
        /\ rule' = [rule EXCEPT ![p.sender] = p.box]
        /\ folder' = [m \in Messages |-> IF m \in mine \ Queued THEN p.box ELSE folder[m]]
        /\ merge' = Moved(p.merges, p.box)
        /\ odd' = odd \cup PartsOf(DOMAIN p.snapshot \ p.merges)
                      \cup (IF current THEN {} ELSE Around(mine) \cup PartsOf(DOMAIN p.snapshot))
        /\ UNCHANGED <<aside, later, trashed, misplaced>>

(* ------------------------------- requests ------------------------------ *)

ParkingPlans == SetAsidePlans \cup ReplyLaterPlans \cup FolderPlans \cup BulkPlans
RegroupPlans ==
    SetAsidePlans \cup GroupPlans \cup MergePlans \cup SplitPlans \cup RulePlans
      \cup {p \in BulkPlans : p.trash \/ p.box # "same"}

WritePlan(p, current) ==
    /\ p.kind = "update" => WriteUpdate(p, current)
    /\ p.kind = "merge" => WriteMerge(p, current)
    /\ p.kind = "split" => WriteSplit(p)
    /\ p.kind = "rule" => WriteRule(p, current)

\* Nothing comes between the reading and the writing.
Quick(plans) == \E p \in plans : WritePlan(p, TRUE) /\ UNCHANGED request

Ask(requests) ==
    /\ request = None
    /\ request' \in requests
    /\ UNCHANGED <<folder, aside, later, trashed, rule, merge, change, odd, misplaced>>

\* After a reply is sent its conversation is kept in Set Aside, if it is
\* there, and then taken out of Reply Later.
KeepPlans(m) ==
    {[Update("keep", Thread(Live, x)) EXCEPT !.aside = "on", !.next = [kind |-> "clear", m |-> m]] :
       x \in {y \in {m} \cap Live : Thread(Live, y) \cap aside # {}}}
ClearPlans(m) ==
    {[Update("clear", Thread(Live, x)) EXCEPT !.later = "off"] :
       x \in {y \in {m} \cap Live : Thread(Live, y) \cap later # {}}}
AfterSending == UNION {KeepPlans(m) \cup ClearPlans(m) : m \in Sent}

Write(plans) ==
    /\ request.kind \in {"update", "merge", "split", "rule"}
    /\ WritePlan(request, request \in plans \cup AfterSending)
    /\ request' = IF request.kind = "update" THEN request.next ELSE None

\* A request may end before its next statement; what follows a reply that is
\* sent goes on when one part of it fails.
Fails ==
    /\ request # None
    /\ request' = CASE request.kind = "update" -> request.next
                    [] request.kind = "keep" -> [kind |-> "clear", m |-> request.m]
                    [] OTHER -> None
    /\ UNCHANGED <<folder, aside, later, trashed, rule, merge, change, odd, misplaced>>

Store(m, box) ==
    /\ folder[m] = "absent"
    /\ folder' = [folder EXCEPT ![m] = box]
    /\ UNCHANGED <<trashed, rule, merge, change>>

(* The reply is filed in the box its message was in when it was read.      *)
SendReply ==
    Ask(UNION {{[kind |-> "send", m |-> m, box |-> folder[r]] : r \in Live \cap Refs[m]} :
                 m \in Sent \ Present})

FileReply ==
    /\ request.kind = "send"
    /\ Store(request.m, request.box)
    /\ request' = [kind |-> "keep", m |-> request.m]
    /\ UNCHANGED <<aside, later, odd, misplaced>>

Follow ==
    LET plans == IF request.kind = "keep" THEN KeepPlans(request.m) ELSE ClearPlans(request.m)
    IN  /\ request.kind \in {"keep", "clear"}
        /\ request' \in IF plans # {} THEN plans
                        ELSE IF request.kind = "keep" THEN {[kind |-> "clear", m |-> request.m]}
                        ELSE {None}
        /\ UNCHANGED <<folder, aside, later, trashed, rule, merge, change, odd, misplaced>>

\* Mail this mailbox received, among what m answers.
Answered(m) == (Refs[m] \cap Messages) \ (Sent \cup trashed)
LinkedAside(m) == Answered(m) \cap aside \cap In(Filed, "Imbox") # {}
LinkedLater(m) ==
    LET boxes == {folder[r] : r \in Answered(m) \cap later}
    IN  IF boxes = {} THEN {"none"} ELSE boxes

(* Incoming mail asks first for Set Aside, then for Reply Later; each may  *)
(* fail, and then a reply goes to the Imbox.                               *)
Arrive ==
    Ask(UNION {{[kind |-> "arrive", m |-> m, aside |-> ~failed /\ LinkedAside(m), failed |-> failed] :
                  failed \in IF Refs[m] = {} THEN {FALSE} ELSE BOOLEAN} :
                 m \in Messages \ (Present \cup Sent)})

LookUpLater ==
    /\ request.kind = "arrive"
    /\ \E failed \in BOOLEAN, box \in LinkedLater(request.m) :
          /\ failed => Refs[request.m] # {} /\ box = "none"
          /\ request' = [kind |-> "file", m |-> request.m, aside |-> request.aside,
                         later |-> box, failed |-> failed \/ request.failed]
    /\ UNCHANGED <<folder, aside, later, trashed, rule, merge, change, odd, misplaced>>

\* The rule of the sender is read as the message is inserted, the queues were read before:
\* what is answered may have changed queue between the two readings or since, and a reply
\* to two conversations may be put in the queues of both.
File ==
    LET m == request.m
        ruled == rule[SenderOf[m]]
        both == request.aside /\ request.later # "none"
    IN  /\ request.kind = "file"
        /\ Store(m, CASE request.later # "none" -> request.later
                      [] request.later = "none" /\ (request.aside \/ request.failed) -> "Imbox"
                      [] OTHER -> IF ruled = "none" THEN "Screener" ELSE ruled)
        /\ aside' = IF request.aside THEN aside \cup {m} ELSE aside
        /\ later' = IF request.later # "none" THEN later \cup {m} ELSE later
        /\ misplaced' = IF /\ both
                           /\ \/ ~LinkedAside(m) \/ request.later \notin LinkedLater(m)
                              \/ Cardinality(Answered(m) \cap Queued) > 1
                              \/ Answered(m) \cap misplaced # {}
                         THEN misplaced \cup {m} ELSE misplaced
        /\ UNCHANGED odd
        /\ request' = None

Restore(m) ==
    /\ m \in trashed
    /\ trashed' = trashed \ {m}
    /\ odd' = IF \E k \in Standing : m \in merge[k].parts /\ merge[k].box # folder[m]
                THEN odd \cup {m} ELSE odd
    /\ UNCHANGED <<folder, aside, later, rule, merge, change, request, misplaced>>

(* Undoing a change takes its mail and its merged conversations back, and  *)
(* the mail that came since where the rule before would have sent it.  It  *)
(* parts the merged conversations that were made since, and those with a   *)
(* message that was in the bin or that is queued.                          *)
Undo(s) ==
    LET made == change[s]
        back == {m \in Present : SenderOf[m] = s} \ Queued
    IN  /\ made # None
        /\ folder' = [m \in Messages |->
                        IF m \notin back THEN folder[m]
                        ELSE IF m \in DOMAIN made.messages THEN made.messages[m]
                        ELSE IF made.previous = "none" THEN "Screener" ELSE made.previous]
        /\ merge' = [k \in Merges |-> IF k \in DOMAIN made.merges \cap Standing
                                        THEN [merge[k] EXCEPT !.box = made.merges[k]] ELSE merge[k]]
        /\ rule' = [rule EXCEPT ![s] = made.previous]
        /\ change' = [change EXCEPT ![s] = None]
        /\ odd' = odd \cup (PartsOf(DOMAIN made.merges) \ (back \cap DOMAIN made.messages))
                      \cup PartsOf({k \in Standing \ DOMAIN made.merges : merge[k].parts \cap back # {}})
        /\ UNCHANGED <<aside, later, trashed, request, misplaced>>

Expire(s) ==
    /\ change[s] # None
    /\ change' = [change EXCEPT ![s] = None]
    /\ UNCHANGED <<folder, aside, later, trashed, rule, merge, request, odd, misplaced>>

ConvInit ==
    /\ folder \in [Messages -> {"absent", "Imbox"}]
    /\ \A m \in Sent : folder[m] = "absent"
    /\ aside = {} /\ later = {} /\ trashed = {} /\ odd = {} /\ misplaced = {}
    /\ rule \in [Senders -> Boxes \cup {"none"}]
    /\ merge = [k \in Merges |-> Unmade]
    /\ change = [s \in Senders |-> None]
    /\ request = None

\* Mail arrives while conversations are parked, moved and thrown away.
ArrivalNext ==
    \/ Arrive \/ LookUpLater \/ File \/ Fails
    \/ Quick(ParkingPlans)
    \/ \E m \in Messages : Restore(m)

\* Replies are sent while conversations are parked and moved.
ReplyNext ==
    \/ SendReply \/ FileReply \/ Follow \/ Fails
    \/ Quick(ParkingPlans) \/ Ask(SetAsidePlans \cup ReplyLaterPlans) \/ Write(ParkingPlans)
    \/ \E m \in Messages : Restore(m)

\* The merges: conversations joined, separated, moved and reclassified.
RegroupNext ==
    \/ Quick(RegroupPlans)
    \/ \E m \in Messages : Restore(m)
    \/ \E s \in Senders : Undo(s) \/ Expire(s)

\* The same, while a group is being moved.
GroupMoveNext == RegroupNext \/ Ask(GroupPlans) \/ Write(GroupPlans) \/ Fails

\* All of it: any request under way, and any other while it waits.
AllPlans == ParkingPlans \cup RegroupPlans
ConvNext ==
    \/ Arrive \/ LookUpLater \/ File
    \/ SendReply \/ FileReply \/ Follow \/ Fails
    \/ Quick(AllPlans) \/ Ask(AllPlans) \/ Write(AllPlans)
    \/ \E m \in Messages : Restore(m)
    \/ \E s \in Senders : Undo(s) \/ Expire(s)

ConvSpec == ConvInit /\ [][ConvNext]_convVars

(* ------------------------------ properties ----------------------------- *)

\* No message is in both queues, and none in Set Aside outside the Imbox, except those an
\* explained step put there: a request that was overtaken by one about the other queue, a
\* message or a group moved with its flag, and replies that join two conversations.
OneQueue ==
    \A m \in Messages \ misplaced :
        /\ m \notin aside \cap later
        /\ m \in aside => folder[m] = "Imbox"

\* "Un fil ne peut pas être simultanément Reply Later et Set Aside"
\* (docs/MAILBOX-CLASSIFICATION.md:29).
NeverInBoth == aside \cap later = {}

\* What was merged stays in the box of its merge, whatever is moved, parked,
\* reclassified or undone since, except what an explained step parted.
MergedStayTogether ==
    \A k \in Standing : \A m \in merge[k].parts \ (odd \cup trashed) : folder[m] = merge[k].box
=============================================================================
