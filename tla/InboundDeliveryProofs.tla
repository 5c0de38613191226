------------------------ MODULE InboundDeliveryProofs ------------------------
(***************************************************************************)
(* What InboundDelivery promises, for any number of deliveries, replays,   *)
(* contents and mailboxes, and what Conversations promises of the queues   *)
(* and the merges of the mail that was delivered, for any messages, links  *)
(* and names of merges.                                                    *)
(***************************************************************************)
EXTENDS InboundRefinement, Conversations, FiniteSetTheorems, WellFoundedInduction, TLAPS

-------------------------------------------------------------------------------
(* The queues of conversations (Conversations): a conversation is in one of the *)
(* two queues at a time, except what a request that was overtaken put there.    *)

\* What a plan asks for, wherever it was made.
UpdatePlan(p) ==
    /\ p.ids \subseteq Present
    /\ p.box \in Boxes \cup {"same"}
    /\ p.aside \in {"same", "on", "off"} /\ p.later \in {"same", "on", "off"}
    /\ p.aside = "on" => p.later = "same" /\ p.box \in {"same", "Imbox"}
    /\ p.later = "on" => p.aside = "same" /\ p.box = "same"
    /\ p.box \notin {"same", "Imbox"} => p.aside = "off" \/ p.by \in {"folder", "group"}
    /\ p.next.kind \in {"none", "clear"}

\* What a plan finds where it is made: nothing to put in a queue is in the other.
KeepsQueues(p) ==
    /\ p.aside = "on" /\ p.by # "keep" =>
         /\ p.ids \cap later = {}
         /\ p.box = "Imbox" \/ \A m \in p.ids : folder[m] = "Imbox"
    /\ p.later = "on" => p.ids \cap aside = {}

RequestStands(q) ==
    /\ q.kind = "update" => UpdatePlan(q)
    /\ q.kind = "rule" => q.box \in Boxes /\ q.sender \in Senders
    /\ q.kind = "send" => q.box \in Boxes
    /\ q.kind = "arrive" => q.m \in Messages /\ q.aside \in BOOLEAN
    /\ q.kind = "file" => q.m \in Messages /\ q.aside \in BOOLEAN /\ q.later \in Boxes \cup {"none", "Screener"}

Places == Boxes \cup {"Screener"}

ChangeStands(c) ==
    /\ c.previous \in Boxes \cup {"none"}
    /\ \A m \in DOMAIN c.messages : c.messages[m] \in Places

QueueTypes ==
    /\ folder \in [Messages -> Places \cup {"absent"}]
    /\ rule \in [Senders -> Boxes \cup {"none"}]
    /\ aside \subseteq Present /\ later \subseteq Present
    /\ change = [s \in Senders |-> change[s]]
    /\ \A s \in Senders : change[s] # None => ChangeStands(change[s])

QueueInvariant == QueueTypes /\ RequestStands(request) /\ OneQueue

\* A thread is in the box of the message it was asked for.
LEMMA ThreadIsInBox ==
  \A rows, m : /\ Thread(rows, m) \subseteq rows
               /\ \A x \in Thread(rows, m) : folder[x] = folder[m]
BY DEF Thread, In

LEMMA RestoreBoxIsBox ==
  ASSUME QueueTypes, ConversationsAssumption, NEW thread, thread \subseteq Messages
  PROVE  RestoreBox(thread) \in Boxes
<1> DEFINE boxes == {IF rule[SenderOf[m]] = "none" THEN "Imbox" ELSE rule[SenderOf[m]] :
                       m \in thread \ Sent}
<1>1. boxes \subseteq Boxes
  BY DEF QueueTypes, ConversationsAssumption, Boxes
<1>2. Cardinality(boxes) = 1 => boxes # {}
  BY FS_EmptySet
<1>3. "Imbox" \in Boxes
  BY DEF Boxes
<1>4. RestoreBox(thread) = IF thread \cap aside = {} \/ Cardinality(boxes) # 1
                             THEN "Imbox" ELSE CHOOSE b \in boxes : TRUE
  BY DEF RestoreBox
<1> HIDE DEF boxes
<1> QED
  BY <1>1, <1>2, <1>3, <1>4

LEMMA SetAsidePlansKeep ==
  ASSUME QueueTypes, ConversationsAssumption, NEW p \in SetAsidePlans
  PROVE  p.kind = "update" /\ UpdatePlan(p) /\ KeepsQueues(p)
<1>1. PICK m \in In(Live, "Imbox") : p \in AsideOf(Thread(Live, m), MergesOf(Live, m))
  BY DEF SetAsidePlans
<1> DEFINE thread == Thread(Live, m)
<1>2. thread \subseteq Present /\ thread \subseteq Messages
  BY ThreadIsInBox DEF Live, Filed, Present, Boxes
<1>3. RestoreBox(thread) \in Boxes
  BY <1>2, RestoreBoxIsBox
<1> HIDE DEF thread
<1>4. CASE p = [Update("aside", thread) EXCEPT !.box = "Imbox", !.aside = "on"] /\ thread \cap later = {}
  BY <1>2, <1>4 DEF Update, None, UpdatePlan, KeepsQueues, Boxes
<1>5. ASSUME NEW b \in Boxes, NEW ms,
             p = [Update("aside", thread) EXCEPT !.box = b, !.aside = "off", !.merges = ms]
      PROVE  p.kind = "update" /\ UpdatePlan(p) /\ KeepsQueues(p)
  BY <1>2, <1>5 DEF Update, None, UpdatePlan, KeepsQueues, Boxes
<1> QED
  <2>1. p \in AsideOf(thread, MergesOf(Live, m))
    BY <1>1 DEF thread
  <2> QED
    BY <2>1, <1>3, <1>4, <1>5 DEF AsideOf

LEMMA ReplyLaterPlansKeep ==
  ASSUME QueueTypes, NEW p \in ReplyLaterPlans
  PROVE  p.kind = "update" /\ UpdatePlan(p) /\ KeepsQueues(p)
<1>1. PICK m \in Live :
        LET thread == Thread(Live, m) IN
        \E s \in {"off"} \cup (IF thread \cap aside = {} THEN {"on"} ELSE {}) :
           p = [Update("later", thread) EXCEPT !.later = s]
  BY Zenon DEF ReplyLaterPlans
<1> DEFINE thread == Thread(Live, m)
<1>2. thread \subseteq Present
  BY ThreadIsInBox DEF Live, Filed, Present, Boxes
<1>3. PICK s \in {"off"} \cup (IF thread \cap aside = {} THEN {"on"} ELSE {}) :
         p = [Update("later", thread) EXCEPT !.later = s]
  BY <1>1
<1> HIDE DEF thread
<1> QED
  BY <1>2, <1>3 DEF Update, None, UpdatePlan, KeepsQueues, Boxes

LEMMA FolderPlansKeep ==
  ASSUME QueueTypes, NEW p \in FolderPlans
  PROVE  p.kind = "update" /\ UpdatePlan(p) /\ KeepsQueues(p)
<1>1. CASE p \in ScreenedPlans
  <2>1. PICK m \in In(Present \ trashed, "Screener"), b \in Boxes :
          p = [Update("folder", {m}) EXCEPT !.from = "Screener", !.box = b]
    BY <1>1 DEF ScreenedPlans
  <2>2. m \in Present
    BY DEF In
  <2> QED
    BY <2>1, <2>2 DEF Update, None, UpdatePlan, KeepsQueues, Boxes
<1>2. CASE p \in SinglePlans
  <2>1. PICK m \in Filed, b \in Boxes : p = [Update("folder", {m}) EXCEPT !.box = b]
    BY <1>2 DEF SinglePlans
  <2>2. m \in Present
    BY DEF Filed, Present, Boxes
  <2> QED
    BY <2>1, <2>2 DEF Update, None, UpdatePlan, KeepsQueues, Boxes
<1> QED
  BY <1>1, <1>2 DEF FolderPlans

LEMMA GroupPlansKeep ==
  ASSUME QueueTypes, NEW p \in GroupPlans
  PROVE  p.kind = "update" /\ UpdatePlan(p) /\ KeepsQueues(p)
<1>1. PICK m \in Filed, b \in Boxes :
        p = [Update("group", Thread(Filed, m)) EXCEPT
               !.from = folder[m], !.box = b, !.merges = MergesOf(Filed, m)]
  BY Zenon DEF GroupPlans
<1>2. Thread(Filed, m) \subseteq Present
  BY ThreadIsInBox DEF Filed, Present, Boxes
<1>3. ASSUME NEW ids \in SUBSET Present, NEW from, NEW ms,
             p = [Update("group", ids) EXCEPT !.from = from, !.box = b, !.merges = ms]
      PROVE  p.kind = "update" /\ UpdatePlan(p) /\ KeepsQueues(p)
  BY <1>3 DEF Update, None, UpdatePlan, KeepsQueues, Boxes
<1> QED
  BY <1>1, <1>2, <1>3

\* Set Aside and the Imbox list messages of the Imbox.
LEMMA BulkPlansKeep ==
  ASSUME QueueTypes, NEW p \in BulkPlans
  PROVE  p.kind = "update" /\ UpdatePlan(p) /\ KeepsQueues(p)
<1>1. PICK source \in Lists : p \in UNION {BulkOf(source, ticked) : ticked \in Ticked(source)}
  BY DEF BulkPlans
<1>2. PICK ticked \in Ticked(source) : p \in BulkOf(source, ticked)
  BY <1>1
<1> DEFINE ids == UNION {Thread(Live, m) : m \in ticked}
           kept == source \in {"Imbox", "Set Aside"}
<1>3. ids \subseteq Present
  <2>1. \A m : Thread(Live, m) \subseteq Present
    BY ThreadIsInBox DEF Live, Filed, Present, Boxes
  <2> QED
    BY <2>1
<1>4. kept => \A m \in ids : folder[m] = "Imbox"
  <2>1. ticked \subseteq Listed(source)
    BY DEF Ticked
  <2>2. kept => \A m \in Listed(source) : folder[m] = "Imbox"
    BY DEF Listed, In
  <2>3. kept => \A m \in ticked : \A x \in Thread(Live, m) : folder[x] = "Imbox"
    BY <2>1, <2>2, ThreadIsInBox
  <2> QED
    BY <2>3
<1>5. \/ p = [Update("bulk", ids) EXCEPT !.later = "off"]
      \/ p = [Update("bulk", ids) EXCEPT !.trash = TRUE]
      \/ ids \cap aside = {} /\ p = [Update("bulk", ids) EXCEPT !.later = "on"]
      \/ p = [Update("bulk", ids) EXCEPT !.aside = "off"]
      \/ kept /\ ids \cap later = {} /\ p = [Update("bulk", ids) EXCEPT !.aside = "on"]
      \/ \E b \in Boxes, ms \in {UNION {MergesOf(Live, m) : m \in ids}} :
            p = [Update("bulk", ids) EXCEPT !.box = b, !.aside = "off", !.later = "off", !.merges = ms]
  BY <1>2 DEF BulkOf
<1> HIDE DEF ids, kept
<1> USE DEF Update, None, UpdatePlan, KeepsQueues, Boxes
<1>6. CASE \/ p = [Update("bulk", ids) EXCEPT !.later = "off"]
           \/ p = [Update("bulk", ids) EXCEPT !.trash = TRUE]
           \/ p = [Update("bulk", ids) EXCEPT !.aside = "off"]
  BY <1>3, <1>6
<1>7. CASE ids \cap aside = {} /\ p = [Update("bulk", ids) EXCEPT !.later = "on"]
  BY <1>3, <1>7
<1>8. CASE kept /\ ids \cap later = {} /\ p = [Update("bulk", ids) EXCEPT !.aside = "on"]
  BY <1>3, <1>4, <1>8
<1>9. ASSUME NEW b \in Boxes, NEW ms,
             p = [Update("bulk", ids) EXCEPT !.box = b, !.aside = "off", !.later = "off", !.merges = ms]
      PROVE  p.kind = "update" /\ UpdatePlan(p) /\ KeepsQueues(p)
  BY <1>3, <1>9
<1> QED
  BY <1>5, <1>6, <1>7, <1>8, <1>9

LEMMA SentPlansKeep ==
  ASSUME QueueTypes, NEW p, NEW m, p \in KeepPlans(m) \cup ClearPlans(m)
  PROVE  p.kind = "update" /\ UpdatePlan(p) /\ KeepsQueues(p)
<1>1. CASE p \in KeepPlans(m)
  <2>1. PICK x \in Live : p = [Update("keep", Thread(Live, x)) EXCEPT
                                !.aside = "on", !.next = [kind |-> "clear", m |-> m]]
    BY <1>1 DEF KeepPlans
  <2>2. Thread(Live, x) \subseteq Present
    BY ThreadIsInBox DEF Live, Filed, Present, Boxes
  <2> QED
    BY <2>1, <2>2 DEF Update, None, UpdatePlan, KeepsQueues, Boxes
<1>2. CASE p \in ClearPlans(m)
  <2>1. PICK x \in Live : p = [Update("clear", Thread(Live, x)) EXCEPT !.later = "off"]
    BY <1>2 DEF ClearPlans
  <2>2. Thread(Live, x) \subseteq Present
    BY ThreadIsInBox DEF Live, Filed, Present, Boxes
  <2> QED
    BY <2>1, <2>2 DEF Update, None, UpdatePlan, KeepsQueues, Boxes
<1> QED
  BY <1>1, <1>2

LEMMA OtherPlansStand ==
  ASSUME ConversationsAssumption
  PROVE  /\ \A p \in MergePlans : p.kind = "merge"
         /\ \A p \in SplitPlans : p.kind = "split"
         /\ \A p \in RulePlans : p.kind = "rule" /\ p.box \in Boxes /\ p.sender \in Senders
<1>1. \A m, n : \A p \in Joining(m, n) : p.kind = "merge"
  BY DEF Joining
<1>2. \A p \in MergePlans : p.kind = "merge"
  BY <1>1 DEF MergePlans
<1>3. \A p \in SplitPlans : p.kind = "split"
  BY DEF SplitPlans
<1>4. \A p \in RulePlans : p.kind = "rule" /\ p.box \in Boxes /\ p.sender \in Senders
  <2> TAKE p \in RulePlans
  <2>1. PICK s \in Classified, b \in Boxes : p = RulePlan(s, b)
    BY DEF RulePlans
  <2> QED
    BY <2>1 DEF RulePlan, ConversationsAssumption
<1> QED
  BY <1>2, <1>3, <1>4

\* Every plan that can be made keeps the queues apart.
LEMMA PlansKeep ==
  ASSUME QueueTypes, ConversationsAssumption, NEW p \in AllPlans \cup AfterSending
  PROVE  /\ RequestStands(p)
         /\ p.kind = "update" => KeepsQueues(p)
         /\ p.kind \in {"update", "merge", "split", "rule"}
<1>1. CASE p \in AfterSending
  <2>1. PICK m \in Sent : p \in KeepPlans(m) \cup ClearPlans(m)
    BY <1>1 DEF AfterSending
  <2> QED
    BY <2>1, SentPlansKeep DEF RequestStands
<1>2. CASE p \in SetAsidePlans \cup ReplyLaterPlans \cup FolderPlans \cup BulkPlans \cup GroupPlans
  <2>1. p.kind = "update" /\ UpdatePlan(p) /\ KeepsQueues(p)
    BY <1>2, SetAsidePlansKeep, ReplyLaterPlansKeep, FolderPlansKeep, BulkPlansKeep, GroupPlansKeep
  <2> QED
    BY <2>1 DEF RequestStands
<1>3. CASE p \in MergePlans \cup SplitPlans \cup RulePlans
  BY <1>3, OtherPlansStand DEF RequestStands
<1> QED
  BY <1>1, <1>2, <1>3 DEF AllPlans, ParkingPlans, RegroupPlans

\* A message that is here stays.
LEMMA RequestKept ==
  ASSUME NEW q, RequestStands(q), request' = q, Present \subseteq Present'
  PROVE  RequestStands(request)'
BY DEF RequestStands, UpdatePlan

LEMMA UpdateKeepsQueues ==
  ASSUME QueueTypes, OneQueue, NEW p, UpdatePlan(p), NEW current \in BOOLEAN,
         current => KeepsQueues(p), WriteUpdate(p, current)
  PROVE  QueueTypes' /\ OneQueue' /\ Present \subseteq Present'
<1> DEFINE ids ==
      {m \in p.ids : \/ p.from = "any"
                     \/ folder[m] = p.from /\ (p.from = "Screener" => m \notin trashed)}
<1>1. folder' = [m \in Messages |-> IF m \in ids /\ p.box # "same" THEN p.box ELSE folder[m]]
  BY DEF WriteUpdate
<1>2. aside' = Flag(aside, ids, p.aside) /\ later' = Flag(later, ids, p.later)
  BY DEF WriteUpdate
<1>3. misplaced' = misplaced \cup Misplacing(p, ids, current) /\ UNCHANGED <<rule, change>>
  BY DEF WriteUpdate
<1>4. ids \subseteq Present /\ ids \subseteq p.ids /\ Present \subseteq Messages
  BY DEF UpdatePlan, Present
<1>5. /\ p.box \in Boxes \cup {"same"}
      /\ p.aside \in {"same", "on", "off"} /\ p.later \in {"same", "on", "off"}
  BY DEF UpdatePlan
<1>6. \A set : /\ Flag(set, ids, "on") = set \cup ids
               /\ Flag(set, ids, "off") = set \ ids
               /\ Flag(set, ids, "same") = set
  BY DEF Flag
<1>7. /\ ~current /\ p.aside = "on" => (ids \cap later) \subseteq misplaced'
      /\ ~current /\ p.aside = "on" /\ p.box = "same" => (ids \ In(Filed, "Imbox")) \subseteq misplaced'
      /\ ~current /\ p.later = "on" => (ids \cap aside) \subseteq misplaced'
      /\ p.by \in {"folder", "group"} /\ p.box # "Imbox" => (ids \cap aside) \subseteq misplaced'
      /\ p.by = "keep" => /\ (ids \cap later) \subseteq misplaced'
                         /\ (ids \ In(Filed, "Imbox")) \subseteq misplaced'
  BY <1>3 DEF Misplacing, Overtaken
<1>8. misplaced \subseteq misplaced'
  BY <1>3
<1> HIDE DEF ids
<1>9. Present' = Present
  BY <1>1, <1>4, <1>5 DEF Present, QueueTypes, Boxes
<1>10. folder' \in [Messages -> Places \cup {"absent"}]
  BY <1>1, <1>5 DEF QueueTypes, Places
<1>11. aside' \subseteq Present' /\ later' \subseteq Present'
  BY <1>2, <1>4, <1>5, <1>6, <1>9 DEF QueueTypes
<1>12. QueueTypes'
  BY <1>3, <1>10, <1>11 DEF QueueTypes, ChangeStands
<1>13. ASSUME NEW m \in Messages \ misplaced'
       PROVE  m \notin aside' \cap later' /\ (m \in aside' => folder'[m] = "Imbox")
  <2>1. m \notin aside \cap later /\ (m \in aside => folder[m] = "Imbox")
    BY <1>8 DEF OneQueue
  <2>2. CASE m \notin ids
    BY <2>1, <2>2, <1>1, <1>2, <1>5, <1>6
  <2>3. CASE m \in ids
    <3>1. p.aside = "on" => m \notin later /\ (p.box = "same" => folder[m] = "Imbox")
      <4>1. CASE ~current
        BY <1>7, <1>13, <2>3, <4>1 DEF In
      <4>2. CASE current /\ p.by = "keep"
        BY <1>7, <1>13, <2>3, <4>2 DEF In
      <4>3. CASE current /\ p.by # "keep"
        BY <1>4, <2>3, <4>3 DEF KeepsQueues
      <4> QED
        BY <4>1, <4>2, <4>3
    <3>2. p.later = "on" => m \notin aside
      BY <1>4, <1>7, <1>13, <2>3 DEF KeepsQueues
    <3>3. p.aside = "same" /\ m \in aside => p.box \in {"same", "Imbox"}
      BY <1>7, <1>13, <2>3 DEF UpdatePlan
    <3>4. /\ p.aside = "on" => p.later = "same" /\ p.box \in {"same", "Imbox"}
          /\ folder'[m] = IF p.box = "same" THEN folder[m] ELSE p.box
      BY <1>1, <1>13, <2>3 DEF UpdatePlan
    <3>5. CASE p.aside = "on"
      BY <1>2, <1>6, <2>3, <3>1, <3>4, <3>5
    <3>6. CASE p.aside = "off"
      BY <1>2, <1>6, <2>3, <3>6
    <3>7. CASE p.aside = "same"
      BY <1>2, <1>5, <1>6, <2>1, <2>3, <3>2, <3>3, <3>4, <3>7
    <3> QED
      BY <1>5, <3>5, <3>6, <3>7
  <2> QED
    BY <2>2, <2>3
<1> QED
  BY <1>9, <1>12, <1>13 DEF OneQueue

LEMMA RuleKeepsQueues ==
  ASSUME QueueTypes, OneQueue, NEW p, p.box \in Boxes, p.sender \in Senders, NEW current \in BOOLEAN,
         WriteRule(p, current)
  PROVE  QueueTypes' /\ OneQueue' /\ Present \subseteq Present'
<1> DEFINE mine == {m \in Present \ trashed : SenderOf[m] = p.sender}
<1>1. /\ rule' = [rule EXCEPT ![p.sender] = p.box]
      /\ folder' = [m \in Messages |-> IF m \in mine \ Queued THEN p.box ELSE folder[m]]
      /\ misplaced' = misplaced /\ aside' = aside /\ later' = later
  BY DEF WriteRule
<1>2. change' = [change EXCEPT ![p.sender] =
                  [previous |-> rule[p.sender], messages |-> [m \in mine |-> folder[m]],
                   merges |-> [k \in DOMAIN p.snapshot \cap Standing |-> p.snapshot[k]]]]
  BY DEF WriteRule
<1>3. mine \subseteq Present /\ Present \subseteq Messages
  BY DEF Present
<1> HIDE DEF mine
<1>4. Present' = Present
  BY <1>1, <1>3 DEF Present, QueueTypes, Boxes
<1>5. folder' \in [Messages -> Places \cup {"absent"}] /\ rule' \in [Senders -> Boxes \cup {"none"}]
  BY <1>1 DEF QueueTypes, Places
<1>6. \A m \in mine : folder[m] \in Places
  BY <1>3 DEF Present, QueueTypes
<1> DEFINE c == [previous |-> rule[p.sender], messages |-> [m \in mine |-> folder[m]],
                 merges |-> [k \in DOMAIN p.snapshot \cap Standing |-> p.snapshot[k]]]
<1>7. /\ change' = [change EXCEPT ![p.sender] = c]
      /\ c.previous = rule[p.sender] /\ c.messages = [m \in mine |-> folder[m]]
  BY <1>2
<1> HIDE DEF c
<1>8. ChangeStands(c)
  BY <1>6, <1>7 DEF ChangeStands, QueueTypes
<1>9. QueueTypes'
  <2>1. change' = [s \in Senders |-> change'[s]] /\ \A s \in Senders : change'[s] # None => ChangeStands(change'[s])
    BY <1>7, <1>8 DEF QueueTypes
  <2>2. aside' \subseteq Present' /\ later' \subseteq Present'
    BY <1>1, <1>4 DEF QueueTypes
  <2> QED
    BY <1>5, <2>1, <2>2 DEF QueueTypes, ChangeStands
<1>10. OneQueue'
  BY <1>1 DEF OneQueue, Queued
<1> QED
  BY <1>4, <1>9, <1>10

\* A message that is filed was in no queue before, and joins one of them at most, unless
\* what it answers is in both.
LEMMA FileKeepsQueues ==
  ASSUME QueueTypes, OneQueue, RequestStands(request), ConversationsAssumption, File
  PROVE  QueueTypes' /\ OneQueue' /\ Present \subseteq Present'
<1> DEFINE m == request.m
           box == CASE request.later # "none" -> request.later
                    [] request.later = "none" /\ (request.aside \/ request.failed) -> "Imbox"
                    [] OTHER -> IF rule[SenderOf[m]] = "none" THEN "Screener" ELSE rule[SenderOf[m]]
<1>1. /\ m \in Messages /\ request.aside \in BOOLEAN
      /\ request.later \in Boxes \cup {"none", "Screener"}
  BY DEF File, RequestStands
<1>2. /\ folder[m] = "absent" /\ folder' = [folder EXCEPT ![m] = box]
      /\ aside' = IF request.aside THEN aside \cup {m} ELSE aside
      /\ later' = IF request.later # "none" THEN later \cup {m} ELSE later
      /\ UNCHANGED <<rule, change>>
  BY DEF File, Store
<1>3. /\ misplaced \subseteq misplaced'
      /\ m \notin misplaced' /\ request.aside /\ request.later # "none" =>
           /\ LinkedAside(m) /\ request.later \in LinkedLater(m)
           /\ ~(Cardinality(Answered(m) \cap Queued) > 1)
           /\ Answered(m) \cap misplaced = {}
  BY DEF File
<1>4. rule[SenderOf[m]] \in Boxes \cup {"none"}
  BY <1>1 DEF QueueTypes, ConversationsAssumption
<1>5. /\ box \in Places
      /\ request.later = "none" /\ request.aside => box = "Imbox"
  BY <1>1, <1>4 DEF Places, Boxes
<1>6. request.later # "none" => box = request.later
  OBVIOUS
<1> HIDE DEF m, box
<1>7. Present' = Present \cup {m} /\ m \notin Present
  BY <1>1, <1>2, <1>5 DEF Present, QueueTypes, Places, Boxes
<1>8. QueueTypes'
  BY <1>1, <1>2, <1>5, <1>7 DEF QueueTypes, ChangeStands
<1>9. m \notin aside /\ m \notin later
  BY <1>7 DEF QueueTypes
<1>10. ASSUME request.aside, request.later # "none", m \notin misplaced'
       PROVE  FALSE
  <2>1. PICK r \in Answered(m) : r \in aside
    BY <1>3, <1>10 DEF LinkedAside
  <2>2. PICK q \in Answered(m) : q \in later
    <3>1. LinkedLater(m) # {"none"}
      BY <1>3, <1>10
    <3> QED
      BY <3>1 DEF LinkedLater
  <2>3. r \in Messages /\ q \in Messages /\ r \notin misplaced
    BY <1>3, <1>10, <2>1, <2>2 DEF Answered
  <2>4. r # q
    BY <2>1, <2>2, <2>3 DEF OneQueue
  <2>5. {r, q} \in SUBSET (Answered(m) \cap Queued) /\ Answered(m) \cap Queued \in SUBSET Messages
    BY <2>1, <2>2 DEF Answered, Queued
  <2>6. IsFiniteSet(Answered(m) \cap Queued)
    BY <2>5, FS_Subset DEF ConversationsAssumption
  <2>7. Cardinality({r, q}) <= Cardinality(Answered(m) \cap Queued)
    BY <2>5, <2>6, FS_Subset
  <2>8. Cardinality({r, q}) = 2
    <3>1. IsFiniteSet({r}) /\ Cardinality({r}) = 1
      BY FS_Singleton
    <3>2. Cardinality({r} \cup {q}) = Cardinality({r}) + 1
      BY <2>4, <3>1, FS_AddElement
    <3>3. {r} \cup {q} = {r, q}
      OBVIOUS
    <3> QED
      BY <3>1, <3>2, <3>3
  <2>9. Cardinality(Answered(m) \cap Queued) \in Nat
    BY <2>6, FS_CardinalityType
  <2> QED
    BY <1>3, <1>10, <2>7, <2>8, <2>9
<1>11. ASSUME NEW n \in Messages \ misplaced'
       PROVE  n \notin aside' \cap later' /\ (n \in aside' => folder'[n] = "Imbox")
  <2>1. CASE n = m
    <3>1. CASE request.aside
      BY <1>1, <1>2, <1>5, <1>9, <1>10, <1>11, <2>1, <3>1 DEF QueueTypes
    <3>2. CASE ~request.aside
      BY <1>2, <1>9, <2>1, <3>2
    <3> QED
      BY <3>1, <3>2
  <2>2. CASE n # m
    BY <1>2, <1>3, <2>2 DEF OneQueue, QueueTypes
  <2> QED
    BY <2>1, <2>2
<1> QED
  BY <1>7, <1>8, <1>11 DEF OneQueue

LEMMA FileReplyKeepsQueues ==
  ASSUME QueueTypes, OneQueue, RequestStands(request), FileReply
  PROVE  QueueTypes' /\ OneQueue' /\ Present \subseteq Present'
<1>1. /\ folder[request.m] = "absent" /\ folder' = [folder EXCEPT ![request.m] = request.box]
      /\ request.box \in Boxes /\ UNCHANGED <<rule, change, aside, later, misplaced>>
  BY DEF FileReply, Store, RequestStands
<1>2. \A n \in Present : folder'[n] = folder[n] /\ n \in Present'
  BY <1>1 DEF Present, QueueTypes
<1>3. folder' \in [Messages -> Places \cup {"absent"}]
  BY <1>1 DEF QueueTypes, Places
<1>4. QueueTypes'
  BY <1>1, <1>2, <1>3 DEF QueueTypes, ChangeStands
<1>5. OneQueue'
  BY <1>1, <1>2 DEF OneQueue, QueueTypes
<1> QED
  BY <1>2, <1>4, <1>5

\* Undoing a change of rule leaves the queues as they are.
LEMMA UndoKeepsQueues ==
  ASSUME QueueTypes, OneQueue, NEW s \in Senders, Undo(s)
  PROVE  QueueTypes' /\ OneQueue' /\ Present \subseteq Present'
<1> DEFINE made == change[s]
           back == {m \in Present : SenderOf[m] = s} \ Queued
<1>1. made # None /\ ChangeStands(made)
  BY DEF Undo, QueueTypes
<1>2. folder' = [m \in Messages |->
                   IF m \notin back THEN folder[m]
                   ELSE IF m \in DOMAIN made.messages THEN made.messages[m]
                   ELSE IF made.previous = "none" THEN "Screener" ELSE made.previous]
  BY DEF Undo
<1>3. /\ rule' = [rule EXCEPT ![s] = made.previous] /\ change' = [change EXCEPT ![s] = None]
      /\ misplaced \subseteq misplaced' /\ aside' = aside /\ later' = later
  BY DEF Undo
<1>4. back \subseteq Present \ Queued /\ Present \subseteq Messages
  BY DEF Present
<1> HIDE DEF made, back
<1>5. \A m \in back : folder'[m] \in Places
  BY <1>1, <1>2, <1>4 DEF ChangeStands, Places
<1>6. folder' \in [Messages -> Places \cup {"absent"}]
  BY <1>2, <1>5 DEF QueueTypes
<1>7. Present' = Present
  BY <1>2, <1>4, <1>5 DEF Present, QueueTypes, Places, Boxes
<1>8. rule' \in [Senders -> Boxes \cup {"none"}]
  BY <1>1, <1>3 DEF QueueTypes, ChangeStands
<1>9. QueueTypes'
  BY <1>3, <1>6, <1>7, <1>8 DEF QueueTypes, ChangeStands
<1>10. OneQueue'
  BY <1>2, <1>3, <1>4 DEF OneQueue, Queued
<1> QED
  BY <1>7, <1>9, <1>10

LEMMA WritePlanKeeps ==
  ASSUME QueueTypes, OneQueue, ConversationsAssumption, NEW p, RequestStands(p),
         p.kind \in {"update", "merge", "split", "rule"}, NEW current \in BOOLEAN,
         current /\ p.kind = "update" => KeepsQueues(p), WritePlan(p, current)
  PROVE  QueueTypes' /\ OneQueue' /\ Present \subseteq Present'
<1>1. CASE p.kind = "update"
  BY <1>1, UpdateKeepsQueues DEF WritePlan, RequestStands
<1>2. CASE p.kind \in {"merge", "split"}
  <2>1. UNCHANGED <<folder, aside, later, rule, change>> /\ misplaced \subseteq misplaced'
    BY <1>2 DEF WritePlan, WriteMerge, WriteSplit
  <2> QED
    BY <2>1 DEF QueueTypes, OneQueue, Present, ChangeStands
<1>3. CASE p.kind = "rule"
  BY <1>3, RuleKeepsQueues DEF WritePlan, RequestStands
<1> QED
  BY <1>1, <1>2, <1>3

LEMMA QueueStep ==
  ASSUME QueueInvariant, ConversationsAssumption, [ConvNext]_convVars
  PROVE  QueueInvariant'
<1>0. QueueTypes /\ OneQueue /\ RequestStands(request)
  BY DEF QueueInvariant
<1> USE DEF None
<1>1. CASE UNCHANGED convVars
  BY <1>0, <1>1 DEF convVars, QueueInvariant, QueueTypes, OneQueue, Present, ChangeStands,
                    RequestStands, UpdatePlan
<1>2. ASSUME UNCHANGED <<folder, aside, later, rule, change, misplaced>>, RequestStands(request')
      PROVE  QueueInvariant'
  <2>1. QueueTypes' /\ OneQueue' /\ Present' = Present
    BY <1>0, <1>2 DEF QueueTypes, OneQueue, Present, ChangeStands
  <2> QED
    BY <1>2, <2>1, RequestKept DEF QueueInvariant
<1>3. CASE Arrive
  <2>1. PICK m \in Messages \ (Present \cup Sent) :
          request' \in {[kind |-> "arrive", m |-> m, aside |-> ~failed /\ LinkedAside(m), failed |-> failed] :
                          failed \in IF Refs[m] = {} THEN {FALSE} ELSE BOOLEAN}
    BY <1>3, Zenon DEF Arrive, Ask
  <2>2. PICK failed \in BOOLEAN :
          request' = [kind |-> "arrive", m |-> m, aside |-> ~failed /\ LinkedAside(m), failed |-> failed]
    BY <2>1
  <2>3. (~failed /\ LinkedAside(m)) \in BOOLEAN
    BY DEF LinkedAside
  <2>4. RequestStands(request')
    BY <2>2, <2>3 DEF RequestStands
  <2> QED
    BY <1>2, <1>3, <2>4 DEF Arrive, Ask
<1>4. CASE LookUpLater
  <2>1. request.kind = "arrive" /\ request.m \in Messages /\ request.aside \in BOOLEAN
    BY <1>0, <1>4 DEF LookUpLater, RequestStands
  <2>2. PICK failed \in BOOLEAN, box \in LinkedLater(request.m) :
          request' = [kind |-> "file", m |-> request.m, aside |-> request.aside,
                      later |-> box, failed |-> failed \/ request.failed]
    BY <1>4 DEF LookUpLater
  <2>3. box \in Boxes \cup {"none", "Screener"}
    <3>1. \A r \in later : folder[r] \in Places
      BY <1>0 DEF QueueTypes, Present
    <3>2. box \in {"none"} \cup {folder[r] : r \in Answered(request.m) \cap later}
      BY <2>2 DEF LinkedLater
    <3> QED
      BY <3>1, <3>2 DEF Places
  <2>4. RequestStands(request')
    BY <2>1, <2>2, <2>3 DEF RequestStands
  <2> QED
    BY <1>2, <1>4, <2>4 DEF LookUpLater
<1>5. CASE File
  <2>1. request' = None
    BY <1>5 DEF File
  <2> QED
    BY <1>0, <1>5, <2>1, FileKeepsQueues DEF QueueInvariant, RequestStands
<1>6. CASE SendReply
  <2>1. PICK m \in Sent \ Present : request' \in {[kind |-> "send", m |-> m, box |-> folder[r]] : r \in Live \cap Refs[m]}
    BY <1>6 DEF SendReply, Ask
  <2>2. PICK r \in Live : request' = [kind |-> "send", m |-> m, box |-> folder[r]]
    BY <2>1
  <2>3. folder[r] \in Boxes
    BY DEF Live, Filed
  <2>4. RequestStands(request')
    BY <2>2, <2>3 DEF RequestStands
  <2> QED
    BY <1>2, <1>6, <2>4 DEF SendReply, Ask
<1>7. CASE FileReply
  <2>1. request'.kind = "keep"
    BY <1>7 DEF FileReply
  <2> QED
    BY <1>0, <1>7, <2>1, FileReplyKeepsQueues DEF QueueInvariant, RequestStands
<1>8. CASE Follow
  <2>1. request' \in KeepPlans(request.m) \cup ClearPlans(request.m)
        \/ request'.kind \in {"none", "clear"}
    BY <1>8 DEF Follow
  <2>2. RequestStands(request')
    BY <1>0, <2>1, SentPlansKeep DEF RequestStands
  <2> QED
    BY <1>2, <1>8, <2>2 DEF Follow
<1>9. CASE Fails
  <2>1. request'.kind \in {"none", "clear"}
    BY <1>0, <1>9 DEF Fails, RequestStands, UpdatePlan
  <2>2. RequestStands(request')
    BY <2>1 DEF RequestStands
  <2> QED
    BY <1>2, <1>9, <2>2 DEF Fails
<1>10. CASE Quick(AllPlans)
  <2>1. PICK p \in AllPlans : WritePlan(p, TRUE)
    BY <1>10 DEF Quick
  <2>2. QueueTypes' /\ OneQueue' /\ Present \subseteq Present'
    BY <1>0, <2>1, PlansKeep, WritePlanKeeps
  <2> QED
    BY <1>0, <1>10, <2>2, RequestKept DEF Quick, QueueInvariant
<1>11. CASE Ask(AllPlans)
  <2>1. RequestStands(request')
    BY <1>0, <1>11, PlansKeep DEF Ask
  <2> QED
    BY <1>2, <1>11, <2>1 DEF Ask
<1>12. CASE Write(AllPlans)
  <2> DEFINE current == request \in AllPlans \cup AfterSending
  <2>1. /\ WritePlan(request, current) /\ current \in BOOLEAN
        /\ request.kind \in {"update", "merge", "split", "rule"}
    BY <1>12 DEF Write
  <2>2. current /\ request.kind = "update" => KeepsQueues(request)
    BY <1>0, PlansKeep
  <2> HIDE DEF current
  <2>3. QueueTypes' /\ OneQueue' /\ Present \subseteq Present'
    BY <1>0, <2>1, <2>2, WritePlanKeeps
  <2>4. request'.kind \in {"none", "clear"}
    BY <1>0, <1>12 DEF Write, RequestStands, UpdatePlan
  <2> QED
    BY <2>3, <2>4 DEF QueueInvariant, RequestStands
<1>13. ASSUME NEW m \in Messages, Restore(m)
       PROVE  QueueInvariant'
  <2>1. UNCHANGED <<folder, aside, later, rule, change, request>> /\ misplaced \subseteq misplaced'
    BY <1>13 DEF Restore
  <2> QED
    BY <1>0, <2>1 DEF QueueInvariant, QueueTypes, OneQueue, Present, ChangeStands, RequestStands, UpdatePlan
<1>14. ASSUME NEW s \in Senders, Undo(s)
       PROVE  QueueInvariant'
  BY <1>0, <1>14, UndoKeepsQueues, RequestKept DEF Undo, QueueInvariant
<1>15. ASSUME NEW s \in Senders, Expire(s)
       PROVE  QueueInvariant'
  <2>1. /\ UNCHANGED <<folder, aside, later, rule, request, misplaced>>
        /\ change' = [change EXCEPT ![s] = None]
    BY <1>15 DEF Expire
  <2> QED
    BY <1>0, <2>1 DEF QueueInvariant, QueueTypes, OneQueue, Present, ChangeStands, RequestStands, UpdatePlan
<1> QED
  BY <1>1, <1>3, <1>4, <1>5, <1>6, <1>7, <1>8, <1>9, <1>10, <1>11, <1>12, <1>13, <1>14, <1>15
  DEF ConvNext

\* No message gets into both queues, and none into Set Aside outside the Imbox, for any
\* number of messages, senders and merges, except what `misplaced` names: messages that a
\* request about one queue writes after another request has put them in the other or taken
\* them out of the Imbox, a message or a group moved with its flag, and replies that join
\* two conversations.  The handlers read the queues and then write without asking again.
THEOREM OneQueueHolds == ConvSpec => []OneQueue
<1>1. ConvInit => QueueInvariant
  BY DEF ConvInit, QueueInvariant, QueueTypes, OneQueue, RequestStands, Places, Boxes, None
<1>2. QueueInvariant /\ [ConvNext]_convVars => QueueInvariant'
  BY ConversationsAssumption, QueueStep
<1>3. QueueInvariant => OneQueue
  BY DEF QueueInvariant
<1> QED
  BY <1>1, <1>2, <1>3, PTL DEF ConvSpec

-------------------------------------------------------------------------------
(* The links of conversations (Conversations): what Component collects.         *)

\* A set that holds 0, and with a number the next one up to n, holds all of them.
LEMMA CountsUp ==
  ASSUME NEW n \in Nat, NEW S, 0 \in S, \A i \in 0..n : i \in S /\ i < n => i + 1 \in S
  PROVE  0..n \subseteq S
<1> DEFINE T == {i \in 0..n : i \notin S}
<1> SUFFICES ASSUME T # {} PROVE FALSE
  OBVIOUS
<1>1. IsWellFoundedOn(OpToRel(<, Nat), Nat)
  BY NatLessThanWellFounded
<1>2. T \subseteq Nat
  OBVIOUS
<1>3. \E i \in T : \A j \in T : <<j, i>> \notin OpToRel(<, Nat)
  <2> HIDE DEF T
  <2> QED
    BY <1>1, <1>2, WFMin
<1>4. PICK i \in T : \A j \in T : <<j, i>> \notin OpToRel(<, Nat)
  BY <1>3
<1>5. i # 0 /\ i - 1 \in 0..n /\ i - 1 < i
  OBVIOUS
<1>6. <<i - 1, i>> \in OpToRel(<, Nat)
  BY <1>5, i \in Nat, i - 1 \in Nat DEF OpToRel
<1>7. i - 1 \in S
  BY <1>4, <1>5, <1>6
<1>8. (i - 1) + 1 = i /\ i - 1 < n
  BY i \in 0..n, n \in Nat
<1>9. i \in S
  BY <1>5, <1>7, <1>8
<1> QED
  BY <1>9

\* What is counted off from the ids, by one round of links at a time.
Rounds(links, ids, n, g) ==
    /\ n = Cardinality(links) /\ g[0] = ids /\ g[n] = Component(links, ids)
    /\ \A k \in 1..n : g[k] = Grown(links, g[k - 1])

\* Component is counted off in such rounds.
LEMMA RoundsKnown ==
  ASSUME NEW links, IsFiniteSet(links), NEW ids
  PROVE  \E n \in Nat : \E g : Rounds(links, ids, n, g)
<1> DEFINE n == Cardinality(links)
           Round(f, k) == IF k = 0 THEN ids ELSE Grown(links, f[k - 1])
           Run(f, m) == f = [k \in 0..m |-> Round(f, k)]
           grown[k \in 0..n] == IF k = 0 THEN ids ELSE Grown(links, grown[k - 1])
<1>0. n \in Nat
  BY FS_CardinalityType
<1>4. Component(links, ids) = grown[n]
  BY DEF Component
<1> HIDE DEF n
<1>1. \E f : Run(f, n)
  <2> DEFINE S == {m \in 0..n : \E f : Run(f, m)}
  <2>1. 0 \in S
    <3> DEFINE g == [k \in 0..0 |-> ids]
    <3>1. g = [k \in 0..0 |-> Round(g, k)]
      BY \A k \in 0..0 : k = 0
    <3>2. Run(g, 0)
      BY <3>1
    <3> HIDE DEF Run, g
    <3>3. 0 \in 0..n
      BY <1>0
    <3> QED
      BY <3>2, <3>3
  <2>2. ASSUME NEW m \in 0..n, m \in S, m < n PROVE m + 1 \in S
    <3>1. PICK f : Run(f, m)
      BY <2>2
    <3> DEFINE g == [k \in 0..(m + 1) |-> IF k = m + 1 THEN Grown(links, f[m]) ELSE f[k]]
    <3>2. ASSUME NEW k \in 0..(m + 1) PROVE g[k] = Round(g, k)
      <4>1. CASE k = m + 1
        <5>1. k - 1 = m /\ k - 1 \in 0..(m + 1) /\ k # 0
          BY <4>1
        <5>2. g[m] = f[m]
          OBVIOUS
        <5>3. g[k] = Grown(links, f[m])
          BY <4>1
        <5> HIDE DEF g
        <5> QED
          BY <4>1, <5>1, <5>2, <5>3
      <4>2. CASE k # m + 1
        <5>1. k \in 0..m
          BY <4>2
        <5>2. g[k] = f[k] /\ (k # 0 => g[k - 1] = f[k - 1])
          BY <4>2
        <5>3. f[k] = Round(f, k)
          BY <3>1, <5>1
        <5> HIDE DEF g
        <5> QED
          BY <5>2, <5>3
      <4> QED
        BY <4>1, <4>2
    <3>3. Run(g, m + 1)
      <4>1. g = [k \in 0..(m + 1) |-> g[k]]
        OBVIOUS
      <4> HIDE DEF g
      <4> QED
        BY <3>2, <4>1
    <3>4. m + 1 \in 0..n
      BY <1>0, <2>2
    <3> QED
      BY <3>3, <3>4
  <2>3. 0..n \subseteq S
    <3> HIDE DEF S
    <3> QED
      BY <1>0, <2>1, <2>2, CountsUp
  <2>4. n \in S
    <3> HIDE DEF S
    <3> QED
      BY <1>0, <2>3
  <2> QED
    BY <2>4
<1>2. grown = [k \in 0..n |-> IF k = 0 THEN ids ELSE Grown(links, grown[k - 1])]
  BY <1>1
<1>3. grown[0] = ids /\ \A k \in 1..n : grown[k] = Grown(links, grown[k - 1])
  <2> HIDE DEF grown
  <2> QED
    BY <1>0, <1>2
<1> HIDE DEF grown
<1> QED
  BY <1>0, <1>3, <1>4 DEF n, Rounds

\* No link leads out of a set.
Shut(links, c) == \A l \in links : l \cap c # {} => l \subseteq c

\* Component collects the least set around the ids that no link leads out of: every round
\* that does not meet a link for the first time is the last.
LEMMA ComponentKnown ==
  ASSUME NEW links, IsFiniteSet(links), NEW ids
  PROVE  /\ ids \subseteq Component(links, ids)
         /\ Shut(links, Component(links, ids))
         /\ \A c : ids \subseteq c /\ Shut(links, c) => Component(links, ids) \subseteq c
<1>0. PICK n \in Nat : \E g : Rounds(links, ids, n, g)
  BY RoundsKnown
<1> PICK g : Rounds(links, ids, n, g)
  BY <1>0
<1>1. /\ n = Cardinality(links) /\ g[0] = ids /\ g[n] = Component(links, ids)
      /\ \A k \in 1..n : g[k] = Grown(links, g[k - 1])
  BY DEF Rounds
<1>2. \A k \in 0..n : k < n => g[k + 1] = Grown(links, g[k])
  <2> TAKE k \in 0..n
  <2>1. k < n => k + 1 \in 1..n /\ (k + 1) - 1 = k
    OBVIOUS
  <2> QED
    BY <1>1, <2>1
<1>3. 0..n \subseteq {k \in 0..n : ids \subseteq g[k]}
  <2> DEFINE S == {k \in 0..n : ids \subseteq g[k]}
  <2>1. 0 \in S
    BY <1>1
  <2>2. ASSUME NEW k \in 0..n, k \in S, k < n PROVE k + 1 \in S
    BY <1>2, <2>2 DEF Grown
  <2> HIDE DEF S
  <2>3. 0..n \subseteq S
    BY <2>1, <2>2, CountsUp
  <2> QED
    BY <2>3 DEF S
<1>4. ASSUME NEW c, ids \subseteq c, Shut(links, c)
      PROVE  Component(links, ids) \subseteq c
  <2> DEFINE S == {k \in 0..n : g[k] \subseteq c}
  <2>1. 0 \in S
    BY <1>1, <1>4
  <2>2. ASSUME NEW k \in 0..n, k \in S, k < n PROVE k + 1 \in S
    <3>1. Grown(links, g[k]) \subseteq c
      BY <1>4, <2>2 DEF Grown, Shut
    <3> QED
      BY <1>2, <2>2, <3>1
  <2> HIDE DEF S
  <2>3. 0..n \subseteq S
    BY <2>1, <2>2, CountsUp
  <2> QED
    BY <1>1, <2>3 DEF S
<1> DEFINE Met(k) == {l \in links : l \cap g[k] # {}}
<1>5. \A k \in 0..n : IsFiniteSet(Met(k)) /\ Cardinality(Met(k)) \in Nat
  BY FS_Subset, FS_CardinalityType
<1>6. 0..n \subseteq {k \in 0..n : Shut(links, g[k]) \/ Cardinality(Met(k)) > k}
  <2> DEFINE S == {k \in 0..n : Shut(links, g[k]) \/ Cardinality(Met(k)) > k}
  <2>1. 0 \in S
    <3>1. CASE Met(0) = {}
      BY <3>1 DEF Shut
    <3>2. CASE Met(0) # {}
      <4>1. Cardinality(Met(0)) # 0
        BY <1>5, <3>2, FS_EmptySet
      <4> QED
        BY <1>5, <4>1
    <3> QED
      BY <3>1, <3>2
  <2>2. ASSUME NEW k \in 0..n, k \in S, k < n PROVE k + 1 \in S
    <3>1. g[k + 1] = g[k] \cup UNION Met(k) /\ k + 1 \in 0..n
      BY <1>2, <2>2 DEF Grown
    <3>2. CASE Shut(links, g[k])
      <4>1. g[k + 1] = g[k]
        BY <3>1, <3>2 DEF Shut
      <4> QED
        BY <3>1, <3>2, <4>1
    <3>3. CASE ~Shut(links, g[k])
      <4>1. Cardinality(Met(k)) > k
        BY <2>2, <3>3
      <4>2. Met(k) \subseteq Met(k + 1)
        BY <3>1
      <4>3. CASE Met(k) = Met(k + 1)
        <5>1. Shut(links, g[k + 1])
          BY <3>1, <4>3 DEF Shut
        <5> QED
          BY <3>1, <5>1
      <4>4. CASE Met(k) # Met(k + 1)
        <5>1. /\ Cardinality(Met(k)) <= Cardinality(Met(k + 1))
              /\ Cardinality(Met(k)) # Cardinality(Met(k + 1))
          BY <1>5, <3>1, <4>2, <4>4, FS_Subset
        <5>2. Cardinality(Met(k)) \in Nat /\ Cardinality(Met(k + 1)) \in Nat
          BY <1>5, <3>1
        <5> HIDE DEF Met
        <5>3. Cardinality(Met(k + 1)) > k + 1
          BY <4>1, <5>1, <5>2, k \in 0..n
        <5> QED
          BY <3>1, <5>3
      <4> QED
        BY <4>3, <4>4
    <3> QED
      BY <3>2, <3>3
  <2> HIDE DEF S
  <2>3. 0..n \subseteq S
    BY <2>1, <2>2, CountsUp
  <2> QED
    BY <2>3 DEF S
<1>7. Shut(links, g[n])
  <2>1. n \in 0..n /\ Cardinality(Met(n)) <= n
    BY <1>1, FS_Subset
  <2>2. Shut(links, g[n]) \/ Cardinality(Met(n)) > n
    BY <1>6, <2>1
  <2>3. Cardinality(Met(n)) \in Nat
    BY <1>5, <2>1
  <2> HIDE DEF Met
  <2> QED
    BY <1>1, <2>1, <2>2, <2>3
<1> QED
  BY <1>1, <1>3, <1>4, <1>7

\* What tells a row of its merge: from its Message-ID links lead to what names a thread.
TiedTo(rows, names, m) == Component(Headers(rows), {m}) \cap names # {}

LEMMA LinksAreFinite ==
  ASSUME ConversationsAssumption, NEW rows \in SUBSET Messages, NEW ms \in SUBSET Merges
  PROVE  IsFiniteSet(Headers(rows)) /\ IsFiniteSet({merge[k].roots : k \in ms})
<1> DEFINE header == [m \in rows |-> {m} \cup Refs[m]]
           name == [k \in ms |-> merge[k].roots]
<1>1. IsFiniteSet(rows) /\ IsFiniteSet(ms)
  BY FS_Subset DEF ConversationsAssumption
<1>2. header \in Surjection(rows, Headers(rows))
  BY DEF Surjection, Headers
<1>3. name \in Surjection(ms, {merge[k].roots : k \in ms})
  BY DEF Surjection
<1> HIDE DEF header, name
<1> QED
  BY <1>1, <1>2, <1>3, FS_Surjection

\* A set that holds a message and out of which no header and no merge of its box leads.
Bounds(rows, m, c) ==
    /\ m \in c /\ Shut(Headers(In(rows, folder[m])), c)
    /\ \A k \in Standing : merge[k].box = folder[m] /\ merge[k].roots \cap c # {} =>
         merge[k].roots \subseteq c

\* A conversation is the least such set.
LEMMA ConversationKnown ==
  ASSUME ConversationsAssumption, NEW rows \in SUBSET Messages, NEW m
  PROVE  /\ Bounds(rows, m, Conversation(rows, m))
         /\ \A d : Bounds(rows, m, d) => Conversation(rows, m) \subseteq d
<1>0. PICK c : c = Conversation(rows, m)
  OBVIOUS
<1> DEFINE ms == {k \in Standing : merge[k].box = folder[m]}
           names == {merge[k].roots : k \in ms}
           headers == Headers(In(rows, folder[m]))
<1>1. c = Component(headers \cup names, {m})
  BY <1>0 DEF Conversation
<1>2. IsFiniteSet(headers \cup names)
  <2>1. In(rows, folder[m]) \in SUBSET Messages /\ ms \in SUBSET Merges
    BY DEF In, Standing
  <2>2. IsFiniteSet(headers) /\ IsFiniteSet(names)
    BY <2>1, LinksAreFinite
  <2> HIDE DEF headers, names
  <2> QED
    BY <2>2, FS_Union
<1>3. \A d : Shut(headers \cup names, d) <=>
        /\ Shut(headers, d)
        /\ \A k \in Standing : merge[k].box = folder[m] /\ merge[k].roots \cap d # {} =>
             merge[k].roots \subseteq d
  BY DEF Shut
<1>4. {m} \subseteq c /\ Shut(headers \cup names, c)
  <2> HIDE DEF headers, names
  <2> QED
    BY <1>1, <1>2, ComponentKnown
<1>5. \A d : m \in d /\ Shut(headers \cup names, d) => c \subseteq d
  <2> HIDE DEF headers, names
  <2> TAKE d
  <2>1. m \in d => {m} \subseteq d
    OBVIOUS
  <2> QED
    BY <1>1, <1>2, <2>1, ComponentKnown
<1> QED
  BY <1>0, <1>3, <1>4, <1>5 DEF Bounds

\* Links lead back: a row that is tied to names in a set no link leads out of is in it.
LEMMA TiedReaches ==
  ASSUME ConversationsAssumption, NEW rows \in SUBSET Messages, NEW c, Shut(Headers(rows), c),
         NEW names \in SUBSET c, NEW y, TiedTo(rows, names, y)
  PROVE  y \in c
<1> SUFFICES ASSUME y \notin c PROVE FALSE
  OBVIOUS
<1>1. PICK k : k = Component(Headers(rows), {y})
  OBVIOUS
<1>2. IsFiniteSet(Headers(rows))
  BY LinksAreFinite
<1>3. /\ {y} \subseteq k /\ Shut(Headers(rows), k)
      /\ \A d : {y} \subseteq d /\ Shut(Headers(rows), d) => k \subseteq d
  BY <1>1, <1>2, ComponentKnown
<1>4. Shut(Headers(rows), k \ c)
  BY <1>3 DEF Shut
<1>5. k \subseteq k \ c
  BY <1>3, <1>4
<1> QED
  BY <1>1, <1>5 DEF TiedTo

\* A row of a merge that is tied to its names is found to be merged.
LEMMA TiedIsMerged ==
  ASSUME ConversationsAssumption, NEW rows \in SUBSET Messages, NEW k \in Standing, NEW x,
         NEW some \in SUBSET In(rows, folder[x]), merge[k].box = folder[x],
         TiedTo(some, merge[k].roots, x)
  PROVE  k \in MergesOf(rows, x)
<1>1. PICK c : c = Conversation(rows, x)
  OBVIOUS
<1>2. x \in c /\ Shut(Headers(In(rows, folder[x])), c)
  BY <1>1, ConversationKnown DEF Bounds
<1>3. Shut(Headers(some), c)
  BY <1>2 DEF Shut, Headers
<1>4. some \in SUBSET Messages
  BY DEF In
<1>5. Component(Headers(some), {x}) \subseteq c
  <2>1. IsFiniteSet(Headers(some))
    BY <1>4, LinksAreFinite
  <2>2. {x} \subseteq c
    BY <1>2
  <2> QED
    BY <1>3, <2>1, <2>2, ComponentKnown
<1> QED
  BY <1>1, <1>5 DEF MergesOf, TiedTo

\* The rows of a merge that are tied to its names are all in the thread of which it is one.
LEMMA TiedAreTogether ==
  ASSUME ConversationsAssumption, NEW rows \in SUBSET Messages, NEW m, NEW k \in MergesOf(rows, m),
         NEW some \in SUBSET In(rows, folder[m]), NEW y \in some, TiedTo(some, merge[k].roots, y)
  PROVE  y \in Thread(rows, m)
<1>1. PICK c : c = Conversation(rows, m)
  OBVIOUS
<1>2. /\ Shut(Headers(In(rows, folder[m])), c)
      /\ \A j \in Standing : merge[j].box = folder[m] /\ merge[j].roots \cap c # {} =>
           merge[j].roots \subseteq c
  BY <1>1, ConversationKnown DEF Bounds
<1>3. merge[k].roots \in SUBSET c
  BY <1>1, <1>2 DEF MergesOf
<1>4. some \in SUBSET Messages /\ Shut(Headers(some), c)
  BY <1>2 DEF In, Shut, Headers
<1>5. y \in c
  BY <1>3, <1>4, TiedReaches
<1> QED
  BY <1>1, <1>5 DEF Thread

\* What is in a thread has its thread and its merges in it.
LEMMA ThreadsAgree ==
  ASSUME ConversationsAssumption, NEW rows \in SUBSET Messages, NEW m, NEW x \in Thread(rows, m)
  PROVE  Thread(rows, x) \subseteq Thread(rows, m) /\ MergesOf(rows, x) \subseteq MergesOf(rows, m)
<1>1. PICK c, d : c = Conversation(rows, m) /\ d = Conversation(rows, x)
  OBVIOUS
<1>2. folder[x] = folder[m] /\ x \in c
  BY <1>1 DEF Thread, In
<1>3. d \subseteq c
  <2>1. Bounds(rows, m, c)
    BY <1>1, ConversationKnown
  <2>2. Bounds(rows, x, c)
    BY <1>2, <2>1 DEF Bounds
  <2> QED
    BY <1>1, <2>2, ConversationKnown
<1> QED
  BY <1>1, <1>2, <1>3 DEF Thread, MergesOf

\* What a merge holds while it stands: its rows are filed, those outside the bin in its box,
\* and each is tied to its names.
MergeStands(k) ==
    /\ merge[k].parts # {} /\ merge[k].parts \subseteq Filed /\ merge[k].box \in Boxes
    /\ \A m \in merge[k].parts :
         /\ TiedTo(merge[k].parts, merge[k].roots, m)
         /\ m \notin trashed => folder[m] = merge[k].box

\* The links of a row to the names of its merge do not go through the bin.
BinLinksNothing ==
    \A k \in Standing : \A m \in merge[k].parts \ trashed :
        TiedTo(merge[k].parts, merge[k].roots, m)
          => TiedTo(merge[k].parts \ trashed, merge[k].roots, m)

MergesStand == BinLinksNothing /\ \A k \in Standing : MergeStands(k)

\* The rows of a merge that are not in the bin are found in one thread, in the bin or not.
LEMMA PartsAreFound ==
  ASSUME ConversationsAssumption, MergesStand, NEW rows \in {Live, Filed}, NEW k \in Standing
  PROVE  /\ \A m : k \in MergesOf(rows, m) => merge[k].parts \ trashed \subseteq Thread(rows, m)
         /\ \A m \in merge[k].parts \ trashed : k \in MergesOf(rows, m)
<1> DEFINE some == merge[k].parts \ trashed
<1>1. /\ MergeStands(k) /\ some \subseteq Live
      /\ \A m \in some : TiedTo(some, merge[k].roots, m) /\ folder[m] = merge[k].box
  BY DEF MergesStand, BinLinksNothing, MergeStands, Live
<1>2. rows \in SUBSET Messages /\ Live \subseteq rows
  BY DEF Live, Filed
<1> HIDE DEF some
<1>3. ASSUME NEW m, k \in MergesOf(rows, m)
      PROVE  some \subseteq Thread(rows, m)
  <2>1. merge[k].box = folder[m]
    BY <1>3 DEF MergesOf
  <2>2. some \in SUBSET In(rows, folder[m])
    BY <1>1, <1>2, <2>1 DEF In
  <2> QED
    BY <1>1, <1>2, <1>3, <2>2, TiedAreTogether
<1>4. ASSUME NEW m \in some
      PROVE  k \in MergesOf(rows, m)
  <2>1. merge[k].box = folder[m] /\ TiedTo(some, merge[k].roots, m)
    BY <1>1
  <2>2. some \in SUBSET In(rows, folder[m])
    BY <1>1, <1>2 DEF In
  <2> QED
    BY <1>2, <2>1, <2>2, TiedIsMerged
<1> QED
  BY <1>3, <1>4 DEF some

\* Where a group may be moved as one, the rows of its merges in the bin are in its thread
\* too.
LEMMA GroupIsWhole ==
  ASSUME ConversationsAssumption, NEW m \in Filed, Movable(m), NEW k \in MergesOf(Filed, m), MergeStands(k)
  PROVE  merge[k].parts \subseteq Thread(Filed, m)
<1> DEFINE thread == Thread(Filed, m)
           parts == merge[k].parts
           roots == merge[k].roots
<1>1. /\ roots \subseteq UNION {Roots(Filed, x) : x \in thread}
      /\ \A y \in Filed : Component(Headers(Filed), {y}) \cap thread # {} => folder[y] = folder[m]
  BY DEF Movable
<1>2. Filed \in SUBSET Messages /\ parts \in SUBSET Filed
  BY DEF Filed, MergeStands
<1> HIDE DEF thread
<1>3. ASSUME NEW y \in parts
      PROVE  folder[y] = folder[m]
  <2>1. PICK c : c = Component(Headers(Filed), {y})
    OBVIOUS
  <2>2. IsFiniteSet(Headers(Filed)) /\ IsFiniteSet(Headers(parts))
    BY <1>2, LinksAreFinite
  <2>3. {y} \subseteq c /\ Shut(Headers(Filed), c)
    BY <2>1, <2>2, ComponentKnown
  <2>4. Shut(Headers(parts), c)
    BY <1>2, <2>3 DEF Shut, Headers
  <2>5. Component(Headers(parts), {y}) \subseteq c
    BY <2>2, <2>3, <2>4, ComponentKnown
  <2>6. PICK r \in roots : r \in c
    BY <2>5 DEF MergeStands, TiedTo
  <2>7. PICK x \in thread : r \in Roots(Filed, x)
    BY <1>1
  <2> DEFINE box == In(Filed, folder[x])
  <2>8. box \in SUBSET Messages /\ IsFiniteSet(Headers(box)) /\ Shut(Headers(box), c)
    <3>1. box \in SUBSET Messages /\ Shut(Headers(box), c)
      BY <1>2, <2>3 DEF In, Shut, Headers
    <3> HIDE DEF box
    <3> QED
      BY <3>1, LinksAreFinite
  <2>9. r \in Component(Headers(box), {x})
    <3>1. {x} \subseteq Component(Headers(box), {x})
      BY <2>8, ComponentKnown
    <3> QED
      BY <2>7, <3>1 DEF Roots, Automatic
  <2>10. TiedTo(box, {r}, x)
    BY <2>9 DEF TiedTo
  <2> HIDE DEF box
  <2>11. x \in c
    <3>1. {r} \in SUBSET c
      BY <2>6
    <3> QED
      BY <2>8, <2>10, <3>1, TiedReaches
  <2> QED
    BY <1>1, <1>2, <2>1, <2>11
<1>4. parts \in SUBSET In(Filed, folder[m])
  BY <1>2, <1>3 DEF In
<1>5. ASSUME NEW y \in parts
      PROVE  y \in Thread(Filed, m)
  BY <1>2, <1>4, TiedAreTogether DEF MergeStands
<1> QED
  BY <1>5

-------------------------------------------------------------------------------
(* What is merged is moved as one (Conversations).                              *)

\* A plan moves the rows of a merge and the merge, or neither; one that joins Set Aside
\* writes the Imbox to what is in the Imbox.
MovesWhole(p) ==
    p.box # "same" =>
      \/ p.merges = {} /\ \A m \in p.ids : folder[m] = p.box
      \/ \A k \in Standing :
           /\ k \in p.merges => merge[k].parts \ trashed \subseteq p.ids
           /\ (merge[k].parts \ trashed) \cap p.ids # {} => k \in p.merges

\* What a plan still is when it is written: a group is the whole of its merges, a merge is
\* of some rows, and a rule moves merges that undoing it knows.
PlanFits(p) ==
    /\ p.kind = "update" /\ p.by = "group" =>
         \A k \in p.merges : /\ k \in Merges /\ merge[k].state # "unmade"
                             /\ k \in Standing => merge[k].parts \subseteq p.ids
    /\ p.kind = "merge" => p.parts # {}
    /\ p.kind = "rule" => p.merges \subseteq DOMAIN p.snapshot

LEMMA ThreadMovesWhole ==
  ASSUME ConversationsAssumption, MergesStand, NEW rows \in {Live, Filed}, NEW m,
         NEW p, p.ids = Thread(rows, m), p.merges = MergesOf(rows, m)
  PROVE  MovesWhole(p)
<1>1. rows \in SUBSET Messages
  BY DEF Live, Filed
<1>2. ASSUME NEW k \in Standing, (merge[k].parts \ trashed) \cap p.ids # {}
      PROVE  k \in p.merges
  <2>1. PICK x \in merge[k].parts \ trashed : x \in Thread(rows, m)
    BY <1>2
  <2>2. k \in MergesOf(rows, x)
    BY PartsAreFound
  <2> QED
    BY <1>1, <2>1, <2>2, ThreadsAgree
<1> QED
  BY <1>2, PartsAreFound DEF MovesWhole

LEMMA SetAsideMovesWhole ==
  ASSUME ConversationsAssumption, MergesStand, NEW p \in SetAsidePlans
  PROVE  MovesWhole(p) /\ p.by # "group" /\ p.kind = "update"
<1>1. PICK m \in In(Live, "Imbox") : p \in AsideOf(Thread(Live, m), MergesOf(Live, m))
  BY DEF SetAsidePlans
<1> DEFINE thread == Thread(Live, m)
<1>2. \A x \in thread : folder[x] = "Imbox"
  BY ThreadIsInBox DEF In
<1>3. PICK merges : merges = MergesOf(Live, m)
  OBVIOUS
<1>4. p \in AsideOf(thread, merges)
  BY <1>1, <1>3
<1> HIDE DEF thread
<1>5. /\ p.ids = thread /\ p.by = "aside" /\ p.kind = "update"
      /\ \/ p.merges = {} /\ p.box = "Imbox"
         \/ p.merges = merges
  BY <1>4 DEF AsideOf, Update
<1>6. CASE p.merges = {} /\ p.box = "Imbox"
  BY <1>2, <1>5, <1>6 DEF MovesWhole
<1>7. CASE p.merges = merges
  BY <1>3, <1>5, <1>7, ThreadMovesWhole DEF thread
<1> QED
  BY <1>5, <1>6, <1>7

LEMMA FolderMovesWhole ==
  ASSUME ConversationsAssumption, MergesStand, NEW p \in FolderPlans
  PROVE  MovesWhole(p) /\ p.by # "group" /\ p.kind = "update"
<1>1. ASSUME NEW m, p.ids = {m}, p.merges = {}, \A k \in Standing : m \notin merge[k].parts \ trashed
      PROVE  MovesWhole(p)
  BY <1>1 DEF MovesWhole
<1>2. CASE p \in ScreenedPlans
  <2>1. PICK m \in In(Present \ trashed, "Screener") :
          p \in {[Update("folder", {m}) EXCEPT !.from = "Screener", !.box = b] : b \in Boxes}
    BY <1>2, Zenon DEF ScreenedPlans
  <2>2. p.ids = {m} /\ p.merges = {} /\ p.by = "folder" /\ p.kind = "update"
    BY <2>1 DEF Update
  <2>3. folder[m] = "Screener"
    BY DEF In
  <2>4. \A k \in Standing : m \notin merge[k].parts \ trashed
    BY <2>3 DEF MergesStand, MergeStands, Filed, Boxes
  <2> QED
    BY <1>1, <2>2, <2>4
<1>3. CASE p \in SinglePlans
  <2>1. PICK m \in {x \in Filed \ later : MergesOf(Filed, x) = {}} :
          p \in {[Update("folder", {m}) EXCEPT !.box = b] : b \in Boxes}
    BY <1>3, Zenon DEF SinglePlans
  <2>2. p.ids = {m} /\ p.merges = {} /\ p.by = "folder" /\ p.kind = "update"
    BY <2>1 DEF Update
  <2>3. \A k \in Standing : m \notin merge[k].parts \ trashed
    BY <2>1, PartsAreFound
  <2> QED
    BY <1>1, <2>2, <2>3
<1> QED
  BY <1>2, <1>3 DEF FolderPlans

LEMMA GroupMovesWhole ==
  ASSUME ConversationsAssumption, MergesStand, NEW p \in GroupPlans
  PROVE  MovesWhole(p) /\ PlanFits(p) /\ p.kind = "update" /\ p.from # "Screener"
<1>1. PICK m \in {x \in Filed : Movable(x)} :
        p \in {[Update("group", Thread(Filed, m)) EXCEPT !.from = folder[m], !.box = b,
                  !.merges = MergesOf(Filed, m)] : b \in Boxes}
  BY Zenon DEF GroupPlans
<1>2. /\ p.ids = Thread(Filed, m) /\ p.merges = MergesOf(Filed, m)
      /\ p.from = folder[m] /\ p.kind = "update"
  BY <1>1 DEF Update
<1>3. folder[m] # "Screener"
  BY DEF Filed, Boxes
<1>4. ASSUME NEW k \in p.merges
      PROVE  k \in Merges /\ merge[k].state # "unmade" /\ merge[k].parts \subseteq p.ids
  <2>1. k \in MergesOf(Filed, m) /\ k \in Standing
    BY <1>2 DEF MergesOf
  <2>2. MergeStands(k)
    BY <2>1 DEF MergesStand
  <2>3. merge[k].parts \subseteq Thread(Filed, m)
    BY <1>1, <2>1, <2>2, GroupIsWhole
  <2> QED
    BY <1>2, <2>1, <2>3 DEF Standing
<1> QED
  BY <1>2, <1>3, <1>4, ThreadMovesWhole DEF PlanFits

LEMMA BulkMovesWhole ==
  ASSUME ConversationsAssumption, MergesStand, NEW p \in BulkPlans
  PROVE  MovesWhole(p) /\ p.by # "group" /\ p.kind = "update"
<1>1. PICK source, ticked : p \in BulkOf(source, ticked)
  BY DEF BulkPlans
<1> DEFINE ids == UNION {Thread(Live, m) : m \in ticked}
           merges == UNION {MergesOf(Live, m) : m \in ids}
<1>2. p.ids = ids /\ p.by = "bulk" /\ p.kind = "update" /\ (p.box = "same" \/ p.merges = merges)
  <2>1. \/ p \in {[Update("bulk", ids) EXCEPT !.later = "off"], [Update("bulk", ids) EXCEPT !.trash = TRUE],
                  [Update("bulk", ids) EXCEPT !.later = "on"], [Update("bulk", ids) EXCEPT !.aside = "off"],
                  [Update("bulk", ids) EXCEPT !.aside = "on"]}
        \/ \E b \in Boxes, ms \in {merges} :
              p = [Update("bulk", ids) EXCEPT !.box = b, !.aside = "off", !.later = "off", !.merges = ms]
    BY <1>1 DEF BulkOf
  <2> HIDE DEF ids, merges
  <2>2. CASE p \in {[Update("bulk", ids) EXCEPT !.later = "off"], [Update("bulk", ids) EXCEPT !.trash = TRUE],
                   [Update("bulk", ids) EXCEPT !.later = "on"], [Update("bulk", ids) EXCEPT !.aside = "off"],
                   [Update("bulk", ids) EXCEPT !.aside = "on"]}
    BY <2>2 DEF Update
  <2>3. ASSUME NEW b, NEW ms \in {merges},
               p = [Update("bulk", ids) EXCEPT !.box = b, !.aside = "off", !.later = "off", !.merges = ms]
        PROVE  p.ids = ids /\ p.by = "bulk" /\ p.kind = "update" /\ p.merges = merges
    BY <2>3 DEF Update
  <2> QED
    BY <2>1, <2>2, <2>3
<1>3. Live \in SUBSET Messages
  BY DEF Live, Filed
<1>4. ASSUME NEW k \in Standing
      PROVE  /\ k \in merges => merge[k].parts \ trashed \subseteq ids
             /\ (merge[k].parts \ trashed) \cap ids # {} => k \in merges
  <2>1. ASSUME NEW x \in merge[k].parts \ trashed, x \in ids
        PROVE  k \in merges
    BY <2>1, PartsAreFound
  <2>2. ASSUME k \in merges
        PROVE  merge[k].parts \ trashed \subseteq ids
    <3>1. PICK m \in ticked : \E x \in Thread(Live, m) : k \in MergesOf(Live, x)
      BY <2>2
    <3>2. k \in MergesOf(Live, m)
      BY <1>3, <3>1, ThreadsAgree
    <3> QED
      BY <3>1, <3>2, PartsAreFound
  <2> QED
    BY <2>1, <2>2
<1> QED
  BY <1>2, <1>4 DEF MovesWhole

-------------------------------------------------------------------------------
(* What is merged stays together, step by step (Conversations).                 *)

\* What a change of a rule remembers of a merge that still stands is what it remembers of
\* the rows of it.
ChangeFits(c) ==
    \A k \in DOMAIN c.merges :
        /\ k \in Merges /\ merge[k].state # "unmade" /\ c.merges[k] \in Boxes
        /\ k \in Standing => \A m \in merge[k].parts \cap DOMAIN c.messages : c.messages[m] = c.merges[k]

MergedInvariant ==
    /\ merge = [k \in Merges |-> merge[k]]
    /\ \A k \in Standing : MergeStands(k)
    /\ \A s \in Senders : change[s] # None => ChangeFits(change[s])
    /\ PlanFits(request)

\* Merges that stand go on standing, with their rows and names, and no name is taken.
SameParts ==
    /\ merge' = [k \in Merges |-> merge'[k]]
    /\ \A k \in Merges : /\ merge'[k].state = merge[k].state /\ merge'[k].parts = merge[k].parts
                         /\ merge'[k].roots = merge[k].roots

\* The rows of a merge are where it is after either both moved to a box or neither did.
LEMMA MergeMoved ==
  ASSUME NEW k \in Standing, MergeStands(k), merge[k].parts \subseteq Filed',
         merge'[k].parts = merge[k].parts, merge'[k].roots = merge[k].roots,
         \A m \in merge[k].parts \ trashed' :
           \/ m \in merge[k].parts \ trashed /\ folder'[m] = folder[m] /\ merge'[k].box = merge[k].box
           \/ folder'[m] = merge'[k].box,
         merge'[k].box \in Boxes
  PROVE  MergeStands(k)'
<1>1. \A m : TiedTo(merge[k].parts, merge[k].roots, m)' <=> TiedTo(merge[k].parts, merge[k].roots, m)
  BY DEF TiedTo, Component, Headers, Grown
<1> QED
  BY <1>1 DEF MergeStands

\* A merge that nothing writes to stands as it did.
LEMMA MergeLeft ==
  ASSUME NEW k \in Standing, MergeStands(k), merge'[k] = merge[k], UNCHANGED trashed,
         \A m \in merge[k].parts : folder'[m] = folder[m]
  PROVE  MergeStands(k)'
<1>1. merge[k].parts \subseteq Filed'
  BY DEF MergeStands, Filed
<1> QED
  BY <1>1, MergeMoved DEF MergeStands

LEMMA UpdateKeepsMerged ==
  ASSUME QueueTypes, BinLinksNothing, MergedInvariant, NEW p, p.kind = "update", UpdatePlan(p),
         PlanFits(p), NEW current \in BOOLEAN, current => MovesWhole(p), WriteUpdate(p, current),
         odd' = {}
  PROVE  SameParts /\ (\A k \in Standing : MergeStands(k)') /\ UNCHANGED change
<1> DEFINE ids == {m \in p.ids : \/ p.from = "any"
                                 \/ folder[m] = p.from /\ (p.from = "Screener" => m \notin trashed)}
           ms == {k \in p.merges : p.from = "any" \/ merge[k].box = p.from}
           Rows(k) == merge[k].parts \ trashed
<1>1. /\ folder' = [m \in Messages |-> IF m \in ids /\ p.box # "same" THEN p.box ELSE folder[m]]
      /\ merge' = IF p.box = "same" THEN merge ELSE Moved(ms, p.box)
      /\ trashed \subseteq trashed'
      /\ Explained(p, ids, current) = {} /\ UNCHANGED change
  BY DEF WriteUpdate
<1>2. p.ids \subseteq Present /\ p.box \in Boxes \cup {"same"} /\ Present \subseteq Messages
  BY DEF UpdatePlan, Present
<1>3. /\ merge = [k \in Merges |-> merge[k]] /\ Standing \subseteq Merges
      /\ \A k \in Standing :
           /\ MergeStands(k) /\ merge[k].parts # {} /\ merge[k].box \in Boxes
           /\ \A m \in Rows(k) : folder[m] = merge[k].box
  BY DEF MergedInvariant, MergeStands, Standing
<1>4. SameParts
  BY <1>1, <1>3 DEF SameParts, Moved
<1>5. \A k \in Standing : merge'[k].box = IF p.box # "same" /\ k \in ms THEN p.box ELSE merge[k].box
  BY <1>1, <1>3 DEF Moved
<1>6. /\ ~current /\ p.by # "group" => ids = {} /\ PartsOf(p.merges) = {}
      /\ ~current /\ p.by = "group" =>
           \/ {k \in Standing : merge[k].parts \cap ids # {}} \subseteq p.merges
           \/ ids = {} /\ PartsOf(p.merges) = {}
  BY <1>1 DEF Explained, Around
<1>7. \A k \in p.merges \cap Standing : PartsOf(p.merges) # {}
  BY <1>3 DEF PartsOf, Standing
<1>8. ASSUME p.box # "same"
      PROVE  \/ p.merges = {} /\ \A m \in p.ids : folder[m] = p.box
             \/ \A k \in Standing : /\ k \in p.merges => Rows(k) \subseteq p.ids
                                    /\ Rows(k) \cap ids # {} => k \in p.merges
  <2>1. CASE current
    <3>1. ids \subseteq p.ids
      OBVIOUS
    <3> HIDE DEF ids
    <3> QED
      BY <1>8, <2>1, <3>1 DEF MovesWhole
  <2>2. CASE ~current /\ p.by = "group"
    <3>1. \A k \in Standing : k \in p.merges => Rows(k) \subseteq p.ids
      BY <2>2 DEF PlanFits
    <3> HIDE DEF ids
    <3>2. \A k \in Standing : Rows(k) \cap ids # {} => k \in p.merges
      BY <1>6, <2>2
    <3> QED
      BY <3>1, <3>2
  <2>3. CASE ~current /\ p.by # "group"
    <3> HIDE DEF ids
    <3> QED
      BY <1>6, <1>7, <2>3
  <2> QED
    BY <2>1, <2>2, <2>3
<1>9. ASSUME NEW k \in Standing, NEW m \in Rows(k), p.box # "same"
      PROVE  \/ folder'[m] = folder[m] /\ merge'[k].box = merge[k].box
             \/ folder'[m] = merge'[k].box
  <2>0. m \in Messages /\ folder[m] = merge[k].box /\ merge[k].box \in Boxes
    BY <1>3 DEF MergeStands, Filed
  <2>1. CASE p.merges = {} /\ \A n \in p.ids : folder[n] = p.box
    <3>1. k \notin ms /\ (m \in ids => folder[m] = p.box)
      BY <2>1
    <3> HIDE DEF ids, ms
    <3> QED
      BY <1>1, <1>5, <2>0, <3>1
  <2>2. CASE /\ k \in p.merges => Rows(k) \subseteq p.ids
             /\ Rows(k) \cap ids # {} => k \in p.merges
    <3>1. k \in ms => m \in ids
      BY <2>0, <2>2 DEF Boxes
    <3>2. m \in ids => k \in ms
      BY <2>0, <2>2
    <3> HIDE DEF ids, ms
    <3> QED
      BY <1>1, <1>5, <1>9, <2>0, <3>1, <3>2
  <2> QED
    BY <1>8, <1>9, <2>1, <2>2
<1> HIDE DEF ids, ms
<1>10. Filed \subseteq Filed'
  <2>1. \A m \in Messages : folder'[m] = folder[m] \/ folder'[m] \in Boxes
    BY <1>1, <1>2
  <2> QED
    BY <2>1 DEF Filed
<1>11. ASSUME NEW k \in Standing
       PROVE  MergeStands(k)'
  <2>1. merge'[k].box \in Boxes
    BY <1>2, <1>3, <1>5
  <2>2. \A m \in merge[k].parts \ trashed' :
          \/ m \in merge[k].parts \ trashed /\ folder'[m] = folder[m] /\ merge'[k].box = merge[k].box
          \/ folder'[m] = merge'[k].box
    <3>1. CASE p.box = "same"
      <4>1. \A m \in Messages : folder'[m] = folder[m]
        BY <1>1, <3>1
      <4>2. merge[k].parts \subseteq Messages
        BY <1>3 DEF MergeStands, Filed
      <4> QED
        BY <1>1, <1>5, <3>1, <4>1, <4>2
    <3>2. CASE p.box # "same"
      BY <1>1, <1>9, <3>2
    <3> QED
      BY <3>1, <3>2
  <2>3. merge[k].parts \subseteq Filed'
    BY <1>3, <1>10 DEF MergeStands
  <2>4. merge'[k].parts = merge[k].parts /\ merge'[k].roots = merge[k].roots
    BY <1>3, <1>4 DEF SameParts
  <2> QED
    BY <1>3, <2>1, <2>2, <2>3, <2>4, MergeMoved
<1> QED
  BY <1>1, <1>4, <1>11

\* What is remembered of merges stays true of them.
KeepsRecords ==
    /\ \A c : ChangeFits(c) => ChangeFits(c)'
    /\ \A q : PlanFits(q) => PlanFits(q)'

LEMMA RecordsKept ==
  ASSUME \A k \in Merges : merge[k].state # "unmade" =>
           /\ merge'[k].state # "unmade"
           /\ k \in Standing' => k \in Standing /\ merge'[k].parts = merge[k].parts
  PROVE  KeepsRecords
<1>2. ASSUME NEW c, ChangeFits(c)
      PROVE  ChangeFits(c)'
  BY <1>2 DEF ChangeFits
<1>3. ASSUME NEW q, PlanFits(q)
      PROVE  PlanFits(q)'
  BY <1>3 DEF PlanFits
<1> QED
  BY <1>2, <1>3 DEF KeepsRecords

LEMMA PartsKeepRecords ==
  ASSUME SameParts
  PROVE  KeepsRecords /\ Standing' = Standing
<1>1. Standing' = Standing
  BY DEF SameParts, Standing
<1> QED
  BY <1>1, RecordsKept DEF SameParts

\* What a step writes down of merges is true.
MergedKept ==
    /\ KeepsRecords /\ merge' = [k \in Merges |-> merge'[k]]
    /\ \A k \in Standing' : MergeStands(k)'
    /\ \A s \in Senders : change'[s] = change[s] \/ change'[s] = None \/ ChangeFits(change[s])'

LEMMA InvariantKept ==
  ASSUME MergedInvariant, MergedKept, request' = request \/ PlanFits(request)'
  PROVE  MergedInvariant'
<1>0. KeepsRecords
  BY DEF MergedKept
<1>1. ASSUME NEW s \in Senders, change'[s] # None
      PROVE  ChangeFits(change[s])'
  <2>1. CASE change'[s] = change[s]
    <3>1. PICK c : c = change[s]
      OBVIOUS
    <3>2. ChangeFits(c)
      BY <1>1, <2>1, <3>1 DEF MergedInvariant
    <3>3. ChangeFits(c)' /\ change'[s] = c
      BY <1>0, <2>1, <3>1, <3>2 DEF KeepsRecords
    <3> QED
      BY <3>3 DEF ChangeFits
  <2> QED
    BY <1>1, <2>1 DEF MergedKept
<1>2. PlanFits(request)'
  <2>1. CASE request' = request
    <3>1. PICK q : q = request
      OBVIOUS
    <3>2. PlanFits(q)
      BY <3>1 DEF MergedInvariant
    <3>3. PlanFits(q)' /\ request' = q
      BY <1>0, <2>1, <3>1, <3>2 DEF KeepsRecords
    <3> QED
      BY <3>3 DEF PlanFits
  <2> QED
    BY <2>1
<1> QED
  BY <1>1, <1>2 DEF MergedInvariant, MergedKept

\* A thread holds what names it: all that links its rows is in it.
LEMMA RootsAreTied ==
  ASSUME ConversationsAssumption, NEW rows \in SUBSET Messages, NEW m, NEW x \in Thread(rows, m),
         NEW some \in SUBSET In(rows, folder[m]), Thread(rows, m) \subseteq some
  PROVE  Roots(rows, x) \subseteq Component(Headers(some), {x})
<1> DEFINE box == In(rows, folder[m])
<1>1. PICK c, d : c = Conversation(rows, m) /\ d = Component(Headers(some), {x})
  OBVIOUS
<1>2. Shut(Headers(box), c) /\ folder[x] = folder[m] /\ x \in c /\ box \in SUBSET Messages
  BY <1>1, ConversationKnown DEF Thread, In, Bounds
<1>3. box \cap c \subseteq some
  BY <1>1 DEF Thread
<1>4. some \in SUBSET Messages
  BY DEF In
<1> HIDE DEF box
<1>5. IsFiniteSet(Headers(box)) /\ IsFiniteSet(Headers(some))
  BY <1>2, <1>4, LinksAreFinite
<1>6. {x} \subseteq d /\ Shut(Headers(some), d) /\ d \subseteq c
  <2>1. {x} \subseteq d /\ Shut(Headers(some), d)
    BY <1>1, <1>5, ComponentKnown
  <2>2. {x} \subseteq c /\ Shut(Headers(some), c)
    BY <1>2 DEF Shut, Headers, box
  <2> QED
    BY <1>1, <1>5, <2>1, <2>2, ComponentKnown
<1>7. Shut(Headers(box), d)
  <2> SUFFICES ASSUME NEW y \in box, ({y} \cup Refs[y]) \cap d # {}
               PROVE  {y} \cup Refs[y] \subseteq d
    BY DEF Shut, Headers
  <2>0. PICK l : l = {y} \cup Refs[y]
    OBVIOUS
  <2>1. l \in Headers(box) /\ l \cap d # {} /\ y \in l
    BY <2>0 DEF Headers
  <2>2. l \subseteq c
    BY <1>2, <1>6, <2>1 DEF Shut
  <2>3. y \in some
    BY <1>3, <2>1, <2>2
  <2>4. l \in Headers(some)
    BY <2>0, <2>3 DEF Headers
  <2>5. l \subseteq d
    BY <1>6, <2>1, <2>4 DEF Shut
  <2> QED
    BY <2>0, <2>5
<1>8. Automatic(rows, x) \subseteq d
  <2>1. Component(Headers(box), {x}) \subseteq d
    BY <1>5, <1>6, <1>7, ComponentKnown
  <2> QED
    BY <1>2, <2>1 DEF Automatic, box
<1> QED
  BY <1>1, <1>6, <1>8 DEF Roots

LEMMA JoinedAreTied ==
  ASSUME ConversationsAssumption, NEW p \in MergePlans
  PROVE  /\ p.parts # {} /\ p.parts \subseteq Live /\ p.box \in Boxes
         /\ \A x \in p.parts : folder[x] = p.box /\ TiedTo(p.parts, p.roots, x)
<1>1. PICK m \in Live : p \in UNION {Joining(m, n) : n \in Joinable(m)}
  BY DEF MergePlans
<1>2. PICK n \in Joinable(m) : p \in Joining(m, n)
  BY <1>1
<1>3. Live \in SUBSET Messages /\ folder[n] = folder[m] /\ folder[m] \in Boxes
  BY DEF Live, Filed, Joinable
<1> DEFINE thread == Thread(Live, m) \cup Thread(Live, n)
<1>4. /\ p.box = folder[m] /\ p.parts = thread
      /\ \A x \in thread : Cardinality(p.roots \cap Roots(Live, x)) = 1
  BY <1>2 DEF Joining
<1>5. m \in thread
  <2>1. m \in Conversation(Live, m)
    BY <1>3, ConversationKnown DEF Bounds
  <2> QED
    BY <2>1 DEF Thread, In
<1>6. thread \in SUBSET In(Live, folder[m])
  BY <1>3 DEF Thread, In
<1>7. ASSUME NEW x \in thread
      PROVE  TiedTo(thread, p.roots, x)
  <2>1. p.roots \cap Roots(Live, x) # {}
    BY <1>4, FS_EmptySet
  <2>2. Roots(Live, x) \subseteq Component(Headers(thread), {x})
    <3>1. CASE x \in Thread(Live, m)
      BY <1>3, <1>6, <3>1, RootsAreTied
    <3>2. CASE x \in Thread(Live, n)
      BY <1>3, <1>6, <3>2, RootsAreTied
    <3> QED
      BY <3>1, <3>2
  <2> QED
    BY <2>1, <2>2 DEF TiedTo
<1> QED
  BY <1>3, <1>4, <1>5, <1>6, <1>7 DEF In

\* Every plan that can be made moves what is merged as one.
LEMMA PlansMoveWhole ==
  ASSUME ConversationsAssumption, MergesStand, NEW p \in AllPlans \cup AfterSending
  PROVE  /\ PlanFits(p)
         /\ p.kind = "update" => MovesWhole(p)
         /\ p.kind = "merge" => p \in MergePlans
         /\ p.kind = "rule" => p \in RulePlans
<1>1. CASE p \in ReplyLaterPlans
  <2>1. PICK m \in Live :
          p \in {[Update("later", Thread(Live, m)) EXCEPT !.later = s] :
                   s \in {"off"} \cup (IF Thread(Live, m) \cap aside = {} THEN {"on"} ELSE {})}
    BY <1>1, Zenon DEF ReplyLaterPlans
  <2>2. p.kind = "update" /\ p.by = "later" /\ p.box = "same"
    BY <2>1 DEF Update
  <2> QED
    BY <2>2 DEF MovesWhole, PlanFits
<1>2. CASE p \in AfterSending
  <2>1. PICK m \in Sent : p \in KeepPlans(m) \cup ClearPlans(m)
    BY <1>2 DEF AfterSending
  <2>2. p.kind = "update" /\ p.by \in {"keep", "clear"} /\ p.box = "same"
    BY <2>1 DEF KeepPlans, ClearPlans, Update
  <2> QED
    BY <2>2 DEF MovesWhole, PlanFits
<1>3. CASE p \in SetAsidePlans \cup FolderPlans \cup BulkPlans
  <2>1. MovesWhole(p) /\ p.by # "group" /\ p.kind = "update"
    BY <1>3, SetAsideMovesWhole, FolderMovesWhole, BulkMovesWhole
  <2> QED
    BY <2>1 DEF PlanFits
<1>4. CASE p \in GroupPlans
  <2>1. MovesWhole(p) /\ PlanFits(p) /\ p.kind = "update"
    BY <1>4, GroupMovesWhole
  <2> QED
    BY <2>1
<1>5. CASE p \in MergePlans
  BY <1>5, OtherPlansStand, JoinedAreTied DEF PlanFits
<1>6. CASE p \in SplitPlans
  BY <1>6, OtherPlansStand DEF PlanFits
<1>7. CASE p \in RulePlans
  <2>1. PICK s, b : p = RulePlan(s, b)
    BY <1>7 DEF RulePlans
  <2>2. p.kind = "rule" /\ p.merges \subseteq DOMAIN p.snapshot
    BY <2>1 DEF RulePlan, MergesIn
  <2> QED
    BY <1>7, <2>2 DEF PlanFits
<1> QED
  BY <1>1, <1>2, <1>3, <1>4, <1>5, <1>6, <1>7 DEF AllPlans, ParkingPlans, RegroupPlans

\* A new merge holds the rows it was asked for, in their box.
LEMMA MergeKeepsMerged ==
  ASSUME ConversationsAssumption, MergedInvariant, NEW p, p.kind = "merge", PlanFits(p),
         NEW current \in BOOLEAN, current => p \in MergePlans, WriteMerge(p, current), odd' = {}
  PROVE  MergedKept
<1>1. PICK k \in Merges :
        /\ merge[k] = Unmade
        /\ merge' = [merge EXCEPT ![k] =
             [state |-> "standing", box |-> p.box, roots |-> p.roots, parts |-> p.parts]]
  BY DEF WriteMerge
<1>2. UNCHANGED <<folder, trashed, change>> /\ merge = [j \in Merges |-> merge[j]]
  BY DEF WriteMerge, MergedInvariant
<1>3. current
  BY DEF WriteMerge, PlanFits
<1>4. /\ p.parts # {} /\ p.parts \subseteq Live /\ p.box \in Boxes
      /\ \A x \in p.parts : folder[x] = p.box /\ TiedTo(p.parts, p.roots, x)
  BY <1>3, JoinedAreTied
<1>5. /\ merge'[k].state = "standing" /\ merge'[k].box = p.box
      /\ merge'[k].roots = p.roots /\ merge'[k].parts = p.parts
      /\ merge[k].state = "unmade"
      /\ \A j \in Merges \ {k} : merge'[j] = merge[j]
      /\ merge' = [j \in Merges |-> merge'[j]]
  BY <1>1, <1>2 DEF Unmade
<1>6. Filed' = Filed /\ p.parts \subseteq Filed
  BY <1>2, <1>4 DEF Filed, Live
<1>7. MergeStands(k)'
  <2>1. ASSUME NEW parts, NEW roots, parts = p.parts, roots = p.roots
        PROVE  \A x \in p.parts : TiedTo(merge[k].parts, merge[k].roots, x)'
    <3>1. merge'[k].parts = parts /\ merge'[k].roots = roots
      BY <1>5, <2>1
    <3>2. \A x : TiedTo(merge[k].parts, merge[k].roots, x)' <=> TiedTo(parts, roots, x)
      BY <3>1 DEF TiedTo, Component, Headers, Grown
    <3> QED
      BY <1>4, <2>1, <3>2
  <2> QED
    BY <1>2, <1>4, <1>5, <1>6, <2>1 DEF MergeStands
<1>8. ASSUME NEW j \in Standing', j # k
      PROVE  MergeStands(j)'
  <2>1. merge'[j] = merge[j] /\ j \in Standing
    BY <1>5, <1>8 DEF Standing
  <2>2. MergeStands(j)
    BY <2>1 DEF MergedInvariant
  <2> QED
    BY <1>2, <2>1, <2>2, MergeLeft
<1>9. KeepsRecords
  BY <1>5, RecordsKept DEF Standing
<1> QED
  BY <1>2, <1>5, <1>7, <1>8, <1>9 DEF MergedKept

\* Separating leaves the other merges.
LEMMA SplitKeepsMerged ==
  ASSUME MergedInvariant, NEW p, WriteSplit(p)
  PROVE  MergedKept
<1>1. /\ merge' = [k \in Merges |-> IF k \in p.merges THEN [Unmade EXCEPT !.state = "separated"]
                                                     ELSE merge[k]]
      /\ UNCHANGED <<folder, trashed, change>>
  BY DEF WriteSplit
<1>2. \A k \in Merges : merge'[k].state = "separated" \/ merge'[k] = merge[k]
  BY <1>1 DEF Unmade
<1>3. ASSUME NEW k \in Standing'
      PROVE  MergeStands(k)'
  <2>1. merge'[k] = merge[k] /\ k \in Standing
    BY <1>2 DEF Standing
  <2>2. MergeStands(k)
    BY <2>1 DEF MergedInvariant
  <2> QED
    BY <1>1, <2>1, <2>2, MergeLeft
<1>4. KeepsRecords
  BY <1>2, RecordsKept DEF Standing
<1> QED
  BY <1>1, <1>3, <1>4 DEF MergedKept

\* The merges of a sender in a rule: those with a row outside the bin are known to the plan,
\* and those it moves have all such rows among the mail of the sender that follows.
LEMMA RuleMovesWhole ==
  ASSUME ConversationsAssumption, MergesStand, NEW p \in RulePlans, NEW k \in Standing,
         PartsOf(DOMAIN p.snapshot \ p.merges) = {}
  PROVE  /\ \A m \in merge[k].parts \ trashed :
              SenderOf[m] = p.sender => k \in p.merges
         /\ k \in p.merges => \A m \in merge[k].parts \ trashed : SenderOf[m] = p.sender /\ m \notin Queued
<1>1. PICK s \in {t \in Classified : /\ \E m \in Present : SenderOf[m] = t
                                    /\ \A m \in UNION Grouped(t) : SenderOf[m] = t} :
        p \in {RulePlan(s, b) : b \in Boxes}
  BY DEF RulePlans
<1>2. /\ p.sender = s /\ DOMAIN p.snapshot = MergesIn(Grouped(s))
      /\ p.merges = MergesIn({g \in Grouped(s) : g \cap Queued = {}})
  BY <1>1 DEF RulePlan
<1>3. /\ MergeStands(k) /\ merge[k].parts # {} /\ merge[k].parts \subseteq Filed
      /\ Filed \in SUBSET Messages
  BY DEF MergesStand, MergeStands, Filed
<1>4. ASSUME NEW m \in merge[k].parts \ trashed, SenderOf[m] = s
      PROVE  k \in p.merges
  <2>1. k \in MergesOf(Filed, m) /\ m \in Filed
    BY <1>3, PartsAreFound
  <2>2. Thread(Filed, m) \in Grouped(s)
    BY <1>4, <2>1 DEF Grouped
  <2>3. m \in Thread(Filed, m)
    <3>1. m \in Conversation(Filed, m)
      BY <1>3, ConversationKnown DEF Bounds
    <3> QED
      BY <2>1, <3>1 DEF Thread, In
  <2>4. k \in DOMAIN p.snapshot
    BY <1>2, <2>1, <2>2, <2>3 DEF MergesIn
  <2> QED
    BY <1>3, <2>4 DEF PartsOf
<1>5. ASSUME k \in p.merges, NEW x \in merge[k].parts \ trashed
      PROVE  SenderOf[x] = s /\ x \notin Queued
  <2>1. PICK g \in Grouped(s) : g \cap Queued = {} /\ \E m \in g : k \in MergesOf(Filed, m)
    BY <1>2, <1>5 DEF MergesIn
  <2>2. PICK y \in Filed : g = Thread(Filed, y)
    BY <2>1 DEF Grouped
  <2>3. PICK m \in g : k \in MergesOf(Filed, m)
    BY <2>1
  <2>4. x \in Thread(Filed, m)
    BY <1>5, <2>3, PartsAreFound
  <2>5. Thread(Filed, m) \subseteq g
    BY <1>3, <2>2, <2>3, ThreadsAgree
  <2>6. x \in g
    BY <2>4, <2>5
  <2> QED
    BY <1>1, <2>1, <2>6
<1> QED
  BY <1>2, <1>4, <1>5

LEMMA RuleKeepsMerged ==
  ASSUME ConversationsAssumption, QueueTypes, MergedInvariant, BinLinksNothing,
         NEW p, p.kind = "rule", PlanFits(p), p.box \in Boxes, p.sender \in Senders,
         NEW current \in BOOLEAN, current => p \in RulePlans, WriteRule(p, current), odd' = {}
  PROVE  MergedKept
<1> DEFINE mine == {m \in Present \ trashed : SenderOf[m] = p.sender}
           made == [previous |-> rule[p.sender], messages |-> [m \in mine |-> folder[m]],
                    merges |-> [k \in DOMAIN p.snapshot \cap Standing |-> p.snapshot[k]]]
<1>1. /\ change' = [change EXCEPT ![p.sender] = made]
      /\ folder' = [m \in Messages |-> IF m \in mine \ Queued THEN p.box ELSE folder[m]]
      /\ merge' = Moved(p.merges, p.box) /\ UNCHANGED trashed
      /\ PartsOf(DOMAIN p.snapshot \ p.merges) = {}
      /\ ~current => Around(mine) = {} /\ PartsOf(DOMAIN p.snapshot) = {}
  BY DEF WriteRule
<1>2. MergesStand
  BY DEF MergesStand, MergedInvariant
<1>3. \A k \in Standing :
        /\ MergeStands(k) /\ k \in Merges /\ merge[k].parts # {} /\ merge[k].parts \subseteq Filed
        /\ merge[k].box \in Boxes /\ \A m \in merge[k].parts \ trashed : folder[m] = merge[k].box
  BY DEF MergedInvariant, MergeStands, Standing
<1>4. SameParts
  BY <1>1 DEF SameParts, Moved, MergedInvariant
<1>5. ~current => mine = {} /\ \A k \in Standing : k \notin DOMAIN p.snapshot
  BY <1>1, <1>3 DEF Around, PartsOf
<1>6. ASSUME NEW k \in Standing, NEW m \in merge[k].parts \ trashed
      PROVE  IF k \in p.merges THEN m \in mine \ Queued ELSE m \notin mine
  <2>1. m \in Present
    BY <1>3 DEF Filed, Present, Boxes
  <2>2. CASE current
    BY <1>1, <1>2, <1>6, <2>1, <2>2, RuleMovesWhole
  <2>3. CASE ~current
    <3>1. k \notin p.merges
      BY <1>5, <2>3 DEF PlanFits
    <3> HIDE DEF mine
    <3> QED
      BY <1>5, <2>3, <3>1
  <2> QED
    BY <2>2, <2>3
<1>7. mine \subseteq Present \ trashed
  OBVIOUS
<1>8. DOMAIN made.messages = mine /\ DOMAIN made.merges = DOMAIN p.snapshot \cap Standing
  OBVIOUS
<1>9. /\ \A m \in mine : made.messages[m] = folder[m]
      /\ \A k \in DOMAIN made.merges : made.merges[k] = p.snapshot[k]
  OBVIOUS
<1>10. ASSUME NEW k \in DOMAIN made.merges
       PROVE  made.merges[k] = merge[k].box /\ k \in Standing
  <2>1. k \in DOMAIN p.snapshot /\ k \in Standing /\ made.merges[k] = p.snapshot[k]
    BY <1>8, <1>9, <1>10
  <2>2. PICK s, b : p = RulePlan(s, b)
    BY <1>5, <2>1 DEF RulePlans
  <2> QED
    BY <2>1, <2>2 DEF RulePlan
<1> HIDE DEF mine, made
<1>11. ASSUME NEW k \in Standing
       PROVE  MergeStands(k)'
  <2>1. merge'[k].box = IF k \in p.merges THEN p.box ELSE merge[k].box
    BY <1>1, <1>3 DEF Moved
  <2>2. /\ merge'[k].parts = merge[k].parts /\ merge'[k].roots = merge[k].roots
        /\ merge'[k].box \in Boxes
    BY <1>3, <1>4, <2>1 DEF SameParts
  <2>3. merge[k].parts \subseteq Filed'
    BY <1>1, <1>3 DEF Filed
  <2>4. ASSUME NEW m \in merge[k].parts \ trashed'
        PROVE  \/ m \in merge[k].parts \ trashed /\ folder'[m] = folder[m] /\ merge'[k].box = merge[k].box
               \/ folder'[m] = merge'[k].box
    <3>1. m \in merge[k].parts \ trashed /\ m \in Messages
      BY <1>1, <1>3, <2>4 DEF Filed
    <3> QED
      BY <1>1, <1>6, <2>1, <3>1
  <2> QED
    BY <1>3, <2>2, <2>3, <2>4, MergeMoved
<1>12. ChangeFits(made)
  <2> SUFFICES ASSUME NEW k \in DOMAIN made.merges
               PROVE  /\ k \in Merges /\ merge[k].state # "unmade" /\ made.merges[k] \in Boxes
                      /\ \A m \in merge[k].parts \cap DOMAIN made.messages :
                           made.messages[m] = made.merges[k]
    BY DEF ChangeFits
  <2>1. made.merges[k] = merge[k].box /\ k \in Standing
    BY <1>10
  <2> QED
    BY <1>3, <1>7, <1>8, <1>9, <2>1 DEF Standing
<1>13. KeepsRecords /\ Standing' = Standing
  BY <1>4, PartsKeepRecords
<1>14. ASSUME NEW s \in Senders
       PROVE  change'[s] = change[s] \/ ChangeFits(change[s])'
  <2>1. change = [x \in Senders |-> change[x]]
    BY DEF QueueTypes
  <2>2. CASE s = p.sender
    <3>1. PICK c : c = made
      OBVIOUS
    <3>2. ChangeFits(c)'
      BY <1>12, <1>13, <3>1 DEF KeepsRecords
    <3>3. change'[s] = c
      BY <1>1, <2>1, <2>2, <3>1
    <3> QED
      BY <3>2, <3>3 DEF ChangeFits
  <2>3. CASE s # p.sender
    BY <1>1, <2>1, <2>3
  <2> QED
    BY <2>2, <2>3
<1> QED
  BY <1>4, <1>11, <1>13, <1>14 DEF MergedKept, SameParts

\* Undoing takes a merge and all its rows back, or leaves both.
LEMMA UndoKeepsMerged ==
  ASSUME QueueTypes, MergedInvariant, NEW s \in Senders, Undo(s), odd' = {}
  PROVE  MergedKept
<1> DEFINE made == change[s]
           back == {m \in Present : SenderOf[m] = s} \ Queued
<1>1. /\ made # None /\ UNCHANGED trashed /\ change' = [change EXCEPT ![s] = None]
      /\ folder' = [m \in Messages |->
                      IF m \notin back THEN folder[m]
                      ELSE IF m \in DOMAIN made.messages THEN made.messages[m]
                      ELSE IF made.previous = "none" THEN "Screener" ELSE made.previous]
      /\ merge' = [k \in Merges |-> IF k \in DOMAIN made.merges \cap Standing
                                      THEN [merge[k] EXCEPT !.box = made.merges[k]] ELSE merge[k]]
      /\ PartsOf(DOMAIN made.merges) \subseteq back \cap DOMAIN made.messages
      /\ PartsOf({k \in Standing \ DOMAIN made.merges : merge[k].parts \cap back # {}}) = {}
  BY DEF Undo
<1>2. /\ ChangeFits(made) /\ change = [x \in Senders |-> change[x]]
      /\ merge = [k \in Merges |-> merge[k]]
  BY <1>1 DEF MergedInvariant, QueueTypes
<1> HIDE DEF made, back
<1>3. \A k \in Standing : MergeStands(k) /\ k \in Merges /\ merge[k].parts \subseteq Filed
  BY DEF MergedInvariant, MergeStands, Standing
<1>4. SameParts
  BY <1>1, <1>2 DEF SameParts
<1>5. ASSUME NEW k \in Standing, k \in DOMAIN made.merges
      PROVE  MergeStands(k)'
  <2>1. merge'[k].box = made.merges[k] /\ made.merges[k] \in Boxes
    <3>1. merge'[k] = [merge[k] EXCEPT !.box = made.merges[k]]
      BY <1>1, <1>3, <1>5
    <3>2. made.merges[k] \in Boxes
      BY <1>2, <1>5 DEF ChangeFits
    <3> QED
      BY <3>1, <3>2
  <2>2. merge[k].parts \subseteq back \cap DOMAIN made.messages
    BY <1>1, <1>5 DEF PartsOf
  <2>3. \A m \in merge[k].parts : folder'[m] = made.messages[m] /\ made.messages[m] = made.merges[k]
    <3>1. \A m \in merge[k].parts : m \in Messages
      BY <1>3 DEF Filed
    <3> QED
      BY <1>1, <1>2, <1>5, <2>2, <3>1 DEF ChangeFits
  <2>4. merge[k].parts \subseteq Filed'
    BY <1>3, <2>1, <2>3 DEF Filed
  <2>5. merge'[k].parts = merge[k].parts /\ merge'[k].roots = merge[k].roots
    BY <1>3, <1>4 DEF SameParts
  <2> QED
    BY <1>3, <2>1, <2>3, <2>4, <2>5, MergeMoved
<1>6. ASSUME NEW k \in Standing, k \notin DOMAIN made.merges
      PROVE  MergeStands(k)'
  <2>1. merge'[k] = merge[k]
    BY <1>1, <1>3, <1>6
  <2>2. merge[k].parts \cap back = {}
    BY <1>1, <1>6 DEF PartsOf
  <2>3. \A m \in merge[k].parts : folder'[m] = folder[m]
    BY <1>1, <1>3, <2>2 DEF Filed
  <2> QED
    BY <1>1, <1>3, <2>1, <2>3, MergeLeft
<1>7. KeepsRecords /\ Standing' = Standing
  BY <1>4, PartsKeepRecords
<1> QED
  BY <1>1, <1>2, <1>4, <1>5, <1>6, <1>7 DEF MergedKept, SameParts

\* A message taken out of the bin is where its merges are.
LEMMA RestoreKeepsMerged ==
  ASSUME MergedInvariant, NEW m, Restore(m), odd' = {}
  PROVE  MergedKept
<1>1. /\ UNCHANGED <<folder, merge, change>> /\ trashed' = trashed \ {m}
      /\ \A k \in Standing : m \in merge[k].parts => merge[k].box = folder[m]
  BY DEF Restore
<1>2. SameParts
  BY <1>1 DEF SameParts, MergedInvariant
<1>3. ASSUME NEW k \in Standing
      PROVE  MergeStands(k)'
  <2>1. MergeStands(k)
    BY DEF MergedInvariant
  <2>2. \A x \in merge[k].parts \ trashed' : folder'[x] = merge'[k].box
    BY <1>1, <2>1 DEF MergeStands
  <2>3. merge[k].parts \subseteq Filed' /\ merge'[k].box \in Boxes
    BY <1>1, <2>1 DEF MergeStands, Filed
  <2> QED
    BY <1>1, <2>1, <2>2, <2>3, MergeMoved
<1>4. KeepsRecords /\ Standing' = Standing
  BY <1>2, PartsKeepRecords
<1> QED
  BY <1>1, <1>2, <1>3, <1>4 DEF MergedKept, SameParts

\* What leaves the merges and their rows alone keeps them.
LEMMA LeftAlone ==
  ASSUME MergedInvariant, UNCHANGED <<trashed, merge>>,
         \A m \in Filed : folder'[m] = folder[m],
         \A s \in Senders : change'[s] = change[s] \/ change'[s] = None
  PROVE  MergedKept
<1>1. SameParts
  BY DEF SameParts, MergedInvariant
<1>2. ASSUME NEW k \in Standing
      PROVE  MergeStands(k)'
  <2>1. MergeStands(k)
    BY DEF MergedInvariant
  <2>2. \A m \in merge[k].parts : folder'[m] = folder[m]
    BY <2>1 DEF MergeStands
  <2> QED
    BY <2>1, <2>2, MergeLeft
<1>3. KeepsRecords /\ Standing' = Standing
  BY <1>1, PartsKeepRecords
<1> QED
  BY <1>1, <1>2, <1>3 DEF MergedKept, SameParts

LEMMA WriteKeepsMerged ==
  ASSUME ConversationsAssumption, QueueTypes, MergedInvariant, BinLinksNothing,
         NEW p, p.kind \in {"update", "merge", "split", "rule"}, RequestStands(p), PlanFits(p),
         NEW current \in BOOLEAN, current => p \in AllPlans \cup AfterSending,
         WritePlan(p, current), odd' = {}
  PROVE  MergedKept
<1>1. MergesStand
  BY DEF MergesStand, MergedInvariant
<1>2. CASE p.kind = "update"
  <2>1. UpdatePlan(p) /\ WriteUpdate(p, current) /\ (current => MovesWhole(p))
    BY <1>1, <1>2, PlansMoveWhole DEF RequestStands, WritePlan
  <2>2. SameParts /\ (\A k \in Standing : MergeStands(k)') /\ UNCHANGED change
    BY <1>2, <2>1, UpdateKeepsMerged
  <2>3. KeepsRecords /\ Standing' = Standing
    BY <2>2, PartsKeepRecords
  <2> QED
    BY <2>2, <2>3 DEF MergedKept, SameParts
<1>3. CASE p.kind = "merge"
  <2>1. WriteMerge(p, current) /\ (current => p \in MergePlans)
    BY <1>1, <1>3, PlansMoveWhole DEF WritePlan
  <2> QED
    BY <1>3, <2>1, MergeKeepsMerged
<1>4. CASE p.kind = "split"
  <2>1. WriteSplit(p)
    BY <1>4 DEF WritePlan
  <2> QED
    BY <2>1, SplitKeepsMerged
<1>5. CASE p.kind = "rule"
  <2>1. WriteRule(p, current) /\ (current => p \in RulePlans)
    BY <1>1, <1>5, PlansMoveWhole DEF WritePlan
  <2>2. p.box \in Boxes /\ p.sender \in Senders
    BY <1>5 DEF RequestStands
  <2> QED
    BY <1>5, <2>1, <2>2, RuleKeepsMerged
<1> QED
  BY <1>2, <1>3, <1>4, <1>5

LEMMA WriteGrowsOdd ==
  ASSUME NEW p, NEW current, WritePlan(p, current), p.kind \in {"update", "merge", "split", "rule"}
  PROVE  odd \subseteq odd'
BY DEF WritePlan, WriteUpdate, WriteMerge, WriteSplit, WriteRule

LEMMA MergedStep ==
  ASSUME ConversationsAssumption, QueueInvariant, BinLinksNothing, odd = {} => MergedInvariant,
         [ConvNext]_convVars, odd' = {}
  PROVE  MergedInvariant'
<1>0. QueueTypes /\ RequestStands(request)
  BY DEF QueueInvariant
<1>1. ASSUME odd = {}, UNCHANGED <<trashed, merge>>, \A m \in Filed : folder'[m] = folder[m],
             \A s \in Senders : change'[s] = change[s] \/ change'[s] = None,
             request' = request \/ PlanFits(request)'
      PROVE  MergedInvariant'
  BY <1>1, LeftAlone, InvariantKept
<1>2. ASSUME UNCHANGED <<folder, trashed, merge, change, odd>>, request' = request \/ PlanFits(request)'
      PROVE  MergedInvariant'
  BY <1>1, <1>2
<1>3. CASE UNCHANGED convVars
  BY <1>2, <1>3 DEF convVars
<1>4. CASE Arrive
  <2>1. request'.kind = "arrive" /\ UNCHANGED <<folder, trashed, merge, change, odd>>
    <3>1. PICK m \in Messages \ (Present \cup Sent) :
            request' \in {[kind |-> "arrive", m |-> m, aside |-> ~failed /\ LinkedAside(m), failed |-> failed] :
                            failed \in IF Refs[m] = {} THEN {FALSE} ELSE BOOLEAN}
      BY <1>4, Zenon DEF Arrive, Ask
    <3>2. PICK failed \in BOOLEAN :
            request' = [kind |-> "arrive", m |-> m, aside |-> ~failed /\ LinkedAside(m), failed |-> failed]
      BY <3>1
    <3>3. request'.kind = "arrive"
      BY <3>2
    <3> QED
      BY <1>4, <3>3 DEF Arrive, Ask
  <2>2. PlanFits(request)'
    BY <2>1 DEF PlanFits
  <2> QED
    BY <1>2, <2>1, <2>2
<1>5. CASE LookUpLater
  <2>1. request'.kind = "file" /\ UNCHANGED <<folder, trashed, merge, change, odd>>
    BY <1>5 DEF LookUpLater
  <2>2. PlanFits(request)'
    BY <2>1 DEF PlanFits
  <2> QED
    BY <1>2, <2>1, <2>2
<1>6. CASE SendReply
  <2>1. request'.kind = "send" /\ UNCHANGED <<folder, trashed, merge, change, odd>>
    BY <1>6 DEF SendReply, Ask
  <2>2. PlanFits(request)'
    BY <2>1 DEF PlanFits
  <2> QED
    BY <1>2, <2>1, <2>2
<1>7. ASSUME NEW m, NEW box, Store(m, box), odd \subseteq odd', request'.kind \in {"none", "keep"}
      PROVE  MergedInvariant'
  <2>1. folder[m] = "absent" /\ folder' = [folder EXCEPT ![m] = box] /\ UNCHANGED <<trashed, merge, change>>
    BY <1>7 DEF Store
  <2>2. \A x \in Filed : folder'[x] = folder[x]
    BY <2>1 DEF Filed, Boxes
  <2>3. PlanFits(request)'
    BY <1>7 DEF PlanFits
  <2> QED
    BY <1>1, <1>7, <2>1, <2>2, <2>3
<1>8. CASE File
  <2>1. PICK box : Store(request.m, box)
    BY <1>8 DEF File
  <2>2. odd \subseteq odd' /\ request'.kind = "none"
    BY <1>8 DEF File, None
  <2> QED
    BY <1>7, <2>1, <2>2
<1>9. CASE FileReply
  <2>1. Store(request.m, request.box) /\ odd' = odd /\ request'.kind = "keep"
    BY <1>9 DEF FileReply
  <2> QED
    BY <1>7, <2>1
<1>10. CASE Follow
  <2>1. UNCHANGED <<folder, trashed, merge, change, odd>>
    BY <1>10 DEF Follow
  <2>2. request' \in KeepPlans(request.m) \cup ClearPlans(request.m)
        \/ request'.kind \in {"none", "clear"}
    BY <1>10 DEF Follow, None
  <2>3. request'.kind = "update" => request'.by # "group"
    BY <2>2 DEF KeepPlans, ClearPlans, Update
  <2>4. request'.kind \in {"update", "none", "clear"}
    BY <2>2 DEF KeepPlans, ClearPlans, Update
  <2>5. PlanFits(request)'
    BY <2>3, <2>4 DEF PlanFits
  <2> QED
    BY <1>2, <2>1, <2>5
<1>11. CASE Fails
  <2>1. request'.kind \in {"none", "clear"}
    BY <1>0, <1>11 DEF Fails, RequestStands, UpdatePlan, None
  <2>2. PlanFits(request)'
    BY <2>1 DEF PlanFits
  <2> QED
    BY <1>2, <1>11, <2>2 DEF Fails
<1>12. CASE Quick(AllPlans)
  <2>1. PICK p \in AllPlans : WritePlan(p, TRUE)
    BY <1>12 DEF Quick
  <2>2. p.kind \in {"update", "merge", "split", "rule"} /\ RequestStands(p)
    BY <1>0, PlansKeep
  <2>3. MergedInvariant
    BY <2>1, <2>2, WriteGrowsOdd
  <2>4. PlanFits(p)
    BY <2>3, PlansMoveWhole DEF MergesStand, MergedInvariant
  <2>5. MergedKept
    <3>1. PICK current \in BOOLEAN : WritePlan(p, current)
      BY <2>1
    <3>2. p \in AllPlans \cup AfterSending
      OBVIOUS
    <3> QED
      BY <1>0, <2>2, <2>3, <2>4, <3>1, <3>2, WriteKeepsMerged
  <2>6. request' = request
    BY <1>12 DEF Quick
  <2> QED
    BY <2>3, <2>5, <2>6, InvariantKept
<1>13. CASE Ask(AllPlans)
  <2>1. request' \in AllPlans /\ UNCHANGED <<folder, trashed, merge, change, odd>>
    BY <1>13 DEF Ask
  <2>2. PICK p \in AllPlans : p = request'
    BY <2>1
  <2>3. MergedInvariant
    BY <2>1
  <2>4. PlanFits(p)
    BY <2>3, PlansMoveWhole DEF MergesStand, MergedInvariant
  <2>5. PlanFits(request)'
    BY <2>1, <2>2, <2>4 DEF PlanFits, Standing
  <2> QED
    BY <1>2, <2>1, <2>5
<1>14. CASE Write(AllPlans)
  <2> DEFINE current == request \in AllPlans \cup AfterSending
  <2>1. /\ WritePlan(request, current) /\ current \in BOOLEAN
        /\ request.kind \in {"update", "merge", "split", "rule"}
    BY <1>14 DEF Write
  <2>2. MergedInvariant
    BY <2>1, WriteGrowsOdd
  <2>3. PlanFits(request)
    BY <2>2 DEF MergedInvariant
  <2>4. MergedKept
    <3>1. current => request \in AllPlans \cup AfterSending
      OBVIOUS
    <3> HIDE DEF current
    <3> QED
      BY <1>0, <2>1, <2>2, <2>3, <3>1, WriteKeepsMerged
  <2>5. request'.kind \in {"none", "clear"}
    BY <1>0, <1>14 DEF Write, RequestStands, UpdatePlan, None
  <2>6. PlanFits(request)'
    BY <2>5 DEF PlanFits
  <2> QED
    BY <2>2, <2>4, <2>6, InvariantKept
<1>15. ASSUME NEW m \in Messages, Restore(m)
       PROVE  MergedInvariant'
  <2>1. odd \subseteq odd' /\ request' = request
    BY <1>15 DEF Restore
  <2> QED
    BY <1>15, <2>1, RestoreKeepsMerged, InvariantKept
<1>16. ASSUME NEW s \in Senders, Undo(s)
       PROVE  MergedInvariant'
  <2>1. odd \subseteq odd' /\ request' = request
    BY <1>16 DEF Undo
  <2> QED
    BY <1>0, <1>16, <2>1, UndoKeepsMerged, InvariantKept
<1>17. ASSUME NEW s \in Senders, Expire(s)
       PROVE  MergedInvariant'
  <2>1. /\ UNCHANGED <<folder, trashed, merge, request, odd>>
        /\ change' = [change EXCEPT ![s] = None]
    BY <1>17 DEF Expire
  <2>2. \A x \in Senders : change'[x] = change[x] \/ change'[x] = None
    BY <1>0, <2>1 DEF QueueTypes
  <2> QED
    BY <1>1, <2>1, <2>2
<1> QED
  BY <1>3, <1>4, <1>5, <1>6, <1>8, <1>9, <1>10, <1>11, <1>12, <1>13, <1>14, <1>15, <1>16, <1>17
  DEF ConvNext

\* As long as the links of what is merged do not go through the bin, it stays in the box of
\* its merge, for any messages, links, merges, senders and replies and whatever crosses,
\* until an explained step parts some of it.
THEOREM MergedStay ==
  ConvSpec /\ []BinLinksNothing => [](odd = {} => MergedStayTogether)
<1> DEFINE Known == odd = {} => MergedInvariant
<1>1. ConvInit => QueueInvariant /\ Known
  <2>1. ConvInit => QueueInvariant
    BY DEF ConvInit, QueueInvariant, QueueTypes, OneQueue, RequestStands, Places, Boxes, None
  <2>2. ConvInit => MergedInvariant
    BY DEF ConvInit, MergedInvariant, Standing, Unmade, PlanFits, None
  <2> QED
    BY <2>1, <2>2
<1>2. QueueInvariant /\ [ConvNext]_convVars => QueueInvariant'
  BY ConversationsAssumption, QueueStep
<1>3. QueueInvariant /\ BinLinksNothing /\ Known /\ [ConvNext]_convVars => Known'
  BY ConversationsAssumption, MergedStep
<1>4. Known => (odd = {} => MergedStayTogether)
  BY DEF MergedInvariant, MergeStands, MergedStayTogether
<1> QED
  BY <1>1, <1>2, <1>3, <1>4, PTL DEF ConvSpec

-------------------------------------------------------------------------------
(* The deliveries (InboundDelivery).                                           *)

USE InvocationsAssumption, DataAssumption

-----------------------------------------------------------------------------
(***************************************************************************)
(* Type correctness.                                                       *)
(***************************************************************************)

LEMMA NewClaimIsALedgerRow ==
  ASSUME NEW i \in Invocations, NEW n \in Nat
  PROVE  NewClaim(i, n) \in LedgerRow
  BY DEF NewClaim, LedgerRow, Invocations

LEMMA TakeClaimType ==
  ASSUME TypeOK, NEW i \in Invocations, NEW r, TakeClaim(i, r)
  PROVE  /\ ledger' \in [Raws -> LedgerRow]
         /\ lapsed' \subseteq Invocations
<1>1. CASE r \in Raws
  <2>1. ledger[r].attempts + 1 \in Nat
    BY <1>1 DEF TypeOK, LedgerRow
  <2>2. NewClaim(i, ledger[r].attempts + 1) \in LedgerRow
    BY <2>1, NewClaimIsALedgerRow
  <2> QED
    BY <2>2 DEF TypeOK, TakeClaim
<1>2. CASE r \notin Raws
  BY <1>2 DEF TypeOK, TakeClaim
<1> QED
  BY <1>1, <1>2

LEMMA SettledType ==
  ASSUME TypeOK, NEW r, NEW status \in {"failed", "forwarded"}
  PROVE  Settled(r, status) \in [Raws -> LedgerRow]
<1>1. CASE r \in Raws
  <2> DEFINE settled == [status |-> status, holder |-> NoOne, lease |-> "none",
                         attempts |-> ledger[r].attempts]
  <2>1. settled \in LedgerRow
    BY <1>1 DEF LedgerRow, TypeOK
  <2> QED
    BY <2>1 DEF TypeOK, Settled
<1>2. CASE r \notin Raws
  BY <1>2 DEF TypeOK, Settled
<1> QED
  BY <1>1, <1>2

LEMMA MarkedType ==
  ASSUME TypeOK, NEW i, NEW r, NEW status \in {"failed", "forwarded"}
  PROVE  Marked(i, r, status) \in [Raws -> LedgerRow]
  BY SettledType DEF Marked, TypeOK

LEMMA ReplayMarkedType ==
  ASSUME TypeOK, NEW p, NEW r, NEW status \in {"failed", "forwarded"}
  PROVE  ReplayMarked(p, r, status) \in [Raws -> LedgerRow]
  BY SettledType DEF ReplayMarked, TypeOK

LEMMA GotoType ==
  ASSUME TypeOK, NEW i \in Invocations, NEW step \in Steps, Goto(i, step)
  PROVE  pc' \in [Invocations -> Steps]
  BY DEF TypeOK, Goto

LEMMA StorageFailsType ==
  ASSUME TypeOK, NEW d \in Deliveries, StorageFails(d)
  PROVE  pc' \in [Invocations -> Steps]
  BY DEF TypeOK, StorageFails, Goto, Steps, Ended, Early, Invocations

LEMMA DuplicateType ==
  ASSUME TypeOK, NEW d \in Deliveries, NEW r \in Raws, Duplicate(d, r)
  PROVE  /\ pc' \in [Invocations -> Steps]
         /\ row' \in [Invocations -> Raws \cup {NoRaw}]
  BY DEF TypeOK, Duplicate, WorkOn, Goto, Steps, Ended, Early, Invocations

LEMMA DeleteOwnObjectsType ==
  ASSUME TypeOK, NEW d \in Deliveries, DeleteOwnObjects(d)
  PROVE  objects' \subseteq Raws \X Parts
  BY DEF TypeOK, DeleteOwnObjects

LEMMA BatchType ==
  ASSUME TypeOK, NEW d \in Deliveries
  PROVE  /\ BatchStored(d) \in [Raws -> Mailboxes \cup {NoMailbox}]
         /\ BatchLedger(d) \in [Raws -> LedgerRow]
<1>1. BatchStored(d) \in [Raws -> Mailboxes \cup {NoMailbox}]
  BY DEF TypeOK, BatchStored
<1>2. NewClaim(d, 1) \in LedgerRow
  BY NewClaimIsALedgerRow DEF Invocations
<1>3. BatchLedger(d) \in [Raws -> LedgerRow]
  BY <1>2 DEF TypeOK, BatchLedger
<1> QED
  BY <1>1, <1>3

LEMMA AcceptedType ==
  ASSUME TypeOK, NEW i \in Invocations, Accepted(i) \/ ReportedFailed(i)
  PROVE  sent' \subseteq Invocations /\ loose' \subseteq Invocations
  BY DEF TypeOK, Accepted, ReportedFailed

LEMMA DeliveryStepKeepsTypes ==
  ASSUME TypeOK, NEW d \in Deliveries, CheckSender(d) \/ Proceed(d)
  PROVE  TypeOK'
<1> d \in Invocations /\ RawOf[d] \in Raws
  BY DEF Invocations
<1>1. CASE CheckSender(d)
  BY <1>1, StorageFailsType DEF TypeOK, CheckSender, Goto, Steps, Ended, Early, Holding, history, acceptances
<1>2. CASE FindMailbox(d)
  BY <1>2, StorageFailsType DEF TypeOK, FindMailbox, Goto, Steps, Ended, Early, Holding, history, acceptances
<1>3. CASE FindExisting(d)
  BY <1>3, StorageFailsType, DuplicateType DEF TypeOK, FindExisting, Goto, Steps, Ended, Early, Holding, history, acceptances, RowsWith
<1>4. CASE PutOriginal(d)
  BY <1>4, StorageFailsType DEF TypeOK, PutOriginal, Goto, Steps, Ended, Early, Holding, history, acceptances, Parts
<1>5. CASE PutAttachments(d)
  BY <1>5, StorageFailsType DEF TypeOK, PutAttachments, Goto, Steps, Ended, Early, Holding, history, acceptances, Parts
<1>6. CASE InsertBatch(d)
  BY <1>6, StorageFailsType, BatchType DEF TypeOK, InsertBatch, Goto, Steps, Ended, Early, Holding, history, acceptances, WorkOn
<1>7. CASE InsertBatchFails(d)
  BY <1>7, StorageFailsType DEF TypeOK, InsertBatchFails, Goto, Steps, Ended, Early, Holding, history, acceptances
<1>8. CASE Reread(d)
  BY <1>8, StorageFailsType DEF TypeOK, Reread, Goto, Steps, Ended, Early, Holding, history, acceptances, RowsWith, WorkOn
<1>9. CASE CleanUpLoser(d)
  BY <1>9, DeleteOwnObjectsType DEF TypeOK, CleanUpLoser, Goto, Steps, Ended, Early, Holding, history, acceptances
<1>10. CASE DiscardUnstored(d)
  BY <1>10, StorageFailsType, DeleteOwnObjectsType DEF TypeOK, DiscardUnstored, Goto, Steps, Ended, Early, Holding, history, acceptances
<1>11. CASE CheckOwnClaim(d)
  BY <1>11, StorageFailsType DEF TypeOK, CheckOwnClaim, Goto, Steps, Ended, Early, Holding, history, acceptances
<1>12. CASE ClaimForward(d)
  BY <1>12, StorageFailsType, TakeClaimType DEF TypeOK, ClaimForward, Goto, Steps, Ended, Early, Holding, history, acceptances
<1>13. CASE Forward(d)
  BY <1>13, AcceptedType DEF TypeOK, Forward, Goto, Steps, Ended, Early, Holding, history, acceptances
<1>14. CASE RecordForward(d)
  BY <1>14, MarkedType DEF TypeOK, RecordForward, Goto, Steps, Ended, Early, Holding, history, acceptances
<1>15. CASE RecordUnforwardable(d)
  BY <1>15, MarkedType DEF TypeOK, RecordUnforwardable, Goto, Steps, Ended, Early, Holding, history, acceptances
<1>16. CASE RelayUnstored(d)
  BY <1>16, AcceptedType DEF TypeOK, RelayUnstored, Goto, Steps, Ended, Early, Holding, history, acceptances
<1> QED
  BY <1>1, <1>2, <1>3, <1>4, <1>5, <1>6, <1>7, <1>8, <1>9, <1>10, <1>11, <1>12, <1>13, <1>14, <1>15, <1>16 DEF Proceed

LEMMA ReplayStepKeepsTypes ==
  ASSUME TypeOK, NEW p \in Replays, RequestReplay(p) \/ ProceedReplay(p)
  PROVE  TypeOK'
<1> p \in Invocations
  BY DEF Invocations
<1>1. CASE RequestReplay(p)
  BY <1>1 DEF TypeOK, RequestReplay, Goto, Steps, Ended, Early, Holding, history, acceptances, WorkOn
<1>2. CASE ClaimReplay(p)
  BY <1>2, TakeClaimType DEF TypeOK, ClaimReplay, Goto, Steps, Ended, Early, Holding, history, acceptances
<1>3. CASE ConfirmReplay(p)
  BY <1>3 DEF TypeOK, ConfirmReplay, Goto, Steps, Ended, Early, Holding, history, acceptances
<1>4. CASE LoadReplay(p)
  BY <1>4 DEF TypeOK, LoadReplay, Goto, Steps, Ended, Early, Holding, history, acceptances
<1>5. CASE SendReplay(p)
  BY <1>5, AcceptedType DEF TypeOK, SendReplay, Goto, Steps, Ended, Early, Holding, history, acceptances
<1>6. CASE RecordReplay(p)
  BY <1>6, ReplayMarkedType DEF TypeOK, RecordReplay, Goto, Steps, Ended, Early, Holding, history, acceptances
<1> QED
  BY <1>1, <1>2, <1>3, <1>4, <1>5, <1>6 DEF ProceedReplay

LEMMA InitType ==
  Init => TypeOK
<1>1. NoRow \in LedgerRow
  BY DEF NoRow, LedgerRow
<1> QED
  BY <1>1 DEF Init, TypeOK, Steps, Early, Invocations

LEMMA LeaseExpiresType ==
  ASSUME TypeOK, NEW r \in Raws, LeaseExpires(r)
  PROVE  TypeOK'
<1> DEFINE expired == [status |-> "processing", holder |-> ledger[r].holder,
                       lease |-> "expired", attempts |-> ledger[r].attempts]
<1>1. expired \in LedgerRow /\ ledger[r].holder \in Invocations
  BY DEF TypeOK, LedgerRow, LeaseExpires
<1>2. ledger' = [ledger EXCEPT ![r] = expired] /\ lapsed' \subseteq Invocations
  BY <1>1 DEF TypeOK, LeaseExpires
<1>3. ledger' \in [Raws -> LedgerRow]
  BY <1>1, <1>2 DEF TypeOK
<1> QED
  BY <1>2, <1>3 DEF TypeOK, LeaseExpires, acceptances

LEMMA NextKeepsTypes ==
  TypeOK /\ [Next]_vars => TypeOK'
<1> SUFFICES ASSUME TypeOK, [Next]_vars PROVE TypeOK'
  OBVIOUS
<1>1. ASSUME NEW i \in Invocations, Crash(i) PROVE TypeOK'
  BY <1>1, AcceptedType DEF TypeOK, Crash, Goto, Steps, Ended, acceptances
<1>2. ASSUME NEW m \in Mailboxes, ChangeReception(m) PROVE TypeOK'
  BY <1>2 DEF TypeOK, ChangeReception, history, acceptances
<1>3. CASE UNCHANGED vars
  BY <1>3 DEF TypeOK, vars
<1> QED
  BY <1>1, <1>2, <1>3, DeliveryStepKeepsTypes, ReplayStepKeepsTypes, LeaseExpiresType
     DEF Next

\* No interleaving, failure or crash takes a variable out of its domain; in
\* particular the claim columns of a ledger row are set exactly while its status
\* is "processing", whichever statement wrote the row last.
THEOREM TypeCorrect == Spec => []TypeOK
  BY InitType, NextKeepsTypes, PTL DEF Spec

-----------------------------------------------------------------------------
(***************************************************************************)
(* The relay.  A step of an invocation walks on, looks up a row, takes a   *)
(* claim, sends, settles its claim or inserts the message: one lemma for   *)
(* each says why it keeps RelayInvariant.                                  *)
(***************************************************************************)

LEMMA WalkKeepsInvariant ==
  ASSUME TypeOK, RelayInvariant,
         NEW i \in Invocations, NEW step \in Steps, Goto(i, step),
         UNCHANGED <<stored, ledger, row, lapsed, sent>>,
         pc[i] \notin Ended,
         pc[i] = "markForwarded" => step \in Ended,
         step \in Early => pc[i] \in Early,
         step \in Holding =>
           pc[i] \in Holding \/ (row[i] \in Raws /\ ledger[row[i]].holder = i),
         step \in {"owns", "cleanup", "claim", "replayClaim"} => row[i] \in Raws,
         step \in {"reread", "discard"} => i \in Deliveries /\ row[i] = RawOf[i]
  PROVE  RelayInvariant'
<1>1. pc'[i] = step /\ \A j \in Invocations \ {i} : pc'[j] = pc[j]
  BY DEF TypeOK, Goto
<1>2. UniqueMessageId' /\ LedgerOfStored' /\ ExpiredHasLapsed'
  BY DEF RelayInvariant, UniqueMessageId, LedgerOfStored, ExpiredHasLapsed
<1>3. RowKnown'
  BY <1>1 DEF RelayInvariant, RowKnown
<1>4. HoldsOnlyItsRow'
  <2>1. \A r \in Raws : ledger[r].holder \in Invocations \cup {NoOne}
    BY DEF TypeOK, LedgerRow
  <2> QED
    BY <1>1, <2>1 DEF RelayInvariant, HoldsOnlyItsRow
<1>5. HoldingIsClaimed'
  BY <1>1 DEF RelayInvariant, HoldingIsClaimed
<1>6. SentIsClaimed'
  BY <1>1 DEF RelayInvariant, SentIsClaimed, TypeOK
<1> QED
  BY <1>2, <1>3, <1>4, <1>5, <1>6 DEF RelayInvariant

LEMMA LookUpKeepsInvariant ==
  ASSUME TypeOK, RelayInvariant,
         NEW i \in Invocations, NEW r \in Raws, NEW step \in Steps,
         Goto(i, step), WorkOn(i, r),
         UNCHANGED <<stored, ledger, lapsed, sent>>,
         pc[i] \in Early \cup {"reread"},
         step \in Ended \cup {"owns", "cleanup", "claim", "replayClaim"},
         \A q \in Raws : ledger[q].holder = i => q = r
  PROVE  RelayInvariant'
<1>1. /\ pc'[i] = step /\ \A j \in Invocations \ {i} : pc'[j] = pc[j]
      /\ row'[i] = r /\ \A j \in Invocations \ {i} : row'[j] = row[j]
  BY DEF TypeOK, Goto, WorkOn
<1>2. UniqueMessageId' /\ LedgerOfStored' /\ ExpiredHasLapsed'
  BY DEF RelayInvariant, UniqueMessageId, LedgerOfStored, ExpiredHasLapsed
<1>3. RowKnown'
  BY <1>1 DEF RelayInvariant, RowKnown, Ended
<1>4. HoldsOnlyItsRow'
  <2>1. \A q \in Raws : ledger[q].holder \in Invocations \cup {NoOne}
    BY DEF TypeOK, LedgerRow
  <2>2. step \notin Early
    BY DEF Ended, Early
  <2> QED
    BY <1>1, <2>1, <2>2 DEF RelayInvariant, HoldsOnlyItsRow
<1>5. HoldingIsClaimed'
  BY <1>1 DEF RelayInvariant, HoldingIsClaimed, Holding, Ended
<1>6. SentIsClaimed'
  <2>1. i \notin sent
    BY DEF RelayInvariant, SentIsClaimed, Early, Ended
  <2> QED
    BY <1>1, <2>1 DEF RelayInvariant, SentIsClaimed, TypeOK
<1> QED
  BY <1>2, <1>3, <1>4, <1>5, <1>6 DEF RelayInvariant

LEMMA TakeClaimKeepsInvariant ==
  ASSUME TypeOK, RelayInvariant,
         NEW i \in Invocations, NEW step \in Steps,
         Goto(i, step), TakeClaim(i, row[i]),
         UNCHANGED <<stored, row, sent>>,
         pc[i] \in {"claim", "replayClaim"},
         step \in Ended \cup {"degrade", "forward", "confirm"},
         Replayable(row[i])
  PROVE  RelayInvariant'
<1> DEFINE r == row[i]
<1>0. r \in Raws
  BY DEF RelayInvariant, RowKnown
<1>1. pc'[i] = step /\ \A j \in Invocations \ {i} : pc'[j] = pc[j]
  BY DEF TypeOK, Goto
<1>2. /\ ledger'[r].holder = i /\ ledger'[r].status = "processing"
      /\ ledger'[r].lease = "running"
      /\ \A q \in Raws \ {r} : ledger'[q] = ledger[q]
      /\ lapsed' = lapsed \ {i}
  BY <1>0 DEF TypeOK, TakeClaim, NewClaim
<1>3. /\ ledger[r].status \in {"failed", "processing"}
      /\ ledger[r].holder # NoOne => ledger[r].holder \in lapsed
  BY <1>0 DEF Replayable, TypeOK, LedgerRow, RelayInvariant, ExpiredHasLapsed
<1>4. \A q \in Raws \ {r} : ledger[q].holder # i
  BY DEF RelayInvariant, HoldsOnlyItsRow, Invocations
<1>5. UniqueMessageId'
  BY DEF RelayInvariant, UniqueMessageId
<1>6. LedgerOfStored'
  BY <1>0, <1>2, <1>3 DEF RelayInvariant, LedgerOfStored
<1>7. RowKnown'
  BY <1>1 DEF RelayInvariant, RowKnown, Ended
<1>8. HoldsOnlyItsRow'
  <2>1. \A q \in Raws : ledger[q].holder \in Invocations \cup {NoOne}
    BY DEF TypeOK, LedgerRow
  <2>2. step \notin Early
    BY DEF Ended, Early
  <2> QED
    BY <1>1, <1>2, <2>1, <2>2 DEF RelayInvariant, HoldsOnlyItsRow
<1>9. ExpiredHasLapsed'
  BY <1>2, <1>4 DEF RelayInvariant, ExpiredHasLapsed
<1>10. HoldingIsClaimed'
  BY <1>0, <1>1, <1>2, <1>3 DEF RelayInvariant, HoldingIsClaimed
<1>11. SentIsClaimed'
  <2>1. i \notin sent
    BY DEF RelayInvariant, SentIsClaimed, Ended
  <2> QED
    BY <1>0, <1>1, <1>2, <1>3, <2>1 DEF RelayInvariant, SentIsClaimed, TypeOK
<1> QED
  BY <1>5, <1>6, <1>7, <1>8, <1>9, <1>10, <1>11 DEF RelayInvariant

LEMMA SettleKeepsInvariant ==
  ASSUME TypeOK, RelayInvariant,
         NEW i \in Invocations, NEW step \in Ended, NEW status \in {"failed", "forwarded"},
         Goto(i, step),
         ledger' = Settled(row[i], status), ledger[row[i]].holder = i,
         UNCHANGED <<stored, row, lapsed, sent>>,
         pc[i] \in Holding,
         status = "failed" => pc[i] # "markForwarded"
  PROVE  RelayInvariant'
<1> DEFINE r == row[i]
<1>0. r \in Raws
  BY DEF RelayInvariant, HoldingIsClaimed
<1>1. pc'[i] = step /\ \A j \in Invocations \ {i} : pc'[j] = pc[j]
  BY DEF TypeOK, Goto
<1>2. /\ ledger'[r].holder = NoOne /\ ledger'[r].status = status
      /\ ledger'[r].lease = "none"
      /\ \A q \in Raws \ {r} : ledger'[q] = ledger[q]
  BY <1>0 DEF TypeOK, Settled
<1>3. ledger[r].status = "processing"
  BY <1>0 DEF TypeOK, LedgerRow, Invocations
<1>4. UniqueMessageId'
  BY DEF RelayInvariant, UniqueMessageId
<1>5. LedgerOfStored'
  BY <1>0, <1>2, <1>3 DEF RelayInvariant, LedgerOfStored
<1>6. RowKnown'
  BY <1>1 DEF RelayInvariant, RowKnown, Ended
<1>7. HoldsOnlyItsRow'
  <2>1. \A q \in Raws : ledger[q].holder \in Invocations \cup {NoOne}
    BY DEF TypeOK, LedgerRow
  <2>2. step \notin Early
    BY DEF Ended, Early
  <2> QED
    BY <1>1, <1>2, <2>1, <2>2 DEF RelayInvariant, HoldsOnlyItsRow
<1>8. ExpiredHasLapsed'
  BY <1>2 DEF RelayInvariant, ExpiredHasLapsed
<1>9. HoldingIsClaimed'
  BY <1>0, <1>1, <1>2 DEF RelayInvariant, HoldingIsClaimed, Ended, Holding
<1>10. SentIsClaimed'
  <2>1. status = "failed" => i \notin sent
    BY DEF RelayInvariant, SentIsClaimed, Ended, Holding
  <2> QED
    BY <1>0, <1>1, <1>2, <1>3, <2>1 DEF RelayInvariant, SentIsClaimed, TypeOK
<1> QED
  BY <1>4, <1>5, <1>6, <1>7, <1>8, <1>9, <1>10 DEF RelayInvariant

\* A relay is accepted under a claim.
LEMMA SendKeepsInvariant ==
  ASSUME TypeOK, RelayInvariant, NEW i \in Invocations, Claimed(i),
         NEW step \in Ended \cup {"markForwarded"}, Goto(i, step), sent' = sent \cup {i},
         UNCHANGED <<stored, ledger, row, lapsed>>
  PROVE  RelayInvariant'
<1>1. /\ pc'[i] = step /\ \A j \in Invocations \ {i} : pc'[j] = pc[j]
      /\ row[i] \in Raws /\ (i \in lapsed \/ ledger[row[i]].holder = i)
  BY DEF TypeOK, Goto, Claimed
<1>2. UniqueMessageId' /\ LedgerOfStored' /\ ExpiredHasLapsed'
  BY DEF RelayInvariant, UniqueMessageId, LedgerOfStored, ExpiredHasLapsed
<1>3. step \notin Early /\ step \notin {"owns", "cleanup", "claim", "replayClaim", "reread", "discard"}
  BY DEF Ended, Early
<1>4. RowKnown'
  BY <1>1, <1>3 DEF RelayInvariant, RowKnown
<1>5. HoldsOnlyItsRow'
  <2>1. \A q \in Raws : ledger[q].holder \in Invocations \cup {NoOne}
    BY DEF TypeOK, LedgerRow
  <2> QED
    BY <1>1, <1>3, <2>1 DEF RelayInvariant, HoldsOnlyItsRow
<1>6. HoldingIsClaimed'
  BY <1>1 DEF RelayInvariant, HoldingIsClaimed
<1>7. SentIsClaimed'
  BY <1>1 DEF RelayInvariant, SentIsClaimed, TypeOK
<1> QED
  BY <1>2, <1>4, <1>5, <1>6, <1>7 DEF RelayInvariant

LEMMA LeaseExpiresKeepsInvariant ==
  ASSUME TypeOK, RelayInvariant, NEW r \in Raws, LeaseExpires(r)
  PROVE  RelayInvariant'
<1> DEFINE h == ledger[r].holder
<1>1. /\ ledger'[r].holder = h /\ ledger'[r].status = ledger[r].status
      /\ \A q \in Raws \ {r} : ledger'[q] = ledger[q]
      /\ lapsed' = lapsed \cup {h}
      /\ UNCHANGED <<stored, pc, row, sent>>
  BY DEF TypeOK, LeaseExpires, acceptances
<1>2. UniqueMessageId' /\ RowKnown'
  BY <1>1 DEF RelayInvariant, UniqueMessageId, RowKnown
<1>3. LedgerOfStored' /\ ExpiredHasLapsed'
  BY <1>1 DEF RelayInvariant, LedgerOfStored, ExpiredHasLapsed
<1>4. HoldsOnlyItsRow'
  BY <1>1 DEF RelayInvariant, HoldsOnlyItsRow
<1>5. HoldingIsClaimed' /\ SentIsClaimed'
  BY <1>1 DEF RelayInvariant, HoldingIsClaimed, SentIsClaimed
<1> QED
  BY <1>2, <1>3, <1>4, <1>5 DEF RelayInvariant

LEMMA InsertBatchKeepsInvariant ==
  ASSUME TypeOK, RelayInvariant, NEW d \in Deliveries, InsertBatch(d)
  PROVE  RelayInvariant'
<1> DEFINE r == RawOf[d]
<1>0. r \in Raws /\ d \in Invocations /\ pc[d] = "insert"
  BY DEF Invocations, InsertBatch
<1>1. PICK step \in Steps :
        /\ Goto(d, step)
        /\ step \in Ended \cup {"forward", "reread", "degrade"}
        /\ step = "forward" => BatchInserts(d) /\ d \in Relaying
  BY DEF InsertBatch, StorageFails, Steps, Ended, Holding
<1>2. /\ pc'[d] = step /\ \A j \in Invocations \ {d} : pc'[j] = pc[j]
      /\ row'[d] = r /\ \A j \in Invocations \ {d} : row'[j] = row[j]
      /\ UNCHANGED <<lapsed, sent>>
  BY <1>0, <1>1 DEF TypeOK, Goto, WorkOn, InsertBatch, history, acceptances
<1>3. /\ \A q \in Raws \ {r} : stored'[q] = stored[q] /\ ledger'[q] = ledger[q]
      /\ stored'[r] = stored[r] \/ BatchInserts(d)
      /\ stored[r] # NoMailbox => stored'[r] # NoMailbox
      /\ \/ ledger'[r] = ledger[r]
         \/ /\ ledger'[r] = NewClaim(d, 1) /\ stored'[r] # NoMailbox
            /\ ledger[r].status = "none"
  BY <1>0 DEF TypeOK, InsertBatch, BatchStored, BatchLedger, BatchInserts
<1>4. \A q \in Raws : ledger[q].holder \in Invocations \cup {NoOne} /\ ledger[q].holder # d
  BY <1>0 DEF TypeOK, LedgerRow, RelayInvariant, HoldsOnlyItsRow, Early
<1>5. BatchInserts(d) /\ d \in Relaying => ledger'[r].holder = d
  <2> HAVE BatchInserts(d) /\ d \in Relaying
  <2>1. stored'[r] # NoMailbox /\ stored[r] = NoMailbox
    BY <1>0 DEF TypeOK, InsertBatch, BatchInserts, BatchStored, RowsWith
  <2>2. ledger[r].status = "none"
    BY <1>0, <2>1 DEF RelayInvariant, LedgerOfStored
  <2> QED
    BY <1>0, <2>1, <2>2 DEF TypeOK, InsertBatch, BatchLedger, NewClaim
<1>6. UniqueMessageId'
  <2>1. BatchInserts(d) => \A q \in Raws : MessageIdOf[q] = MessageIdOf[r] => stored[q] = NoMailbox
    BY DEF BatchInserts, RowsWith
  <2> QED
    BY <1>0, <1>3, <2>1 DEF RelayInvariant, UniqueMessageId
<1>7. LedgerOfStored'
  BY <1>0, <1>3 DEF RelayInvariant, LedgerOfStored
<1>8. RowKnown'
  BY <1>0, <1>1, <1>2 DEF RelayInvariant, RowKnown, Ended
<1>9. HoldsOnlyItsRow'
  <2>1. step \notin Early
    BY <1>1 DEF Ended, Early
  <2> QED
    BY <1>0, <1>2, <1>3, <1>4, <2>1 DEF RelayInvariant, HoldsOnlyItsRow, NewClaim
<1>10. ExpiredHasLapsed'
  BY <1>0, <1>2, <1>3 DEF RelayInvariant, ExpiredHasLapsed, NewClaim
<1>11. \A q \in Raws : ledger[q].status # "none" => ledger'[q] = ledger[q]
  BY <1>3
<1>12. HoldingIsClaimed'
  <2>1. step \in Holding => step = "forward"
    BY <1>1 DEF Ended, Holding
  <2>2. \A q \in Raws : ledger[q].holder # NoOne => ledger[q].status # "none"
    BY DEF TypeOK, LedgerRow
  <2> QED
    BY <1>0, <1>1, <1>2, <1>4, <1>5, <1>11, <2>1, <2>2
       DEF RelayInvariant, HoldingIsClaimed, Invocations
<1>13. SentIsClaimed'
  <2>1. d \notin sent
    BY <1>0 DEF RelayInvariant, SentIsClaimed, Ended
  <2>2. \A q \in Raws : ledger[q].holder # NoOne => ledger[q].status # "none"
    BY DEF TypeOK, LedgerRow
  <2> QED
    BY <1>0, <1>1, <1>2, <1>11, <2>1, <2>2
       DEF RelayInvariant, SentIsClaimed, TypeOK, Invocations
<1> QED
  BY <1>6, <1>7, <1>8, <1>9, <1>10, <1>12, <1>13 DEF RelayInvariant

\* The invariant for the steps of one invocation, action by action.
LEMMA DeliveryStepKeepsInvariant ==
  ASSUME TypeOK, RelayInvariant, NEW d \in Deliveries, CheckSender(d) \/ Proceed(d)
  PROVE  RelayInvariant'
<1> d \in Invocations /\ RawOf[d] \in Raws
  BY DEF Invocations
<1> USE DEF history, acceptances
<1>1. CASE CheckSender(d)
  <2>1. PICK step \in {"rejected", "thrown", "mailbox", "degrade"} : Goto(d, step)
    BY <1>1 DEF CheckSender, StorageFails
  <2> QED
    BY <1>1, <2>1, WalkKeepsInvariant DEF CheckSender, Steps, Ended, Early, Holding
<1>2. CASE FindMailbox(d)
  <2>1. PICK step \in {"existing", "degrade", "thrown"} : Goto(d, step)
    BY <1>2 DEF FindMailbox, StorageFails
  <2> QED
    BY <1>2, <2>1, WalkKeepsInvariant DEF FindMailbox, Steps, Ended, Early, Holding
<1>3. CASE PutOriginal(d)
  <2>1. PICK step \in {"attachments", "degrade", "thrown"} : Goto(d, step)
    BY <1>3 DEF PutOriginal, StorageFails
  <2> QED
    BY <1>3, <2>1, WalkKeepsInvariant DEF PutOriginal, Steps, Ended, Early, Holding
<1>4. CASE PutAttachments(d)
  <2>1. PICK step \in {"insert", "degrade", "thrown"} : Goto(d, step)
    BY <1>4 DEF PutAttachments, StorageFails
  <2> QED
    BY <1>4, <2>1, WalkKeepsInvariant DEF PutAttachments, Steps, Ended, Early, Holding
<1>5. CASE InsertBatchFails(d)
  <2>1. PICK step \in {"degrade", "thrown"} : Goto(d, step)
    BY <1>5 DEF InsertBatchFails, StorageFails
  <2> QED
    BY <1>5, <2>1, WalkKeepsInvariant DEF InsertBatchFails, Steps, Ended, Early, Holding
<1>6. CASE DiscardUnstored(d)
  <2>1. PICK step \in {"degrade", "thrown"} : Goto(d, step)
    BY <1>6 DEF DiscardUnstored, StorageFails
  <2> QED
    BY <1>6, <2>1, WalkKeepsInvariant DEF DiscardUnstored, Steps, Ended, Early, Holding
<1>7. CASE RelayUnstored(d)
  <2>1. PICK step \in {"relayed", "thrown"} : Goto(d, step)
    BY <1>7 DEF RelayUnstored
  <2>2. CASE Claimed(d) /\ sent' = sent \cup {d}
    BY <1>7, <2>1, <2>2, SendKeepsInvariant DEF RelayUnstored, Ended
  <2>3. CASE UNCHANGED sent
    BY <1>7, <2>1, <2>3, WalkKeepsInvariant DEF RelayUnstored, Steps, Ended, Early, Holding
  <2> QED
    BY <1>7, <2>2, <2>3 DEF RelayUnstored, Accepted
<1>8. CASE CleanUpLoser(d)
  <2>1. PICK step \in {"claim", "acknowledged"} : Goto(d, step)
    BY <1>8 DEF CleanUpLoser
  <2>2. row[d] \in Raws
    BY <1>8 DEF CleanUpLoser, RelayInvariant, RowKnown
  <2> QED
    BY <1>8, <2>1, <2>2, WalkKeepsInvariant DEF CleanUpLoser, Steps, Ended, Early, Holding
<1>9. CASE CheckOwnClaim(d)
  <2>1. row[d] \in Raws
    BY <1>9 DEF CheckOwnClaim, RelayInvariant, RowKnown
  <2>2. PICK step \in {"forward", "claim", "degrade", "thrown"} :
          Goto(d, step) /\ (step = "forward" => ledger[row[d]].holder = d)
    BY <1>9 DEF CheckOwnClaim, StorageFails
  <2> QED
    BY <1>9, <2>1, <2>2, WalkKeepsInvariant DEF CheckOwnClaim, Steps, Ended, Early, Holding
<1>10. CASE FindExisting(d)
  <2>1. CASE \E r \in Raws : Duplicate(d, r)
    <3>1. PICK r \in Raws : Duplicate(d, r)
      BY <2>1
    <3>2. PICK step \in {"claim", "acknowledged"} : Goto(d, step)
      BY <3>1 DEF Duplicate
    <3>3. \A q \in Raws : ledger[q].holder # d
      BY <1>10 DEF FindExisting, RelayInvariant, HoldsOnlyItsRow, Early, Invocations
    <3> QED
      BY <1>10, <3>1, <3>2, <3>3, LookUpKeepsInvariant
         DEF FindExisting, Duplicate, Steps, Ended, Early
  <2>2. CASE UNCHANGED row /\ \E step \in {"original", "degrade", "thrown"} : Goto(d, step)
    <3>1. PICK step \in {"original", "degrade", "thrown"} : Goto(d, step)
      BY <2>2
    <3> QED
      BY <1>10, <2>2, <3>1, WalkKeepsInvariant DEF FindExisting, Steps, Ended, Early, Holding
  <2> QED
    BY <1>10, <2>1, <2>2 DEF FindExisting, RowsWith, StorageFails
<1>11. CASE Reread(d)
  <2>1. row[d] = RawOf[d]
    BY <1>11 DEF Reread, RelayInvariant, RowKnown
  <2>2. CASE \E r \in RowsWith(MessageIdOf[RawOf[d]]) : WorkOn(d, r) /\
               \E step \in {"cleanup", "owns", "acknowledged"} : Goto(d, step)
    <3>1. PICK r \in RowsWith(MessageIdOf[RawOf[d]]) : WorkOn(d, r) /\
            \E step \in {"cleanup", "owns", "acknowledged"} : Goto(d, step)
      BY <2>2
    <3>2. PICK step \in {"cleanup", "owns", "acknowledged"} : Goto(d, step)
      BY <3>1
    <3>3. ASSUME NEW q \in Raws, ledger[q].holder = d PROVE q = r
      <4>1. q = RawOf[d] /\ stored[q] # NoMailbox
        BY <2>1, <3>3 DEF RelayInvariant, HoldsOnlyItsRow, LedgerOfStored, TypeOK, LedgerRow, Invocations
      <4> QED
        BY <3>1, <4>1 DEF RowsWith, RelayInvariant, UniqueMessageId
    <3> QED
      BY <1>11, <3>1, <3>2, <3>3, LookUpKeepsInvariant DEF Reread, RowsWith, Steps, Ended, Early
  <2>3. CASE UNCHANGED row /\ \E step \in {"discard", "degrade", "thrown"} : Goto(d, step)
    <3>1. PICK step \in {"discard", "degrade", "thrown"} : Goto(d, step)
      BY <2>3
    <3> QED
      BY <1>11, <2>1, <2>3, <3>1, WalkKeepsInvariant DEF Reread, Steps, Ended, Early, Holding
  <2> QED
    BY <1>11, <2>2, <2>3 DEF Reread, StorageFails
<1>12. CASE InsertBatch(d)
  BY <1>12, InsertBatchKeepsInvariant
<1>13. CASE ClaimForward(d)
  <2>1. row[d] \in Raws
    BY <1>13 DEF ClaimForward, RelayInvariant, RowKnown
  <2>2. CASE Claimable(row[d]) /\ TakeClaim(d, row[d])
    <3>1. PICK step \in {"forward", "degrade", "thrown"} : Goto(d, step)
      BY <1>13, <2>2 DEF ClaimForward, StorageFails
    <3>2. Replayable(row[d])
      BY <2>2 DEF Claimable, Stale, Replayable
    <3> QED
      BY <1>13, <2>2, <3>1, <3>2, TakeClaimKeepsInvariant DEF ClaimForward, Steps, Ended, Holding
  <2>3. CASE UNCHANGED <<ledger, lapsed>> /\
             \E step \in {"acknowledged", "degrade", "thrown"} : Goto(d, step)
    <3>1. PICK step \in {"acknowledged", "degrade", "thrown"} : Goto(d, step)
      BY <2>3
    <3> QED
      BY <1>13, <2>3, <3>1, WalkKeepsInvariant DEF ClaimForward, Steps, Ended, Early, Holding
  <2> QED
    BY <1>13, <2>2, <2>3 DEF ClaimForward, StorageFails
<1>14. CASE Forward(d)
  <2>1. CASE Goto(d, "markForwarded") /\ Accepted(d)
    <3>1. Claimed(d)
      BY <1>14 DEF Forward, Holding, RelayInvariant, HoldingIsClaimed, Claimed
    <3> QED
      BY <1>14, <2>1, <3>1, SendKeepsInvariant DEF Forward, Accepted
  <2>2. CASE UNCHANGED sent /\ \E step \in {"markUnforwardable", "markFailed"} : Goto(d, step)
    <3>1. PICK step \in {"markUnforwardable", "markFailed"} : Goto(d, step)
      BY <2>2
    <3> QED
      BY <1>14, <2>2, <3>1, WalkKeepsInvariant DEF Forward, Steps, Ended, Early, Holding
  <2> QED
    BY <1>14, <2>1, <2>2 DEF Forward, ReportedFailed
<1>15. CASE RecordForward(d)
  <2>1. PICK status \in {"failed", "forwarded"} :
          /\ ledger' \in {Marked(d, row[d], status), ledger}
          /\ status = "failed" => pc[d] = "markFailed"
    BY <1>15 DEF RecordForward
  <2>2. CASE ledger' = ledger
    BY <1>15, <2>2, WalkKeepsInvariant DEF RecordForward, Steps, Ended, Early, Holding
  <2>3. CASE ledger' = Settled(row[d], status) /\ ledger[row[d]].holder = d
    BY <1>15, <2>1, <2>3, SettleKeepsInvariant DEF RecordForward, Ended, Holding
  <2> QED
    BY <2>1, <2>2, <2>3 DEF Marked
<1>16. CASE RecordUnforwardable(d)
  <2>1. PICK step \in {"acknowledged", "thrown"} : Goto(d, step)
    BY <1>16 DEF RecordUnforwardable
  <2>2. CASE ledger' = ledger
    BY <1>16, <2>1, <2>2, WalkKeepsInvariant DEF RecordUnforwardable, Steps, Ended, Early, Holding
  <2>3. CASE ledger' = Settled(row[d], "failed") /\ ledger[row[d]].holder = d
    BY <1>16, <2>1, <2>3, SettleKeepsInvariant DEF RecordUnforwardable, Ended, Holding
  <2> QED
    BY <1>16, <2>2, <2>3 DEF RecordUnforwardable, Marked
<1> QED
  BY <1>1, <1>2, <1>3, <1>4, <1>5, <1>6, <1>7, <1>8, <1>9, <1>10, <1>11, <1>12,
     <1>13, <1>14, <1>15, <1>16 DEF Proceed

LEMMA ReplayStepKeepsInvariant ==
  ASSUME TypeOK, RelayInvariant, NEW p \in Replays, RequestReplay(p) \/ ProceedReplay(p)
  PROVE  RelayInvariant'
<1> p \in Invocations
  BY DEF Invocations
<1> USE DEF history, acceptances
<1>1. CASE RequestReplay(p)
  <2>1. PICK r \in Raws : WorkOn(p, r) /\
          \E step \in {"replayClaim", "refused"} : Goto(p, step)
    BY <1>1 DEF RequestReplay
  <2>2. PICK step \in {"replayClaim", "refused"} : Goto(p, step)
    BY <2>1
  <2>3. \A q \in Raws : ledger[q].holder # p
    BY <1>1 DEF RequestReplay, RelayInvariant, HoldsOnlyItsRow, Early, Invocations
  <2> QED
    BY <1>1, <2>1, <2>2, <2>3, LookUpKeepsInvariant DEF RequestReplay, Steps, Ended, Early
<1>2. CASE ClaimReplay(p)
  <2>1. CASE ReplayMayClaim(p) /\ TakeClaim(p, row[p])
    <3>1. PICK step \in {"confirm", "thrown"} : Goto(p, step)
      BY <1>2, <2>1 DEF ClaimReplay
    <3> QED
      BY <1>2, <2>1, <3>1, TakeClaimKeepsInvariant
         DEF ClaimReplay, ReplayMayClaim, Steps, Ended, Holding
  <2>2. CASE UNCHANGED <<ledger, lapsed>> /\ \E step \in {"refused", "thrown"} : Goto(p, step)
    <3>1. PICK step \in {"refused", "thrown"} : Goto(p, step)
      BY <2>2
    <3> QED
      BY <1>2, <2>2, <3>1, WalkKeepsInvariant DEF ClaimReplay, Steps, Ended, Early, Holding
  <2> QED
    BY <1>2, <2>1, <2>2 DEF ClaimReplay
<1>3. CASE ConfirmReplay(p)
  <2>1. PICK step \in {"load", "refused", "thrown"} : Goto(p, step)
    BY <1>3 DEF ConfirmReplay
  <2> QED
    BY <1>3, <2>1, WalkKeepsInvariant DEF ConfirmReplay, Steps, Ended, Early, Holding
<1>4. CASE LoadReplay(p)
  <2>1. PICK step \in {"send", "markFailed"} : Goto(p, step)
    BY <1>4 DEF LoadReplay
  <2> QED
    BY <1>4, <2>1, WalkKeepsInvariant DEF LoadReplay, Steps, Ended, Early, Holding
<1>5. CASE SendReplay(p)
  <2>1. CASE Goto(p, "markForwarded") /\ Accepted(p)
    <3>1. Claimed(p)
      BY <1>5 DEF SendReplay, Holding, RelayInvariant, HoldingIsClaimed, Claimed
    <3> QED
      BY <1>5, <2>1, <3>1, SendKeepsInvariant DEF SendReplay, Accepted
  <2>2. CASE Goto(p, "markFailed") /\ UNCHANGED sent
    BY <1>5, <2>2, WalkKeepsInvariant DEF SendReplay, Steps, Ended, Early, Holding
  <2> QED
    BY <1>5, <2>1, <2>2 DEF SendReplay, ReportedFailed
<1>6. CASE RecordReplay(p)
  <2>1. PICK status \in {"failed", "forwarded"} :
          /\ ledger' \in {ReplayMarked(p, row[p], status), ledger}
          /\ status = "failed" => pc[p] = "markFailed"
    BY <1>6 DEF RecordReplay
  <2>2. PICK step \in {"replayed", "failed", "thrown"} : Goto(p, step)
    BY <1>6 DEF RecordReplay
  <2>3. CASE ledger' = ledger
    BY <1>6, <2>2, <2>3, WalkKeepsInvariant DEF RecordReplay, Steps, Ended, Early, Holding
  <2>4. CASE ledger' = Settled(row[p], status) /\ ledger[row[p]].holder = p
    BY <1>6, <2>1, <2>2, <2>4, SettleKeepsInvariant DEF RecordReplay, Ended, Holding
  <2> QED
    BY <2>1, <2>3, <2>4 DEF ReplayMarked
<1> QED
  BY <1>1, <1>2, <1>3, <1>4, <1>5, <1>6 DEF ProceedReplay

LEMMA NextKeepsInvariant ==
  TypeOK /\ RelayInvariant /\ [Next]_vars => RelayInvariant'
<1> SUFFICES ASSUME TypeOK, RelayInvariant, [Next]_vars PROVE RelayInvariant'
  OBVIOUS
<1>1. ASSUME NEW i \in Invocations, Crash(i) PROVE RelayInvariant'
  <2>1. CASE Claimed(i) /\ sent' = sent \cup {i}
    BY <1>1, <2>1, SendKeepsInvariant DEF Crash, Ended
  <2>2. CASE UNCHANGED sent
    BY <1>1, <2>2, WalkKeepsInvariant DEF Crash, Steps, Ended, Early, Holding
  <2> QED
    BY <1>1, <2>1, <2>2 DEF Crash, acceptances, Accepted
<1>2. CASE \E m \in Mailboxes : ChangeReception(m)
  <2>1. UNCHANGED <<stored, ledger, pc, row, lapsed, sent>>
    BY <1>2 DEF ChangeReception, history, acceptances
  <2> QED
    BY <2>1 DEF RelayInvariant, UniqueMessageId, LedgerOfStored, RowKnown, HoldsOnlyItsRow,
                ExpiredHasLapsed, HoldingIsClaimed, SentIsClaimed
<1>3. CASE UNCHANGED vars
  BY <1>3 DEF vars, RelayInvariant, UniqueMessageId, LedgerOfStored, RowKnown, HoldsOnlyItsRow,
              ExpiredHasLapsed, HoldingIsClaimed, SentIsClaimed
<1> QED
  BY <1>1, <1>2, <1>3, DeliveryStepKeepsInvariant, ReplayStepKeepsInvariant,
     LeaseExpiresKeepsInvariant DEF Next

\* A ledger row changes hands only after its holder has lapsed, whatever answers
\* are lost and whoever is evicted: the tokens and dates that every claim and
\* every recorded result compare are enough.
THEOREM RelayInvariantHolds == Spec => []RelayInvariant
<1>1. Init => RelayInvariant
  BY DEF Init, NoRow, RelayInvariant, UniqueMessageId, LedgerOfStored, RowKnown, HoldsOnlyItsRow,
         ExpiredHasLapsed, HoldingIsClaimed, SentIsClaimed, Holding, Ended, Invocations
<1> QED
  BY <1>1, TypeCorrect, NextKeepsInvariant, PTL DEF Spec

\* While neither lease has run out, no two invocations may relay one message under a
\* claim; the relay after a storage failure is not made under one.
THEOREM OnlyOneLiveHolder == Spec => []OneLiveHolder
<1>1. RelayInvariant => OneLiveHolder
  BY DEF RelayInvariant, HoldingIsClaimed, OneLiveHolder
<1> QED
  BY <1>1, RelayInvariantHolds, PTL

-----------------------------------------------------------------------------
(***************************************************************************)
(* What was relayed and what was recorded.                                 *)
(***************************************************************************)

\* A relay that was accepted stays where it was, and stays late if it was.
SentStays ==
  \A j \in sent : row'[j] = row[j] /\ (j \in lapsed => j \in lapsed')

SentGrows ==
  \/ sent' = sent
  \/ \E i \in Invocations :
       /\ sent' = sent \cup {i}
       /\ Claimed(i)
       /\ UNCHANGED <<ledger, row, lapsed>>

LEMMA AcceptedGrows ==
  ASSUME NEW i \in Invocations, Accepted(i) \/ ReportedFailed(i) \/ UNCHANGED acceptances,
         UNCHANGED <<ledger, row, lapsed>>
  PROVE  SentStays /\ SentGrows
  BY DEF Accepted, ReportedFailed, acceptances, SentStays, SentGrows

LEMMA NextSent ==
  ASSUME TypeOK, RelayInvariant, [Next]_vars
  PROVE  SentStays /\ SentGrows
<1> USE DEF history
<1>1. \A j \in sent : pc[j] \in Ended \cup {"markForwarded"}
  BY DEF RelayInvariant, SentIsClaimed
<1>2. ASSUME NEW d \in Deliveries, CheckSender(d) \/ Proceed(d) PROVE SentStays /\ SentGrows
  <2> d \in Invocations
    BY DEF Invocations
  <2>1. CASE FindExisting(d) \/ InsertBatch(d) \/ Reread(d)
    <3>1. d \notin sent
      BY <1>1, <2>1 DEF FindExisting, InsertBatch, Reread, Ended
    <3>2. UNCHANGED <<lapsed, sent>> /\ \A j \in Invocations \ {d} : row'[j] = row[j]
      BY <2>1 DEF FindExisting, InsertBatch, Reread, Duplicate, WorkOn, TypeOK, acceptances
    <3> QED
      BY <3>1, <3>2 DEF SentStays, SentGrows, TypeOK
  <2>2. CASE ClaimForward(d)
    <3>1. d \notin sent
      BY <1>1, <2>2 DEF ClaimForward, Ended
    <3> QED
      BY <2>2, <3>1 DEF ClaimForward, TakeClaim, SentStays, SentGrows, acceptances
  <2>3. CASE Forward(d) \/ RelayUnstored(d)
    BY <2>3, AcceptedGrows DEF Forward, RelayUnstored
  <2> QED
    BY <1>2, <2>1, <2>2, <2>3
       DEF Proceed, SentStays, SentGrows, CheckSender, FindMailbox, PutOriginal,
           PutAttachments, InsertBatchFails, CleanUpLoser, DiscardUnstored, CheckOwnClaim,
           RecordForward, RecordUnforwardable, acceptances
<1>3. ASSUME NEW p \in Replays, RequestReplay(p) \/ ProceedReplay(p) PROVE SentStays /\ SentGrows
  <2> p \in Invocations
    BY DEF Invocations
  <2>1. CASE RequestReplay(p)
    <3>1. p \notin sent
      BY <1>1, <2>1 DEF RequestReplay, Ended
    <3>2. UNCHANGED <<lapsed, sent>> /\ \A j \in Invocations \ {p} : row'[j] = row[j]
      BY <2>1 DEF RequestReplay, WorkOn, TypeOK, acceptances
    <3> QED
      BY <3>1, <3>2 DEF SentStays, SentGrows, TypeOK
  <2>2. CASE ClaimReplay(p)
    <3>1. p \notin sent
      BY <1>1, <2>2 DEF ClaimReplay, Ended
    <3> QED
      BY <2>2, <3>1 DEF ClaimReplay, TakeClaim, SentStays, SentGrows, acceptances
  <2>3. CASE SendReplay(p)
    BY <2>3, AcceptedGrows DEF SendReplay
  <2> QED
    BY <1>3, <2>1, <2>2, <2>3
       DEF ProceedReplay, SentStays, SentGrows, ConfirmReplay, LoadReplay, RecordReplay, acceptances
<1>4. ASSUME NEW r \in Raws, LeaseExpires(r) PROVE SentStays /\ SentGrows
  BY <1>4 DEF LeaseExpires, SentStays, SentGrows, acceptances
<1>5. ASSUME NEW i \in Invocations, Crash(i) PROVE SentStays /\ SentGrows
  BY <1>5, AcceptedGrows DEF Crash
<1> QED
  BY <1>2, <1>3, <1>4, <1>5 DEF Next, vars, ChangeReception, SentStays, SentGrows, acceptances

\* Under the claims of one row, before the emails of different rows are told apart.
OncePerRow ==
  \A i, j \in sent : i # j /\ row[i] = row[j] => i \in lapsed \/ j \in lapsed

LEMMA NextRelaysOnce ==
  TypeOK /\ RelayInvariant /\ OncePerRow /\ [Next]_vars => OncePerRow'
<1> SUFFICES ASSUME TypeOK, RelayInvariant, OncePerRow, [Next]_vars,
                    NEW i \in sent', NEW j \in sent', i # j, row'[i] = row'[j]
             PROVE  i \in lapsed' \/ j \in lapsed'
  BY DEF OncePerRow
<1>1. SentStays /\ SentGrows
  BY NextSent
<1>2. CASE i \in sent /\ j \in sent
  BY <1>1, <1>2 DEF SentStays, OncePerRow
<1>3. CASE i \notin sent \/ j \notin sent
  <2>1. PICK k \in Invocations :
          /\ sent' = sent \cup {k}
          /\ Claimed(k)
          /\ UNCHANGED <<ledger, row, lapsed>>
    BY <1>1, <1>3 DEF SentGrows
  <2>2. row[k] \in Raws /\ (k \in lapsed \/ ledger[row[k]].holder = k)
    BY <2>1 DEF Claimed
  <2>3. \A l \in sent : l # k /\ row[l] = row[k] => l \in lapsed \/ k \in lapsed
    <3> SUFFICES ASSUME NEW l \in sent, l # k, row[l] = row[k], k \notin lapsed
                 PROVE  l \in lapsed
      OBVIOUS
    <3>1. ledger[row[k]].holder = k /\ ledger[row[k]].status = "processing"
      BY <2>2 DEF TypeOK, LedgerRow, Invocations
    <3> QED
      BY <3>1 DEF RelayInvariant, SentIsClaimed
  <2> QED
    BY <1>3, <2>1, <2>3
<1> QED
  BY <1>2, <1>3

\* A delivery works on a row of the email that it carries.
RowOfEmail ==
  \A d \in Deliveries : row[d] \in Raws => MessageIdOf[row[d]] = MessageIdOf[RawOf[d]]

LEMMA NextKeepsRowOfEmail ==
  TypeOK /\ RowOfEmail /\ [Next]_vars => RowOfEmail'
<1> SUFFICES ASSUME TypeOK, RowOfEmail, [Next]_vars PROVE RowOfEmail'
  OBVIOUS
<1>1. ASSUME NEW d \in Deliveries, NEW r \in Raws, WorkOn(d, r), MessageIdOf[r] = MessageIdOf[RawOf[d]]
      PROVE  RowOfEmail'
  <2>1. row'[d] = r /\ \A e \in Deliveries \ {d} : row'[e] = row[e]
    BY <1>1 DEF WorkOn, TypeOK, Invocations
  <2> QED
    BY <1>1, <2>1 DEF RowOfEmail
<1>2. CASE UNCHANGED row
  BY <1>2 DEF RowOfEmail
<1>3. ASSUME NEW d \in Deliveries, CheckSender(d) \/ Proceed(d) PROVE RowOfEmail'
  <2>1. CASE FindExisting(d) \/ InsertBatch(d) \/ Reread(d)
    BY <1>1, <1>2, <2>1 DEF FindExisting, Duplicate, InsertBatch, Reread, RowsWith
  <2> QED
    BY <1>2, <1>3, <2>1
       DEF Proceed, CheckSender, FindMailbox, PutOriginal, PutAttachments, InsertBatchFails,
           CleanUpLoser, DiscardUnstored, CheckOwnClaim, ClaimForward, Forward, RecordForward,
           RecordUnforwardable, RelayUnstored
<1>4. ASSUME NEW p \in Replays, RequestReplay(p) \/ ProceedReplay(p) PROVE RowOfEmail'
  <2>1. CASE RequestReplay(p)
    <3>1. \A d \in Deliveries : row'[d] = row[d]
      BY <2>1 DEF RequestReplay, WorkOn, TypeOK, Invocations
    <3> QED
      BY <3>1 DEF RowOfEmail
  <2> QED
    BY <1>2, <1>4, <2>1
       DEF ProceedReplay, ClaimReplay, ConfirmReplay, LoadReplay, SendReplay, RecordReplay
<1> QED
  BY <1>2, <1>3, <1>4 DEF Next, vars, Crash, LeaseExpires, ChangeReception

\* Emails with one Message-ID have one row, whichever content was stored.
LEMMA EmailHasOneRow ==
  ASSUME TypeOK, RelayInvariant, RowOfEmail,
         NEW i \in sent \ lapsed, NEW j \in sent \ lapsed, EmailOf(i) = EmailOf(j)
  PROVE  row[i] = row[j]
<1>1. ASSUME NEW k \in sent \ lapsed
      PROVE  row[k] \in Raws /\ stored[row[k]] # NoMailbox /\ MessageIdOf[row[k]] = EmailOf(k)
  <2>1. row[k] \in Raws /\ (ledger[row[k]].holder = k \/ ledger[row[k]].status = "forwarded")
    BY <1>1 DEF RelayInvariant, SentIsClaimed
  <2>2. ledger[row[k]].status # "none"
    BY <1>1, <2>1 DEF TypeOK, LedgerRow, Invocations
  <2>3. stored[row[k]] # NoMailbox
    BY <2>1, <2>2 DEF RelayInvariant, LedgerOfStored
  <2> QED
    BY <2>1, <2>3 DEF RowOfEmail, EmailOf
<1> QED
  BY <1>1 DEF RelayInvariant, UniqueMessageId

\* A second accepted relay of an email has a lapsed lease behind it, or is one of those
\* the ledger does not answer for - made without a claim after storage failed, or
\* accepted although an error was reported - for any number of concurrent duplicates,
\* contents under one Message-ID, retries, evictions and replays.
THEOREM RelayedOnce == Spec => []SecondRelayIsExplained
<1>1. Init => OncePerRow /\ RowOfEmail
  BY DEF Init, OncePerRow, RowOfEmail, Invocations
<1>2. TypeOK /\ RelayInvariant /\ OncePerRow /\ RowOfEmail => SecondRelayIsExplained
  BY EmailHasOneRow DEF OncePerRow, SecondRelayIsExplained
<1> QED
  BY <1>1, <1>2, TypeCorrect, RelayInvariantHolds, NextRelaysOnce, NextKeepsRowOfEmail, PTL DEF Spec

LEMMA NextKeepsForwarded ==
  ASSUME TypeOK, [Next]_vars, NEW r \in Raws, ledger[r].status = "forwarded"
  PROVE  ledger'[r] = ledger[r]
<1> USE DEF history
<1>1. \A i, q : TakeClaim(i, q) /\ q # r => ledger'[r] = ledger[r]
  BY DEF TakeClaim, TypeOK
<1>2. ASSUME NEW q, NEW status, q # r PROVE Settled(q, status)[r] = ledger[r]
  BY <1>2 DEF Settled, TypeOK
<1>3. ASSUME NEW d \in Deliveries, Proceed(d) PROVE ledger'[r] = ledger[r]
  <2>1. CASE InsertBatch(d)
    BY <2>1 DEF InsertBatch, BatchLedger, TypeOK
  <2>2. CASE ClaimForward(d)
    BY <1>1, <2>2 DEF ClaimForward, Claimable, Stale
  <2>3. CASE RecordForward(d) \/ RecordUnforwardable(d)
    BY <1>2, <2>3 DEF RecordForward, RecordUnforwardable, Marked
  <2> QED
    BY <1>3, <2>1, <2>2, <2>3
       DEF Proceed, FindMailbox, FindExisting, PutOriginal, PutAttachments, InsertBatchFails,
           Reread, CleanUpLoser, DiscardUnstored, CheckOwnClaim, Forward, RelayUnstored
<1>4. ASSUME NEW p \in Replays, ProceedReplay(p) PROVE ledger'[r] = ledger[r]
  <2>1. CASE ClaimReplay(p)
    BY <1>1, <2>1 DEF ClaimReplay, ReplayMayClaim, Replayable
  <2>2. CASE RecordReplay(p)
    BY <1>2, <2>2 DEF RecordReplay, ReplayMarked
  <2> QED
    BY <1>4, <2>1, <2>2 DEF ProceedReplay, ConfirmReplay, LoadReplay, SendReplay
<1>5. ASSUME NEW q \in Raws, LeaseExpires(q) PROVE ledger'[r] = ledger[r]
  BY <1>5 DEF LeaseExpires, TypeOK
<1> QED
  BY <1>3, <1>4, <1>5 DEF Next, vars, CheckSender, RequestReplay, Crash, ChangeReception

\* No late result and no later claim ever reopens a relay recorded as accepted.
THEOREM ForwardedStays == Spec => ForwardedIsFinal
<1>1. TypeOK /\ [Next]_vars =>
        [\A r \in Raws : ledger[r].status = "forwarded" => ledger'[r] = ledger[r]]_vars
  BY NextKeepsForwarded
<1> QED
  BY <1>1, TypeCorrect, PTL DEF Spec, ForwardedIsFinal

-----------------------------------------------------------------------------
(***************************************************************************)
(* What an acknowledgement rests on.  Every await that may end in one is   *)
(* reached only after a row with the Message-ID was seen or inserted, and  *)
(* reception never removes a row.                                          *)
(***************************************************************************)

\* The awaits of a delivery that may end in an acknowledgement without another
\* look at the message rows.
Answering == {"owns", "cleanup", "claim", "forward", "markForwarded", "markFailed",
              "markUnforwardable", "acknowledged"}

AnsweringIsKept ==
  \A d \in Deliveries :
    pc[d] \in Answering => RowsWith(MessageIdOf[RawOf[d]]) # {}

\* A step of d moves d alone, and d starts to answer only when the row is there.
AnswersFairly(d) ==
  /\ \A e \in Deliveries \ {d} : pc'[e] = pc[e]
  /\ \/ pc[d] \in Answering
     \/ pc'[d] \notin Answering
     \/ \E r \in Raws : stored'[r] # NoMailbox /\ MessageIdOf[r] = MessageIdOf[RawOf[d]]

LEMMA BatchKeepsRows ==
  ASSUME TypeOK, NEW d \in Deliveries, NEW r \in Raws, stored[r] # NoMailbox
  PROVE  BatchStored(d)[r] # NoMailbox
  BY DEF TypeOK, BatchStored

LEMMA DeliveryAnswersFairly ==
  ASSUME TypeOK, NEW d \in Deliveries, CheckSender(d) \/ Proceed(d)
  PROVE  AnswersFairly(d) /\ \A r \in Raws : stored[r] # NoMailbox => stored'[r] # NoMailbox
<1> d \in Invocations /\ RawOf[d] \in Raws
  BY DEF Invocations
<1> USE DEF Goto, StorageFails, TypeOK, AnswersFairly, Answering, Invocations
<1>1. CASE CheckSender(d)
  BY <1>1 DEF CheckSender
<1>2. CASE FindMailbox(d) \/ PutOriginal(d) \/ PutAttachments(d) \/ InsertBatchFails(d)
  BY <1>2 DEF FindMailbox, PutOriginal, PutAttachments, InsertBatchFails
<1>3. CASE FindExisting(d)
  BY <1>3 DEF FindExisting, Duplicate, RowsWith
<1>4. CASE InsertBatch(d)
  <2>1. \A r \in Raws : stored[r] # NoMailbox => stored'[r] # NoMailbox
    BY <1>4, BatchKeepsRows DEF InsertBatch
  <2>2. BatchInserts(d) => stored'[RawOf[d]] # NoMailbox
    BY <1>4 DEF InsertBatch, BatchStored
  <2>3. AnswersFairly(d)
    BY <1>4, <2>2 DEF InsertBatch
  <2> QED
    BY <2>1, <2>3
<1>5. CASE Reread(d)
  BY <1>5 DEF Reread, RowsWith
<1>6. CASE CleanUpLoser(d) \/ DiscardUnstored(d) \/ CheckOwnClaim(d)
  BY <1>6 DEF CleanUpLoser, DiscardUnstored, CheckOwnClaim
<1>7. CASE ClaimForward(d) \/ Forward(d)
  BY <1>7 DEF ClaimForward, Forward
<1>8. CASE RecordForward(d) \/ RecordUnforwardable(d) \/ RelayUnstored(d)
  BY <1>8 DEF RecordForward, RecordUnforwardable, RelayUnstored
<1> QED
  BY <1>1, <1>2, <1>3, <1>4, <1>5, <1>6, <1>7, <1>8 DEF Proceed

LEMMA ReplayLeavesDeliveries ==
  ASSUME TypeOK, NEW p \in Replays, RequestReplay(p) \/ ProceedReplay(p)
  PROVE  UNCHANGED <<stored, objects>> /\ \A d \in Deliveries : pc'[d] = pc[d]
  BY DEF TypeOK, Goto, RequestReplay, ProceedReplay, ClaimReplay, ConfirmReplay, LoadReplay,
         SendReplay, RecordReplay, Invocations

LEMMA NextKeepsAnswers ==
  TypeOK /\ AnsweringIsKept /\ [Next]_vars => AnsweringIsKept'
<1> SUFFICES ASSUME TypeOK, AnsweringIsKept, [Next]_vars PROVE AnsweringIsKept'
  OBVIOUS
<1> USE DEF AnsweringIsKept, RowsWith
<1>1. ASSUME NEW d \in Deliveries, CheckSender(d) \/ Proceed(d) PROVE AnsweringIsKept'
  <2>1. AnswersFairly(d) /\ \A r \in Raws : stored[r] # NoMailbox => stored'[r] # NoMailbox
    BY <1>1, DeliveryAnswersFairly
  <2> QED
    BY <2>1 DEF AnswersFairly
<1>2. ASSUME NEW p \in Replays, RequestReplay(p) \/ ProceedReplay(p) PROVE AnsweringIsKept'
  <2>1. UNCHANGED stored /\ \A d \in Deliveries : pc'[d] = pc[d]
    BY <1>2, ReplayLeavesDeliveries
  <2> QED
    BY <2>1
<1>3. ASSUME NEW i \in Invocations, Crash(i) PROVE AnsweringIsKept'
  <2>1. UNCHANGED stored /\ pc' = [pc EXCEPT ![i] = "crashed"]
    BY <1>3 DEF Crash, Goto
  <2>2. \A d \in Deliveries : pc'[d] \in Answering => pc[d] \in Answering
    BY <2>1 DEF TypeOK, Answering, Invocations
  <2> QED
    BY <2>1, <2>2
<1>4. CASE UNCHANGED <<stored, pc>>
  BY <1>4
<1> QED
  BY <1>1, <1>2, <1>3, <1>4 DEF Next, vars, LeaseExpires, ChangeReception

\* An email that was acknowledged, which its sender will never deliver again, has
\* its Message-ID in D1: no race between duplicates, no lost answer of the insert
\* and no mailbox that closes on the way makes the handler answer too early.
THEOREM AcknowledgedStaysKept == Spec => []AcknowledgedIsKept
<1>1. Init => AnsweringIsKept
  BY DEF Init, AnsweringIsKept, Answering, Invocations
<1>2. AnsweringIsKept => AcknowledgedIsKept
  BY DEF AnsweringIsKept, AcknowledgedIsKept, Answering
<1> QED
  BY <1>1, <1>2, TypeCorrect, NextKeepsAnswers, PTL DEF Spec

-----------------------------------------------------------------------------
(***************************************************************************)
(* What is in R2 for a stored message.  While one delivery of a content    *)
(* has begun, nobody but it touches the objects and the row of the         *)
(* content, so each of its awaits tells what is there.                     *)
(***************************************************************************)
Twice(r) ==
  \E d, e \in Deliveries :
    d # e /\ RawOf[d] = r /\ RawOf[e] = r /\ {pc[d], pc[e]} \cap {"received"} = {}

\* What the await of d says about the content it carries.
WholeFor(d) ==
  /\ stored[RawOf[d]] # NoMailbox => Keys(RawOf[d]) \subseteq objects
  /\ pc[d] = "attachments" => <<RawOf[d], "original">> \in objects
  /\ pc[d] = "insert" => Keys(RawOf[d]) \subseteq objects
  /\ pc[d] \in {"cleanup", "discard"} => stored[RawOf[d]] = NoMailbox

WholeUnlessTwice ==
  /\ \A d \in Deliveries : Twice(RawOf[d]) \/ WholeFor(d)
  /\ \A r \in Raws : stored[r] # NoMailbox => \E d \in Deliveries : RawOf[d] = r

\* Of the contents a step of d touches only the one d carries, and for that one it
\* keeps what the await of d says.
StepsAside(d) ==
  /\ pc'[d] # "received"
  /\ \A e \in Deliveries \ {d} : pc'[e] = pc[e]
  /\ \A r \in Raws \ {RawOf[d]} :
       /\ stored'[r] = stored[r]
       /\ \A part \in Parts : <<r, part>> \in objects' <=> <<r, part>> \in objects

LEMMA StepKeepsWhole ==
  ASSUME TypeOK, WholeUnlessTwice, NEW e \in Deliveries, StepsAside(e),
         WholeFor(e) => WholeFor(e)'
  PROVE  WholeUnlessTwice'
<1>1. \A d \in Deliveries : RawOf[d] \in Raws
  OBVIOUS
<1>2. ASSUME NEW r, Twice(r) PROVE Twice(r)'
  <2>1. PICK c \in Deliveries, d \in Deliveries :
          c # d /\ RawOf[c] = r /\ RawOf[d] = r /\ {pc[c], pc[d]} \cap {"received"} = {}
    BY <1>2 DEF Twice
  <2>2. pc'[c] # "received" /\ pc'[d] # "received"
    BY <2>1 DEF StepsAside
  <2> QED
    BY <2>1, <2>2 DEF Twice
<1>3. ASSUME NEW d \in Deliveries, ~ Twice(RawOf[d])' PROVE WholeFor(d)'
  <2>1. ~ Twice(RawOf[d])
    BY <1>2, <1>3
  <2>2. WholeFor(d)
    BY <2>1 DEF WholeUnlessTwice
  <2>3. CASE RawOf[d] # RawOf[e]
    <3>1. /\ pc'[d] = pc[d] /\ stored'[RawOf[d]] = stored[RawOf[d]]
          /\ \A part \in Parts : <<RawOf[d], part>> \in objects' <=> <<RawOf[d], part>> \in objects
      BY <1>1, <2>3 DEF StepsAside
    <3>2. Keys(RawOf[d]) \subseteq objects => Keys(RawOf[d]) \subseteq objects'
      BY <3>1 DEF Keys
    <3> QED
      BY <2>2, <3>1, <3>2 DEF WholeFor, Parts
  <2>4. CASE d = e
    BY <2>2, <2>4
  <2>5. CASE d # e /\ RawOf[d] = RawOf[e]
    <3>1. pc'[d] = "received"
      BY <1>3, <2>5 DEF Twice, StepsAside
    <3>2. WholeFor(e)'
      BY <2>1, <2>5 DEF WholeUnlessTwice
    <3> QED
      BY <2>5, <3>1, <3>2 DEF WholeFor
  <2> QED
    BY <2>3, <2>4, <2>5
<1>4. \A r \in Raws : stored'[r] # NoMailbox => \E d \in Deliveries : RawOf[d] = r
  BY DEF WholeUnlessTwice, StepsAside
<1> QED
  BY <1>3, <1>4 DEF WholeUnlessTwice

LEMMA StorageUntouched ==
  ASSUME TypeOK, NEW d \in Deliveries, NEW step, Goto(d, step), UNCHANGED <<stored, objects>>,
         step \notin {"received", "attachments", "insert", "cleanup", "discard"}
  PROVE  StepsAside(d) /\ (WholeFor(d) => WholeFor(d)')
  BY DEF TypeOK, Goto, StepsAside, WholeFor, Invocations

LEMMA DeliveryKeepsWhole ==
  ASSUME TypeOK, UniqueMessageId, NEW d \in Deliveries, CheckSender(d) \/ Proceed(d)
  PROVE  StepsAside(d) /\ (WholeFor(d) => WholeFor(d)')
<1> d \in Invocations /\ RawOf[d] \in Raws
  BY DEF Invocations
<1>1. CASE CheckSender(d)
  BY <1>1, StorageUntouched DEF CheckSender, StorageFails
<1>2. CASE FindMailbox(d) \/ InsertBatchFails(d)
  BY <1>2, StorageUntouched DEF FindMailbox, InsertBatchFails, StorageFails
<1>3. CASE FindExisting(d)
  BY <1>3, StorageUntouched DEF FindExisting, Duplicate, StorageFails
<1>4. CASE PutOriginal(d)
  <2>1. CASE UNCHANGED objects /\ StorageFails(d)
    BY <1>4, <2>1, StorageUntouched DEF PutOriginal, StorageFails
  <2>2. CASE objects' = objects \cup {<<RawOf[d], "original">>} /\ Goto(d, "attachments")
    BY <1>4, <2>2 DEF PutOriginal, TypeOK, Goto, StepsAside, WholeFor, Invocations
  <2> QED
    BY <1>4, <2>1, <2>2 DEF PutOriginal
<1>5. CASE PutAttachments(d)
  <2>1. CASE UNCHANGED objects /\ StorageFails(d)
    BY <1>5, <2>1, StorageUntouched DEF PutAttachments, StorageFails
  <2>2. CASE objects' = objects \cup {<<RawOf[d], "attachments">>} /\ Goto(d, "insert")
    <3>1. StepsAside(d)
      BY <1>5, <2>2 DEF PutAttachments, TypeOK, Goto, StepsAside, Invocations
    <3>2. <<RawOf[d], "original">> \in objects => Keys(RawOf[d]) \subseteq objects'
      BY <2>2 DEF Keys, Parts
    <3> QED
      BY <1>5, <2>2, <3>1, <3>2 DEF PutAttachments, TypeOK, Goto, WholeFor, Invocations
  <2> QED
    BY <1>5, <2>1, <2>2 DEF PutAttachments
<1>6. CASE InsertBatch(d)
  <2>1. /\ pc'[d] \notin {"received", "attachments", "insert", "cleanup", "discard"}
        /\ \A e \in Deliveries \ {d} : pc'[e] = pc[e]
    BY <1>6 DEF InsertBatch, TypeOK, Goto, StorageFails, Invocations
  <2>2. UNCHANGED objects /\ \A r \in Raws \ {RawOf[d]} : stored'[r] = stored[r]
    BY <1>6 DEF InsertBatch, TypeOK, BatchStored
  <2> QED
    BY <1>6, <2>1, <2>2 DEF InsertBatch, StepsAside, WholeFor
<1>7. CASE Reread(d)
  <2>1. CASE Goto(d, "cleanup") /\ \E r \in RowsWith(MessageIdOf[RawOf[d]]) : r # RawOf[d]
    <3>1. stored[RawOf[d]] = NoMailbox
      BY <2>1 DEF RowsWith, UniqueMessageId
    <3> QED
      BY <1>7, <2>1, <3>1 DEF Reread, TypeOK, Goto, StepsAside, WholeFor, Invocations
  <2>2. CASE Goto(d, "discard") /\ RowsWith(MessageIdOf[RawOf[d]]) = {}
    <3>1. stored[RawOf[d]] = NoMailbox
      BY <2>2 DEF RowsWith
    <3> QED
      BY <1>7, <2>2, <3>1 DEF Reread, TypeOK, Goto, StepsAside, WholeFor, Invocations
  <2>3. CASE \E step \in {"owns", "acknowledged", "degrade", "thrown"} : Goto(d, step)
    BY <1>7, <2>3, StorageUntouched DEF Reread
  <2> QED
    BY <1>7, <2>1, <2>2, <2>3 DEF Reread, StorageFails
<1>8. CASE CleanUpLoser(d) \/ DiscardUnstored(d)
  <2>1. /\ pc[d] \in {"cleanup", "discard"}
        /\ pc'[d] \notin {"received", "attachments", "insert", "cleanup", "discard"}
        /\ \A e \in Deliveries \ {d} : pc'[e] = pc[e]
    BY <1>8 DEF CleanUpLoser, DiscardUnstored, TypeOK, Goto, StorageFails, Invocations
  <2>2. /\ UNCHANGED stored
        /\ \A r \in Raws \ {RawOf[d]} : \A part \in Parts :
             <<r, part>> \in objects' <=> <<r, part>> \in objects
    BY <1>8 DEF CleanUpLoser, DiscardUnstored, DeleteOwnObjects, Keys
  <2> QED
    BY <2>1, <2>2 DEF StepsAside, WholeFor
<1>9. CASE CheckOwnClaim(d)
  BY <1>9, StorageUntouched DEF CheckOwnClaim, StorageFails
<1>10. CASE ClaimForward(d)
  BY <1>10, StorageUntouched DEF ClaimForward, StorageFails
<1>11. CASE Forward(d)
  BY <1>11, StorageUntouched DEF Forward
<1>12. CASE RecordForward(d) \/ RecordUnforwardable(d) \/ RelayUnstored(d)
  BY <1>12, StorageUntouched DEF RecordForward, RecordUnforwardable, RelayUnstored
<1> QED
  BY <1>1, <1>2, <1>3, <1>4, <1>5, <1>6, <1>7, <1>8, <1>9, <1>10, <1>11, <1>12 DEF Proceed

LEMMA NextKeepsWhole ==
  TypeOK /\ UniqueMessageId /\ WholeUnlessTwice /\ [Next]_vars => WholeUnlessTwice'
<1> SUFFICES ASSUME TypeOK, UniqueMessageId, WholeUnlessTwice, [Next]_vars
             PROVE  WholeUnlessTwice'
  OBVIOUS
<1>1. ASSUME NEW d \in Deliveries, CheckSender(d) \/ Proceed(d) PROVE WholeUnlessTwice'
  BY <1>1, DeliveryKeepsWhole, StepKeepsWhole
<1>2. ASSUME NEW i \in Deliveries, Crash(i) PROVE WholeUnlessTwice'
  BY <1>2, StorageUntouched, StepKeepsWhole DEF Crash
<1>3. ASSUME UNCHANGED <<stored, objects>>, \A d \in Deliveries : pc'[d] = pc[d]
      PROVE  WholeUnlessTwice'
  BY <1>3 DEF WholeUnlessTwice, WholeFor, Twice
<1>4. ASSUME NEW p \in Replays, Crash(p)
      PROVE  UNCHANGED <<stored, objects>> /\ \A d \in Deliveries : pc'[d] = pc[d]
  BY <1>4 DEF Crash, Goto, TypeOK, Invocations
<1>5. ASSUME NEW p \in Replays, RequestReplay(p) \/ ProceedReplay(p)
      PROVE  WholeUnlessTwice'
  BY <1>3, <1>5, ReplayLeavesDeliveries
<1>6. CASE UNCHANGED <<stored, objects, pc>>
  BY <1>3, <1>6
<1> QED
  BY <1>1, <1>2, <1>3, <1>4, <1>5, <1>6
     DEF Next, vars, LeaseExpires, ChangeReception, Invocations

\* Whatever puts, inserts and clean-ups of different contents do to each other, a
\* message row never stands without its original and its attachments; only two
\* deliveries of one content can take them away.
THEOREM StoredStaysComplete == Spec => []StoredIsComplete
<1>1. Init => WholeUnlessTwice
  BY DEF Init, WholeUnlessTwice, WholeFor, Invocations
<1>2. WholeUnlessTwice => StoredIsComplete
  <2> SUFFICES ASSUME WholeUnlessTwice, NEW r \in Raws, stored[r] # NoMailbox
               PROVE  Keys(r) \subseteq objects \/ Twice(r)
    BY DEF StoredIsComplete, Twice
  <2>1. PICK d \in Deliveries : RawOf[d] = r
    BY DEF WholeUnlessTwice
  <2> QED
    BY <2>1 DEF WholeUnlessTwice, WholeFor
<1>3. RelayInvariant => UniqueMessageId
  BY DEF RelayInvariant
<1> QED
  BY <1>1, <1>2, <1>3, TypeCorrect, RelayInvariantHolds, NextKeepsWhole, PTL DEF Spec

-----------------------------------------------------------------------------
(***************************************************************************)
(* The refinement.  For the ledger, a step of the handler or of the replay *)
(* route is one of five: it leaves the ledger alone, takes a claim, sends, *)
(* settles its own claim, or a lease runs out.                             *)
(***************************************************************************)

\* Two more facts tie the histories to the awaits: no invocation lapses before it
\* holds a claim, and only an accepted relay is about to be recorded as such.
HistoryInvariant ==
  /\ \A i \in lapsed : pc[i] \notin Early
  /\ \A i \in Invocations : pc[i] = "markForwarded" => i \in sent

SentInPlace == UNCHANGED sent /\ \A j \in sent : row'[j] = row[j]

Quiet == SentInPlace /\ UNCHANGED <<ledger, lapsed>>

Takes(i, r) ==
  /\ \/ ledger[r].status \in {"none", "failed"}
     \/ ledger[r].status = "processing" /\ ledger[r].holder \in lapsed
  /\ \E n \in Nat : ledger' = [ledger EXCEPT ![r] = NewClaim(i, n)]
  /\ lapsed' = lapsed \ {i}
  /\ SentInPlace

Sends(i) ==
  /\ Claimed(i)
  /\ sent' = sent \cup {i}
  /\ UNCHANGED <<ledger, lapsed, row>>

Settles(i, status) ==
  /\ row[i] \in Raws
  /\ ledger[row[i]].holder = i
  /\ ledger' = Settled(row[i], status)
  /\ status = "forwarded" <=> i \in sent
  /\ SentInPlace /\ UNCHANGED lapsed

LedgerStep ==
  \/ Quiet
  \/ \E i \in Invocations, r \in Raws : Takes(i, r)
  \/ \E i \in Invocations : Sends(i)
  \/ \E i \in Invocations : \E status \in {"failed", "forwarded"} : Settles(i, status)
  \/ \E r \in Raws : LeaseExpires(r)

LEMMA StatusAndHolder ==
  ASSUME TypeOK, NEW r \in Raws
  PROVE  /\ ledger[r].status \in {"none", "processing", "failed", "forwarded"}
         /\ ledger[r].holder \in Invocations \cup {NoOne}
         /\ ledger[r].holder # NoOne <=> ledger[r].status = "processing"
         /\ ledger[r].attempts \in Nat
  BY DEF TypeOK, LedgerRow

\* The abstract duties tell the four statuses apart.
LEMMA DutyOfStatus ==
  /\ DutyOf("none") = "none"
  /\ DutyOf("processing") = "taken"
  /\ DutyOf("failed") = "open"
  /\ DutyOf("forwarded") = "done"
  BY DEF DutyOf

LEMMA InitRefines == Init => Ledger!Init
  BY DutyOfStatus DEF Init, NoRow, Ledger!Init

LEMMA RelaysInPlace ==
  ASSUME SentInPlace
  PROVE  {<<i, row[i]>> : i \in sent}' = {<<i, row[i]>> : i \in sent}
<1>1. \A i \in sent : <<i, row'[i]>> = <<i, row[i]>>
  BY DEF SentInPlace
<1>2. sent' = sent
  BY DEF SentInPlace
<1>3. {<<i, row'[i]>> : i \in sent} = {<<i, row[i]>> : i \in sent}
  BY <1>1
<1> QED
  BY <1>2, <1>3

LEMMA QuietRefines ==
  ASSUME Quiet
  PROVE  UNCHANGED Ledger!ledgerVars
<1>1. {<<i, row[i]>> : i \in sent}' = {<<i, row[i]>> : i \in sent}
  BY RelaysInPlace DEF Quiet
<1> QED
  BY <1>1 DEF Quiet, Ledger!ledgerVars

LEMMA TakesRefines ==
  ASSUME TypeOK, NEW i \in Invocations, NEW r \in Raws, Takes(i, r)
  PROVE  Ledger!Take(i, r)
<1>1. Ledger!Free(r)
  BY DutyOfStatus DEF Takes, Ledger!Free
<1>2. PICK n \in Nat : ledger' = [ledger EXCEPT ![r] = NewClaim(i, n)]
  BY DEF Takes
<1>3. /\ ledger'[r].status = "processing" /\ ledger'[r].holder = i
      /\ \A q \in Raws \ {r} : ledger'[q] = ledger[q]
  BY <1>2 DEF TypeOK, NewClaim
<1>4. [q \in Raws |-> DutyOf(ledger[q].status)]'
        = [[q \in Raws |-> DutyOf(ledger[q].status)] EXCEPT ![r] = "taken"]
  BY <1>3, DutyOfStatus
<1>5. [q \in Raws |-> ledger[q].holder]' = [[q \in Raws |-> ledger[q].holder] EXCEPT ![r] = i]
  BY <1>3
<1>6. lapsed' = lapsed \ {i}
  BY DEF Takes
<1>7. {<<j, row[j]>> : j \in sent}' = {<<j, row[j]>> : j \in sent}
  BY RelaysInPlace DEF Takes
<1> QED
  BY <1>1, <1>4, <1>5, <1>6, <1>7 DEF Ledger!Take

LEMMA SendsRefines ==
  ASSUME TypeOK, NEW i \in Invocations, Sends(i)
  PROVE  \E r \in Raws : Ledger!Relay(i, r)
<1>0. PICK r \in Raws : r = row[i]
  BY DEF Sends, Claimed
<1>1. i \in lapsed \/ (DutyOf(ledger[r].status) = "taken" /\ ledger[r].holder = i)
  BY <1>0, StatusAndHolder, DutyOfStatus DEF Sends, Claimed, Invocations
<1>2. {<<j, row[j]>> : j \in sent}' = {<<j, row[j]>> : j \in sent} \cup {<<i, r>>}
  BY <1>0 DEF Sends, Claimed
<1>3. Ledger!Relay(i, r)
  BY <1>0, <1>1, <1>2 DEF Sends, Claimed, Ledger!Relay
<1> QED
  BY <1>3

LEMMA SettlesRefines ==
  ASSUME TypeOK, NEW i \in Invocations, NEW status \in {"failed", "forwarded"},
         Settles(i, status)
  PROVE  \E r \in Raws : Ledger!GiveBack(r) \/ Ledger!Finish(r)
<1>0. PICK r \in Raws : r = row[i]
  BY DEF Settles
<1>1. ledger[r].status = "processing" /\ ledger[r].holder = i
  BY <1>0, StatusAndHolder DEF Settles, Invocations
<1>2. /\ ledger'[r].status = status /\ ledger'[r].holder = NoOne
      /\ \A q \in Raws \ {r} : ledger'[q] = ledger[q]
  BY <1>0 DEF TypeOK, Settles, Settled
<1>3. [q \in Raws |-> DutyOf(ledger[q].status)]'
        = [[q \in Raws |-> DutyOf(ledger[q].status)] EXCEPT ![r] = DutyOf(status)]
  BY <1>2
<1>4. [q \in Raws |-> ledger[q].holder]' = [[q \in Raws |-> ledger[q].holder] EXCEPT ![r] = NoOne]
  BY <1>2
<1>5. {<<j, row[j]>> : j \in sent}' = {<<j, row[j]>> : j \in sent}
  BY RelaysInPlace DEF Settles
<1>6. <<i, r>> \in {<<j, row[j]>> : j \in sent} <=> status = "forwarded"
  BY <1>0 DEF Settles
<1>7. CASE status = "failed"
  <2>1. Ledger!GiveBack(r)
    BY <1>0, <1>1, <1>3, <1>4, <1>5, <1>6, <1>7, DutyOfStatus DEF Settles, Ledger!GiveBack
  <2> QED
    BY <2>1
<1>8. CASE status = "forwarded"
  <2>1. Ledger!Finish(r)
    BY <1>0, <1>1, <1>3, <1>4, <1>5, <1>6, <1>8, DutyOfStatus DEF Settles, Ledger!Finish
  <2> QED
    BY <2>1
<1> QED
  BY <1>7, <1>8

LEMMA LeaseExpiresRefines ==
  ASSUME TypeOK, NEW r \in Raws, LeaseExpires(r)
  PROVE  Ledger!RunLate(r)
<1>1. /\ ledger[r].status = "processing"
      /\ lapsed' = lapsed \cup {ledger[r].holder}
      /\ \A q \in Raws : ledger'[q].status = ledger[q].status /\ ledger'[q].holder = ledger[q].holder
      /\ SentInPlace
  BY DEF TypeOK, LeaseExpires, SentInPlace, acceptances
<1>2. {<<j, row[j]>> : j \in sent}' = {<<j, row[j]>> : j \in sent}
  BY <1>1, RelaysInPlace
<1> QED
  BY <1>1, <1>2, DutyOfStatus DEF Ledger!RunLate


\* Steps after which the ledger, the leases and the accepted relays are as before.
LEMMA WalkIsQuiet ==
  ASSUME UNCHANGED <<ledger, lapsed, sent, row>>
  PROVE  Quiet
  BY DEF Quiet, SentInPlace

LEMMA AcceptedLedgerStep ==
  ASSUME NEW i \in Invocations, Accepted(i) \/ ReportedFailed(i) \/ UNCHANGED acceptances,
         UNCHANGED <<ledger, lapsed, row>>
  PROVE  LedgerStep
<1>1. CASE Sends(i)
  BY <1>1 DEF LedgerStep
<1>2. CASE UNCHANGED sent
  BY <1>2, WalkIsQuiet DEF LedgerStep
<1> QED
  BY <1>1, <1>2 DEF Accepted, ReportedFailed, acceptances, Sends

LEMMA DeliveryLedgerStep ==
  ASSUME TypeOK, RelayInvariant, HistoryInvariant, NEW d \in Deliveries,
         CheckSender(d) \/ Proceed(d)
  PROVE  LedgerStep
<1> d \in Invocations /\ RawOf[d] \in Raws
  BY DEF Invocations
<1> USE DEF history, acceptances
<1>1. \A j \in sent : pc[j] \in Ended \cup {"markForwarded"}
  BY DEF RelayInvariant, SentIsClaimed
<1>2. CASE FindExisting(d) \/ Reread(d)
  <2>1. d \notin sent
    BY <1>1, <1>2 DEF FindExisting, Reread, Ended
  <2>2. UNCHANGED <<ledger, lapsed, sent>> /\ \A j \in Invocations \ {d} : row'[j] = row[j]
    BY <1>2 DEF FindExisting, Reread, Duplicate, WorkOn, TypeOK
  <2>3. Quiet
    BY <2>1, <2>2 DEF Quiet, SentInPlace, TypeOK
  <2> QED
    BY <2>3 DEF LedgerStep
<1>3. CASE InsertBatch(d)
  <2>1. d \notin sent /\ d \notin lapsed
    BY <1>1, <1>3 DEF InsertBatch, Ended, HistoryInvariant, Early
  <2>2. UNCHANGED <<lapsed, sent>> /\ \A j \in Invocations \ {d} : row'[j] = row[j]
    BY <1>3 DEF InsertBatch, WorkOn, TypeOK
  <2>3. SentInPlace
    BY <2>1, <2>2 DEF SentInPlace, TypeOK
  <2>4. CASE ledger' = ledger
    BY <2>2, <2>3, <2>4 DEF Quiet, LedgerStep
  <2>5. CASE ledger[RawOf[d]].status = "none" /\ ledger' = [ledger EXCEPT ![RawOf[d]] = NewClaim(d, 1)]
    <3>1. Takes(d, RawOf[d])
      BY <2>1, <2>2, <2>3, <2>5 DEF Takes
    <3> QED
      BY <3>1 DEF LedgerStep
  <2> QED
    BY <1>3, <2>4, <2>5 DEF InsertBatch, BatchLedger
<1>4. CASE ClaimForward(d)
  <2>1. CASE Claimable(row[d]) /\ TakeClaim(d, row[d])
    <3>1. row[d] \in Raws
      BY <1>4 DEF ClaimForward, RelayInvariant, RowKnown
    <3>2. ledger[row[d]].status = "failed"
          \/ (ledger[row[d]].status = "processing" /\ ledger[row[d]].holder \in lapsed)
      BY <2>1, <3>1 DEF Claimable, Stale, RelayInvariant, ExpiredHasLapsed
    <3>3. ledger[row[d]].attempts + 1 \in Nat
      BY <3>1, StatusAndHolder
    <3>4. Takes(d, row[d])
      BY <1>4, <2>1, <3>2, <3>3 DEF ClaimForward, TakeClaim, Takes, SentInPlace
    <3> QED
      BY <3>1, <3>4 DEF LedgerStep
  <2>2. CASE UNCHANGED <<ledger, lapsed>>
    BY <1>4, <2>2, WalkIsQuiet DEF ClaimForward, LedgerStep
  <2> QED
    BY <1>4, <2>1, <2>2 DEF ClaimForward
<1>5. CASE Forward(d) \/ RelayUnstored(d)
  BY <1>5, AcceptedLedgerStep DEF Forward, RelayUnstored
<1>6. CASE RecordForward(d) \/ RecordUnforwardable(d)
  <2>1. UNCHANGED <<lapsed, sent, row>>
    BY <1>6 DEF RecordForward, RecordUnforwardable
  <2>2. CASE ledger' = ledger
    BY <2>1, <2>2, WalkIsQuiet DEF LedgerStep
  <2>3. CASE ledger' # ledger
    <3>1. PICK status \in {"failed", "forwarded"} :
            /\ ledger' = Marked(d, row[d], status)
            /\ pc[d] = IF status = "forwarded" THEN "markForwarded"
                       ELSE IF pc[d] = "markFailed" THEN "markFailed" ELSE "markUnforwardable"
      BY <1>6, <2>3 DEF RecordForward, RecordUnforwardable
    <3>2. ledger' = Settled(row[d], status) /\ ledger[row[d]].holder = d
      BY <2>3, <3>1 DEF Marked
    <3>3. row[d] \in Raws
      BY <3>1 DEF RelayInvariant, HoldingIsClaimed, Holding
    <3>4. status = "forwarded" <=> d \in sent
      BY <1>1, <3>1 DEF HistoryInvariant, Ended
    <3>5. Settles(d, status)
      BY <2>1, <3>2, <3>3, <3>4 DEF Settles, SentInPlace
    <3> QED
      BY <3>5 DEF LedgerStep
  <2> QED
    BY <2>2, <2>3
<1> QED
  BY <1>2, <1>3, <1>4, <1>5, <1>6, WalkIsQuiet
     DEF Proceed, LedgerStep, CheckSender, FindMailbox, PutOriginal, PutAttachments,
         InsertBatchFails, CleanUpLoser, DiscardUnstored, CheckOwnClaim

LEMMA ReplayLedgerStep ==
  ASSUME TypeOK, RelayInvariant, HistoryInvariant, NEW p \in Replays,
         RequestReplay(p) \/ ProceedReplay(p)
  PROVE  LedgerStep
<1> p \in Invocations
  BY DEF Invocations
<1> USE DEF history, acceptances
<1>1. \A j \in sent : pc[j] \in Ended \cup {"markForwarded"}
  BY DEF RelayInvariant, SentIsClaimed
<1>2. CASE RequestReplay(p)
  <2>1. p \notin sent
    BY <1>1, <1>2 DEF RequestReplay, Ended
  <2>2. UNCHANGED <<ledger, lapsed, sent>> /\ \A j \in Invocations \ {p} : row'[j] = row[j]
    BY <1>2 DEF RequestReplay, WorkOn, TypeOK
  <2>3. Quiet
    BY <2>1, <2>2 DEF Quiet, SentInPlace, TypeOK
  <2> QED
    BY <2>3 DEF LedgerStep
<1>3. CASE ClaimReplay(p)
  <2>1. CASE ReplayMayClaim(p) /\ TakeClaim(p, row[p])
    <3>1. row[p] \in Raws
      BY <1>3 DEF ClaimReplay, RelayInvariant, RowKnown
    <3>2. ledger[row[p]].status = "failed"
          \/ (ledger[row[p]].status = "processing" /\ ledger[row[p]].lease = "expired")
      BY <2>1, <3>1 DEF ReplayMayClaim, Replayable, TypeOK, LedgerRow
    <3>3. ledger[row[p]].status = "processing" => ledger[row[p]].holder \in lapsed
      BY <3>1, <3>2 DEF RelayInvariant, ExpiredHasLapsed
    <3>4. ledger[row[p]].attempts + 1 \in Nat
      BY <3>1, StatusAndHolder
    <3>5. Takes(p, row[p])
      BY <1>3, <2>1, <3>2, <3>3, <3>4 DEF ClaimReplay, TakeClaim, Takes, SentInPlace
    <3> QED
      BY <3>1, <3>5 DEF LedgerStep
  <2>2. CASE UNCHANGED <<ledger, lapsed>>
    BY <1>3, <2>2, WalkIsQuiet DEF ClaimReplay, LedgerStep
  <2> QED
    BY <1>3, <2>1, <2>2 DEF ClaimReplay
<1>4. CASE SendReplay(p)
  BY <1>4, AcceptedLedgerStep DEF SendReplay
<1>5. CASE RecordReplay(p)
  <2>1. UNCHANGED <<lapsed, sent, row>>
    BY <1>5 DEF RecordReplay
  <2>2. CASE ledger' = ledger
    BY <2>1, <2>2, WalkIsQuiet DEF LedgerStep
  <2>3. CASE ledger' # ledger
    <3>1. PICK status \in {"failed", "forwarded"} :
            /\ ledger' = ReplayMarked(p, row[p], status)
            /\ pc[p] = IF status = "forwarded" THEN "markForwarded" ELSE "markFailed"
      BY <1>5, <2>3 DEF RecordReplay
    <3>2. ledger' = Settled(row[p], status) /\ ledger[row[p]].holder = p
      BY <2>3, <3>1 DEF ReplayMarked
    <3>3. row[p] \in Raws
      BY <3>1 DEF RelayInvariant, HoldingIsClaimed, Holding
    <3>4. status = "forwarded" <=> p \in sent
      BY <1>1, <3>1 DEF HistoryInvariant, Ended
    <3>5. Settles(p, status)
      BY <2>1, <3>2, <3>3, <3>4 DEF Settles, SentInPlace
    <3> QED
      BY <3>5 DEF LedgerStep
  <2> QED
    BY <2>2, <2>3
<1> QED
  BY <1>2, <1>3, <1>4, <1>5, WalkIsQuiet DEF ProceedReplay, LedgerStep, ConfirmReplay, LoadReplay

LEMMA NextLedgerStep ==
  ASSUME TypeOK, RelayInvariant, HistoryInvariant, [Next]_vars
  PROVE  LedgerStep
<1>1. ASSUME NEW i \in Invocations, Crash(i) PROVE LedgerStep
  BY <1>1, AcceptedLedgerStep DEF Crash
<1>2. ASSUME NEW m \in Mailboxes, ChangeReception(m) PROVE LedgerStep
  BY <1>2, WalkIsQuiet DEF ChangeReception, LedgerStep, history, acceptances
<1>3. CASE UNCHANGED vars
  BY <1>3, WalkIsQuiet DEF vars, LedgerStep
<1>4. ASSUME NEW r \in Raws, LeaseExpires(r) PROVE LedgerStep
  BY <1>4 DEF LedgerStep
<1> QED
  BY <1>1, <1>2, <1>3, <1>4, DeliveryLedgerStep, ReplayLedgerStep DEF Next

LEMMA NextRefines ==
  TypeOK /\ RelayInvariant /\ HistoryInvariant /\ [Next]_vars => [Ledger!Next]_(Ledger!ledgerVars)
<1> SUFFICES ASSUME TypeOK, RelayInvariant, HistoryInvariant, [Next]_vars
             PROVE  Ledger!Next \/ UNCHANGED Ledger!ledgerVars
  OBVIOUS
<1>1. CASE Quiet
  BY <1>1, QuietRefines
<1>2. ASSUME NEW i \in Invocations, NEW r \in Raws, Takes(i, r) PROVE Ledger!Next
  BY <1>2, TakesRefines DEF Ledger!Next
<1>3. ASSUME NEW i \in Invocations, Sends(i) PROVE Ledger!Next
  <2>1. PICK r \in Raws : Ledger!Relay(i, r)
    BY <1>3, SendsRefines
  <2> QED
    BY <2>1 DEF Ledger!Next
<1>4. ASSUME NEW i \in Invocations, NEW status \in {"failed", "forwarded"}, Settles(i, status)
      PROVE  Ledger!Next
  <2>1. PICK r \in Raws : Ledger!GiveBack(r) \/ Ledger!Finish(r)
    BY <1>4, SettlesRefines
  <2> QED
    BY <2>1 DEF Ledger!Next
<1>5. ASSUME NEW r \in Raws, LeaseExpires(r) PROVE Ledger!Next
  BY <1>5, LeaseExpiresRefines DEF Ledger!Next
<1> QED
  BY <1>1, <1>2, <1>3, <1>4, <1>5, NextLedgerStep DEF LedgerStep


LEMMA NextKeepsHistory ==
  TypeOK /\ RelayInvariant /\ HistoryInvariant /\ [Next]_vars => HistoryInvariant'
<1> SUFFICES ASSUME TypeOK, RelayInvariant, HistoryInvariant, [Next]_vars
             PROVE  HistoryInvariant'
  OBVIOUS
<1> USE DEF history, acceptances
<1>0. \A i : Accepted(i) \/ ReportedFailed(i) => sent \subseteq sent'
  BY DEF Accepted, ReportedFailed
<1>1. ASSUME NEW i \in Invocations, NEW step, Goto(i, step),
             lapsed' \subseteq lapsed, sent \subseteq sent',
             step \in Early => pc[i] \in Early,
             step = "markForwarded" => i \in sent'
      PROVE  HistoryInvariant'
  BY <1>1 DEF TypeOK, Goto, HistoryInvariant
<1>2. ASSUME NEW d \in Deliveries, CheckSender(d) \/ Proceed(d) PROVE HistoryInvariant'
  <2> d \in Invocations
    BY DEF Invocations
  <2>1. CASE CheckSender(d) \/ FindMailbox(d) \/ PutOriginal(d) \/ PutAttachments(d) \/ InsertBatchFails(d)
    <3>1. UNCHANGED <<lapsed, sent>>
          /\ \E step \in {"rejected", "thrown", "mailbox", "degrade", "existing",
                          "attachments", "insert"} : Goto(d, step)
      BY <2>1 DEF CheckSender, FindMailbox, PutOriginal, PutAttachments, InsertBatchFails,
                  StorageFails
    <3>2. pc[d] \in Early
      BY <2>1 DEF CheckSender, FindMailbox, PutOriginal, PutAttachments, InsertBatchFails, Early
    <3> QED
      BY <1>1, <3>1, <3>2
  <2>2. CASE FindExisting(d)
    <3>1. UNCHANGED <<lapsed, sent>>
          /\ \E step \in {"claim", "acknowledged", "original", "degrade", "thrown"} : Goto(d, step)
      BY <2>2 DEF FindExisting, Duplicate, StorageFails
    <3>2. pc[d] \in Early
      BY <2>2 DEF FindExisting, Early
    <3> QED
      BY <1>1, <3>1, <3>2
  <2>3. CASE InsertBatch(d) \/ Reread(d) \/ CleanUpLoser(d) \/ DiscardUnstored(d) \/ CheckOwnClaim(d)
    <3>1. UNCHANGED <<lapsed, sent>>
          /\ \E step \in {"forward", "acknowledged", "reread", "degrade", "thrown", "cleanup",
                          "owns", "discard", "claim"} : Goto(d, step)
      BY <2>3 DEF InsertBatch, Reread, CleanUpLoser, DiscardUnstored, CheckOwnClaim, StorageFails
    <3> QED
      BY <1>1, <3>1 DEF Early
  <2>4. CASE ClaimForward(d)
    <3>1. lapsed' \subseteq lapsed /\ UNCHANGED sent
          /\ \E step \in {"forward", "degrade", "thrown", "acknowledged"} : Goto(d, step)
      BY <2>4 DEF ClaimForward, TakeClaim, StorageFails
    <3> QED
      BY <1>1, <3>1 DEF Early
  <2>5. CASE Forward(d)
    <3>1. CASE UNCHANGED sent /\ \E step \in {"markUnforwardable", "markFailed"} : Goto(d, step)
      BY <1>1, <2>5, <3>1 DEF Forward, Early, HistoryInvariant
    <3>2. CASE Goto(d, "markForwarded") /\ Accepted(d)
      <4>1. d \in sent'
        BY <2>5, <3>2 DEF Forward, Holding, RelayInvariant, HoldingIsClaimed, Claimed, Accepted
      <4> QED
        BY <1>0, <1>1, <2>5, <3>2, <4>1 DEF Forward, Early
    <3> QED
      BY <2>5, <3>1, <3>2 DEF Forward, ReportedFailed
  <2>6. CASE RecordForward(d) \/ RecordUnforwardable(d) \/ RelayUnstored(d)
    <3>1. UNCHANGED lapsed /\ sent \subseteq sent'
          /\ \E step \in {"acknowledged", "thrown", "relayed"} : Goto(d, step)
      BY <1>0, <2>6 DEF RecordForward, RecordUnforwardable, RelayUnstored
    <3> QED
      BY <1>1, <3>1 DEF Early
  <2> QED
    BY <1>2, <2>1, <2>2, <2>3, <2>4, <2>5, <2>6 DEF Proceed
<1>3. ASSUME NEW p \in Replays, RequestReplay(p) \/ ProceedReplay(p) PROVE HistoryInvariant'
  <2> p \in Invocations
    BY DEF Invocations
  <2>1. CASE SendReplay(p)
    <3>1. CASE Goto(p, "markFailed") /\ UNCHANGED sent
      BY <1>1, <2>1, <3>1 DEF SendReplay, Early
    <3>2. CASE Goto(p, "markForwarded") /\ Accepted(p)
      <4>1. p \in sent'
        BY <2>1, <3>2 DEF SendReplay, Holding, RelayInvariant, HoldingIsClaimed, Claimed, Accepted
      <4> QED
        BY <1>0, <1>1, <2>1, <3>2, <4>1 DEF SendReplay, Early
    <3> QED
      BY <2>1, <3>1, <3>2 DEF SendReplay, ReportedFailed
  <2>2. CASE RequestReplay(p) \/ ClaimReplay(p) \/ ConfirmReplay(p) \/ LoadReplay(p) \/ RecordReplay(p)
    <3>1. lapsed' \subseteq lapsed /\ UNCHANGED sent
          /\ \E step \in {"replayClaim", "refused", "confirm", "thrown", "load", "send",
                          "markFailed", "replayed", "failed"} : Goto(p, step)
      BY <2>2 DEF RequestReplay, ClaimReplay, ConfirmReplay, LoadReplay, RecordReplay, TakeClaim
    <3> QED
      BY <1>1, <3>1 DEF Early
  <2> QED
    BY <1>3, <2>1, <2>2 DEF ProceedReplay
<1>4. ASSUME NEW i \in Invocations, Crash(i) PROVE HistoryInvariant'
  BY <1>0, <1>1, <1>4 DEF Crash, Early
<1>5. ASSUME NEW r \in Raws, LeaseExpires(r) PROVE HistoryInvariant'
  <2>1. pc[ledger[r].holder] \notin Early
    BY <1>5, StatusAndHolder DEF LeaseExpires, RelayInvariant, HoldsOnlyItsRow
  <2> QED
    BY <1>5, <2>1 DEF LeaseExpires, HistoryInvariant
<1>6. CASE UNCHANGED <<pc, lapsed, sent>>
  BY <1>6 DEF HistoryInvariant
<1> QED
  BY <1>2, <1>3, <1>4, <1>5, <1>6 DEF Next, vars, ChangeReception

\* Tokens, dates, re-reads and guarded updates together are nothing but duties that
\* one owner takes at a time: every step of every delivery, replay and lease does to
\* the ledger what ForwardLedger allows, or nothing.
THEOREM LedgerImplementsDuties == Spec => LedgerKeepsDuties
<1>1. Init => HistoryInvariant
  BY DEF Init, HistoryInvariant, Invocations
<1> QED
  BY <1>1, InitRefines, TypeCorrect, RelayInvariantHolds, NextKeepsHistory, NextRefines, PTL
     DEF Spec, LedgerKeepsDuties, Ledger!Spec

===============================================================================
