------------------------- MODULE SenderRulesProofs -------------------------
(***************************************************************************)
(* RuleInvariant is an invariant of SenderRules for all messages, senders  *)
(* and changes, and with it FollowsRule and UndoneIsOver; no change of a   *)
(* rule moves a parked message.                                            *)
(*                                                                         *)
(* The changes of a sender that can be undone form a stack with the rule   *)
(* on top: what a change would restore is the rule it replaced, unless two *)
(* changes crossed (crossed).                                              *)
(*                                                                         *)
(* The Screener shows who is blocked, whatever a rule takes out of it      *)
(* (ScreenerInvariant, BlockIsShown).                                      *)
(***************************************************************************)
EXTENDS SenderRules, Screener, TLAPS

\* Two rules that send messages somewhere, and the rule there was before.
LEMMA RulesTyped ==
  ASSUME DataAssumption
  PROVE  /\ NoRule \in Rule
         /\ Place(NoRule) = Screener
         /\ \A r \in Rule : Place(r) \in Places /\ Place(r) # NoBox
         /\ \A b \in Boxes, x \in Changes \cup {NoChange} :
              LET r == [box |-> b, last |-> x]
              IN r \in Rule /\ Place(r) = b /\ r.box # NoBox
         /\ Nothing \in [Messages -> Places]
  BY DEF DataAssumption, Rule, NoRule, Place, Places, Nothing

THEOREM InitInvariant ==
  ASSUME DataAssumption, Init
  PROVE  RuleInvariant
<1>1. TypeOK
  BY RulesTyped DEF DataAssumption, Init, TypeOK, Rule
<1>2. ParkedIsApart
  BY DEF Init, ParkedIsApart
<1>3. LinkIsSeen
  BY DEF Init, LinkIsSeen, NoRule
<1>4. LastIsMade
  BY DEF Init, LastIsMade
<1>5. LinksStand /\ SnapshotsFollow
  BY DEF Init, LinksStand, SnapshotsFollow, Standing
<1>6. FollowsRule
  BY DEF Init, FollowsRule, Nothing
<1>7. UndoneIsOver
  BY DEF Init, UndoneIsOver
<1> QED
  BY <1>1, <1>2, <1>3, <1>4, <1>5, <1>6, <1>7 DEF RuleInvariant

(***************************************************************************)
(* Steps that leave the rules and the changes alone.                       *)
(***************************************************************************)
LEMMA MessageStep ==
  ASSUME DataAssumption, RuleInvariant,
         UNCHANGED <<rule, changeVars>>,
         folder' \in [Messages -> Places],
         queued' \cup trashed' \subseteq apart',
         apart \subseteq apart', apart' \subseteq Messages,
         \A m \in Messages \ apart' :
           folder'[m] = folder[m] \/ folder'[m] = Place(rule[SenderOf[m]])
  PROVE  RuleInvariant'
<1>1. TypeOK'
  BY DEF RuleInvariant, TypeOK, changeVars
<1>2. ParkedIsApart'
  BY DEF ParkedIsApart
<1>3. LinkIsSeen' /\ LastIsMade'
  BY DEF RuleInvariant, LinkIsSeen, LastIsMade, Made, changeVars
<1>4. LinksStand'
  BY DEF RuleInvariant, LinksStand, Standing, changeVars
<1>5. SnapshotsFollow'
  BY DEF RuleInvariant, SnapshotsFollow, Standing, Place, changeVars
<1>6. FollowsRule'
  BY DEF RuleInvariant, FollowsRule, Place, changeVars
<1>7. UndoneIsOver'
  BY DEF RuleInvariant, UndoneIsOver, changeVars
<1> QED
  BY <1>1, <1>2, <1>3, <1>4, <1>5, <1>6, <1>7 DEF RuleInvariant

LEMMA ArriveKeepsInvariant ==
  ASSUME DataAssumption, RuleInvariant, NEW m \in Messages, Arrive(m) \/ ArriveAsReply(m)
  PROVE  RuleInvariant'
<1>1. CASE Arrive(m)
  <2>1. Place(rule[SenderOf[m]]) \in Places
    BY RulesTyped DEF RuleInvariant, TypeOK, DataAssumption
  <2>2. folder' \in [Messages -> Places]
    BY <1>1, <2>1 DEF Arrive, ArriveAt, RuleInvariant, TypeOK
  <2>3. \A x \in Messages : folder'[x] = folder[x] \/ folder'[x] = Place(rule[SenderOf[x]])
    BY <1>1 DEF Arrive, ArriveAt, RuleInvariant, TypeOK
  <2> QED
    BY <1>1, <2>2, <2>3, MessageStep
       DEF Arrive, ArriveAt, RuleInvariant, TypeOK, ParkedIsApart
<1>2. CASE ArriveAsReply(m)
  <2>1. folder' \in [Messages -> Places]
    BY <1>2 DEF ArriveAsReply, ArriveAt, RuleInvariant, TypeOK, Places, DataAssumption
  <2>2. \A x \in Messages \ apart' : folder'[x] = folder[x]
    BY <1>2 DEF ArriveAsReply, ArriveAt, RuleInvariant, TypeOK
  <2>3. queued' \cup trashed' \subseteq apart'
    BY <1>2 DEF ArriveAsReply, ArriveAt, RuleInvariant, ParkedIsApart
  <2> QED
    BY <1>2, <2>1, <2>2, <2>3, MessageStep
       DEF ArriveAsReply, ArriveAt, RuleInvariant, TypeOK
<1> QED
  BY <1>1, <1>2

LEMMA HandKeepsInvariant ==
  ASSUME DataAssumption, RuleInvariant, NEW S \in SUBSET Messages,
         Move(S) \/ Queue(S) \/ Unqueue(S) \/ Trash(S)
  PROVE  RuleInvariant'
<1>1. /\ UNCHANGED <<rule, changeVars>>
      /\ apart' = apart \cup S
  BY DEF Move, Queue, Unqueue, Trash, ByHand
<1>2. folder' \in [Messages -> Places]
  BY DEF Move, Queue, Unqueue, Trash, RuleInvariant, TypeOK, Places
<1>3. \A x \in Messages \ apart' : folder'[x] = folder[x]
  BY <1>1 DEF Move, Queue, Unqueue, Trash
<1>4. queued' \cup trashed' \subseteq apart'
  BY <1>1 DEF Move, Queue, Unqueue, Trash, RuleInvariant, ParkedIsApart
<1> QED
  BY <1>1, <1>2, <1>3, <1>4, MessageStep DEF RuleInvariant, TypeOK

LEMMA RestoreKeepsInvariant ==
  ASSUME DataAssumption, RuleInvariant, NEW m \in Messages, Restore(m)
  PROVE  RuleInvariant'
BY MessageStep DEF Restore, RuleInvariant, TypeOK, ParkedIsApart

(***************************************************************************)
(* The steps of a change.                                                  *)
(***************************************************************************)
LEMMA ReadRuleKeepsInvariant ==
  ASSUME DataAssumption, RuleInvariant, NEW c \in Changes, ReadRule(c)
  PROVE  RuleInvariant'
<1> USE DEF RuleInvariant
<1>1. /\ status[c] = "asked"
      /\ \A d \in Changes : status'[d] = IF d = c THEN "read" ELSE status[d]
      /\ \A d \in Changes : seen'[d] = IF d = c THEN rule[About[c]] ELSE seen[d]
      /\ UNCHANGED <<folder, queued, trashed, apart, rule, link, snapshot, crossed>>
  BY DEF ReadRule, messageVars, TypeOK
<1>2. TypeOK'
  BY DEF ReadRule, messageVars, TypeOK, DataAssumption
<1>3. ParkedIsApart'
  BY <1>1 DEF ParkedIsApart
<1>4. \A d \in Changes : /\ Made(d)' <=> Made(d)
                         /\ Standing(d)' <=> Standing(d)
                         /\ status'[d] = "undone" <=> status[d] = "undone"
                         /\ Standing(d) => seen'[d] = seen[d]
  BY <1>1 DEF Made, Standing
<1>5. LinkIsSeen'
  <2>1. link[c] = NoChange
    BY <1>1 DEF LinkIsSeen, NoRule
  <2>2. About[c] \in Senders
    BY DEF DataAssumption
  <2>3. \A d \in Changes :
          /\ link[d] \in {seen'[d].last, NoChange}
          /\ seen'[d].last # NoChange => seen'[d].box # NoBox
          /\ seen'[d].last # NoChange =>
               seen'[d].last \in Changes /\ Made(seen'[d].last) /\ About[seen'[d].last] = About[d]
    BY <1>1, <2>1, <2>2 DEF LinkIsSeen, LastIsMade, TypeOK, Rule
  <2>4. \A d \in Changes : status'[d] = "asked" => seen'[d] = NoRule
    BY <1>1 DEF LinkIsSeen
  <2>5. \A x \in Changes : Made(x) => status'[x] \in {"applied", "undone", "expired"}
    BY <1>1 DEF Made
  <2> QED
    BY <1>1, <2>3, <2>4, <2>5 DEF LinkIsSeen, Made
<1>6. LastIsMade'
  BY <1>1, <1>4 DEF LastIsMade, TypeOK, Rule
<1>7. LinksStand'
  BY <1>1, <1>4 DEF LinksStand, TypeOK
<1>8. SnapshotsFollow'
  BY <1>1, <1>4 DEF SnapshotsFollow, Place
<1>9. FollowsRule'
  BY <1>1 DEF FollowsRule, Place
<1>10. UndoneIsOver'
  BY <1>1, <1>4 DEF UndoneIsOver, TypeOK, Rule
<1> QED
  BY <1>2, <1>3, <1>5, <1>6, <1>7, <1>8, <1>9, <1>10

LEMMA ReadLastChangeKeepsInvariant ==
  ASSUME DataAssumption, RuleInvariant, NEW c \in Changes, ReadLastChange(c)
  PROVE  RuleInvariant'
<1> USE DEF RuleInvariant
<1>1. /\ status[c] = "read"
      /\ \A d \in Changes : status'[d] = IF d = c THEN "ready" ELSE status[d]
      /\ \A d \in Changes : d # c => link'[d] = link[d]
      /\ link'[c] \in {seen[c].last, NoChange}
      /\ UNCHANGED <<folder, queued, trashed, apart, rule, seen, snapshot, crossed>>
  BY DEF ReadLastChange, messageVars, TypeOK
<1>2. TypeOK'
  <2>1. seen[c].last \in Changes \cup {NoChange}
    BY DEF TypeOK, Rule
  <2>2. link' \in [Changes -> Changes \cup {NoChange}]
    BY <2>1 DEF ReadLastChange, Undoable, TypeOK
  <2>3. status' \in [Changes -> {"asked", "read", "ready", "applied", "undone", "expired"}]
    BY DEF ReadLastChange, TypeOK
  <2> QED
    BY <2>2, <2>3 DEF ReadLastChange, messageVars, TypeOK
<1>3. ParkedIsApart'
  BY <1>1 DEF ParkedIsApart
<1>4. \A d \in Changes : /\ Made(d)' <=> Made(d)
                         /\ Standing(d)' <=> Standing(d)
                         /\ status'[d] = "undone" <=> status[d] = "undone"
                         /\ Standing(d) => link'[d] = link[d]
  BY <1>1 DEF Made, Standing
<1>5. LinkIsSeen'
  BY <1>1 DEF LinkIsSeen, TypeOK, Rule, Made
<1>6. LastIsMade'
  BY <1>1, <1>4 DEF LastIsMade, TypeOK, Rule
<1>7. LinksStand'
  BY <1>1, <1>4 DEF LinksStand, TypeOK
<1>8. SnapshotsFollow'
  BY <1>1, <1>4 DEF SnapshotsFollow, Place
<1>9. FollowsRule'
  BY <1>1 DEF FollowsRule, Place
<1>10. UndoneIsOver'
  BY <1>1, <1>4 DEF UndoneIsOver, TypeOK, Rule
<1> QED
  BY <1>2, <1>3, <1>5, <1>6, <1>7, <1>8, <1>9, <1>10

LEMMA ExpireKeepsInvariant ==
  ASSUME DataAssumption, RuleInvariant, NEW c \in Changes, Expire(c)
  PROVE  RuleInvariant'
<1> USE DEF RuleInvariant
<1>1. /\ status[c] = "applied"
      /\ \A d \in Changes : status'[d] = IF d = c THEN "expired" ELSE status[d]
      /\ UNCHANGED <<folder, queued, trashed, apart, rule, seen, link, snapshot, crossed>>
  BY DEF Expire, messageVars, TypeOK
<1>2. TypeOK'
  BY DEF Expire, messageVars, TypeOK
<1>3. ParkedIsApart'
  BY <1>1 DEF ParkedIsApart
<1>4. \A d \in Changes : /\ Made(d)' <=> Made(d)
                         /\ Standing(d)' => Standing(d)
                         /\ status'[d] = "undone" <=> status[d] = "undone"
  BY <1>1 DEF Made, Standing
<1>5. LinkIsSeen'
  BY <1>1 DEF LinkIsSeen, TypeOK, Rule, Made
<1>6. LastIsMade'
  BY <1>1, <1>4 DEF LastIsMade, TypeOK, Rule
<1>7. LinksStand'
  BY <1>1, <1>4 DEF LinksStand, TypeOK
<1>8. SnapshotsFollow'
  BY <1>1, <1>4 DEF SnapshotsFollow, Place
<1>9. FollowsRule'
  BY <1>1 DEF FollowsRule, Place
<1>10. UndoneIsOver'
  BY <1>1, <1>4 DEF UndoneIsOver, TypeOK, Rule
<1> QED
  BY <1>2, <1>3, <1>5, <1>6, <1>7, <1>8, <1>9, <1>10

LEMMA ApplyRuleKeepsInvariant ==
  ASSUME DataAssumption, RuleInvariant, NEW c \in Changes, ApplyRule(c)
  PROVE  RuleInvariant'
<1> USE DEF RuleInvariant
<1> DEFINE s == About[c]
<1>0. s \in Senders
  BY DEF DataAssumption
<1>1. PICK f \in Boxes :
        /\ rule' = [rule EXCEPT ![s] = [box |-> f, last |-> c]]
        /\ folder' = [m \in Messages |-> IF m \in Moved(s) THEN f ELSE folder[m]]
  BY DEF ApplyRule
<1> DEFINE new == [box |-> f, last |-> c]
<1>2. new \in Rule /\ Place(new) = f /\ new.last = c /\ new.box # NoBox
  BY RulesTyped DEF Rule
<1>3. /\ status[c] = "ready"
      /\ \A d \in Changes : status'[d] = IF d = c THEN "applied" ELSE status[d]
      /\ \A t \in Senders : rule'[t] = IF t = s THEN new ELSE rule[t]
      /\ \A m \in Messages : folder'[m] = IF m \in Moved(s) THEN f ELSE folder[m]
      /\ \A m \in Messages : snapshot'[c][m] \in {folder[m], NoBox}
      /\ \A m \in Messages : snapshot'[c][m] # NoBox => m \in Received(s)
      /\ \A d \in Changes \ {c} : \A m \in Messages : snapshot'[d][m] \in {snapshot[d][m], NoBox}
      /\ crossed \subseteq crossed'
      /\ s \notin crossed' => seen[c] = rule[s]
      /\ UNCHANGED <<queued, trashed, apart, seen, link>>
  BY <1>1 DEF ApplyRule, TypeOK, Nothing, Received
<1>4. TypeOK'
  <2>1. folder' \in [Messages -> Places]
    BY <1>1 DEF TypeOK, Places
  <2>2. rule' \in [Senders -> Rule]
    BY <1>1, <1>2 DEF TypeOK
  <2>3. \A t \in Senders : rule'[t].box = NoBox => rule'[t].last = NoChange
    BY <1>2, <1>3 DEF TypeOK
  <2>4. status' \in [Changes -> {"asked", "read", "ready", "applied", "undone", "expired"}]
    BY DEF ApplyRule, TypeOK
  <2>5. snapshot' \in [Changes -> [Messages -> Places]]
    <3>1. [m \in Messages |-> IF m \in Received(s) \ trashed THEN folder[m] ELSE NoBox]
            \in [Messages -> Places]
      BY DEF TypeOK, Places
    <3>2. Nothing \in [Messages -> Places]
      BY RulesTyped
    <3> QED
      BY <3>1, <3>2 DEF ApplyRule, TypeOK
  <2>7. crossed' \subseteq Senders
    BY <1>0 DEF ApplyRule, TypeOK
  <2> QED
    BY <1>3, <2>1, <2>2, <2>3, <2>4, <2>5, <2>7 DEF TypeOK
<1>5. ParkedIsApart'
  BY <1>3 DEF ParkedIsApart
<1>6. LinkIsSeen'
  BY <1>3 DEF LinkIsSeen, TypeOK, Rule, Made
<1>7. LastIsMade'
  <2> SUFFICES ASSUME NEW t \in Senders, rule'[t].last # NoChange
               PROVE  Made(rule[t].last)' /\ About[rule'[t].last] = t
    BY DEF LastIsMade
  <2>1. CASE t = s
    <3>1. rule'[t].last = c
      BY <1>2, <1>3, <2>1
    <3>2. status'[c] = "applied"
      BY <1>3
    <3> QED
      BY <2>1, <3>1, <3>2 DEF Made
  <2>2. CASE t # s
    <3>1. rule'[t] = rule[t] /\ Made(rule[t].last) /\ About[rule[t].last] = t
      BY <1>3, <2>2 DEF LastIsMade
    <3>2. rule[t].last \in Changes
      BY <2>2, <3>1, <1>3 DEF TypeOK, Rule
    <3>3. Made(rule[t].last)'
      <4>1. status'[rule[t].last] \in {status[rule[t].last], "applied"}
        BY <1>3, <3>2
      <4> QED
        BY <3>1, <4>1 DEF Made
    <3> QED
      BY <3>1, <3>3
  <2> QED
    BY <2>1, <2>2
<1>8. \A d \in Changes : Standing(d)' => d = c \/ Standing(d)
  BY <1>3 DEF Standing
\* No change leads to c yet.
<1>9. \A d \in Changes : link[d] # c
  <2>1. ~Made(c)
    BY <1>3 DEF Made
  <2>2. c # NoChange
    BY DEF DataAssumption
  <2> QED
    BY <2>1, <2>2 DEF LinkIsSeen
<1>10. LinksStand'
  <2> SUFFICES ASSUME NEW d \in Changes, Standing(d)', link[d] # NoChange
               PROVE  /\ status'[link[d]] # "undone"
                      /\ rule'[About[d]].last # link[d]
                      /\ \A e \in Changes : Standing(e)' /\ link[e] = link[d] => e = d
    BY <1>3 DEF LinksStand
  <2>1. /\ link[d] \in Changes /\ link[d] # c
        /\ link[d] = seen[d].last /\ About[link[d]] = About[d]
        /\ status'[link[d]] = status[link[d]]
        /\ About[d] \in Senders
    BY <1>3, <1>9 DEF LinkIsSeen, TypeOK, DataAssumption
  <2>2. CASE d = c
    <3>1. s \notin crossed' /\ s \notin crossed /\ seen[c] = rule[s]
      BY <1>3, <2>2 DEF Standing
    <3>2. link[c] = rule[s].last
      BY <2>1, <2>2, <3>1
    <3>3. status[link[c]] # "undone"
      BY <1>0, <2>2, <3>1, <3>2 DEF UndoneIsOver
    <3>4. \A e \in Changes : Standing(e) => link[e] # link[c]
      <4> SUFFICES ASSUME NEW e \in Changes, Standing(e), link[e] = link[c]
                   PROVE  FALSE
        OBVIOUS
      <4>1. About[e] = s
        BY <2>1, <2>2 DEF LinkIsSeen
      <4> QED
        BY <2>2, <3>2, <4>1 DEF LinksStand
    <3> QED
      BY <1>2, <1>3, <1>8, <2>1, <2>2, <3>3, <3>4
  <2>3. CASE d # c
    <3>1. Standing(d)
      BY <1>8, <2>3
    <3>2. /\ status[link[d]] # "undone"
          /\ rule[About[d]].last # link[d]
          /\ \A e \in Changes : Standing(e) /\ link[e] = link[d] => e = d
      BY <3>1 DEF LinksStand
    <3>3. rule'[About[d]].last # link[d]
      BY <1>2, <1>3, <2>1, <3>2
    <3>4. ~(Standing(c)' /\ link[c] = link[d])
      <4> SUFFICES ASSUME Standing(c)', link[c] = link[d]
                   PROVE  FALSE
        OBVIOUS
      <4>1. seen[c] = rule[s]
        BY <1>3 DEF Standing
      <4>2. About[d] = s /\ link[d] = rule[s].last
        BY <2>1, <4>1 DEF LinkIsSeen
      <4> QED
        BY <3>2, <4>2
    <3> QED
      BY <1>8, <2>1, <3>2, <3>3, <3>4
  <2> QED
    BY <2>2, <2>3
<1>11. SnapshotsFollow'
  <2> SUFFICES ASSUME NEW d \in Changes, Standing(d)',
                      NEW m \in Messages, snapshot'[d][m] # NoBox, m \notin apart
               PROVE  snapshot'[d][m] = Place(seen[d])
    BY <1>3 DEF SnapshotsFollow, Place
  <2>1. CASE d = c
    <3>1. s \notin crossed /\ seen[c] = rule[s]
      BY <1>3, <2>1 DEF Standing
    <3>2. SenderOf[m] = s /\ folder[m] # NoBox /\ snapshot'[c][m] = folder[m]
      BY <1>3, <2>1 DEF Received
    <3> QED
      BY <2>1, <3>1, <3>2 DEF FollowsRule
  <2>2. CASE d # c
    BY <1>3, <1>8, <2>2 DEF SnapshotsFollow
  <2> QED
    BY <2>1, <2>2
<1>12. FollowsRule'
  <2> SUFFICES ASSUME NEW m \in Messages, folder'[m] # NoBox, m \notin apart,
                      SenderOf[m] \notin crossed'
               PROVE  folder'[m] = Place(rule'[SenderOf[m]])
    BY <1>3 DEF FollowsRule, Place
  <2>1. SenderOf[m] \in Senders /\ folder[m] # NoBox
    BY <1>3 DEF DataAssumption, Moved, Received
  <2>2. CASE SenderOf[m] = s
    <3>1. m \in Moved(s)
      BY <2>1, <2>2 DEF Moved, Received, ParkedIsApart
    <3> QED
      BY <1>2, <1>3, <2>1, <2>2, <3>1
  <2>3. CASE SenderOf[m] # s
    <3>1. m \notin Moved(s)
      BY <2>3 DEF Moved, Received
    <3> QED
      BY <1>3, <2>1, <2>3, <3>1 DEF FollowsRule
  <2> QED
    BY <2>2, <2>3
<1>13. UndoneIsOver'
  <2> SUFFICES ASSUME NEW t \in Senders \ crossed', rule'[t].last # NoChange
               PROVE  status'[rule'[t].last] # "undone"
    BY DEF UndoneIsOver
  <2>1. CASE t = s
    BY <1>2, <1>3, <2>1
  <2>2. CASE t # s
    <3>1. rule'[t] = rule[t] /\ rule[t].last \in Changes /\ t \notin crossed
      BY <1>3, <2>2 DEF TypeOK, Rule
    <3> QED
      BY <1>3, <3>1 DEF UndoneIsOver
  <2> QED
    BY <2>1, <2>2
<1> QED
  BY <1>4, <1>5, <1>6, <1>7, <1>10, <1>11, <1>12, <1>13

LEMMA UndoKeepsInvariant ==
  ASSUME DataAssumption, RuleInvariant, NEW c \in Changes, Undo(c)
  PROVE  RuleInvariant'
<1> USE DEF RuleInvariant
<1> DEFINE s == About[c]
           old == RuleBefore(c)
<1>0. s \in Senders
  BY DEF DataAssumption
<1>1. /\ old \in Rule
      /\ Place(old) = Place(seen[c])
      /\ old.box = NoBox => old.last = NoChange
      /\ old.last # NoChange => old.last = link[c]
  BY RulesTyped DEF RuleBefore, TypeOK, Rule, NoRule, Place
<1>2. /\ status[c] = "applied" /\ rule[s].last = c
      /\ \A d \in Changes : status'[d] = IF d = c THEN "undone" ELSE status[d]
      /\ \A t \in Senders : rule'[t] = IF t = s THEN old ELSE rule[t]
      /\ \A m \in Messages : folder'[m] = IF m \in Received(s) \ queued
                                          THEN BroughtBack(c, m) ELSE folder[m]
      /\ UNCHANGED <<queued, trashed, apart, seen, link, snapshot, crossed>>
  BY DEF Undo, MayUndo, Undoable, TypeOK
<1>3. \A m \in Messages : BroughtBack(c, m) \in Places /\ BroughtBack(c, m) # NoBox
  BY RulesTyped DEF BroughtBack, TypeOK
<1>4. TypeOK'
  <2>1. folder' \in [Messages -> Places]
    BY <1>3 DEF Undo, TypeOK
  <2>2. rule' \in [Senders -> Rule]
    BY <1>1 DEF Undo, TypeOK
  <2>3. \A t \in Senders : rule'[t].box = NoBox => rule'[t].last = NoChange
    BY <1>1, <1>2 DEF TypeOK
  <2>4. status' \in [Changes -> {"asked", "read", "ready", "applied", "undone", "expired"}]
    BY DEF Undo, TypeOK
  <2> QED
    BY <1>2, <2>1, <2>2, <2>3, <2>4 DEF TypeOK
<1>5. ParkedIsApart'
  BY <1>2 DEF ParkedIsApart
<1>6. LinkIsSeen'
  BY <1>2 DEF LinkIsSeen, TypeOK, Rule, Made
<1>7. LastIsMade'
  <2>1. \A x \in Changes : Made(x) => Made(x)'
    BY <1>2 DEF Made
  <2>2. \A x \in Changes : Made(x)' <=> status'[x] \in {"applied", "undone", "expired"}
    BY DEF Made
  <2>3. ASSUME NEW t \in Senders, rule'[t].last # NoChange
        PROVE  rule'[t].last \in Changes /\ Made(rule'[t].last) /\ About[rule'[t].last] = t
    <3>1. CASE t = s
      <4>1. rule'[t].last = seen[c].last /\ seen[c].last \in Changes
        BY <1>1, <1>2, <2>3, <3>1 DEF LinkIsSeen, TypeOK
      <4> QED
        BY <2>3, <3>1, <4>1 DEF LinkIsSeen
    <3>2. CASE t # s
      BY <1>2, <2>3, <3>2 DEF LastIsMade, TypeOK, Rule
    <3> QED
      BY <3>1, <3>2
  <2> QED
    BY <2>1, <2>2, <2>3 DEF LastIsMade, Made
\* c is no longer standing; the others still are.
<1>8. \A d \in Changes : Standing(d)' => d # c /\ Standing(d)
  BY <1>2 DEF Standing
<1>9. LinksStand'
  <2> SUFFICES ASSUME NEW d \in Changes, Standing(d)', link[d] # NoChange
               PROVE  /\ status'[link[d]] # "undone"
                      /\ rule'[About[d]].last # link[d]
                      /\ \A e \in Changes : Standing(e)' /\ link[e] = link[d] => e = d
    BY <1>2 DEF LinksStand
  <2>1. /\ link[d] \in Changes /\ link[d] = seen[d].last /\ About[link[d]] = About[d]
        /\ d # c /\ Standing(d) /\ About[d] \in Senders
    BY <1>8 DEF LinkIsSeen, TypeOK, DataAssumption
  <2>2. /\ status[link[d]] # "undone"
        /\ rule[About[d]].last # link[d]
        /\ \A e \in Changes : Standing(e) /\ link[e] = link[d] => e = d
    BY <2>1 DEF LinksStand
  <2>3. link[d] # c
    BY <1>2, <2>1, <2>2
  <2>4. rule'[About[d]].last # link[d]
    <3> SUFFICES ASSUME About[d] = s, old.last = link[d]
                 PROVE  FALSE
      BY <1>2, <2>1, <2>2
    <3>1. link[c] = link[d] /\ Standing(c)
      BY <1>1, <1>2, <2>1 DEF Standing
    <3> QED
      BY <2>1, <2>2, <3>1
  <2> QED
    BY <1>2, <1>8, <2>1, <2>2, <2>3, <2>4
<1>10. SnapshotsFollow'
  BY <1>2, <1>8 DEF SnapshotsFollow, Place
<1>11. FollowsRule'
  <2> SUFFICES ASSUME NEW m \in Messages, folder'[m] # NoBox, m \notin apart,
                      SenderOf[m] \notin crossed
               PROVE  folder'[m] = Place(rule'[SenderOf[m]])
    BY <1>2 DEF FollowsRule, Place
  <2>1. SenderOf[m] \in Senders /\ folder[m] # NoBox
    BY <1>2 DEF DataAssumption, Received
  <2>2. CASE SenderOf[m] = s
    <3>1. folder'[m] = BroughtBack(c, m)
      BY <1>2, <2>1, <2>2 DEF Received, ParkedIsApart
    <3>2. BroughtBack(c, m) = Place(seen[c])
      BY <1>2, <2>2 DEF BroughtBack, SnapshotsFollow, Standing
    <3> QED
      BY <1>1, <1>2, <2>1, <2>2, <3>1, <3>2
  <2>3. CASE SenderOf[m] # s
    BY <1>2, <2>1, <2>3 DEF Received, FollowsRule
  <2> QED
    BY <2>2, <2>3
<1>12. UndoneIsOver'
  <2> SUFFICES ASSUME NEW t \in Senders \ crossed, rule'[t].last # NoChange
               PROVE  status'[rule'[t].last] # "undone"
    BY <1>2 DEF UndoneIsOver
  <2>1. CASE t = s
    <3>1. Standing(c) /\ rule'[t].last = link[c] /\ link[c] # NoChange
      BY <1>1, <1>2, <2>1 DEF Standing
    <3>2. status[link[c]] # "undone" /\ link[c] # c /\ link[c] \in Changes
      BY <1>2, <3>1 DEF LinksStand, TypeOK
    <3> QED
      BY <1>2, <3>1, <3>2
  <2>2. CASE t # s
    <3>1. rule'[t] = rule[t] /\ rule[t].last \in Changes /\ About[rule[t].last] = t
      BY <1>2, <2>2 DEF TypeOK, Rule, LastIsMade
    <3> QED
      BY <1>2, <2>2, <3>1 DEF UndoneIsOver
  <2> QED
    BY <2>1, <2>2
<1> QED
  BY <1>4, <1>5, <1>6, <1>7, <1>9, <1>10, <1>11, <1>12

-----------------------------------------------------------------------------
\* Every step of the rules, of arrivals and of members keeps the invariant.
THEOREM StepInvariant ==
  ASSUME DataAssumption, RuleInvariant, [Next]_vars
  PROVE  RuleInvariant'
<1>1. CASE \E c \in Changes : ReadRule(c) \/ ReadLastChange(c) \/ ApplyRule(c) \/ Undo(c) \/ Expire(c)
  BY <1>1, ReadRuleKeepsInvariant, ReadLastChangeKeepsInvariant, ApplyRuleKeepsInvariant,
     UndoKeepsInvariant, ExpireKeepsInvariant
<1>2. CASE \E m \in Messages : Arrive(m) \/ ArriveAsReply(m) \/ Restore(m)
  BY <1>2, ArriveKeepsInvariant, RestoreKeepsInvariant
<1>3. CASE \E S \in SUBSET Messages : Move(S) \/ Queue(S) \/ Unqueue(S) \/ Trash(S)
  BY <1>3, HandKeepsInvariant
<1>4. CASE UNCHANGED vars
  BY <1>4, MessageStep DEF vars, messageVars, RuleInvariant, TypeOK, ParkedIsApart
<1> QED
  BY <1>1, <1>2, <1>3, <1>4 DEF Next

\* In every state the changes that can be undone restore what they replaced.
THEOREM RuleInvariantHolds == ASSUME DataAssumption PROVE Spec => []RuleInvariant
<1>1. Init => RuleInvariant
  BY InitInvariant
<1>2. RuleInvariant /\ [Next]_vars => RuleInvariant'
  BY StepInvariant
<1> QED
  BY <1>1, <1>2, PTL DEF Spec

\* Every variable keeps its type.
THEOREM TypeCorrect == ASSUME DataAssumption PROVE Spec => []TypeOK
<1>1. RuleInvariant => TypeOK
  BY DEF RuleInvariant
<1> QED
  BY <1>1, RuleInvariantHolds, PTL

\* A message that nobody touched is where the rule of its sender says, for senders whose
\* changes did not cross.
THEOREM FollowsRuleHolds == ASSUME DataAssumption PROVE Spec => []FollowsRule
<1>1. RuleInvariant => FollowsRule
  BY DEF RuleInvariant
<1> QED
  BY <1>1, RuleInvariantHolds, PTL

\* No rule names an undone change as its last one, for senders whose changes did not
\* cross (crossed): the handlers do not test again what they read.
THEOREM UndoneIsOverHolds == ASSUME DataAssumption PROVE Spec => []UndoneIsOver
<1>1. RuleInvariant => UndoneIsOver
  BY DEF RuleInvariant
<1> QED
  BY <1>1, RuleInvariantHolds, PTL

\* No change of a rule, nor its undo, moves a parked message.
THEOREM QueuedStayHolds == ASSUME DataAssumption PROVE Spec => QueuedStay
<1>1. TypeOK /\ [Next]_vars => [status' # status => \A m \in queued : folder'[m] = folder[m]]_vars
  <2> SUFFICES ASSUME TypeOK, [Next]_vars, status' # status, NEW m \in queued
               PROVE  folder'[m] = folder[m]
    OBVIOUS
  <2>1. PICK c \in Changes : ReadRule(c) \/ ReadLastChange(c) \/ ApplyRule(c) \/ Undo(c) \/ Expire(c)
    BY DEF Next, vars, changeVars, Arrive, ArriveAsReply, ArriveAt, Restore,
           Move, Queue, Unqueue, Trash, ByHand
  <2>2. m \in Messages /\ m \notin Moved(About[c])
    BY DEF TypeOK, Moved
  <2> QED
    BY <2>1, <2>2 DEF ReadRule, ReadLastChange, ApplyRule, Undo, Expire, messageVars
<1>2. RuleInvariant => TypeOK
  BY DEF RuleInvariant
<1> QED
  BY <1>1, <1>2, RuleInvariantHolds, PTL DEF Spec, QueuedStay

-----------------------------------------------------------------------------
(***************************************************************************)
(* The Screener.  Every stored message shows who is blocked, in the bin    *)
(* and in the other boxes too, unless a block or its removal missed it;    *)
(* a message that is not stored yet shows nothing.                         *)
(***************************************************************************)
ScreenerType ==
  /\ place \in [Mails -> {"absent", "checked", "Screener", "box"}]
  /\ state \in [Mails -> {"pending", "cleared", "blocked"}]
  /\ blocker \in [Authors -> Members \cup {"nobody"}]

Shows(m) == state[m] = "blocked" <=> Blocked(AuthorOf[m])

ScreenerInvariant ==
  /\ ScreenerType
  /\ \A m \in Mails : place[m] \in {"absent", "checked"} => state[m] = "pending"
  /\ \A m \in Mails \ missed : place[m] \in {"Screener", "box"} => Shows(m)

LEMMA BlockKeepsScreener ==
  ASSUME ScreenerAssumption, ScreenerInvariant,
         NEW u \in Members, NEW s \in Authors, Block(u, s)
  PROVE  ScreenerInvariant'
<1> DEFINE reached == By(s) \cap (Held \ binned)
<1>1. /\ blocker' = IF Blocked(s) THEN blocker ELSE [blocker EXCEPT ![s] = u]
      /\ state' = Marked(reached, "blocked")
      /\ missed' = (missed \ reached) \cup {m \in Stored(s) \ reached : state[m] # "blocked"}
      /\ UNCHANGED <<place, binned>>
  BY DEF Block
<1>2. ScreenerType'
  BY <1>1 DEF ScreenerInvariant, ScreenerType, Marked
<1>3. \A a \in Authors : Blocked(a)' <=> Blocked(a) \/ a = s
  BY <1>1 DEF ScreenerInvariant, ScreenerType, Blocked, ScreenerAssumption
<1>4. \A m \in Mails : place'[m] \in {"absent", "checked"} => state'[m] = "pending"
  BY <1>1 DEF ScreenerInvariant, Marked, Held
<1>5. ASSUME NEW m \in Mails \ missed', place'[m] \in {"Screener", "box"} PROVE Shows(m)'
  <2>1. CASE m \in reached
    BY <1>1, <1>3, <2>1 DEF Shows, Marked, By, ScreenerAssumption
  <2>2. CASE m \notin reached
    <3>1. m \notin missed /\ state'[m] = state[m]
      BY <1>1, <1>5, <2>2 DEF Marked
    <3>2. AuthorOf[m] = s => state[m] = "blocked"
      BY <1>1, <1>5, <2>2 DEF Stored, By
    <3> QED
      BY <1>1, <1>3, <1>5, <3>1, <3>2 DEF Shows, ScreenerInvariant, ScreenerAssumption
  <2> QED
    BY <2>1, <2>2
<1> QED
  BY <1>2, <1>4, <1>5 DEF ScreenerInvariant

LEMMA FreedKeepsScreener ==
  ASSUME ScreenerAssumption, ScreenerInvariant, NEW s, NEW reached \in SUBSET By(s),
         Freed(s, reached), UNCHANGED place
  PROVE  ScreenerInvariant'
<1>1. /\ blocker' = [blocker EXCEPT ![s] = "nobody"]
      /\ state' = Marked({m \in reached : state[m] = "blocked"}, "pending")
      /\ missed' = (missed \ reached) \cup {m \in By(s) \ reached : state[m] = "blocked"}
  BY DEF Freed
<1>2. ScreenerType'
  BY <1>1 DEF ScreenerInvariant, ScreenerType, Marked
<1>3. \A a \in Authors : Blocked(a)' <=> Blocked(a) /\ a # s
  BY <1>1 DEF ScreenerInvariant, ScreenerType, Blocked
<1>4. \A m \in Mails : place'[m] \in {"absent", "checked"} => state'[m] = "pending"
  BY <1>1 DEF ScreenerInvariant, Marked
<1>5. ASSUME NEW m \in Mails \ missed', place'[m] \in {"Screener", "box"} PROVE Shows(m)'
  <2>1. CASE m \in reached
    BY <1>1, <1>3, <2>1 DEF Shows, Marked, By, ScreenerAssumption
  <2>2. CASE m \notin reached
    <3>1. m \notin missed /\ state'[m] = state[m]
      BY <1>1, <1>5, <2>2 DEF Marked
    <3>2. AuthorOf[m] = s => state[m] # "blocked"
      BY <1>1, <1>5, <2>2 DEF By
    <3> QED
      BY <1>3, <1>5, <3>1, <3>2 DEF Shows, ScreenerInvariant, ScreenerAssumption
  <2> QED
    BY <2>1, <2>2
<1> QED
  BY <1>2, <1>4, <1>5 DEF ScreenerInvariant

\* Steps that change what is shown without a block: between pending and cleared.
LEMMA MarkedKeepsScreener ==
  ASSUME ScreenerInvariant, NEW ms, NEW value \in {"pending", "cleared"},
         \A m \in ms : state[m] # "blocked" /\ place[m] = "Screener",
         state' = Marked(ms, value),
         UNCHANGED <<blocker, missed>>,
         place' \in [Mails -> {"absent", "checked", "Screener", "box"}],
         \A m \in Mails : place'[m] \in {"Screener", "box"} <=> place[m] \in {"Screener", "box"}
  PROVE  ScreenerInvariant'
  BY DEF ScreenerInvariant, ScreenerType, Shows, Marked, Blocked

LEMMA NextKeepsScreener ==
  ASSUME ScreenerAssumption
  PROVE  ScreenerInvariant /\ [ScreenerNext]_screenerVars => ScreenerInvariant'
<1> SUFFICES ASSUME ScreenerInvariant, [ScreenerNext]_screenerVars PROVE ScreenerInvariant'
  OBVIOUS
<1>1. ASSUME NEW m \in Mails, Receive(m) PROVE ScreenerInvariant'
  BY <1>1 DEF Receive, ScreenerInvariant, ScreenerType, Shows, Blocked
<1>2. ASSUME NEW m \in Mails, Keep(m) PROVE ScreenerInvariant'
  BY <1>2 DEF Keep, ScreenerInvariant, ScreenerType, Shows, Blocked
<1>3. ASSUME NEW m \in Mails, RestoreScreener(m) PROVE ScreenerInvariant'
  BY <1>3, MarkedKeepsScreener DEF RestoreScreener, ScreenerInvariant, ScreenerType, Held
<1>4. ASSUME NEW m \in Mails, FileOne(m) PROVE ScreenerInvariant'
  BY <1>4, MarkedKeepsScreener DEF FileOne, ScreenerInvariant, ScreenerType, Held
<1>5. ASSUME NEW m \in Mails, TrashPending(m) \/ RestoreTrash(m) PROVE ScreenerInvariant'
  BY <1>5 DEF TrashPending, RestoreTrash, ScreenerInvariant, ScreenerType, Shows, Blocked
<1>6. ASSUME NEW s \in Authors, AdminUnblock(s) PROVE ScreenerInvariant'
  BY <1>6, FreedKeepsScreener DEF AdminUnblock
<1>7. ASSUME NEW s \in Authors, Classify(s) \/ Unclassify(s) PROVE ScreenerInvariant'
  BY <1>7 DEF Classify, Unclassify, Stored, ScreenerInvariant, ScreenerType, Shows, Blocked
<1>8. ASSUME NEW u \in Members, NEW s \in Authors, Block(u, s) PROVE ScreenerInvariant'
  BY <1>8, BlockKeepsScreener
<1>9. CASE Unblock
  BY <1>9, FreedKeepsScreener DEF Unblock
<1>10. CASE Clear
  BY <1>10, MarkedKeepsScreener DEF Clear, ScreenerInvariant, ScreenerType, Held
<1>11. CASE UNCHANGED <<place, state, blocker, missed>>
  BY <1>11 DEF ScreenerInvariant, ScreenerType, Shows, Blocked
<1> QED
  BY <1>1, <1>2, <1>3, <1>4, <1>5, <1>6, <1>7, <1>8, <1>9, <1>10, <1>11
     DEF ScreenerNext, screenerVars, AskUnblock

\* What the Screener shows of a sender is what the list of blocked senders says, for
\* any number of senders, members and messages, except for what a block missed.
THEOREM BlockIsShownHolds == ASSUME ScreenerAssumption PROVE ScreenerSpec => []BlockIsShown
<1>1. ScreenerInit => ScreenerInvariant
  BY DEF ScreenerInit, ScreenerInvariant, ScreenerType, Blocked
<1>2. ScreenerInvariant => BlockIsShown
  BY DEF ScreenerInvariant, BlockIsShown, Shows, Held
<1> QED
  BY <1>1, <1>2, NextKeepsScreener, PTL DEF ScreenerSpec
=============================================================================
