------------------------- MODULE ReadActivityProofs -------------------------
(***************************************************************************)
(* Proofs about ReadActivity, for any number of messages, conversations,   *)
(* mailboxes, requests and versions.                                       *)
(***************************************************************************)
EXTENDS ReadActivity, FiniteSetTheorems, TLAPS

USE DataAssumption

-----------------------------------------------------------------------------
(***************************************************************************)
(* What the parts of an action do.                                         *)
(***************************************************************************)

LEMMA ChangeType ==
  ASSUME TypeOK, NEW S \in SUBSET Messages, NEW read \in BOOLEAN, Change(S, read)
  PROVE  /\ isRead' \in [Messages -> BOOLEAN]
         /\ version' \in [Messages -> Nat]
         /\ stale' \subseteq Activities
<1>1. isRead' = [m \in Messages |-> IF m \in S THEN read ELSE isRead[m]]
  BY DEF Change
<1>2. isRead \in [Messages -> BOOLEAN]
  BY DEF TypeOK
<1>3. isRead' \in [Messages -> BOOLEAN]
  BY <1>1, <1>2, Zenon
<1> QED
  BY <1>3 DEF Change, TypeOK

LEMMA ChangeEffect ==
  ASSUME TypeOK, NEW S \in SUBSET Messages, NEW read, Change(S, read)
  PROVE  /\ \A m \in Messages : version'[m] = IF m \in S THEN version[m] + 1 ELSE version[m]
         /\ \A m \in Messages : version[m] \in Nat
         /\ \A a : a \in stale' <=>
           (a \in stale \/ (a \in Activities /\ activity[a].msgs \cap S # {}))
  BY DEF Change, TypeOK

\* A change of state and a step of the version go together.
LEMMA ChangeKeepsVersionNames ==
  ASSUME TypeOK, VersionNamesState, NEW S \in SUBSET Messages, NEW read \in BOOLEAN,
         Change(S, read), \A m \in S : isRead[m] # read
  PROVE  VersionNamesState'
<1> SUFFICES ASSUME NEW m \in Messages
             PROVE  isRead'[m] = ((version'[m] % 2 = 1) # (m \in Sent))
  BY DEF VersionNamesState
<1>1. isRead[m] = ((version[m] % 2 = 1) # (m \in Sent))
  BY DEF VersionNamesState
<1>2. version[m] \in Nat /\ isRead[m] \in BOOLEAN
  BY DEF TypeOK
<1>0. /\ \A n \in S : isRead'[n] = read /\ version'[n] = version[n] + 1
      /\ \A n \in Messages \ S : isRead'[n] = isRead[n] /\ version'[n] = version[n]
  BY DEF Change, TypeOK
<1>3. CASE m \in S
  <2>1. isRead'[m] = read /\ version'[m] = version[m] + 1 /\ isRead[m] # read
    BY <1>0, <1>3, Zenon
  <2>2. (version'[m] % 2 = 1) = ~(version[m] % 2 = 1)
    BY <1>2, <2>1
  <2> QED
    BY <1>1, <1>2, <2>1, <2>2
<1>4. CASE m \notin S
  BY <1>0, <1>1, <1>4
<1> QED
  BY <1>3, <1>4

LEMMA PrepareEffect ==
  ASSUME TypeOK, NEW r \in Requests, NEW kind \in Kinds, NEW aim \in SUBSET Activities,
         NEW noted \in SUBSET Messages, Prepare(r, kind, aim, noted)
  PROVE  /\ request' \in [Requests -> Request]
         /\ request[r].step = "new"
         /\ request'[r].step = "write" /\ request'[r].kind = kind /\ request'[r].aim = aim
         /\ \A q \in Requests \ {r} : request'[q] = request[q]
         /\ UNCHANGED <<isRead, version, stale, granted, activity, late>>
<1> DEFINE new == [step |-> "write", kind |-> kind, aim |-> aim, noted |-> noted,
                   found |-> [m \in Messages |-> IF m \in noted THEN version[m] ELSE 0]]
<1>1. new \in Request
  BY DEF TypeOK, Request
<1>2. request' = [request EXCEPT ![r] = new] /\ request[r].step = "new"
  BY DEF Prepare
<1> HIDE DEF new
<1>3. request'[r] = new /\ \A q \in Requests \ {r} : request'[q] = request[q]
  BY <1>2 DEF TypeOK
<1>4. request' \in [Requests -> Request]
  BY <1>1, <1>2 DEF TypeOK
<1>5. new.step = "write" /\ new.kind = kind /\ new.aim = aim
  BY DEF new
<1> QED
  BY <1>2, <1>3, <1>4, <1>5 DEF Prepare, messageVars

LEMMA FinishEffect ==
  ASSUME TypeOK, NEW r \in Requests, NEW kind, Finish(r, kind)
  PROVE  /\ request' \in [Requests -> Request]
         /\ request[r].step = "write" /\ request[r].kind = kind
         /\ request'[r].step = "done"
         /\ \A q \in Requests \ {r} : request'[q] = request[q]
<1> DEFINE new == [step |-> "done", kind |-> IF kind = "bulk" THEN "bulk" ELSE "mark",
                   aim |-> {}, noted |-> {}, found |-> NoVersions]
<1>1. new \in Request
  BY DEF Request, NoVersions, Kinds
<1>2. /\ request' = [request EXCEPT ![r] = new]
      /\ request[r].step = "write" /\ request[r].kind = kind
  BY DEF Finish
<1> HIDE DEF new
<1>3. request'[r] = new /\ \A q \in Requests \ {r} : request'[q] = request[q]
  BY <1>2 DEF TypeOK
<1>4. request' \in [Requests -> Request]
  BY <1>1, <1>2 DEF TypeOK
<1>5. new.step = "done"
  BY DEF new
<1> QED
  BY <1>2, <1>3, <1>4, <1>5

\* What an activity that is recorded, undone or pruned holds.
LEMMA RowTypes ==
  /\ \A state \in {"none", "kept", "undone", "gone"} :
       /\ WithoutData(state) \in Row
       /\ WithoutData(state).msgs = {} /\ WithoutData(state).state = state
  /\ \A msgs \in SUBSET Messages, prev \in [Messages -> Nat] :
       [state |-> "kept", msgs |-> msgs, prev |-> prev] \in Row
  BY DEF WithoutData, Row, NoVersions

LEMMA RequestTypes ==
  ASSUME TypeOK, NEW r \in Requests
  PROVE  /\ request[r].aim \subseteq Activities
         /\ request[r].noted \subseteq Messages
         /\ request[r].found \in [Messages -> Nat]
  BY DEF TypeOK, Request

LEMMA ActivityTypes ==
  ASSUME TypeOK, NEW a \in Activities
  PROVE  /\ activity[a] \in Row
         /\ activity[a].msgs \subseteq Messages
         /\ activity[a].prev \in [Messages -> Nat]
         /\ activity[a].msgs # {} => activity[a].state = "kept"
         /\ a[1] \in Markers /\ a[2] \in Messages /\ a[1] \in Requests
  BY DEF TypeOK, Row, Activities, Requests

-----------------------------------------------------------------------------
(***************************************************************************)
(* Type correctness.                                                       *)
(***************************************************************************)

LEMMA RecordType ==
  ASSUME TypeOK, NEW r \in Requests, NEW inserted \in SUBSET Activities,
         Record(r, inserted)
  PROVE  /\ isRead' \in [Messages -> BOOLEAN]
         /\ version' \in [Messages -> Nat]
         /\ stale' \subseteq Activities
         /\ activity' \in [Activities -> Row]
         /\ \A a \in Activities : activity'[a].msgs # {} => activity'[a].state = "kept"
<1> DEFINE S == UNION {Marked(r, a) : a \in inserted}
<1>1. S \subseteq Messages /\ \A a \in Activities : Marked(r, a) \subseteq Messages
  BY RequestTypes DEF Marked
<1>2. Change(S, FALSE)
  BY DEF Record
<1>3. /\ isRead' \in [Messages -> BOOLEAN] /\ version' \in [Messages -> Nat]
      /\ stale' \subseteq Activities
  <2> HIDE DEF S
  <2> QED
    BY <1>1, <1>2, ChangeType
<1>4. activity' = [a \in Activities |->
        IF a \in inserted
          THEN [state |-> "kept", msgs |-> Marked(r, a), prev |-> request[r].found]
          ELSE activity[a]]
  BY DEF Record
<1>5. \A a \in Activities : activity'[a] \in Row
  BY <1>1, <1>4, RowTypes, RequestTypes, ActivityTypes
<1>6. activity' \in [Activities -> Row]
  BY <1>4, <1>5
<1>7. \A a \in Activities : activity'[a].msgs # {} => activity'[a].state = "kept"
  BY <1>4, ActivityTypes
<1> QED
  BY <1>3, <1>6, <1>7

LEMMA UndoType ==
  ASSUME TypeOK, NEW undone \in SUBSET Activities, Undo(undone)
  PROVE  /\ isRead' \in [Messages -> BOOLEAN]
         /\ version' \in [Messages -> Nat]
         /\ stale' \subseteq Activities
         /\ activity' \in [Activities -> Row]
         /\ \A a \in Activities : activity'[a].msgs # {} => activity'[a].state = "kept"
<1> DEFINE S == UNION {activity[a].msgs : a \in undone}
<1>1. S \subseteq Messages
  BY ActivityTypes
<1>2. Change(S, TRUE)
  BY DEF Undo
<1>3. /\ isRead' \in [Messages -> BOOLEAN] /\ version' \in [Messages -> Nat]
      /\ stale' \subseteq Activities
  <2> HIDE DEF S
  <2> QED
    BY <1>1, <1>2, ChangeType
<1>4. activity' = [a \in Activities |->
        IF a \in undone THEN WithoutData("undone") ELSE activity[a]]
  BY DEF Undo
<1>5. \A a \in Activities : activity'[a] \in Row
  BY <1>4, RowTypes, ActivityTypes
<1>6. activity' \in [Activities -> Row]
  BY <1>4, <1>5
<1>7. \A a \in Activities : activity'[a].msgs # {} => activity'[a].state = "kept"
  BY <1>4, RowTypes, ActivityTypes
<1> QED
  BY <1>3, <1>6, <1>7

LEMMA PruneType ==
  ASSUME TypeOK, NEW old \in SUBSET Markers, Prune(old)
  PROVE  TypeOK'
<1>1. activity' = [a \in Activities |->
        IF a[1] \in old /\ Exists(a) THEN WithoutData("gone")
        ELSE IF a[1] \in late THEN WithoutData(activity[a].state)
        ELSE activity[a]]
  BY DEF Prune
<1>2. \A a \in Activities : /\ activity[a] \in Row
                            /\ activity[a].state \in {"none", "kept", "undone", "gone"}
  BY ActivityTypes DEF Row
<1>3. \A a \in Activities : activity'[a] \in Row
  BY <1>1, <1>2, RowTypes
<1>4. activity' \in [Activities -> Row]
  BY <1>1, <1>3
<1>5. \A a \in Activities : activity'[a].msgs # {} => activity'[a].state = "kept"
  BY <1>1, <1>2, RowTypes, ActivityTypes
<1>6. UNCHANGED <<isRead, version, stale, granted, request, late>>
  BY DEF Prune, messageVars
<1> QED
  BY <1>4, <1>5, <1>6 DEF TypeOK

-----------------------------------------------------------------------------
(***************************************************************************)
(* The invariant, for each way in which an action changes the state.       *)
(***************************************************************************)

\* Requests that write end; the others stay as they are.
Ending == \A q \in Requests : request'[q] = request[q] \/ request'[q].step = "done"

\* read.patch.ts, and mark-seen: the activities stay as they are.
LEMMA ChangeKeepsInvariant ==
  ASSUME UndoInvariant, NEW S \in SUBSET Messages, NEW read \in BOOLEAN, Change(S, read),
         \A m \in S : isRead[m] # read,
         Ending, request' \in [Requests -> Request],
         UNCHANGED <<granted, activity, late>>
  PROVE  UndoInvariant'
<1> USE DEF Ending
<1>0. TypeOK /\ VersionNamesState
  BY DEF UndoInvariant
<1>1. TypeOK'
  BY <1>0, ChangeType DEF TypeOK
<1>2. VersionNamesState'
  BY <1>0, ChangeKeepsVersionNames
<1>3. /\ \A m \in Messages : version'[m] = IF m \in S THEN version[m] + 1 ELSE version[m]
      /\ \A m \in Messages : version[m] \in Nat
      /\ \A a : a \in stale' <=>
           (a \in stale \/ (a \in Activities /\ activity[a].msgs \cap S # {}))
  BY <1>0, ChangeEffect
<1>4. \A a \in Activities : activity[a].msgs \subseteq Messages
                            /\ activity[a].prev \in [Messages -> Nat] /\ a[1] \in Requests
  BY <1>0, ActivityTypes
<1>5. OneRecordPerMarking'
  BY DEF UndoInvariant, OneRecordPerMarking
<1>6. RecordedPast'
  BY <1>3, <1>4 DEF UndoInvariant, RecordedPast
<1>7. StaleHasMoved'
  <2> SUFFICES ASSUME NEW a \in stale', activity[a].msgs # {}
               PROVE  \E m \in activity[a].msgs : version'[m] > activity[a].prev[m] + 1
    BY DEF StaleHasMoved
  <2>0. a \in Activities
    BY <1>0, <1>3 DEF TypeOK
  <2>1. CASE a \in stale
    <3>1. PICK m \in activity[a].msgs : version[m] > activity[a].prev[m] + 1
      BY <2>1 DEF UndoInvariant, StaleHasMoved
    <3> QED
      BY <1>3, <1>4, <2>0, <3>1
  <2>2. CASE a \notin stale
    <3>1. PICK m \in activity[a].msgs : m \in S
      BY <1>3, <2>2
    <3>2. version[m] > activity[a].prev[m]
      BY <2>0 DEF UndoInvariant, RecordedPast
    <3> QED
      BY <1>3, <1>4, <2>0, <3>1, <3>2
  <2> QED
    BY <2>1, <2>2
<1>8. NothingRecordedBefore'
  BY <1>3, <1>4 DEF UndoInvariant, NothingRecordedBefore
<1>9. AimsAtOwn'
  BY DEF UndoInvariant, AimsAtOwn
<1>10. AimsAtBatch'
  <2>1. \A q \in Requests : request[q].step = "done" => request'[q].step = "done"
    OBVIOUS
  <2>2. \A b \in Markers : Batch(b)' = Batch(b)
    BY DEF Batch, Exists
  <2> QED
    BY <2>1, <2>2 DEF UndoInvariant, AimsAtBatch, Requests
<1> QED
  BY <1>1, <1>2, <1>5, <1>6, <1>7, <1>8, <1>9, <1>10 DEF UndoInvariant

\* mark-unseen: the messages of the activities that are inserted are as they were read.
LEMMA RecordKeepsInvariant ==
  ASSUME UndoInvariant, NEW r \in Requests, NEW kind \in {"mark", "bulk"}, Finish(r, kind),
         NEW inserted \in SUBSET request[r].aim, Record(r, inserted),
         \A a \in inserted : \A m \in Marked(r, a) : AsFound(r, m)
  PROVE  UndoInvariant'
<1> DEFINE S == UNION {Marked(r, a) : a \in inserted}
           found == request[r].found
<1>0. TypeOK /\ VersionNamesState
  BY DEF UndoInvariant
<1>1. /\ request' \in [Requests -> Request]
      /\ request[r].step = "write" /\ request[r].kind = kind /\ request'[r].step = "done"
      /\ \A q \in Requests \ {r} : request'[q] = request[q]
  BY <1>0, FinishEffect
<1>2. /\ inserted \subseteq Activities /\ found \in [Messages -> Nat]
      /\ \A a \in Activities : Marked(r, a) \subseteq Messages
  BY <1>0, RequestTypes DEF Marked
<1>3. S \subseteq Messages
  BY <1>2
<1>4. Change(S, FALSE) /\ UNCHANGED <<granted, late>>
  BY DEF Record
<1>5. /\ \A a \in inserted : /\ activity'[a].state = "kept"
                             /\ activity'[a].msgs = Marked(r, a) /\ activity'[a].prev = found
      /\ \A a \in Activities \ inserted : activity'[a] = activity[a]
  BY <1>2 DEF Record
<1>6. /\ \A a \in inserted : a[1] = r /\ activity[a].msgs = {} /\ a \notin stale
      /\ \A a, b \in inserted : ThreadOf[a[2]] = ThreadOf[b[2]] => a = b
  BY <1>1, <1>2 DEF UndoInvariant, AimsAtOwn, NothingRecordedBefore
<1>7. /\ \A a \in inserted : \A m \in Marked(r, a) : version[m] = found[m] /\ m \in S
      /\ \A m \in S : isRead[m] # FALSE
  BY DEF AsFound
<1>8. VersionNamesState'
  <2> HIDE DEF S
  <2> QED
    BY <1>0, <1>3, <1>4, <1>7, ChangeKeepsVersionNames
<1>9. /\ \A m \in Messages : version'[m] = IF m \in S THEN version[m] + 1 ELSE version[m]
      /\ \A m \in Messages : version[m] \in Nat
      /\ \A a : a \in stale' <=>
           (a \in stale \/ (a \in Activities /\ activity[a].msgs \cap S # {}))
  <2> HIDE DEF S
  <2> QED
    BY <1>0, <1>3, <1>4, ChangeEffect
<1> HIDE DEF S, found
<1>10. TypeOK'
  BY <1>0, <1>1, <1>2, <1>4, RecordType DEF TypeOK
<1>11. \A a \in Activities : activity[a].msgs \subseteq Messages
                             /\ activity[a].prev \in [Messages -> Nat] /\ a[1] \in Requests
                             /\ a[2] \in Messages
  BY <1>0, ActivityTypes
<1>12. OneRecordPerMarking'
  <2> SUFFICES ASSUME NEW a \in Activities, NEW b \in Activities, a # b,
                      NEW m \in activity'[a].msgs \cap activity'[b].msgs
               PROVE  activity'[a].prev[m] # activity'[b].prev[m]
    BY DEF OneRecordPerMarking
  <2>1. CASE a \in inserted /\ b \in inserted
    <3>1. m \in Thread(a[2]) /\ m \in Thread(b[2])
      BY <1>5, <2>1 DEF Marked
    <3> QED
      BY <1>6, <2>1, <3>1 DEF Thread
  <2>2. CASE a \in inserted /\ b \notin inserted
    <3>1. activity'[a].prev[m] = version[m] /\ m \in activity[b].msgs
      BY <1>5, <1>7, <2>2
    <3> QED
      BY <1>5, <1>9, <1>11, <2>2, <3>1 DEF UndoInvariant, RecordedPast
  <2>3. CASE a \notin inserted /\ b \in inserted
    <3>1. activity'[b].prev[m] = version[m] /\ m \in activity[a].msgs
      BY <1>5, <1>7, <2>3
    <3> QED
      BY <1>5, <1>9, <1>11, <2>3, <3>1 DEF UndoInvariant, RecordedPast
  <2>4. CASE a \notin inserted /\ b \notin inserted
    BY <1>5, <2>4 DEF UndoInvariant, OneRecordPerMarking
  <2> QED
    BY <2>1, <2>2, <2>3, <2>4
<1>13. RecordedPast'
  <2> SUFFICES ASSUME NEW a \in Activities, NEW m \in activity'[a].msgs
               PROVE  activity'[a].prev[m] < version'[m]
    BY DEF RecordedPast
  <2>1. CASE a \in inserted
    BY <1>2, <1>5, <1>7, <1>9, <2>1
  <2>2. CASE a \notin inserted
    <3>1. m \in activity[a].msgs /\ activity'[a] = activity[a] /\ m \in Messages
      BY <1>5, <1>11, <2>2
    <3> QED
      BY <1>9, <1>11, <3>1 DEF UndoInvariant, RecordedPast
  <2> QED
    BY <2>1, <2>2
<1>14. StaleHasMoved'
  <2> SUFFICES ASSUME NEW a \in stale', activity'[a].msgs # {}
               PROVE  \E m \in activity'[a].msgs : version'[m] > activity'[a].prev[m] + 1
    BY DEF StaleHasMoved
  <2>0. a \in Activities /\ a \notin inserted
    BY <1>0, <1>6, <1>9 DEF TypeOK
  <2>1. activity'[a] = activity[a]
    BY <1>5, <2>0
  <2>2. CASE a \in stale
    <3>1. PICK m \in activity[a].msgs : version[m] > activity[a].prev[m] + 1
      BY <2>1, <2>2 DEF UndoInvariant, StaleHasMoved
    <3> QED
      BY <1>9, <1>11, <2>0, <2>1, <3>1
  <2>3. CASE a \notin stale
    <3>1. PICK m \in activity[a].msgs : m \in S
      BY <1>9, <2>3
    <3>2. version[m] > activity[a].prev[m]
      BY <2>0 DEF UndoInvariant, RecordedPast
    <3> QED
      BY <1>9, <1>11, <2>0, <2>1, <3>1, <3>2
  <2> QED
    BY <2>2, <2>3
<1>15. NothingRecordedBefore'
  <2> SUFFICES ASSUME NEW a \in Activities, request'[a[1]].step # "done"
               PROVE  activity'[a].state = "none" /\ activity'[a].msgs = {} /\ a \notin stale'
    BY DEF NothingRecordedBefore
  <2>1. a[1] # r /\ a \notin inserted /\ request[a[1]].step # "done"
    BY <1>1, <1>6, <1>11
  <2> QED
    BY <1>5, <1>9, <2>1 DEF UndoInvariant, NothingRecordedBefore
<1>16. AimsAtOwn'
  BY <1>1 DEF UndoInvariant, AimsAtOwn
<1>17. AimsAtBatch'
  <2> SUFFICES ASSUME NEW q \in Requests, request'[q].step = "write", request'[q].kind = "batch"
               PROVE  \E b \in Markers : /\ request'[b].step = "done"
                                         /\ request'[q].aim # {}
                                         /\ \A a \in request'[q].aim : a[1] = b
                                         /\ Batch(b)' \subseteq request'[q].aim
    BY DEF AimsAtBatch
  <2>1. q # r /\ request'[q] = request[q]
    BY <1>1
  <2>2. PICK b \in Markers : /\ request[b].step = "done"
                             /\ request[q].aim # {}
                             /\ \A a \in request[q].aim : a[1] = b
                             /\ Batch(b) \subseteq request[q].aim
    BY <2>1 DEF UndoInvariant, AimsAtBatch
  <2>3. b # r /\ request'[b].step = "done"
    BY <1>1, <2>2 DEF Requests
  <2>4. Batch(b)' = Batch(b)
    BY <1>5, <1>6, <2>3 DEF Batch, Exists
  <2> QED
    BY <2>1, <2>2, <2>3, <2>4
<1> QED
  BY <1>8, <1>10, <1>12, <1>13, <1>14, <1>15, <1>16, <1>17 DEF UndoInvariant

\* An undo, alone or in a batch: the activities still apply.
LEMMA UndoKeepsInvariant ==
  ASSUME UndoInvariant, NEW r \in Requests, NEW kind, Finish(r, kind),
         NEW undone \in SUBSET Activities, Undo(undone), \A a \in undone : StillApplies(a)
  PROVE  UndoInvariant'
<1> DEFINE S == UNION {activity[a].msgs : a \in undone}
<1>0. TypeOK /\ VersionNamesState
  BY DEF UndoInvariant
<1>1. /\ request' \in [Requests -> Request]
      /\ request'[r].step = "done" /\ \A q \in Requests \ {r} : request'[q] = request[q]
  BY <1>0, FinishEffect
<1>2. S \subseteq Messages
  BY <1>0, ActivityTypes
<1>3. Change(S, TRUE) /\ UNCHANGED <<granted, late>>
  BY DEF Undo
<1>4. \A m \in S : isRead[m] # TRUE
  BY DEF StillApplies
<1>5. /\ \A a \in undone : activity'[a].msgs = {} /\ activity'[a].state = "undone"
      /\ \A a \in Activities \ undone : activity'[a] = activity[a]
  BY RowTypes DEF Undo
<1>6. \A a \in undone : activity[a].state = "kept"
  BY DEF StillApplies
<1> HIDE DEF S
<1>7. VersionNamesState'
  BY <1>0, <1>2, <1>3, <1>4, ChangeKeepsVersionNames
<1>8. /\ \A m \in Messages : version'[m] = IF m \in S THEN version[m] + 1 ELSE version[m]
      /\ \A m \in Messages : version[m] \in Nat
      /\ \A a : a \in stale' <=>
           (a \in stale \/ (a \in Activities /\ activity[a].msgs \cap S # {}))
  BY <1>0, <1>2, <1>3, ChangeEffect
<1>9. TypeOK'
  BY <1>0, <1>1, <1>3, UndoType DEF TypeOK
<1>10. \A a \in Activities : activity[a].msgs \subseteq Messages
                             /\ activity[a].prev \in [Messages -> Nat] /\ a[1] \in Requests
  BY <1>0, ActivityTypes
<1>11. OneRecordPerMarking'
  BY <1>5 DEF UndoInvariant, OneRecordPerMarking
<1>12. RecordedPast'
  <2> SUFFICES ASSUME NEW a \in Activities, NEW m \in activity'[a].msgs
               PROVE  activity'[a].prev[m] < version'[m]
    BY DEF RecordedPast
  <2>1. a \notin undone /\ activity'[a] = activity[a] /\ m \in Messages
    BY <1>5, <1>10
  <2> QED
    BY <1>8, <1>10, <2>1 DEF UndoInvariant, RecordedPast
<1>13. StaleHasMoved'
  <2> SUFFICES ASSUME NEW a \in stale', activity'[a].msgs # {}
               PROVE  \E m \in activity'[a].msgs : version'[m] > activity'[a].prev[m] + 1
    BY DEF StaleHasMoved
  <2>1. a \in Activities /\ activity'[a] = activity[a]
    BY <1>0, <1>5, <1>8 DEF TypeOK
  <2>2. CASE a \in stale
    <3>1. PICK m \in activity[a].msgs : version[m] > activity[a].prev[m] + 1
      BY <2>1, <2>2 DEF UndoInvariant, StaleHasMoved
    <3> QED
      BY <1>8, <1>10, <2>1, <3>1
  <2>3. CASE a \notin stale
    <3>1. PICK m \in activity[a].msgs : m \in S
      BY <1>8, <2>3
    <3>2. version[m] > activity[a].prev[m]
      BY <2>1 DEF UndoInvariant, RecordedPast
    <3> QED
      BY <1>8, <1>10, <2>1, <3>1, <3>2
  <2> QED
    BY <2>2, <2>3
<1>14. NothingRecordedBefore'
  <2> SUFFICES ASSUME NEW a \in Activities, request'[a[1]].step # "done"
               PROVE  activity'[a].state = "none" /\ activity'[a].msgs = {} /\ a \notin stale'
    BY DEF NothingRecordedBefore
  <2>1. activity[a].state = "none" /\ activity[a].msgs = {} /\ a \notin stale
    BY <1>1, <1>10 DEF UndoInvariant, NothingRecordedBefore
  <2>2. a \notin undone
    BY <1>6, <2>1
  <2> QED
    BY <1>5, <1>8, <2>1, <2>2
<1>15. AimsAtOwn'
  BY <1>1 DEF UndoInvariant, AimsAtOwn
<1>16. AimsAtBatch'
  <2>1. \A q \in Requests : request[q].step = "done" => request'[q].step = "done"
    BY <1>1
  <2>2. \A b \in Markers : Batch(b)' = Batch(b)
    BY <1>5, <1>6 DEF Batch, Exists
  <2> QED
    BY <1>1, <2>1, <2>2 DEF UndoInvariant, AimsAtBatch, Requests
<1> QED
  BY <1>7, <1>9, <1>11, <1>12, <1>13, <1>14, <1>15, <1>16 DEF UndoInvariant

\* The nightly pruning only takes undo data and rows away.
LEMMA PruneKeepsInvariant ==
  ASSUME UndoInvariant, NEW old \in SUBSET Markers, Prune(old)
  PROVE  UndoInvariant'
<1>0. TypeOK
  BY DEF UndoInvariant
<1>1. UNCHANGED <<isRead, version, stale, granted, request, late>>
  BY DEF Prune, messageVars
<1>2. activity' = [a \in Activities |->
        IF a[1] \in old /\ Exists(a) THEN WithoutData("gone")
        ELSE IF a[1] \in late THEN WithoutData(activity[a].state)
        ELSE activity[a]]
  BY DEF Prune
<1>3. \A a \in Activities : activity[a].state \in {"none", "kept", "undone", "gone"}
  BY <1>0, ActivityTypes DEF Row
<1>4. \A a \in Activities : /\ activity'[a] = activity[a] \/ activity'[a].msgs = {}
                            /\ activity'[a].state = activity[a].state
                               \/ (Exists(a) /\ activity'[a].state = "gone")
  BY <1>2, <1>3, RowTypes
<1>5. TypeOK'
  BY <1>0, PruneType
<1>6. VersionNamesState'
  BY <1>1 DEF UndoInvariant, VersionNamesState
<1>7. OneRecordPerMarking'
  BY <1>4 DEF UndoInvariant, OneRecordPerMarking
<1>8. RecordedPast'
  BY <1>1, <1>4 DEF UndoInvariant, RecordedPast
<1>9. StaleHasMoved'
  <2>1. stale \subseteq Activities
    BY <1>0 DEF TypeOK
  <2> QED
    BY <1>1, <1>4, <2>1 DEF UndoInvariant, StaleHasMoved
<1>10. NothingRecordedBefore'
  BY <1>1, <1>4 DEF UndoInvariant, NothingRecordedBefore, Exists
<1>11. AimsAtOwn'
  BY <1>1 DEF UndoInvariant, AimsAtOwn
<1>12. AimsAtBatch'
  <2>1. \A b \in Markers : Batch(b)' \subseteq Batch(b)
    BY <1>4 DEF Batch, Exists
  <2> QED
    BY <1>1, <2>1 DEF UndoInvariant, AimsAtBatch
<1> QED
  BY <1>5, <1>6, <1>7, <1>8, <1>9, <1>10, <1>11, <1>12 DEF UndoInvariant

\* A request that has read is ready to record its own, or to undo a batch as it found it.
LEMMA PrepareKeepsInvariant ==
  ASSUME UndoInvariant, NEW r \in Requests, NEW kind \in Kinds, NEW aim \in SUBSET Activities,
         NEW noted \in SUBSET Messages, Prepare(r, kind, aim, noted),
         kind \in {"mark", "bulk"} =>
           /\ r \in Markers
           /\ \A a \in aim : a[1] = r
           /\ \A a, b \in aim : ThreadOf[a[2]] = ThreadOf[b[2]] => a = b,
         kind = "batch" =>
           \E b \in Markers : request[b].step = "done" /\ aim # {} /\ aim = Batch(b)
  PROVE  UndoInvariant'
<1>0. TypeOK
  BY DEF UndoInvariant
<1>1. /\ request' \in [Requests -> Request]
      /\ request[r].step = "new"
      /\ request'[r].step = "write" /\ request'[r].kind = kind /\ request'[r].aim = aim
      /\ \A q \in Requests \ {r} : request'[q] = request[q]
      /\ UNCHANGED <<isRead, version, stale, granted, activity, late>>
  BY <1>0, PrepareEffect
<1>2. TypeOK'
  BY <1>0, <1>1 DEF TypeOK
<1>3. VersionNamesState' /\ OneRecordPerMarking' /\ RecordedPast' /\ StaleHasMoved'
  BY <1>1 DEF UndoInvariant, VersionNamesState, OneRecordPerMarking, RecordedPast, StaleHasMoved
<1>4. NothingRecordedBefore'
  <2>1. \A a \in Activities : a[1] \in Requests
    BY <1>0, ActivityTypes
  <2>2. \A q \in Requests : request'[q].step # "done" => request[q].step # "done"
    BY <1>1
  <2> QED
    BY <1>1, <2>1, <2>2 DEF UndoInvariant, NothingRecordedBefore
<1>5. AimsAtOwn'
  BY <1>1 DEF UndoInvariant, AimsAtOwn
<1>6. AimsAtBatch'
  <2>1. \A b \in Markers : Batch(b)' = Batch(b)
    BY <1>1 DEF Batch, Exists
  <2>2. \A q \in Requests : request[q].step = "done" => request'[q] = request[q]
    BY <1>1
  <2>3. \A b \in Activities : \A c \in Markers : b \in Batch(c) => b[1] = c
    BY DEF Batch
  <2>4. \A b \in Markers : Batch(b) \subseteq Activities
    BY DEF Batch
  <2> QED
    BY <1>1, <2>1, <2>2, <2>3, <2>4 DEF UndoInvariant, AimsAtBatch, Requests
<1> QED
  BY <1>2, <1>3, <1>4, <1>5, <1>6 DEF UndoInvariant

-----------------------------------------------------------------------------
(***************************************************************************)
(* The invariant, action by action.                                        *)
(***************************************************************************)

LEMMA PatchReadKeepsInvariant ==
  ASSUME UndoInvariant, NEW m \in Messages, PatchRead(m)
  PROVE  UndoInvariant'
<1>1. isRead[m] \in BOOLEAN /\ request \in [Requests -> Request]
  BY DEF UndoInvariant, TypeOK
<1>2. Change({m}, ~isRead[m]) /\ UNCHANGED <<granted, activity, request, late>>
  BY DEF PatchRead
<1>3. PICK read \in BOOLEAN : read = ~isRead[m]
  BY <1>1
<1>4. Change({m}, read)
  BY <1>2, <1>3
<1>5. \A n \in {m} : isRead[n] # read
  BY <1>1, <1>3
<1>6. Ending /\ request' \in [Requests -> Request]
  BY <1>1, <1>2 DEF Ending
<1>7. {m} \in SUBSET Messages
  OBVIOUS
<1> QED
  BY <1>2, <1>4, <1>5, <1>6, <1>7, ChangeKeepsInvariant

LEMMA MarkKeepsInvariant ==
  ASSUME UndoInvariant, NEW r \in Markers, Mark(r)
  PROVE  UndoInvariant'
<1>0. TypeOK /\ r \in Requests
  BY DEF UndoInvariant, Requests
<1>1. ASSUME NEW m \in Messages, ReadThread(r, m)
      PROVE  UndoInvariant'
  <2> DEFINE marked == {n \in Thread(m) : Visible(n) /\ isRead[n]}
  <2>1. marked \subseteq Messages /\ Prepare(r, "mark", {<<r, m>>}, marked)
    BY <1>1 DEF ReadThread, Thread
  <2> HIDE DEF marked
  <2>2. {<<r, m>>} \subseteq Activities /\ \A a \in {<<r, m>>} : a[1] = r
    BY DEF Activities
  <2>3. \A a, b \in {<<r, m>>} : ThreadOf[a[2]] = ThreadOf[b[2]] => a = b
    OBVIOUS
  <2> QED
    BY <1>0, <2>1, <2>2, <2>3, PrepareKeepsInvariant DEF Kinds
<1>2. ASSUME NEW S \in SUBSET Messages, ReadBulk(r, S)
      PROVE  UndoInvariant'
  <2> DEFINE marked == {n \in Members(S) : isRead[n]}
             aim == {<<r, m>> : m \in {n \in S : Thread(n) \cap marked # {}}}
  <2>1. marked \subseteq Messages
    BY DEF Members, Thread
  <2>2. Prepare(r, "bulk", aim, marked) /\ IsSelection(S)
    BY <1>2 DEF ReadBulk
  <2>3. aim \subseteq Activities /\ \A a \in aim : a[1] = r
    BY DEF Activities
  <2>4. \A a, b \in aim : ThreadOf[a[2]] = ThreadOf[b[2]] => a = b
    BY <2>2 DEF IsSelection
  <2> HIDE DEF marked, aim
  <2> QED
    BY <1>0, <2>1, <2>2, <2>3, <2>4, PrepareKeepsInvariant DEF Kinds
<1>3. ASSUME NEW S \in SUBSET Messages, ReadSeen(r, S)
      PROVE  UndoInvariant'
  <2>1. Members(S) \subseteq Messages /\ Prepare(r, "seen", {}, Members(S))
    BY <1>3 DEF ReadSeen, Members, Thread
  <2> QED
    BY <1>0, <2>1, PrepareKeepsInvariant DEF Kinds
<1>4. ASSUME WriteThread(r)
      PROVE  UndoInvariant'
  <2> DEFINE inserted == {a \in request[r].aim : \A m \in Marked(r, a) : AsFound(r, m) /\ Visible(m)}
  <2>1. Finish(r, "mark") /\ Record(r, inserted)
    BY <1>4 DEF WriteThread
  <2>2. /\ inserted \subseteq request[r].aim
        /\ \A a \in inserted : \A m \in Marked(r, a) : AsFound(r, m)
    OBVIOUS
  <2> HIDE DEF inserted
  <2> QED
    BY <1>0, <2>1, <2>2, RecordKeepsInvariant
<1>5. ASSUME WriteBulk(r)
      PROVE  UndoInvariant'
  <2> DEFINE inserted == {a \in request[r].aim :
                            WholeDomain /\ \A m \in Marked(r, a) : AsFound(r, m)}
  <2>1. Finish(r, "bulk") /\ Record(r, inserted)
    BY <1>5 DEF WriteBulk
  <2>2. /\ inserted \subseteq request[r].aim
        /\ \A a \in inserted : \A m \in Marked(r, a) : AsFound(r, m)
    OBVIOUS
  <2> HIDE DEF inserted
  <2> QED
    BY <1>0, <2>1, <2>2, RecordKeepsInvariant
<1>6. ASSUME WriteSeen(r)
      PROVE  UndoInvariant'
  <2> DEFINE S == {m \in request[r].noted : WholeDomain /\ ~isRead[m]}
  <2>1. Finish(r, "seen") /\ Change(S, TRUE) /\ UNCHANGED <<granted, activity, late>>
    BY <1>6 DEF WriteSeen
  <2>2. S \subseteq Messages
    BY <1>0, RequestTypes
  <2>3. \A m \in S : isRead[m] # TRUE
    OBVIOUS
  <2>4. Ending /\ request' \in [Requests -> Request]
    BY <1>0, <2>1, FinishEffect DEF Ending
  <2> HIDE DEF S
  <2> QED
    BY <2>1, <2>2, <2>3, <2>4, ChangeKeepsInvariant
<1> QED
  BY <1>1, <1>2, <1>3, <1>4, <1>5, <1>6 DEF Mark

LEMMA RevertKeepsInvariant ==
  ASSUME UndoInvariant, NEW r \in Undoers, Revert(r)
  PROVE  UndoInvariant'
<1>0. TypeOK /\ r \in Requests
  BY DEF UndoInvariant, Requests
<1>1. ASSUME NEW a \in Activities, ReadUndo(r, a)
      PROVE  UndoInvariant'
  <2>1. Prepare(r, "undo", {a}, {})
    BY <1>1 DEF ReadUndo
  <2> QED
    BY <1>0, <2>1, PrepareKeepsInvariant DEF Kinds
<1>2. ASSUME NEW b \in Markers, ReadUndoBatch(r, b)
      PROVE  UndoInvariant'
  <2>1. Prepare(r, "batch", Batch(b), {}) /\ Batch(b) # {} /\ Batch(b) \subseteq Activities
    BY <1>2 DEF ReadUndoBatch, IsBatch, Batch
  <2>2. request[b].step = "done"
    <3>1. PICK a \in Activities : a[1] = b /\ Exists(a)
      BY <2>1 DEF Batch
    <3> QED
      BY <3>1 DEF UndoInvariant, NothingRecordedBefore, Exists
  <2> QED
    BY <1>0, <2>1, <2>2, PrepareKeepsInvariant DEF Kinds
<1>3. ASSUME WriteUndo(r)
      PROVE  UndoInvariant'
  <2> DEFINE undone == {a \in request[r].aim : StillApplies(a)}
  <2>1. Finish(r, "undo") /\ Undo(undone)
    BY <1>3 DEF WriteUndo
  <2>2. undone \subseteq Activities /\ \A a \in undone : StillApplies(a)
    BY <1>0, RequestTypes
  <2> HIDE DEF undone
  <2> QED
    BY <1>0, <2>1, <2>2, UndoKeepsInvariant
<1>4. ASSUME WriteUndoBatch(r)
      PROVE  UndoInvariant'
  <2>1. PICK undone \in SUBSET Activities : Undo(undone) /\ \A a \in undone : StillApplies(a)
    BY <1>4 DEF WriteUndoBatch, Batch
  <2>2. Finish(r, "batch")
    BY <1>4 DEF WriteUndoBatch
  <2> QED
    BY <1>0, <2>1, <2>2, UndoKeepsInvariant
<1> QED
  BY <1>1, <1>2, <1>3, <1>4 DEF Revert

\* Steps that leave messages, activities and requests alone.
LEMMA OtherStepsKeepInvariant ==
  ASSUME UndoInvariant, UNCHANGED <<isRead, version, stale, activity, request>>, TypeOK'
  PROVE  UndoInvariant'
<1>1. \A b \in Markers : Batch(b)' = Batch(b)
  BY DEF Batch, Exists
<1> QED
  BY <1>1 DEF UndoInvariant, VersionNamesState, OneRecordPerMarking, RecordedPast, StaleHasMoved,
       NothingRecordedBefore, AimsAtOwn, AimsAtBatch

LEMMA NextKeepsInvariant ==
  UndoInvariant /\ [Next]_vars => UndoInvariant'
<1> SUFFICES ASSUME UndoInvariant, [Next]_vars PROVE UndoInvariant'
  OBVIOUS
<1>0. TypeOK
  BY DEF UndoInvariant
<1>1. ASSUME NEW m \in Messages, PatchRead(m) PROVE UndoInvariant'
  BY <1>1, PatchReadKeepsInvariant
<1>2. ASSUME NEW r \in Markers, Mark(r) PROVE UndoInvariant'
  BY <1>2, MarkKeepsInvariant
<1>3. ASSUME NEW r \in Markers, Lapse(r) PROVE UndoInvariant'
  <2>1. UNCHANGED <<isRead, version, stale, activity, request>> /\ TypeOK'
    BY <1>0, <1>3 DEF TypeOK, Lapse, messageVars
  <2> QED
    BY <2>1, OtherStepsKeepInvariant
<1>4. ASSUME NEW r \in Undoers, Revert(r) PROVE UndoInvariant'
  BY <1>4, RevertKeepsInvariant
<1>5. ASSUME NEW old \in SUBSET Markers, Prune(old) PROVE UndoInvariant'
  BY <1>5, PruneKeepsInvariant
<1>6. ASSUME NEW b \in Revocable, SetGrant(b) PROVE UndoInvariant'
  <2>1. UNCHANGED <<isRead, version, stale, activity, request>> /\ TypeOK'
    BY <1>0, <1>6 DEF TypeOK, SetGrant, messageVars
  <2> QED
    BY <2>1, OtherStepsKeepInvariant
<1>7. ASSUME UNCHANGED vars PROVE UndoInvariant'
  <2>1. UNCHANGED <<isRead, version, stale, activity, request>> /\ TypeOK'
    BY <1>0, <1>7 DEF TypeOK, vars
  <2> QED
    BY <2>1, OtherStepsKeepInvariant
<1> QED
  BY <1>1, <1>2, <1>3, <1>4, <1>5, <1>6, <1>7 DEF Next

LEMMA InitEstablishesInvariant ==
  Init => UndoInvariant
<1> SUFFICES ASSUME Init PROVE UndoInvariant
  OBVIOUS
<1>1. \A a \in Activities : /\ activity[a] = WithoutData("none") /\ activity[a].msgs = {}
                            /\ activity[a].state = "none" /\ activity[a] \in Row
                            /\ a[1] \in Requests
  BY RowTypes DEF Init, Activities, Requests
<1>2. \A r \in Requests : request[r].step = "new" /\ request[r] \in Request
  BY DEF Init, Request, Kinds, NoVersions
<1>3. TypeOK
  <2>1. activity \in [Activities -> Row] /\ request \in [Requests -> Request]
    BY <1>1, <1>2 DEF Init
  <2>2. isRead \in [Messages -> BOOLEAN] /\ version \in [Messages -> Nat]
    BY DEF Init
  <2> QED
    BY <1>1, <2>1, <2>2 DEF TypeOK, Init
<1>4. VersionNamesState
  <2>1. \A m \in Messages : isRead[m] = (m \in Sent) /\ version[m] = 0
    BY DEF Init
  <2>2. 0 % 2 # 1
    OBVIOUS
  <2> QED
    BY <2>1, <2>2 DEF VersionNamesState
<1>5. OneRecordPerMarking /\ RecordedPast
  BY <1>1 DEF OneRecordPerMarking, RecordedPast
<1>6. StaleHasMoved /\ NothingRecordedBefore
  BY <1>1 DEF Init, StaleHasMoved, NothingRecordedBefore
<1>7. AimsAtOwn /\ AimsAtBatch
  BY <1>2 DEF AimsAtOwn, AimsAtBatch
<1> QED
  BY <1>3, <1>4, <1>5, <1>6, <1>7 DEF UndoInvariant

-----------------------------------------------------------------------------
(***************************************************************************)
(* Theorems.                                                               *)
(***************************************************************************)

\* The inductive invariant: what is recorded lies in the past of its messages, and what
\* has changed since bears the mark of it in its version.
THEOREM UndoInvariantHolds == Spec => []UndoInvariant
  BY InitEstablishesInvariant, NextKeepsInvariant, PTL DEF Spec

\* Every variable keeps its type, and undo data is there only while an activity is kept.
THEOREM ReadTypesCorrect == Spec => []TypeOK
<1>1. UndoInvariant => TypeOK
  BY DEF UndoInvariant
<1> QED
  BY <1>1, UndoInvariantHolds, PTL

\* A version never names two reading states of a message: to compare versions, as the
\* batches do, is to compare states.
THEOREM VersionsNameStates == Spec => []VersionNamesState
<1>1. UndoInvariant => VersionNamesState
  BY DEF UndoInvariant
<1> QED
  BY <1>1, UndoInvariantHolds, PTL

\* However many requests mark a conversation at once, one activity records each marking.
THEOREM EachMarkingRecordedOnce == Spec => []OneRecordPerMarking
<1>1. UndoInvariant => OneRecordPerMarking
  BY DEF UndoInvariant
<1> QED
  BY <1>1, UndoInvariantHolds, PTL

\* A row becomes undone by an undo of rows that all still apply.
LEMMA OnlyAnUndoUndoes ==
  ASSUME UndoInvariant, [Next]_vars, NEW a \in Activities,
         activity[a].state # "undone", activity'[a].state = "undone"
  PROVE  \E undone \in SUBSET Activities :
           a \in undone /\ Undo(undone) /\ \A b \in undone : StillApplies(b)
<1>0. TypeOK
  BY DEF UndoInvariant
<1>1. ~ UNCHANGED activity
  OBVIOUS
<1>2. ASSUME NEW r, NEW inserted, Record(r, inserted) PROVE FALSE
  BY <1>2 DEF Record
<1>3. ASSUME NEW r \in Markers, Mark(r) PROVE FALSE
  BY <1>1, <1>2, <1>3
     DEF Mark, ReadThread, ReadBulk, ReadSeen, Prepare, WriteThread, WriteBulk, WriteSeen
<1>4. ASSUME NEW old \in SUBSET Markers, Prune(old) PROVE FALSE
  <2>1. activity[a].state \in {"none", "kept", "undone", "gone"}
    BY <1>0, ActivityTypes DEF Row
  <2> QED
    BY <1>4, <2>1, RowTypes DEF Prune
<1>5. PICK r \in Undoers : Revert(r)
  BY <1>1, <1>3, <1>4 DEF Next, PatchRead, Lapse, SetGrant, vars
<1>6. PICK undone \in SUBSET Activities : Undo(undone) /\ \A b \in undone : StillApplies(b)
  <2>1. CASE WriteUndo(r)
    <3> DEFINE undone == {b \in request[r].aim : StillApplies(b)}
    <3>1. Undo(undone)
      BY <2>1 DEF WriteUndo
    <3>2. undone \subseteq Activities
      BY <1>0, RequestTypes DEF Requests
    <3> QED
      BY <3>1, <3>2
  <2>2. CASE WriteUndoBatch(r)
    BY <2>2 DEF WriteUndoBatch, Batch
  <2> QED
    BY <1>1, <1>5, <2>1, <2>2 DEF Revert, ReadUndo, ReadUndoBatch, Prepare
<1>7. a \in undone
  BY <1>6 DEF Undo
<1> QED
  BY <1>6, <1>7

\* An undo reverses the marking it was recorded for and nothing that came after it.
THEOREM UndoReversesOnlyItsOwn == Spec => UndoOnlyItsOwn
<1>1. ASSUME UndoInvariant, [Next]_vars
      PROVE  [\A a \in Activities :
                activity[a].state # "undone" /\ activity'[a].state = "undone" =>
                  a \notin stale /\ \A m \in activity[a].msgs : isRead'[m]]_vars
  <2> SUFFICES ASSUME NEW a \in Activities,
                      activity[a].state # "undone", activity'[a].state = "undone"
               PROVE  a \notin stale /\ \A m \in activity[a].msgs : isRead'[m]
    OBVIOUS
  <2>1. PICK undone \in SUBSET Activities :
          a \in undone /\ Undo(undone) /\ \A b \in undone : StillApplies(b)
    BY <1>1, OnlyAnUndoUndoes
  <2>2. activity[a].msgs \subseteq Messages /\ activity[a].prev \in [Messages -> Nat]
    BY <1>1, ActivityTypes DEF UndoInvariant
  <2>3. a \notin stale
    <3>1. activity[a].msgs # {} /\ \A m \in activity[a].msgs : version[m] = activity[a].prev[m] + 1
      BY <2>1 DEF StillApplies
    <3>2. \A m \in activity[a].msgs : ~(version[m] > activity[a].prev[m] + 1)
      BY <2>2, <3>1
    <3> QED
      BY <1>1, <3>1, <3>2 DEF UndoInvariant, StaleHasMoved
  <2>4. \A m \in activity[a].msgs : isRead'[m]
    BY <2>1, <2>2 DEF Undo, Change
  <2> QED
    BY <2>3, <2>4
<1> QED
  BY <1>1, UndoInvariantHolds, PTL DEF Spec, UndoOnlyItsOwn

\* The request to undo a batch ends by the statements of its batch.
LEMMA OnlyTheBatchEndsIt ==
  ASSUME UndoInvariant, [Next]_vars, NEW r \in Requests,
         request[r].kind = "batch", request[r].step = "write", request'[r].step = "done"
  PROVE  WriteUndoBatch(r)
<1>0. TypeOK
  BY DEF UndoInvariant
<1>1. ~ UNCHANGED request
  OBVIOUS
<1>2. ASSUME NEW q \in Requests, NEW kind, Finish(q, kind) PROVE q = r /\ kind = "batch"
  BY <1>0, <1>2, FinishEffect
<1>3. ASSUME NEW q \in Markers, Mark(q) PROVE FALSE
  <2>0. q \in Requests
    BY DEF Requests
  <2>1. ASSUME NEW m \in Messages, ReadThread(q, m) PROVE FALSE
    BY <1>0, <2>0, <2>1 DEF ReadThread, Prepare, TypeOK
  <2>2. ASSUME NEW S \in SUBSET Messages, ReadBulk(q, S) PROVE FALSE
    BY <1>0, <2>0, <2>2 DEF ReadBulk, Prepare, TypeOK
  <2>3. ASSUME NEW S \in SUBSET Messages, ReadSeen(q, S) PROVE FALSE
    BY <1>0, <2>0, <2>3 DEF ReadSeen, Prepare, TypeOK
  <2>4. ~ Finish(q, "mark") /\ ~ Finish(q, "bulk") /\ ~ Finish(q, "seen")
    BY <1>2, <2>0
  <2> QED
    BY <1>3, <2>1, <2>2, <2>3, <2>4 DEF Mark, WriteThread, WriteBulk, WriteSeen
<1>4. PICK q \in Undoers : Revert(q)
  BY <1>1, <1>3 DEF Next, PatchRead, Lapse, Prune, SetGrant, vars
<1>5. q \in Requests
  BY DEF Requests
<1>6. ASSUME NEW a \in Activities, ReadUndo(q, a) PROVE FALSE
  BY <1>0, <1>5, <1>6 DEF ReadUndo, Prepare, TypeOK
<1>7. ASSUME NEW b \in Markers, ReadUndoBatch(q, b) PROVE FALSE
  BY <1>0, <1>5, <1>7 DEF ReadUndoBatch, Prepare, TypeOK
<1>8. ~ Finish(q, "undo") /\ (Finish(q, "batch") => q = r)
  BY <1>2, <1>5
<1>9. WriteUndoBatch(q)
  BY <1>4, <1>6, <1>7, <1>8 DEF Revert, WriteUndo
<1>10. q = r
  BY <1>8, <1>9 DEF WriteUndoBatch
<1> QED
  BY <1>9, <1>10

\* The undo of a batch undoes all of the rows that its request has read, or none.
THEOREM BatchUndoneWhole == Spec => BatchIsWhole
<1>1. ASSUME UndoInvariant, [Next]_vars
      PROVE  [\A r \in Requests :
                request[r].kind = "batch" /\ request[r].step = "write" /\ request'[r].step = "done" =>
                  LET undone == {a \in Activities : activity[a].state # "undone"
                                                    /\ activity'[a].state = "undone"}
                  IN undone = {} \/ undone = request[r].aim]_vars
  <2> SUFFICES ASSUME NEW r \in Requests, request[r].kind = "batch",
                      request[r].step = "write", request'[r].step = "done"
               PROVE  LET undone == {a \in Activities : activity[a].state # "undone"
                                                        /\ activity'[a].state = "undone"}
                      IN undone = {} \/ undone = request[r].aim
    OBVIOUS
  <2> DEFINE undone == {a \in Activities : activity[a].state # "undone"
                                           /\ activity'[a].state = "undone"}
  <2>1. WriteUndoBatch(r)
    BY <1>1, OnlyTheBatchEndsIt
  <2>2. PICK b \in Markers :
          /\ \A a \in request[r].aim : a[1] = b
          /\ \/ /\ Cardinality(Batch(b)) = Cardinality(request[r].aim)
                /\ \A a \in Batch(b) : StillApplies(a)
                /\ Undo(Batch(b))
             \/ Undo({})
    BY <2>1 DEF WriteUndoBatch
  <2>3. request[r].aim \subseteq Activities
    BY <1>1, RequestTypes DEF UndoInvariant
  <2>4. Batch(b) \subseteq request[r].aim
    BY <1>1, <2>2 DEF UndoInvariant, AimsAtBatch
  <2>5. CASE Undo({})
    <3>1. \A a \in Activities : activity'[a] = activity[a]
      BY <2>5 DEF Undo
    <3> QED
      BY <3>1
  <2>6. CASE /\ Cardinality(Batch(b)) = Cardinality(request[r].aim)
             /\ \A a \in Batch(b) : StillApplies(a)
             /\ Undo(Batch(b))
    <3>1. IsFiniteSet(request[r].aim)
      <4>1. IsFiniteSet({b}) /\ IsFiniteSet(Messages)
        BY FS_Singleton
      <4>2. IsFiniteSet({b} \X Messages)
        BY <4>1, FS_Product
      <4>3. request[r].aim \subseteq {b} \X Messages
        BY <2>2, <2>3 DEF Activities
      <4> QED
        BY <4>2, <4>3, FS_Subset
    <3>2. Batch(b) = request[r].aim
      BY <2>4, <2>6, <3>1, FS_Subset
    <3>3. \A a \in Batch(b) : activity[a].state = "kept" /\ activity'[a].state = "undone"
      BY <2>6, RowTypes DEF StillApplies, Undo, Batch
    <3>4. \A a \in Activities \ Batch(b) : activity'[a] = activity[a]
      BY <2>6 DEF Undo
    <3>5. undone = Batch(b)
      BY <2>3, <3>2, <3>3, <3>4
    <3> QED
      BY <3>2, <3>5
  <2> QED
    BY <2>2, <2>5, <2>6
<1> QED
  BY <1>1, UndoInvariantHolds, PTL DEF Spec, BatchIsWhole
=============================================================================
