------------------------ MODULE MailboxLifecycleProofs -------------------------
(***************************************************************************)
(* What MailboxLifecycle promises, for any number of requests, messages    *)
(* and sends: of the row of the mailbox, of its mail while one request at  *)
(* a time deletes it, and of the rule at Cloudflare; what RestoreScript    *)
(* promises of the script that brings a mailbox back, and ZipArchive of    *)
(* the archive it is brought back from.                                    *)
(***************************************************************************)
EXTENDS MailboxLifecycle, RestoreScript, ZipArchive, FiniteSetTheorems, SequenceTheorems,
        TLAPS

StepsOf(q) ==
  CASE q = Creation -> {"idle", "enable", "conflict", "manual"}
    [] q \in Patches -> {"idle", "route", "check", "save", "current", "reroute", "reported"}
    [] OTHER -> {"idle", "claim", "disable", "check", "unroute", "remove", "collect",
                 "pending", "purge", "erase", "keep", "reopen"}

\* Where a patch has read the mailbox and not yet changed it.
Deciding == {"route", "check", "save"}

\* What a patch remembers is consistent, and true of the archiving it remembers as
\* long as the mailbox was not archived anew.
PatchKnows(p) ==
  /\ local[p].before = "null" <=> local[p].archived = 0
  /\ local[p].archived # 0 /\ local[p].archived = archived => local[p].before = before
  /\ pc[p] \in Deciding =>
       /\ local[p].action = "restore" <=> local[p].archived # 0
       /\ local[p].wanted <=>
            local[p].action = "activate" \/ (local[p].action = "restore" /\ local[p].before = "active")

\* An archived mailbox is suspended, one that is being deleted archived; before there
\* is a mailbox there is no request.
RowKnown ==
  /\ archived # 0 => status = "suspended"
  /\ started => archived # 0
  /\ exists = "none" => NoColumns /\ \A q \in Requests : ~InFlight(q)

\* Only who wants the rule enabled creates one.
ApiKnown ==
  \A q \in Requests : api[q] = "post" => q = Creation \/ (q \in Patches /\ local[q].wanted)

Shape ==
  /\ TypeOK /\ RowKnown /\ ApiKnown
  /\ \A q \in Requests : pc[q] \in StepsOf(q)
  /\ \A p \in Patches : PatchKnows(p)

-----------------------------------------------------------------------------
(* What requests remember.                                                 *)

LEMMA BlankTyped == Blank \in Local /\ Blank.before = "null" /\ Blank.archived = 0 /\ ~Blank.resumed
  BY DEF Blank, Local, Actions, Stati

\* What a request remembers, with one thing changed.
LEMMA Remembered ==
  ASSUME NEW x \in Local
  PROVE  /\ x.action \in Actions /\ x.status \in Stati /\ x.archived \in {0} \cup Times
         /\ x.before \in Stati \cup {"null"} /\ x.wanted \in BOOLEAN /\ x.resumed \in BOOLEAN
         /\ x.keys \subseteq Incoming \cup Sends
         /\ \A b \in BOOLEAN : /\ [x EXCEPT !.wanted = b] \in Local
                               /\ [x EXCEPT !.wanted = b].wanted = b
                               /\ [x EXCEPT !.wanted = b].before = x.before
                               /\ [x EXCEPT !.wanted = b].archived = x.archived
         /\ \A b \in BOOLEAN : /\ [x EXCEPT !.resumed = b] \in Local
                               /\ [x EXCEPT !.resumed = b].resumed = b
         /\ \A k \in SUBSET (Incoming \cup Sends) :
              /\ [x EXCEPT !.keys = k] \in Local
              /\ [x EXCEPT !.keys = k].resumed = x.resumed
  BY DEF Local

\* The request that advances, and only it, is elsewhere.
LEMMA Advanced ==
  ASSUME TypeOK, NEW q \in Requests, NEW step \in Steps, NEW known \in Local,
         Advance(q, step, known)
  PROVE  /\ pc' \in [Requests -> Steps] /\ api' \in [Requests -> {"list", "post", "put"}]
         /\ local' \in [Requests -> Local]
         /\ \A r \in Requests : /\ pc'[r] = IF r = q THEN step ELSE pc[r]
                                /\ api'[r] = IF r = q THEN "list" ELSE api[r]
                                /\ local'[r] = IF r = q THEN known ELSE local[r]
  BY DEF TypeOK, Advance

LEMMA Went ==
  ASSUME TypeOK, NEW q \in Requests, NEW step \in Steps, Goto(q, step)
  PROVE  /\ pc' \in [Requests -> Steps] /\ api' \in [Requests -> {"list", "post", "put"}]
         /\ local' \in [Requests -> Local]
         /\ \A r \in Requests :
              /\ pc'[r] = IF r = q THEN step ELSE pc[r]
              /\ api'[r] = IF r = q THEN "list" ELSE api[r]
              /\ r # q => local'[r] = local[r]
         /\ step = "idle" => local'[q] = Blank
         /\ step # "idle" => local'[q] = local[q]
<1>1. PICK known \in Local : /\ Advance(q, step, known)
                             /\ step = "idle" => known = Blank
                             /\ step # "idle" => known = local[q]
  BY BlankTyped DEF TypeOK, Goto
<1> QED
  BY <1>1, Advanced

\* There is a time of archiving that no patch remembers.
LEMMA NowIsNew ==
  ASSUME RequestsAssumption, TypeOK
  PROVE  Now \in Times /\ \A p \in Patches : local[p].archived # Now
<1> DEFINE Seen == {local[p].archived : p \in Patches}
           seen == [p \in Patches |-> local[p].archived]
<1>1. IsFiniteSet(Seen) /\ Cardinality(Seen) \leq Cardinality(Patches)
  <2>1. seen \in Surjection(Patches, Seen)
    BY DEF Surjection
  <2> QED
    BY <2>1, FS_Surjection DEF RequestsAssumption
<1>2. Cardinality(Patches) \in Nat /\ Cardinality(Seen) \in Nat
  BY <1>1, FS_CardinalityType DEF RequestsAssumption
<1>3. IsFiniteSet(Times) /\ Cardinality(Times) = Cardinality(Patches) + 1
  <2> DEFINE n == Cardinality(Patches) + 1
  <2>1. n \in Int /\ 1 \in Int /\ ~(1 > n) /\ n - 1 + 1 = n
    BY <1>2
  <2>2. IsFiniteSet(1..n) /\ Cardinality(1..n) = n
    <3> HIDE DEF n
    <3> QED
      BY <2>1, FS_Interval
  <2> QED
    BY <2>2 DEF Times
<1>4. ~ (Times \subseteq Seen)
  <2> SUFFICES ASSUME Times \subseteq Seen PROVE FALSE
    OBVIOUS
  <2>1. Cardinality(Times) \leq Cardinality(Seen)
    BY <1>1, FS_Subset
  <2> QED
    BY <1>1, <1>2, <1>3, <2>1
<1>5. \E t \in Times : \A p \in Patches : local[p].archived # t
  BY <1>4
<1> QED
  BY <1>5 DEF Now

-----------------------------------------------------------------------------
(* The shape of the state: steps that leave the row alone.                 *)

LEMMA GotoKeepsShape ==
  ASSUME RequestsAssumption, Shape, NEW q \in Requests, NEW step \in Steps, Goto(q, step),
         step \in StepsOf(q), InFlight(q),
         q \in Patches /\ step \in Deciding => pc[q] \in Deciding,
         UNCHANGED <<managed, exists, status, archived, before, started, mailVars>>,
         claimed' \in {"no", "held", "lapsed"},
         rule' \in Rules, crossed' \in BOOLEAN
  PROVE  Shape'
<1> USE DEF Shape
<1>1. TypeOK'
  BY Went DEF TypeOK, mailVars
<1>2. RowKnown'
  BY DEF RowKnown
<1>3. \A r \in Requests : pc'[r] \in StepsOf(r)
  BY Went
<1>4. ASSUME NEW p \in Patches PROVE PatchKnows(p)'
  <2>1. p \in Requests /\ PatchKnows(p)
    BY DEF Requests
  <2>2. CASE p # q
    BY <2>1, <2>2, Went DEF PatchKnows
  <2>3. CASE p = q /\ step = "idle"
    BY <2>1, <2>3, Went, BlankTyped DEF PatchKnows, Deciding
  <2>4. CASE p = q /\ step # "idle"
    BY <2>1, <2>4, Went DEF PatchKnows
  <2> QED
    BY <2>2, <2>3, <2>4
<1>5. ApiKnown'
  BY Went DEF ApiKnown
<1> QED
  BY <1>1, <1>2, <1>3, <1>4, <1>5

\* What a change of the rule comes to: a call that follows another, success, failure
\* before or, unseen, after the change, or a conflict.
LEMMA RuleSet ==
  ASSUME TypeOK, NEW q \in Requests, NEW enabled \in BOOLEAN,
         NEW done \in Steps, NEW failed \in Steps, NEW conflict \in Steps,
         SetRule(q, enabled, done, failed, conflict),
         api[q] = "post" => enabled
  PROVE  \/ /\ \E call \in {"post", "put"} :
                 api' = [api EXCEPT ![q] = call] /\ (call = "post" => enabled)
            /\ UNCHANGED <<pc, local, rule, crossed>>
         \/ /\ Goto(q, done) /\ UNCHANGED crossed
            /\ rule' \in Rules /\ (rule' \in {"enabled", "doubled"} <=> enabled)
         \/ Goto(q, failed) /\ UNCHANGED <<rule, crossed>>
         \/ Goto(q, failed) /\ rule' \in Rules /\ crossed' = TRUE
         \/ Goto(q, conflict) /\ UNCHANGED <<rule, crossed>> /\ rule \in {"doubled", "foreign"}
<1>1. CASE ListRules(q, enabled, done, failed, conflict)
  BY <1>1 DEF ListRules, TypeOK, Rules
<1>2. CASE WriteRule(q, enabled, done, failed)
  BY <1>2 DEF WriteRule, Cross, Rules
<1>3. CASE WriteFails(q, failed)
  BY <1>3 DEF WriteFails
<1> QED
  BY <1>1, <1>2, <1>3 DEF SetRule

LEMMA ApiKeepsShape ==
  ASSUME Shape, NEW q \in Requests, NEW call \in {"post", "put"}, api' = [api EXCEPT ![q] = call],
         call = "post" => q = Creation \/ (q \in Patches /\ local[q].wanted),
         UNCHANGED <<managed, rowVars, mailVars, pc, local, rule, crossed>>
  PROVE  Shape'
<1>1. api' \in [Requests -> {"list", "post", "put"}] /\ ApiKnown'
  BY DEF Shape, TypeOK, ApiKnown
<1> QED
  BY <1>1 DEF Shape, TypeOK, RowKnown, NoColumns, InFlight, PatchKnows, rowVars, mailVars

\* Steps that change neither the row, but for its lease, nor what requests remember.
LEMMA SteadyShape ==
  ASSUME Shape, TypeOK', UNCHANGED <<pc, api, local, exists, status, archived, before, started>>,
         exists = "none" => claimed' = claimed
  PROVE  Shape'
  BY DEF Shape, RowKnown, ApiKnown, NoColumns, InFlight, PatchKnows

\* Mail, time, and hands.
LEMMA MailKeepsShape ==
  ASSUME Shape,
         \/ \E m \in Incoming : Receive(m)
         \/ \E i \in Sends : BeginSend(i) \/ EndSend(i)
         \/ ClaimRelay \/ RecordRelay \/ LeaseLapses \/ EditRules
  PROVE  Shape'
<1>1. UNCHANGED <<pc, api, local, exists, status, archived, before, started>>
  BY DEF Receive, BeginSend, EndSend, ClaimRelay, RecordRelay, LeaseLapses, EditRules,
       notMail, rowVars, requestVars
<1>2. exists = "none" => claimed' = claimed
  BY DEF Receive, BeginSend, EndSend, ClaimRelay, RecordRelay, LeaseLapses, EditRules,
       notMail, rowVars, Shape, RowKnown, NoColumns
<1>3. TypeOK'
  <2> USE DEF Shape, TypeOK
  <2>1. CASE \E m \in Incoming : Receive(m)
    BY <1>1, <2>1 DEF Receive, notMail, rowVars
  <2>2. CASE \E i \in Sends : BeginSend(i)
    BY <1>1, <2>2 DEF BeginSend, notMail, rowVars
  <2>3. CASE \E i \in Sends : EndSend(i)
    BY <1>1, <2>3 DEF EndSend, notMail, rowVars
  <2>4. CASE ClaimRelay \/ RecordRelay
    BY <1>1, <2>4, ZenonT(60) DEF ClaimRelay, RecordRelay, notMail, rowVars
  <2>5. CASE LeaseLapses
    BY <1>1, <2>5 DEF LeaseLapses, mailVars
  <2>6. CASE EditRules
    BY <1>1, <2>6 DEF EditRules, rowVars, mailVars, Rules
  <2> QED
    BY <2>1, <2>2, <2>3, <2>4, <2>5, <2>6
<1> QED
  BY <1>1, <1>2, <1>3, SteadyShape

-----------------------------------------------------------------------------
(* The shape of the state: steps of requests.                              *)

\* The kinds of requests and the steps they know.
LEMMA Kinds ==
  ASSUME RequestsAssumption
  PROVE  /\ Creation \in Requests
         /\ StepsOf(Creation) = {"idle", "enable", "conflict", "manual"}
         /\ \A p \in Patches :
              /\ p \in Requests /\ p # Creation /\ p \notin Deletions
              /\ StepsOf(p) = {"idle", "route", "check", "save", "current", "reroute", "reported"}
         /\ \A d \in Deletions :
              /\ d \in Requests /\ d # Creation /\ d \notin Patches
              /\ StepsOf(d) = {"idle", "claim", "disable", "check", "unroute", "remove", "collect",
                               "pending", "purge", "erase", "keep", "reopen"}
         /\ \A q \in Requests : StepsOf(q) \subseteq Steps /\ "idle" \in StepsOf(q)
  BY DEF RequestsAssumption, Requests, StepsOf, Steps

\* A request that changes the rule and goes on.
LEMMA RulingKeepsShape ==
  ASSUME RequestsAssumption, Shape, NEW q \in Requests, NEW enabled \in BOOLEAN,
         NEW done \in StepsOf(q), NEW failed \in StepsOf(q), NEW conflict \in StepsOf(q),
         SetRule(q, enabled, done, failed, conflict), api[q] = "post" => enabled, InFlight(q),
         enabled => q = Creation \/ (q \in Patches /\ local[q].wanted),
         q \in Patches => {done, failed, conflict} \cap Deciding = {} \/ pc[q] \in Deciding,
         UNCHANGED <<managed, rowVars, mailVars>>
  PROVE  Shape'
<1>1. /\ {done, failed, conflict} \subseteq Steps
      /\ rule \in Rules /\ crossed \in BOOLEAN /\ claimed \in {"no", "held", "lapsed"}
  BY Kinds DEF Shape, TypeOK
<1>2. CASE /\ \E call \in {"post", "put"} :
                  api' = [api EXCEPT ![q] = call] /\ (call = "post" => enabled)
           /\ UNCHANGED <<pc, local, rule, crossed>>
  BY <1>2, ApiKeepsShape
<1>3. CASE \E step \in {done, failed, conflict} :
             Goto(q, step) /\ rule' \in Rules /\ crossed' \in BOOLEAN
  BY <1>1, <1>3, GotoKeepsShape DEF rowVars
<1> QED
  BY <1>1, <1>2, <1>3, RuleSet DEF Shape

LEMMA CreationKeepsShape ==
  ASSUME RequestsAssumption, Shape, Create \/ LeaveRule \/ SuspendConflict
  PROVE  Shape'
<1> USE DEF Shape
<1>1. CASE Create
  <2>1. /\ NoColumns /\ \A q \in Requests : pc[q] = "idle"
    BY <1>1 DEF Create, RowKnown, InFlight
  <2>2. PICK step \in {"enable", "idle"} : Goto(Creation, step)
    BY <1>1 DEF Create
  <2>3. step \in Steps
    BY Kinds
  <2>4. TypeOK'
    BY <1>1, <2>2, <2>3, Kinds, Went DEF Create, TypeOK, mailVars
  <2>5. \A q \in Requests : pc'[q] \in StepsOf(q)
    BY <2>2, <2>3, Kinds, Went
  <2>6. \A p \in Patches : PatchKnows(p)'
    BY <1>1, <2>2, <2>3, Kinds, Went DEF Create, PatchKnows
  <2>7. RowKnown'
    BY <1>1 DEF Create, RowKnown
  <2>8. ApiKnown'
    BY <2>2, <2>3, Kinds, Went DEF ApiKnown
  <2> QED
    BY <2>4, <2>5, <2>6, <2>7, <2>8
<1>2. CASE LeaveRule
  BY <1>2, Kinds, GotoKeepsShape DEF LeaveRule, InFlight, Cross, rowVars, mailVars, TypeOK
<1>3. CASE SuspendConflict
  <2>1. /\ Goto(Creation, "idle") /\ exists # "none"
        /\ status' \in {status, "suspended"} /\ crossed' \in BOOLEAN
        /\ UNCHANGED <<managed, exists, archived, before, started, claimed, rule, mailVars>>
    BY <1>3, Kinds DEF SuspendConflict, Cross, RowKnown, InFlight, TypeOK
  <2>2. TypeOK'
    BY <2>1, Kinds, Went DEF TypeOK, mailVars
  <2>3. \A q \in Requests : pc'[q] \in StepsOf(q)
    BY <2>1, Kinds, Went
  <2>4. \A p \in Patches : PatchKnows(p)'
    BY <2>1, Kinds, Went DEF PatchKnows
  <2>5. RowKnown'
    BY <2>1 DEF RowKnown
  <2>6. ApiKnown'
    BY <2>1, Kinds, Went DEF ApiKnown
  <2> QED
    BY <2>2, <2>3, <2>4, <2>5, <2>6
<1> QED
  BY <1>1, <1>2, <1>3

\* What a patch begins to remember.
LEMMA ReadPatchKeepsShape ==
  ASSUME RequestsAssumption, Shape, NEW p \in Patches, ReadPatch(p)
  PROVE  Shape'
<1> USE DEF Shape
<1>1. PICK a \in Actions, known \in Local :
        /\ Advance(p, IF managed THEN "route" ELSE "check", known)
        /\ a = "restore" <=> archived # 0
        /\ known.action = a /\ known.archived = archived /\ known.before = before
        /\ known.wanted <=> a = "activate" \/ (a = "restore" /\ before = "active")
  <2>1. PICK a \in Actions :
          /\ IF a = "restore" THEN archived # 0 /\ before # "null" ELSE archived = 0
          /\ Advance(p, IF managed THEN "route" ELSE "check",
               [action |-> a, status |-> status, archived |-> archived, before |-> before,
                wanted |-> a = "activate" \/ (a = "restore" /\ before = "active"),
                resumed |-> FALSE, keys |-> {}])
    BY DEF ReadPatch
  <2>2. PICK b \in BOOLEAN : b = (a = "activate" \/ (a = "restore" /\ before = "active"))
    OBVIOUS
  <2>3. PICK known : known = [action |-> a, status |-> status, archived |-> archived,
                              before |-> before, wanted |-> b, resumed |-> FALSE, keys |-> {}]
    OBVIOUS
  <2>4. known \in Local
    BY <2>3 DEF Local, TypeOK, Stati
  <2> QED
    BY <2>1, <2>2, <2>3, <2>4
<1>2. PICK step \in {"route", "check"} : Advance(p, step, known) /\ step \in Steps
  BY <1>1 DEF Steps
<1>3. /\ exists = "here" /\ crossed' \in BOOLEAN
      /\ UNCHANGED <<managed, rowVars, rule, mailVars>>
  BY DEF ReadPatch, Begin, TypeOK
<1>4. TypeOK'
  BY <1>2, <1>3, Kinds, Advanced DEF TypeOK, rowVars, mailVars
<1>5. \A q \in Requests : pc'[q] \in StepsOf(q)
  BY <1>2, Kinds, Advanced
<1>6. ASSUME NEW r \in Patches PROVE PatchKnows(r)'
  <2>1. PatchKnows(r)
    OBVIOUS
  <2>2. CASE r # p
    BY <1>2, <1>3, <2>1, <2>2, Kinds, Advanced DEF PatchKnows, rowVars
  <2>3. CASE r = p
    BY <1>1, <1>2, <1>3, <2>3, Kinds, Advanced DEF PatchKnows, rowVars, TypeOK
  <2> QED
    BY <2>2, <2>3
<1>7. RowKnown'
  BY <1>3 DEF RowKnown, rowVars
<1>8. ApiKnown'
  BY <1>2, Kinds, Advanced DEF ApiKnown
<1> QED
  BY <1>4, <1>5, <1>6, <1>7, <1>8

\* What the statement of a patch makes of the mailbox, when it is as it was read.
LEMMA Applied ==
  ASSUME RequestsAssumption, Shape, NEW p \in Patches, pc[p] = "save", Unchanged(p), Apply(p)
  PROVE  /\ status' \in Stati /\ archived' \in {0} \cup Times /\ before' \in Stati \cup {"null"}
         /\ before' = "null" <=> archived' = 0
         /\ archived' # 0 => status' = "suspended" /\ \A r \in Patches : local[r].archived # archived'
         /\ archived # 0 => archived' = 0 /\ status' = before
         /\ status' = "active" /\ archived' = 0 <=> local[p].wanted
<1>1. /\ local[p] \in Local /\ PatchKnows(p) /\ archived = local[p].archived
      /\ archived # 0 => local[p].before = before
  BY Kinds DEF Shape, TypeOK, Unchanged, PatchKnows
<1>2. Now \in Times /\ Now # 0 /\ \A r \in Patches : local[r].archived # Now
  BY NowIsNew DEF Shape, Times
<1>3. local[p].action \in Actions /\ local[p].status \in Stati /\ local[p].before \in Stati \cup {"null"}
  BY <1>1, Remembered
<1>4. CASE local[p].action = "activate" \/ local[p].action = "suspend"
  BY <1>1, <1>2, <1>3, <1>4 DEF Apply, NextStatus, PatchKnows, Deciding, Stati
<1>5. CASE local[p].action = "archive"
  BY <1>1, <1>2, <1>3, <1>5 DEF Apply, NextStatus, PatchKnows, Deciding, Stati
<1>6. CASE local[p].action = "restore"
  BY <1>1, <1>2, <1>3, <1>6 DEF Apply, NextStatus, PatchKnows, Deciding, Stati
<1> QED
  BY <1>3, <1>4, <1>5, <1>6 DEF Actions

LEMMA SaveKeepsShape ==
  ASSUME RequestsAssumption, Shape, NEW p \in Patches, Save(p)
  PROVE  Shape'
<1> USE DEF Shape
<1>1. PICK step \in {"idle", "current"} : Goto(p, step) /\ step \in Steps
  BY DEF Save, Steps
<1>2. /\ pc[p] = "save" /\ UNCHANGED <<managed, exists, started, claimed, rule, mailVars, crossed>>
  BY DEF Save
<1>3. CASE UNCHANGED <<status, archived, before>>
  BY <1>1, <1>2, <1>3, Kinds, GotoKeepsShape DEF InFlight, Deciding, TypeOK
<1>4. CASE Unchanged(p) /\ Apply(p)
  <2>1. TypeOK'
    BY <1>1, <1>2, <1>4, Applied, Kinds, Went DEF TypeOK, mailVars, Stati
  <2>2. \A q \in Requests : pc'[q] \in StepsOf(q)
    BY <1>1, Kinds, Went
  <2>3. ASSUME NEW r \in Patches PROVE PatchKnows(r)'
    <3>1. PatchKnows(r) /\ (archived' # 0 => local[r].archived # archived')
      BY <1>2, <1>4, Applied
    <3>2. CASE r # p
      BY <1>1, <3>1, <3>2, Kinds, Went DEF PatchKnows
    <3>3. CASE r = p
      BY <1>1, <3>1, <3>3, Kinds, Went, BlankTyped DEF PatchKnows, Deciding
    <3> QED
      BY <3>2, <3>3
  <2>4. RowKnown'
    BY <1>2, <1>4, Applied DEF RowKnown, Unchanged
  <2>5. ApiKnown'
    BY <1>1, Kinds, Went DEF ApiKnown
  <2> QED
    BY <2>1, <2>2, <2>3, <2>4, <2>5
<1> QED
  BY <1>3, <1>4 DEF Save

LEMMA ReadCurrentKeepsShape ==
  ASSUME RequestsAssumption, Shape, NEW p \in Patches, ReadCurrent(p)
  PROVE  Shape'
<1> USE DEF Shape
<1>1. /\ pc[p] = "current" /\ crossed' \in BOOLEAN
      /\ UNCHANGED <<managed, rowVars, rule, mailVars>>
  BY DEF ReadCurrent, Cross, TypeOK
<1>2. CASE Goto(p, "idle")
  BY <1>1, <1>2, Kinds, GotoKeepsShape DEF InFlight, Deciding, TypeOK, rowVars
<1>3. CASE RerouteTo(p, Receiving)
  <2>1. PICK known \in Local :
          /\ Advance(p, "reroute", known)
          /\ known.before = local[p].before /\ known.archived = local[p].archived
    <3>1. PICK b \in BOOLEAN : b = Receiving
      BY DEF Receiving
    <3>2. local[p] \in Local
      BY Kinds DEF TypeOK
    <3> QED
      BY <1>3, <3>1, <3>2, Remembered, ZenonT(60) DEF RerouteTo
  <2>2. "reroute" \in Steps
    BY DEF Steps
  <2>3. TypeOK'
    BY <1>1, <2>1, <2>2, Kinds, Advanced DEF TypeOK, rowVars, mailVars
  <2>4. \A q \in Requests : pc'[q] \in StepsOf(q)
    BY <2>1, <2>2, Kinds, Advanced
  <2>5. ASSUME NEW r \in Patches PROVE PatchKnows(r)'
    BY <1>1, <2>1, <2>2, Kinds, Advanced DEF PatchKnows, Deciding, rowVars
  <2>6. RowKnown' /\ ApiKnown'
    BY <1>1, <2>1, <2>2, Kinds, Advanced DEF RowKnown, ApiKnown, InFlight, NoColumns, rowVars
  <2> QED
    BY <2>3, <2>4, <2>5, <2>6
<1> QED
  BY <1>2, <1>3 DEF ReadCurrent

LEMMA PatchKeepsShape ==
  ASSUME RequestsAssumption, Shape, NEW p \in Patches, ProceedPatch(p)
  PROVE  Shape'
<1>1. /\ local[p].wanted \in BOOLEAN /\ (api[p] = "post" => local[p].wanted)
      /\ rule \in Rules /\ crossed \in BOOLEAN /\ claimed \in {"no", "held", "lapsed"}
  BY Kinds, Remembered DEF Shape, ApiKnown, TypeOK
<1>2. CASE RouteFirst(p)
  BY <1>1, <1>2, Kinds, RulingKeepsShape DEF RouteFirst, InFlight, Deciding
<1>3. CASE Reroute(p)
  BY <1>1, <1>3, Kinds, RulingKeepsShape DEF Reroute, InFlight, Deciding
<1>4. CASE CheckRule(p) \/ SaveNothing(p) \/ ReportRule(p)
  <2>1. /\ InFlight(p) /\ UNCHANGED <<managed, rowVars, rule, mailVars>> /\ crossed' \in BOOLEAN
        /\ \E step \in {"idle", "save"} :
             Goto(p, step) /\ (step = "save" => pc[p] = "check")
    BY <1>1, <1>4 DEF CheckRule, SaveNothing, ReportRule, InFlight, Cross
  <2> QED
    BY <1>1, <2>1, Kinds, GotoKeepsShape DEF Deciding, rowVars
<1> QED
  BY <1>2, <1>3, <1>4, ReadPatchKeepsShape, SaveKeepsShape, ReadCurrentKeepsShape DEF ProceedPatch

\* A deletion that does not touch the row, or only its lease and its mark.
LEMMA DeletionKeepsShape ==
  ASSUME RequestsAssumption, Shape, NEW d \in Deletions, ProceedDeletion(d)
  PROVE  Shape'
<1> USE DEF Shape
<1>1. /\ rule \in Rules /\ crossed \in BOOLEAN /\ claimed \in {"no", "held", "lapsed"}
      /\ started \in BOOLEAN /\ managed \in BOOLEAN
      /\ local[d] \in Local /\ api[d] # "post"
  BY Kinds DEF TypeOK, ApiKnown
<1>2. CASE DisableRule(d)
  BY <1>1, <1>2, Kinds, RulingKeepsShape DEF DisableRule, InFlight, undeleted, rowVars
<1>3. CASE \/ FindRule(d) \/ RemoveRule(d) \/ CheckDisabled(d) \/ CheckPending(d)
           \/ CollectKeys(d) /\ Goto(d, "keep")
  <2>1. /\ InFlight(d) /\ UNCHANGED <<undeleted, started, claimed, crossed>>
        /\ \E step \in StepsOf(d) : Goto(d, step)
    BY <1>3, Kinds DEF FindRule, RemoveRule, CheckDisabled, CheckPending, CollectKeys, GiveUp,
         InFlight
  <2>2. rule' \in Rules
    BY <1>1, <1>3 DEF FindRule, RemoveRule, CheckDisabled, CheckPending, CollectKeys, Rules
  <2> QED
    BY <1>1, <2>1, <2>2, Kinds, GotoKeepsShape DEF undeleted, rowVars
<1>4. CASE \/ ReadDeletion(d)
           \/ CollectKeys(d) /\ Advance(d, "pending", [local[d] EXCEPT !.keys = held])
  <2>1. PICK step \in {"claim", "pending"}, known \in Local : Advance(d, step, known)
    <3>1. CASE ReadDeletion(d)
      BY <1>1, <3>1, BlankTyped, Remembered DEF ReadDeletion
    <3>2. CASE Advance(d, "pending", [local[d] EXCEPT !.keys = held])
      <4>1. held \in SUBSET (Incoming \cup Sends)
        BY DEF TypeOK
      <4> QED
        BY <1>1, <3>2, <4>1, Remembered
    <3> QED
      BY <1>4, <3>1, <3>2
  <2>2. step \in Steps
    BY DEF Steps
  <2>3. /\ UNCHANGED <<undeleted, started, claimed, rule>> /\ crossed' \in BOOLEAN
        /\ exists # "none"
    BY <1>1, <1>4, Kinds DEF ReadDeletion, CollectKeys, Begin, RowKnown, InFlight
  <2>4. TypeOK'
    BY <2>1, <2>2, <2>3, Kinds, Advanced DEF TypeOK, undeleted, mailVars
  <2>5. \A q \in Requests : pc'[q] \in StepsOf(q)
    BY <2>1, <2>2, Kinds, Advanced
  <2>6. ASSUME NEW p \in Patches PROVE PatchKnows(p)'
    BY <2>1, <2>2, <2>3, Kinds, Advanced DEF PatchKnows, undeleted
  <2>7. RowKnown' /\ ApiKnown'
    BY <2>1, <2>2, <2>3, Kinds, Advanced DEF RowKnown, ApiKnown, undeleted
  <2> QED
    BY <2>4, <2>5, <2>6, <2>7
<1>5. CASE ClaimDeletion(d) \/ Release(d) \/ PurgeObjects(d) \/ EraseRows(d)
  <2>1. PICK step \in StepsOf(d) : Goto(d, step) /\ step \in Steps
    BY <1>5, Kinds DEF ClaimDeletion, Release, PurgeObjects, EraseRows
  <2>2. exists # "none" /\ UNCHANGED <<managed, rule, crossed>>
    BY <1>5, Kinds DEF ClaimDeletion, Release, PurgeObjects, EraseRows, RowKnown, InFlight,
         undeleted
  <2>3. /\ exists' \in {"here", "gone"} /\ status' \in {"active", "suspended"}
        /\ archived' \in {0} \cup Times /\ before' \in {"null", "active", "suspended"}
        /\ (before' = "null") = (archived' = 0)
        /\ started' \in BOOLEAN /\ claimed' \in {"no", "held", "lapsed"}
        /\ archived' # 0 => status' = "suspended" /\ archived' = archived /\ before' = before
        /\ started' => archived' # 0
    <3>1. CASE ClaimDeletion(d) \/ Release(d) \/ PurgeObjects(d)
      BY <1>1, <2>2, <3>1, ZenonT(60)
         DEF ClaimDeletion, Release, PurgeObjects, undeleted, rowVars, TypeOK, RowKnown
    <3>2. CASE EraseRows(d)
      BY <1>1, <2>2, <3>2, ZenonT(60) DEF EraseRows, rowVars, TypeOK, RowKnown
    <3> QED
      BY <1>5, <3>1, <3>2
  <2>4. /\ held' \subseteq Incoming \cup Sends /\ lost' \subseteq held' /\ sending' \subseteq Sends
        /\ locks' \subseteq Composed /\ relaying' \in BOOLEAN
    BY <1>5 DEF ClaimDeletion, Release, PurgeObjects, EraseRows, undeleted, mailVars, TypeOK
  <2>5. TypeOK'
    BY <2>1, <2>2, <2>3, <2>4, Kinds, Went DEF TypeOK
  <2>6. \A q \in Requests : pc'[q] \in StepsOf(q)
    BY <2>1, Kinds, Went
  <2>7. ASSUME NEW p \in Patches PROVE PatchKnows(p)'
    BY <2>1, <2>3, Kinds, Went DEF PatchKnows
  <2>8. RowKnown' /\ ApiKnown'
    BY <2>1, <2>3, Kinds, Went DEF RowKnown, ApiKnown
  <2> QED
    BY <2>5, <2>6, <2>7, <2>8
<1> QED
  BY <1>2, <1>3, <1>4, <1>5 DEF ProceedDeletion, CollectKeys

LEMMA InitHasShape ==
  ASSUME RequestsAssumption, Init
  PROVE  Shape
<1>1. TypeOK
  BY BlankTyped DEF Init, NoColumns, TypeOK, Rules, Steps
<1>2. RowKnown /\ ApiKnown /\ \A q \in Requests : pc[q] \in StepsOf(q)
  BY Kinds DEF Init, RowKnown, NoColumns, ApiKnown, InFlight
<1>3. \A p \in Patches : PatchKnows(p)
  BY Kinds, BlankTyped DEF Init, PatchKnows, Deciding
<1> QED
  BY <1>1, <1>2, <1>3 DEF Shape

LEMMA StepKeepsShape ==
  ASSUME RequestsAssumption, Shape, [Next]_vars
  PROVE  Shape'
<1>1. CASE UNCHANGED vars
  <2>1. TypeOK'
    BY <1>1 DEF vars, rowVars, requestVars, mailVars, Shape, TypeOK
  <2> QED
    BY <1>1, <2>1, SteadyShape DEF vars, rowVars, requestVars, mailVars
<1>2. CASE EnableRule
  BY <1>2, Kinds, RulingKeepsShape DEF EnableRule, InFlight
<1>3. ASSUME NEW q \in Requests, Crash(q) PROVE Shape'
  BY <1>3, Kinds, GotoKeepsShape DEF Crash, Cross, Deciding, rowVars, Shape, TypeOK
<1> QED
  BY <1>1, <1>2, <1>3, CreationKeepsShape, PatchKeepsShape, DeletionKeepsShape, MailKeepsShape
     DEF Next

\* The row of the mailbox and what requests remember of it stay consistent.
THEOREM ShapeHolds == Spec => []Shape
  BY RequestsAssumption, InitHasShape, StepKeepsShape, PTL DEF Spec

\* A mailbox that is being deleted is archived and suspended, whatever patches that
\* read it before, their compensations and other deletions do.
THEOREM DeletingIsArchivedHolds == Spec => []DeletingIsArchived
<1>1. Shape => DeletingIsArchived
  BY DEF Shape, RowKnown, DeletingIsArchived
<1> QED
  BY <1>1, ShapeHolds, PTL

\* A restored mailbox has the status from before its last archiving: the time of
\* archiving tells a request that read an earlier one.
THEOREM RestoreReturnsPriorHolds == Spec => RestoreReturnsPrior
<1>1. Shape /\ [Next]_vars => [archived # 0 /\ archived' = 0 /\ exists' = "here" => status' = before]_vars
  <2> SUFFICES ASSUME Shape, Next, archived # 0, archived' = 0, exists' = "here"
               PROVE  status' = before
    OBVIOUS
  <2>1. ASSUME NEW p \in Patches, Save(p) PROVE status' = before
    BY <2>1, RequestsAssumption, Applied DEF Save
  <2>2. ~Create /\ ~EnableRule /\ ~LeaveRule /\ ~SuspendConflict
    BY DEF Shape, RowKnown, NoColumns, Create, EnableRule, LeaveRule, SuspendConflict, rowVars
  <2>3. ASSUME NEW p \in Patches, ProceedPatch(p) PROVE Save(p)
    BY <2>3 DEF ProceedPatch, ReadPatch, RouteFirst, CheckRule, SaveNothing, ReadCurrent,
         Reroute, ReportRule, rowVars
  <2>4. ASSUME NEW d \in Deletions PROVE ~ProceedDeletion(d)
    BY DEF ProceedDeletion, ReadDeletion, ClaimDeletion, DisableRule, FindRule, RemoveRule,
         CheckDisabled, CollectKeys, CheckPending, PurgeObjects, EraseRows, Release,
         undeleted, rowVars
  <2>5. ~(\E m \in Incoming : Receive(m)) /\ ~(\E i \in Sends : BeginSend(i) \/ EndSend(i))
    BY DEF Receive, BeginSend, EndSend, notMail, rowVars
  <2>6. ~ClaimRelay /\ ~RecordRelay /\ ~LeaseLapses /\ ~EditRules /\ \A q \in Requests : ~Crash(q)
    BY DEF ClaimRelay, RecordRelay, LeaseLapses, EditRules, Crash, notMail, rowVars
  <2> QED
    BY <2>1, <2>2, <2>3, <2>4, <2>5, <2>6 DEF Next
<1> QED
  BY <1>1, ShapeHolds, PTL DEF Spec, RestoreReturnsPrior

-----------------------------------------------------------------------------
(* The mail, while one request at a time deletes the mailbox.              *)

OneDeletion == \A d, e \in Deletions : d = e

\* From its claim on the deletion is marked, and after its last look no draft of the
\* mailbox is being sent; what it reopens has lost nothing.
DeletionHolds(d) ==
  /\ pc[d] \in {"disable", "check", "unroute", "remove", "collect", "pending", "purge", "erase"}
       => started
  /\ pc[d] \in {"claim", "disable", "check", "unroute", "remove", "collect", "pending"}
       /\ ~local[d].resumed => lost = {}
  /\ pc[d] = "reopen" => lost = {}
  /\ pc[d] \in {"purge", "erase"} => locks = {}

\* A composed message that is being sent has its draft locked; a deleted mailbox has
\* no draft left.
MailHolds ==
  /\ sending \cap Composed \subseteq locks
  /\ exists = "gone" => locks = {} /\ held \subseteq Replies

MailInvariant ==
  /\ LostOnlyWhileDeleting /\ MailHolds
  /\ \A d \in Deletions : DeletionHolds(d)

\* Requests that are no deletions change neither the mail nor its being deleted.
LEMMA OthersKeepMail ==
  ASSUME RequestsAssumption, Shape, MailInvariant,
         UNCHANGED <<started, mailVars>>, exists' = exists \/ exists' = "here",
         \A d \in Deletions : pc'[d] = pc[d] /\ local'[d] = local[d]
  PROVE  MailInvariant'
  BY DEF MailInvariant, LostOnlyWhileDeleting, MailHolds, DeletionHolds, mailVars

LEMMA MailKeepsMail ==
  ASSUME RequestsAssumption, Shape, MailInvariant,
         \/ \E m \in Incoming : Receive(m)
         \/ \E i \in Sends : BeginSend(i) \/ EndSend(i)
         \/ ClaimRelay \/ RecordRelay
  PROVE  MailInvariant'
<1> USE DEF MailInvariant
<1>1. UNCHANGED <<pc, local, exists, archived, started, status, lost>>
  BY DEF Receive, BeginSend, EndSend, ClaimRelay, RecordRelay, notMail, rowVars, requestVars
<1>2. \/ UNCHANGED <<sending, locks>> /\ held' = held
      \/ Receiving /\ UNCHANGED <<sending, locks>>
      \/ \E i \in Sends : Receiving /\ sending' = sending \cup {i}
                          /\ locks' = locks \cup ({i} \cap Composed) /\ held' = held
      \/ \E i \in sending : /\ sending' = sending \ {i} /\ held' \in {held, held \cup {i}}
                            /\ locks' \in {locks, locks \ {i}}
  BY DEF Receive, BeginSend, EndSend, ClaimRelay, RecordRelay
<1>3. Receiving => exists = "here" /\ ~started
  BY DEF Receiving
<1>4. LostOnlyWhileDeleting'
  BY <1>1 DEF LostOnlyWhileDeleting
<1>5. MailHolds'
  <2>1. sending \subseteq Composed \cup Replies
    BY DEF Shape, TypeOK, Sends
  <2> QED
    BY <1>1, <1>2, <1>3, <2>1 DEF MailHolds
<1>6. \A d \in Deletions : DeletionHolds(d)'
  BY <1>1, <1>2, <1>3 DEF DeletionHolds
<1> QED
  BY <1>4, <1>5, <1>6

\* Steps of the deletion that change no mail.
LEMMA AdvancingKeepsMail ==
  ASSUME RequestsAssumption, OneDeletion, Shape, MailInvariant, NEW d \in Deletions,
         UNCHANGED <<exists, mailVars>>, lost # {} => started',
         DeletionHolds(d)'
  PROVE  MailInvariant'
  BY DEF OneDeletion, MailInvariant, LostOnlyWhileDeleting, MailHolds, mailVars

LEMMA DeletionKeepsMail ==
  ASSUME RequestsAssumption, OneDeletion, Shape, MailInvariant, NEW d \in Deletions,
         ProceedDeletion(d)
  PROVE  MailInvariant'
<1> USE DEF MailInvariant
<1>1. /\ TypeOK /\ d \in Requests /\ StepsOf(d) \subseteq Steps /\ local[d] \in Local
      /\ DeletionHolds(d) /\ (lost # {} => started) /\ started \in BOOLEAN
      /\ api[d] # "post"
  BY Kinds DEF Shape, TypeOK, ApiKnown, LostOnlyWhileDeleting
<1>2. CASE ReadDeletion(d)
  <2>1. PICK known \in Local : Advance(d, "claim", known) /\ known.resumed = started
    <3>1. PICK b \in BOOLEAN : b = started
      BY <1>1
    <3>2. Advance(d, "claim", [Blank EXCEPT !.resumed = b])
      BY <1>2, <3>1 DEF ReadDeletion
    <3>3. [Blank EXCEPT !.resumed = b] \in Local /\ [Blank EXCEPT !.resumed = b].resumed = b
      BY BlankTyped, Remembered
    <3> QED
      BY <3>1, <3>2, <3>3, Zenon
  <2>2. pc'[d] = "claim" /\ local'[d] = known
    BY <1>1, <2>1, Advanced DEF Steps
  <2> QED
    BY <1>1, <1>2, <2>1, <2>2, AdvancingKeepsMail
       DEF ReadDeletion, undeleted, DeletionHolds, mailVars
<1>3. CASE ClaimDeletion(d)
  <2>1. PICK step \in {"disable", "check", "idle"} :
          Goto(d, step) /\ (step # "idle" => started') /\ step \in Steps
    BY <1>3 DEF ClaimDeletion, Steps
  <2>2. pc'[d] = step /\ (step # "idle" => local'[d] = local[d])
    BY <1>1, <2>1, Went
  <2>3. pc[d] = "claim" /\ (started => started') /\ UNCHANGED <<exists, mailVars>>
    BY <1>3 DEF ClaimDeletion, undeleted
  <2> QED
    BY <1>1, <2>1, <2>2, <2>3, AdvancingKeepsMail DEF DeletionHolds, mailVars
<1>4. CASE DisableRule(d)
  <2>1. pc[d] = "disable" /\ UNCHANGED <<exists, started, mailVars>>
    BY <1>4 DEF DisableRule, undeleted
  <2>2. /\ "unroute" \in Steps /\ "keep" \in Steps
        /\ SetRule(d, FALSE, "unroute", "keep", "keep")
    BY <1>4 DEF DisableRule, Steps
  <2>3. \/ UNCHANGED <<pc, local>>
        \/ Goto(d, "unroute") \/ Goto(d, "keep")
    BY <1>1, <2>2, RuleSet
  <2>4. pc'[d] \in {"disable", "unroute", "keep"} /\ local'[d] = local[d]
    BY <1>1, <2>1, <2>2, <2>3, Went
  <2> QED
    BY <1>1, <2>1, <2>4, AdvancingKeepsMail DEF DeletionHolds, mailVars
<1>5. CASE FindRule(d) \/ RemoveRule(d) \/ CheckDisabled(d)
  <2>1. /\ pc[d] \in {"unroute", "remove", "check"} /\ UNCHANGED <<exists, started, mailVars>>
        /\ \E step \in {"collect", "remove", "keep", "reopen"} :
             /\ Goto(d, step) /\ step \in Steps
             /\ step = "reopen" => ~local[d].resumed
    BY <1>5 DEF FindRule, RemoveRule, CheckDisabled, GiveUp, undeleted, Steps
  <2>2. /\ pc'[d] \in {"collect", "remove", "keep", "reopen"} /\ local'[d] = local[d]
        /\ pc'[d] = "reopen" => ~local[d].resumed
    BY <1>1, <2>1, Went
  <2> QED
    BY <1>1, <2>1, <2>2, AdvancingKeepsMail DEF DeletionHolds, mailVars
<1>6. CASE CollectKeys(d)
  <2>1. pc[d] = "collect" /\ UNCHANGED <<exists, started, mailVars>>
    BY <1>6 DEF CollectKeys, undeleted
  <2>2. held \in SUBSET (Incoming \cup Sends)
    BY <1>1 DEF TypeOK
  <2>3. pc'[d] \in {"pending", "keep"} /\ local'[d].resumed = local[d].resumed
    <3>1. CASE Goto(d, "keep")
      BY <1>1, <3>1, Went DEF Steps
    <3>2. CASE Advance(d, "pending", [local[d] EXCEPT !.keys = held])
      <4>1. PICK known \in Local : /\ Advance(d, "pending", known)
                                   /\ known.resumed = local[d].resumed
        <5> DEFINE known == [local[d] EXCEPT !.keys = held]
        <5>1. local[d] \in Local
          BY <1>1 DEF TypeOK
        <5>2. known \in Local /\ known.resumed = local[d].resumed
          BY <2>2, <5>1, Remembered
        <5> QED
          BY <3>2, <5>2
      <4> QED
        BY <1>1, <4>1, Advanced DEF Steps
    <3> QED
      BY <1>6, <3>1, <3>2 DEF CollectKeys
  <2> QED
    BY <1>1, <2>1, <2>3, AdvancingKeepsMail DEF DeletionHolds, mailVars
<1>7. CASE CheckPending(d)
  <2>1. /\ pc[d] = "pending" /\ UNCHANGED <<exists, started, mailVars>>
        /\ \E step \in {"purge", "keep", "reopen"} :
             /\ Goto(d, step) /\ step \in Steps
             /\ step = "reopen" => ~local[d].resumed
             /\ step = "purge" => locks = {}
    BY <1>7 DEF CheckPending, GiveUp, undeleted, Steps
  <2>2. /\ pc'[d] \in {"purge", "keep", "reopen"} /\ local'[d] = local[d]
        /\ pc'[d] = "reopen" => ~local[d].resumed
        /\ pc'[d] = "purge" => locks = {}
    BY <1>1, <2>1, Went
  <2> QED
    BY <1>1, <2>1, <2>2, AdvancingKeepsMail DEF DeletionHolds, mailVars
<1>8. CASE PurgeObjects(d)
  <2>1. /\ pc[d] = "purge" /\ UNCHANGED <<exists, started, held, sending, locks>>
        /\ \E step \in {"erase", "keep"} : Goto(d, step) /\ step \in Steps
    BY <1>8 DEF PurgeObjects, rowVars, Steps
  <2>2. pc'[d] \in {"erase", "keep"}
    BY <1>1, <2>1, Went
  <2>3. \A e \in Deletions : e = d
    BY DEF OneDeletion
  <2> QED
    BY <1>1, <2>1, <2>2, <2>3 DEF DeletionHolds, LostOnlyWhileDeleting, MailHolds
<1>9. CASE EraseRows(d)
  <2>1. /\ pc[d] = "erase"
        /\ \E step \in {"idle", "keep"} : Goto(d, step) /\ step \in Steps
        /\ sending' = sending
        /\ \/ UNCHANGED <<exists, started, held, lost, locks>>
           \/ held' = {} /\ lost' = {} /\ locks' = {}
    BY <1>9 DEF EraseRows, rowVars, Steps
  <2>2. pc'[d] \in {"idle", "keep"}
    BY <1>1, <2>1, Went
  <2>3. locks = {} /\ \A e \in Deletions : e = d
    BY <1>1, <2>1 DEF DeletionHolds, OneDeletion
  <2>4. sending' \cap Composed = {} /\ locks' = {}
    BY <2>1, <2>3 DEF MailHolds
  <2>5. MailHolds'
    BY <2>1, <2>4 DEF MailHolds
  <2>6. LostOnlyWhileDeleting'
    BY <1>1, <2>1 DEF LostOnlyWhileDeleting
  <2>7. DeletionHolds(d)'
    BY <2>2 DEF DeletionHolds
  <2> QED
    BY <2>3, <2>5, <2>6, <2>7
<1>10. CASE Release(d)
  <2>1. /\ pc[d] \in {"keep", "reopen"} /\ UNCHANGED <<exists, mailVars>>
        /\ Goto(d, "idle") /\ "idle" \in Steps
        /\ pc[d] = "keep" => started' = started
    BY <1>1, <1>10 DEF Release, undeleted, Steps
  <2>2. pc'[d] = "idle"
    BY <1>1, <2>1, Went
  <2> QED
    BY <1>1, <2>1, <2>2, AdvancingKeepsMail DEF DeletionHolds, mailVars
<1> QED
  BY <1>2, <1>3, <1>4, <1>5, <1>6, <1>7, <1>8, <1>9, <1>10 DEF ProceedDeletion

LEMMA StepKeepsMail ==
  ASSUME RequestsAssumption, OneDeletion, Shape, MailInvariant, [Next]_vars
  PROVE  MailInvariant'
<1>1. CASE UNCHANGED vars
  BY <1>1, OthersKeepMail DEF vars, rowVars, requestVars
<1>2. CASE Create \/ EnableRule \/ LeaveRule \/ SuspendConflict
  <2>1. UNCHANGED <<started, mailVars>> /\ (exists' = exists \/ exists' = "here")
    BY <1>2 DEF Create, EnableRule, LeaveRule, SuspendConflict, rowVars
  <2>2. /\ Creation \in Requests /\ TypeOK
        /\ {"idle", "enable", "manual", "conflict"} \subseteq Steps
    BY Kinds DEF Shape, Steps
  <2>3. \/ UNCHANGED <<pc, local>>
        \/ \E step \in {"idle", "enable", "manual", "conflict"} : Goto(Creation, step)
    BY <1>2, <2>2, RuleSet DEF Create, EnableRule, LeaveRule, SuspendConflict
  <2>4. \A d \in Deletions : pc'[d] = pc[d] /\ local'[d] = local[d]
    BY <2>2, <2>3, Kinds, Went
  <2> QED
    BY <2>1, <2>4, OthersKeepMail
<1>3. ASSUME NEW p \in Patches, ProceedPatch(p) PROVE MailInvariant'
  <2>1. UNCHANGED <<started, exists, mailVars>>
    BY <1>3 DEF ProceedPatch, ReadPatch, RouteFirst, CheckRule, SaveNothing, Save, ReadCurrent,
         Reroute, ReportRule, rowVars
  <2>2. /\ \A q \in Requests \ {p} : pc'[q] = pc[q] /\ local'[q] = local[q]
    <3> USE DEF Shape, TypeOK, Advance, Goto, RerouteTo
    <3>1. CASE ReadPatch(p)
      BY <3>1 DEF ReadPatch
    <3>2. CASE RouteFirst(p) \/ Reroute(p)
      BY <3>2 DEF RouteFirst, Reroute, SetRule, ListRules, WriteRule, WriteFails
    <3>3. CASE CheckRule(p) \/ SaveNothing(p) \/ ReportRule(p) \/ Save(p)
      BY <3>3 DEF CheckRule, SaveNothing, ReportRule, Save
    <3>4. CASE ReadCurrent(p)
      BY <3>4 DEF ReadCurrent
    <3> QED
      BY <1>3, <3>1, <3>2, <3>3, <3>4 DEF ProceedPatch
  <2> QED
    BY <2>1, <2>2, Kinds, OthersKeepMail
<1>4. CASE LeaseLapses \/ EditRules
  BY <1>4, OthersKeepMail DEF LeaseLapses, EditRules, rowVars, requestVars
<1>5. ASSUME NEW q \in Requests, Crash(q) PROVE MailInvariant'
  <2>1. /\ UNCHANGED <<started, exists, mailVars>> /\ "idle" \in Steps /\ TypeOK
        /\ Goto(q, "idle")
    BY <1>5 DEF Crash, rowVars, Steps, Shape
  <2>2. \A r \in Requests : /\ pc'[r] = IF r = q THEN "idle" ELSE pc[r]
                            /\ r # q => local'[r] = local[r]
    BY <2>1, Went
  <2>3. \A d \in Deletions : DeletionHolds(d)'
    BY <2>1, <2>2, Kinds DEF MailInvariant, DeletionHolds, mailVars
  <2> QED
    BY <2>1, <2>3 DEF MailInvariant, LostOnlyWhileDeleting, MailHolds, mailVars
<1> QED
  BY <1>1, <1>2, <1>3, <1>4, <1>5, MailKeepsMail, DeletionKeepsMail DEF Next

LEMMA InitHoldsMail == ASSUME Init PROVE MailInvariant
  BY DEF Init, MailInvariant, LostOnlyWhileDeleting, MailHolds, DeletionHolds, Requests

\* What the deletion and the mail know of one another, while one request at a time
\* deletes the mailbox.
THEOREM MailInvariantHolds ==
  ASSUME OneDeletion
  PROVE  Spec => []MailInvariant
<1>1. Init => MailInvariant
  BY InitHoldsMail
<1>2. Shape /\ MailInvariant /\ [Next]_vars => MailInvariant'
  BY OneDeletion, RequestsAssumption, StepKeepsMail
<1> QED
  BY <1>1, <1>2, ShapeHolds, PTL DEF Spec

\* A message loses its objects only in a mailbox that is being deleted, which nothing
\* restores: a deletion that gives up after its first look has deleted nothing.
THEOREM LostOnlyWhileDeletingHolds ==
  ASSUME OneDeletion
  PROVE  Spec => []LostOnlyWhileDeleting
<1>1. MailInvariant => LostOnlyWhileDeleting
  BY DEF MailInvariant
<1> QED
  BY <1>1, OneDeletion, MailInvariantHolds, PTL

\* A deleted mailbox has no message but of replies that were being sent: an arrival
\* or a composed message finds the mailbox gone, or stops the deletion.
THEOREM OnlyRepliesOutliveHolds ==
  ASSUME OneDeletion
  PROVE  Spec => []OnlyRepliesOutlive
<1>1. MailInvariant => OnlyRepliesOutlive
  BY DEF MailInvariant, MailHolds, OnlyRepliesOutlive
<1> QED
  BY <1>1, OneDeletion, MailInvariantHolds, PTL

-----------------------------------------------------------------------------
(* The rule of the mailbox.                                                *)

On == {"enabled", "doubled"}
Fresh == {"missing", "enabled", "foreign"}

Follows == rule \in On <=> Receiving

\* What a request that is alone has made sure of where it is.
Standing(q) ==
  /\ pc[q] = "enable" => Receiving /\ rule \in Fresh
  /\ pc[q] = "conflict" => exists = "here" /\ rule = "foreign"
  /\ pc[q] # "check"
  /\ pc[q] = "route" => Unchanged(q) /\ Follows
  /\ pc[q] = "save" => Unchanged(q) /\ (rule \in On <=> local[q].wanted)
  /\ pc[q] = "reroute" => (local[q].wanted <=> Receiving)
  /\ q \in Deletions /\ pc[q] # "idle" => rule \notin On /\ (archived # 0 \/ exists = "gone")

\* As long as nothing crossed, the token is there, requests come one after the other,
\* each keeps to what it read, and leaves a rule that follows the mailbox.
RuleHolds ==
  ~crossed =>
    /\ managed
    /\ \A q, r \in Requests : InFlight(q) /\ InFlight(r) => q = r
    /\ exists = "none" => rule \in Fresh
    /\ exists # "none" /\ (\A q \in Requests : ~InFlight(q)) => Follows
    /\ \A q \in Requests : Standing(q)

\* The request that moves is alone: only where it is has to be looked at.
LEMMA Moves ==
  ASSUME Shape, RuleHolds, NEW q \in Requests,
         managed' = managed, exists' # "none",
         \A r \in Requests \ {q} : pc'[r] = pc[r],
         ~crossed' => /\ ~crossed
                      /\ InFlight(q) \/ \A r \in Requests \ {q} : ~InFlight(r)
                      /\ Standing(q)'
                      /\ pc'[q] = "idle" => Follows'
  PROVE  RuleHolds'
<1> SUFFICES ASSUME ~crossed'
             PROVE  /\ managed'
                    /\ \A s, r \in Requests : InFlight(s)' /\ InFlight(r)' => s = r
                    /\ exists' = "none" => rule' \in Fresh
                    /\ exists' # "none" /\ (\A r \in Requests : ~InFlight(r)') => Follows'
                    /\ \A r \in Requests : Standing(r)'
  BY DEF RuleHolds
<1>1. /\ managed /\ Standing(q)' /\ (pc'[q] = "idle" => Follows')
      /\ \A r \in Requests \ {q} : pc'[r] = "idle"
  BY DEF RuleHolds, InFlight
<1>2. \A r \in Requests \ {q} : Standing(r)'
  BY <1>1 DEF Standing
<1> QED
  BY <1>1, <1>2 DEF InFlight

LEMMA CrossedHolds == ASSUME crossed' PROVE RuleHolds'
  BY DEF RuleHolds

\* Mail, time and hands.
LEMMA QuietKeepsRule ==
  ASSUME Shape, RuleHolds,
         \/ UNCHANGED <<managed, pc, local, exists, status, archived, started, rule, crossed>>
         \/ EditRules
  PROVE  RuleHolds'
<1>1. CASE UNCHANGED <<managed, pc, local, exists, status, archived, started, rule, crossed>>
  BY <1>1 DEF RuleHolds, InFlight, Standing, Follows, Receiving, Unchanged
<1>2. CASE EditRules
  BY <1>2 DEF EditRules, RuleHolds
<1> QED
  BY <1>1, <1>2

LEMMA CreationKeepsRule ==
  ASSUME RequestsAssumption, Shape, RuleHolds,
         Create \/ EnableRule \/ LeaveRule \/ SuspendConflict
  PROVE  RuleHolds'
<1> USE DEF Shape
<1>1. /\ TypeOK /\ Creation \in Requests /\ Creation \notin Patches \cup Deletions
      /\ {"idle", "enable", "manual", "conflict"} \subseteq Steps
  BY Kinds DEF Steps
<1>2. CASE Create
  <2>1. NoColumns /\ \A r \in Requests : ~InFlight(r)
    BY <1>2 DEF Create, RowKnown
  <2>2. /\ exists' = "here" /\ UNCHANGED <<managed, status, archived, started, rule, crossed>>
        /\ exists = "none"
    BY <1>2 DEF Create
  <2>3. CASE crossed
    BY <2>2, <2>3, CrossedHolds
  <2>4. CASE ~crossed
    <3>1. Goto(Creation, "enable") /\ rule \in Fresh
      BY <1>2, <2>2, <2>4 DEF Create, RuleHolds
    <3>2. pc'[Creation] = "enable" /\ \A r \in Requests \ {Creation} : pc'[r] = pc[r]
      BY <1>1, <3>1, Went
    <3>3. Standing(Creation)'
      BY <1>1, <2>1, <2>2, <3>1, <3>2 DEF Standing, Receiving, NoColumns
    <3> QED
      BY <1>1, <2>1, <2>2, <2>4, <3>2, <3>3, Moves
  <2> QED
    BY <2>3, <2>4
<1>3. CASE EnableRule
  <2>1. /\ pc[Creation] = "enable" /\ InFlight(Creation) /\ exists # "none"
        /\ UNCHANGED <<managed, rowVars>>
        /\ SetRule(Creation, TRUE, "idle", "manual", "conflict")
    BY <1>1, <1>3 DEF EnableRule, InFlight, RowKnown
  <2>2. \A r \in Requests \ {Creation} : pc'[r] = pc[r]
    BY <1>1, <2>1, RuleSet, Went, ZenonT(60)
  <2>3. ASSUME ~crossed'
        PROVE  /\ ~crossed /\ Standing(Creation)'
               /\ pc'[Creation] = "idle" => Follows'
    <3>1. ~crossed
      BY <1>1, <2>1, <2>3, RuleSet
    <3>2. Receiving /\ Receiving' /\ rule \in Fresh /\ exists = "here" /\ exists' = "here"
      BY <1>1, <2>1, <3>1 DEF RuleHolds, Standing, Receiving, rowVars
    <3>3. \/ pc' = pc /\ rule' = rule
          \/ Goto(Creation, "idle") /\ rule' \in On
          \/ Goto(Creation, "manual") /\ rule' = rule
          \/ Goto(Creation, "conflict") /\ rule' = rule /\ rule \in {"doubled", "foreign"}
      BY <1>1, <2>1, <2>3, RuleSet DEF On
    <3>4. \/ pc'[Creation] = "enable" /\ rule' = rule
          \/ pc'[Creation] = "idle" /\ rule' \in On
          \/ pc'[Creation] = "manual"
          \/ pc'[Creation] = "conflict" /\ rule' = rule /\ rule \in {"doubled", "foreign"}
      BY <1>1, <2>1, <3>3, Went
    <3> QED
      BY <1>1, <3>1, <3>2, <3>4 DEF Standing, Follows, Fresh
  <2> QED
    BY <1>1, <2>1, <2>2, <2>3, Moves DEF rowVars
<1>4. CASE LeaveRule
  BY <1>4, CrossedHolds DEF LeaveRule, Cross
<1>5. CASE SuspendConflict
  <2>1. /\ pc[Creation] = "conflict" /\ InFlight(Creation) /\ exists # "none"
        /\ UNCHANGED <<managed, exists, archived, started, rule>> /\ Goto(Creation, "idle")
        /\ ~crossed' => ~crossed /\ (exists = "here" => status' = "suspended")
    BY <1>1, <1>5 DEF SuspendConflict, InFlight, RowKnown, Cross
  <2>2. pc'[Creation] = "idle" /\ \A r \in Requests \ {Creation} : pc'[r] = pc[r]
    BY <1>1, <2>1, Went
  <2>3. ASSUME ~crossed'
        PROVE  Standing(Creation)' /\ Follows'
    <3>1. exists = "here" /\ rule = "foreign"
      BY <1>1, <2>1, <2>3 DEF RuleHolds, Standing
    <3> QED
      BY <1>1, <2>1, <2>2, <2>3, <3>1 DEF Standing, Follows, Receiving, On
  <2> QED
    BY <1>1, <2>1, <2>2, <2>3, Moves
<1> QED
  BY <1>2, <1>3, <1>4, <1>5

\* A patch that goes on, whatever it does.
LEMMA PatchMoves ==
  ASSUME RequestsAssumption, Shape, RuleHolds, NEW p \in Patches,
         NEW step \in StepsOf(p), Goto(p, step), InFlight(p), step # "route", step # "reroute",
         UNCHANGED <<managed, exists>>,
         ~crossed' => /\ ~crossed /\ step # "check"
                      /\ step = "save" => Unchanged(p)' /\ (rule' \in On <=> local[p].wanted)
                      /\ step = "idle" => Follows'
  PROVE  RuleHolds'
<1>1. /\ TypeOK /\ p \in Requests /\ step \in Steps /\ p \notin Deletions /\ exists # "none"
      /\ step \notin {"enable", "conflict"}
  BY Kinds DEF Shape, RowKnown
<1>2. /\ \A r \in Requests \ {p} : pc'[r] = pc[r]
      /\ pc'[p] = step /\ (step # "idle" => local'[p] = local[p])
  BY <1>1, Went
<1>3. ~crossed' => Standing(p)' /\ (pc'[p] = "idle" => Follows')
  BY <1>1, <1>2 DEF Standing
<1> QED
  BY <1>1, <1>2, <1>3, Moves

\* A patch that changes the rule.
LEMMA PatchRulingKeepsRule ==
  ASSUME RequestsAssumption, Shape, RuleHolds, NEW p \in Patches, RouteFirst(p) \/ Reroute(p)
  PROVE  RuleHolds'
<1>1. /\ TypeOK /\ p \in Requests /\ p \notin Deletions /\ local[p].wanted \in BOOLEAN
      /\ (api[p] = "post" => local[p].wanted) /\ InFlight(p) /\ exists # "none"
      /\ {"idle", "save", "reported"} \subseteq StepsOf(p)
      /\ {"idle", "save", "reported"} \subseteq Steps
      /\ UNCHANGED <<managed, rowVars>> /\ pc[p] \in {"route", "reroute"}
  BY Kinds, Remembered DEF Shape, ApiKnown, TypeOK, RowKnown, InFlight, RouteFirst, Reroute, Steps
<1>2. /\ Receiving' <=> Receiving
      /\ local'[p] = local[p] => (Unchanged(p)' <=> Unchanged(p))
  BY <1>1 DEF Receiving, Unchanged, rowVars
<1>3. CASE UNCHANGED <<pc, local, rule, crossed>>
  BY <1>1, <1>3, QuietKeepsRule DEF rowVars
<1>4. CASE crossed'
  BY <1>4, CrossedHolds
<1>5. CASE RouteFirst(p) /\ ~crossed' /\ ~UNCHANGED <<pc, local, rule, crossed>>
  <2>1. pc[p] = "route" /\ SetRule(p, local[p].wanted, "save", "idle", "idle")
    BY <1>5 DEF RouteFirst
  <2>2. /\ ~crossed
        /\ \/ Goto(p, "save") /\ (rule' \in On <=> local[p].wanted)
           \/ Goto(p, "idle") /\ rule' = rule
    BY <1>1, <1>5, <2>1, RuleSet DEF On
  <2>3. Unchanged(p) /\ Follows
    BY <1>1, <2>1, <2>2 DEF RuleHolds, Standing
  <2>4. CASE Goto(p, "save") /\ (rule' \in On <=> local[p].wanted)
    <3>1. local'[p] = local[p]
      BY <1>1, <2>4, Went
    <3>2. Unchanged(p)'
      BY <1>2, <2>3, <3>1
    <3> QED
      BY <1>1, <1>5, <2>2, <2>4, <3>2, PatchMoves DEF rowVars
  <2>5. CASE Goto(p, "idle") /\ rule' = rule
    <3>1. Follows'
      BY <1>2, <2>3, <2>5 DEF Follows
    <3> QED
      BY <1>1, <1>5, <2>2, <2>5, <3>1, PatchMoves DEF rowVars
  <2> QED
    BY <2>2, <2>4, <2>5
<1>6. CASE Reroute(p) /\ ~crossed' /\ ~UNCHANGED <<pc, local, rule, crossed>>
  <2>1. pc[p] = "reroute" /\ SetRule(p, local[p].wanted, "idle", "reported", "reported")
    BY <1>6 DEF Reroute
  <2>2. /\ ~crossed
        /\ \/ Goto(p, "idle") /\ (rule' \in On <=> local[p].wanted)
           \/ Goto(p, "reported")
    BY <1>1, <1>6, <2>1, RuleSet DEF On
  <2>3. local[p].wanted <=> Receiving
    BY <1>1, <2>1, <2>2 DEF RuleHolds, Standing
  <2>4. CASE Goto(p, "idle") /\ (rule' \in On <=> local[p].wanted)
    <3>1. Follows'
      BY <1>2, <2>3, <2>4 DEF Follows
    <3> QED
      BY <1>1, <1>6, <2>2, <2>4, <3>1, PatchMoves DEF rowVars
  <2>5. CASE Goto(p, "reported")
    BY <1>1, <1>6, <2>2, <2>5, PatchMoves DEF rowVars
  <2> QED
    BY <2>2, <2>4, <2>5
<1> QED
  BY <1>3, <1>4, <1>5, <1>6

\* The statement of a patch leaves the mailbox as its rule already is.
LEMMA SaveKeepsRule ==
  ASSUME RequestsAssumption, Shape, RuleHolds, NEW p \in Patches, Save(p) \/ SaveNothing(p)
  PROVE  RuleHolds'
<1>1. /\ p \in Requests /\ InFlight(p) /\ pc[p] = "save" /\ PatchKnows(p) /\ TypeOK
      /\ {"idle", "current"} \subseteq StepsOf(p)
      /\ UNCHANGED <<managed, exists, started, rule, crossed>>
  BY Kinds DEF Shape, Save, SaveNothing, InFlight, rowVars
<1>2. ~crossed => managed /\ Unchanged(p) /\ (rule \in On <=> local[p].wanted)
  BY <1>1 DEF RuleHolds, Standing
<1>3. CASE Goto(p, "current")
  BY <1>1, <1>3, PatchMoves
<1>4. CASE Goto(p, "idle") /\ ~crossed
  <2>1. CASE SaveNothing(p)
    <3>1. AsksNothing(p) /\ UNCHANGED <<status, archived>>
      BY <2>1 DEF SaveNothing, rowVars
    <3>2. Receiving' <=> local[p].wanted
      BY <1>1, <1>2, <1>4, <3>1
         DEF AsksNothing, NextStatus, PatchKnows, Deciding, Receiving, Unchanged
    <3> QED
      BY <1>1, <1>2, <1>4, <3>2, PatchMoves DEF Follows
  <2>2. CASE Save(p) /\ Unchanged(p) /\ Apply(p)
    <3>1. status' = "active" /\ archived' = 0 <=> local[p].wanted
      BY <1>1, <2>2, Applied
    <3>2. exists' = "here" /\ ~started'
      BY <1>1, <2>2 DEF Unchanged
    <3>3. Follows'
      BY <1>1, <1>2, <1>4, <3>1, <3>2 DEF Follows, Receiving
    <3> QED
      BY <1>1, <1>4, <3>3, PatchMoves
  <2>3. CASE Save(p) /\ ~(Unchanged(p) /\ Apply(p))
    <3>1. Goto(p, "current")
      BY <1>2, <1>4, <2>3 DEF Save
    <3> QED
      BY <1>3, <3>1
  <2> QED
    BY <2>1, <2>2, <2>3
<1>5. CASE crossed
  BY <1>1, <1>5, CrossedHolds
<1> QED
  BY <1>3, <1>4, <1>5 DEF Save, SaveNothing

LEMMA PatchKeepsRule ==
  ASSUME RequestsAssumption, Shape, RuleHolds, NEW p \in Patches, ProceedPatch(p)
  PROVE  RuleHolds'
<1>1. TypeOK /\ p \in Requests /\ p \notin Deletions /\ {"route", "check", "reroute"} \subseteq Steps
  BY Kinds DEF Shape, Steps
<1>2. CASE ReadPatch(p)
  <2>1. CASE crossed'
    BY <2>1, CrossedHolds
  <2>2. CASE ~crossed'
    <3>1. /\ ~crossed /\ \A r \in Requests : ~InFlight(r)
          /\ exists = "here" /\ ~started
          /\ UNCHANGED <<managed, rowVars, rule>>
      BY <1>2, <2>2 DEF ReadPatch, Begin
    <3>2. managed /\ Follows
      BY <3>1 DEF RuleHolds
    <3>3. PICK a \in Actions : Advance(p, "route",
            [action |-> a, status |-> status, archived |-> archived, before |-> before,
             wanted |-> a = "activate" \/ (a = "restore" /\ before = "active"),
             resumed |-> FALSE, keys |-> {}])
      BY <1>2, <3>2 DEF ReadPatch
    <3>4. /\ pc'[p] = "route" /\ \A r \in Requests \ {p} : pc'[r] = pc[r]
          /\ local'[p].status = status /\ local'[p].archived = archived
      BY <1>1, <3>3 DEF Advance, TypeOK
    <3>5. Unchanged(p)' /\ Follows'
      BY <3>1, <3>2, <3>4 DEF Unchanged, Follows, Receiving, rowVars
    <3>6. Standing(p)'
      BY <1>1, <3>4, <3>5 DEF Standing
    <3> QED
      BY <1>1, <3>1, <3>4, <3>6, Moves DEF rowVars
  <2> QED
    BY <2>1, <2>2
<1>3. CASE ReadCurrent(p)
  <2>1. CASE crossed'
    BY <2>1, CrossedHolds
  <2>2. CASE ~crossed'
    <3>1. /\ ~crossed /\ InFlight(p) /\ exists # "none"
          /\ RerouteTo(p, Receiving) /\ UNCHANGED <<managed, rowVars, rule>>
      BY <1>1, <1>3, <2>2 DEF ReadCurrent, Cross, InFlight, Shape, RowKnown
    <3>2. PICK b \in BOOLEAN : b = Receiving
      BY DEF Receiving
    <3>3. /\ [local[p] EXCEPT !.wanted = b] \in Local
          /\ [local[p] EXCEPT !.wanted = b].wanted = b
      BY <1>1, Remembered DEF TypeOK
    <3>4. Advance(p, "reroute", [local[p] EXCEPT !.wanted = b])
      BY <3>1, <3>2 DEF RerouteTo
    <3>5. PICK known \in Local : Advance(p, "reroute", known) /\ known.wanted = b
      BY <3>3, <3>4, Zenon
    <3>6. /\ pc'[p] = "reroute" /\ local'[p].wanted = b
          /\ \A r \in Requests \ {p} : pc'[r] = pc[r]
      BY <1>1, <3>5, Advanced
    <3>7. Standing(p)'
      BY <1>1, <3>1, <3>2, <3>6 DEF Standing, Receiving, rowVars
    <3> QED
      BY <1>1, <3>1, <3>6, <3>7, Moves DEF rowVars
  <2> QED
    BY <2>1, <2>2
<1>4. CASE CheckRule(p)
  <2>1. crossed /\ crossed' = crossed
    BY <1>1, <1>4 DEF CheckRule, RuleHolds, Standing
  <2> QED
    BY <2>1, CrossedHolds
<1>5. CASE ReportRule(p)
  BY <1>5, CrossedHolds DEF ReportRule, Cross
<1> QED
  BY <1>2, <1>3, <1>4, <1>5, PatchRulingKeepsRule, SaveKeepsRule DEF ProceedPatch

LEMMA DeletionKeepsRule ==
  ASSUME RequestsAssumption, Shape, RuleHolds, NEW d \in Deletions, ProceedDeletion(d)
  PROVE  RuleHolds'
<1>1. /\ TypeOK /\ d \in Requests /\ StepsOf(d) \subseteq Steps /\ local[d] \in Local
      /\ api[d] # "post" /\ held \in SUBSET (Incoming \cup Sends)
      /\ {"route", "save", "reroute", "enable", "conflict"} \cap StepsOf(d) = {}
  BY Kinds DEF Shape, TypeOK, ApiKnown
<1>2. /\ Shape' /\ pc'[d] \in StepsOf(d)
  BY <1>1, DeletionKeepsShape DEF Shape
<1>3. CASE crossed'
  BY <1>3, CrossedHolds
<1>4. CASE ~crossed'
  <2>1. /\ managed' = managed /\ exists \in {"here", "gone"} /\ exists' \in {exists, "gone"}
        /\ archived' = archived \/ exists' = "gone"
    <3>1. exists # "none"
      BY <1>1 DEF Shape, RowKnown, InFlight, ProceedDeletion, ReadDeletion, ClaimDeletion,
           DisableRule, FindRule, RemoveRule, CheckDisabled, CollectKeys, CheckPending,
           PurgeObjects, EraseRows, Release
    <3> QED
      BY <1>1, <3>1 DEF TypeOK, ProceedDeletion, ReadDeletion, ClaimDeletion,
           DisableRule, FindRule, RemoveRule, CheckDisabled, CollectKeys, CheckPending,
           PurgeObjects, EraseRows, Release, undeleted, rowVars
  <2>2. /\ ~crossed /\ managed /\ (InFlight(d) \/ \A r \in Requests \ {d} : ~InFlight(r))
        /\ rule \notin On /\ (archived # 0 \/ exists = "gone") /\ pc[d] # "check"
    <3>1. CASE ReadDeletion(d)
      <4>1. /\ ~crossed /\ exists = "here" /\ archived # 0
            /\ \A r \in Requests : ~InFlight(r)
        BY <1>4, <3>1 DEF ReadDeletion, Begin
      <4> QED
        BY <1>1, <4>1 DEF RuleHolds, Follows, Receiving, InFlight
    <3>2. CASE ~ReadDeletion(d)
      <4>1. pc[d] # "idle"
        BY <1>1, <3>2 DEF ProceedDeletion, ClaimDeletion, DisableRule, FindRule, RemoveRule,
             CheckDisabled, CollectKeys, CheckPending, PurgeObjects, EraseRows, Release
      <4>2. ~crossed
        <5>1. CASE DisableRule(d)
          BY <1>1, <1>4, <5>1, Kinds, RuleSet DEF DisableRule
        <5> QED
          BY <1>4, <3>2, <5>1 DEF ProceedDeletion, ClaimDeletion, FindRule, RemoveRule,
             CheckDisabled, CollectKeys, CheckPending, PurgeObjects, EraseRows, Release
      <4> QED
        BY <1>1, <4>1, <4>2 DEF RuleHolds, Standing, InFlight
    <3> QED
      BY <3>1, <3>2
  <2>3. /\ rule' \notin On
        /\ \/ UNCHANGED pc
           \/ \E step \in Steps : step # "check" /\ pc' = [pc EXCEPT ![d] = step]
    <3>1. CASE ReadDeletion(d) \/ CollectKeys(d)
      BY <2>2, <3>1 DEF ReadDeletion, CollectKeys, Advance, Goto, Steps
    <3>2. CASE DisableRule(d)
      <4>1. /\ SetRule(d, FALSE, "unroute", "keep", "keep")
            /\ {"unroute", "keep"} \subseteq Steps
        BY <3>2 DEF DisableRule, Steps
      <4>2. /\ rule' = rule \/ rule' \notin On
            /\ \/ UNCHANGED pc
               \/ Goto(d, "unroute")
               \/ Goto(d, "keep")
        BY <1>1, <1>4, <4>1, RuleSet DEF On
      <4> QED
        BY <2>2, <4>1, <4>2 DEF Goto, Advance
    <3>3. CASE ClaimDeletion(d)
      BY <2>2, <3>3 DEF ClaimDeletion, Goto, Advance, Steps
    <3>4. CASE RemoveRule(d)
      BY <2>2, <3>4 DEF RemoveRule, Goto, Advance, Steps, On
    <3>5. CASE \/ FindRule(d) \/ CheckDisabled(d) \/ CheckPending(d) \/ PurgeObjects(d)
               \/ EraseRows(d) \/ Release(d)
      <4>1. rule' = rule /\ \E step \in Steps : step # "check" /\ Goto(d, step)
        BY <2>2, <3>5 DEF FindRule, CheckDisabled, CheckPending, PurgeObjects, EraseRows,
             Release, GiveUp, Steps
      <4> QED
        BY <2>2, <4>1 DEF Goto, Advance
    <3> QED
      BY <3>1, <3>2, <3>3, <3>4, <3>5 DEF ProceedDeletion
  <2>4. (\A r \in Requests \ {d} : pc'[r] = pc[r]) /\ pc'[d] # "check"
    BY <1>1, <2>2, <2>3 DEF TypeOK
  <2>5. archived' # 0 \/ exists' = "gone"
    BY <2>1, <2>2
  <2>6. Standing(d)' /\ Follows'
    BY <1>1, <1>2, <2>3, <2>4, <2>5 DEF Standing, Follows, Receiving
  <2> QED
    BY <1>1, <2>1, <2>2, <2>4, <2>6, Moves
<1> QED
  BY <1>3, <1>4

LEMMA StepKeepsRule ==
  ASSUME RequestsAssumption, Shape, RuleHolds, [Next]_vars
  PROVE  RuleHolds'
<1>1. CASE UNCHANGED vars
  BY <1>1, QuietKeepsRule DEF vars, rowVars, requestVars
<1>2. CASE \/ \E m \in Incoming : Receive(m)
           \/ \E i \in Sends : BeginSend(i) \/ EndSend(i)
           \/ ClaimRelay \/ RecordRelay \/ LeaseLapses
  BY <1>2, QuietKeepsRule DEF Receive, BeginSend, EndSend, ClaimRelay, RecordRelay, LeaseLapses,
       notMail, rowVars, requestVars
<1>3. CASE \E q \in Requests : Crash(q)
  BY <1>3, CrossedHolds DEF Crash, Cross
<1> QED
  BY <1>1, <1>2, <1>3, QuietKeepsRule, CreationKeepsRule, PatchKeepsRule, DeletionKeepsRule
     DEF Next

LEMMA InitHoldsRule == ASSUME RequestsAssumption, Init PROVE RuleHolds
<1>1. \A q \in Requests : pc[q] = "idle" /\ ~InFlight(q)
  BY DEF Init, InFlight
<1> QED
  BY <1>1 DEF Init, RuleHolds, Standing, Fresh

\* A rule that nothing but undisturbed requests touched follows the mailbox.
THEOREM RuleHoldsAlways == Spec => []RuleHolds
<1>1. Init => RuleHolds
  BY RequestsAssumption, InitHoldsRule
<1>2. Shape /\ RuleHolds /\ [Next]_vars => RuleHolds'
  BY RequestsAssumption, StepKeepsRule
<1> QED
  BY <1>1, <1>2, ShapeHolds, PTL DEF Spec

\* When nothing is under way, the rule at Cloudflare is enabled exactly if the mailbox
\* receives, even if the answer of the statement that changed the mailbox was lost, as long
\* as no requests overlapped, none was cut short, no write of the rule failed and the rules
\* are not kept by hand (crossed).
THEOREM RuleFollowsMailboxHolds == Spec => []RuleFollowsMailbox
<1>1. RuleHolds => RuleFollowsMailbox
  BY DEF RuleHolds, RuleFollowsMailbox, Follows, On
<1> QED
  BY <1>1, RuleHoldsAlways, PTL

-------------------------------------------------------------------------------
(* Restoring an archive of the mailbox (RestoreScript).                        *)

\* What an attempt has created holds what the attempt has put there, and nothing that
\* was reported is in it.
AttemptStands(t) ==
    /\ t.archive \in Archives /\ t.d \in Targets /\ t.b \in Targets
    /\ t.put \subseteq ObjectsOf[t.archive]
    /\ t.at \in {"database", "bucket"} => t.put = {}
    /\ t.at \in {"bucket", "migrations", "objects"} => database[t.d] = {}
    /\ t.at \in {"migrations", "objects", "count"} => bucket[t.b] = t.put
    /\ t.at = "count" => /\ database[t.d] \subseteq RowsOf[t.archive]
                         /\ t.put = ObjectsOf[t.archive]
    /\ \A r \in reported : /\ t.at # "database" => r[2] # t.d
                           /\ t.at \notin {"database", "bucket"} => r[3] # t.b

AllRows == UNION {RowsOf[a] : a \in Archives}
AllObjects == UNION {ObjectsOf[a] : a \in Archives}
RowSets == SUBSET (AllRows \cup Missing)
ObjectSets == SUBSET (AllObjects \cup Missing)

RestoreInvariant ==
    /\ database \in [Targets -> RowSets]
    /\ bucket \in [Targets -> ObjectSets]
    /\ reported \subseteq Archives \X Targets \X Targets
    /\ attempt = Resting
         \/ /\ attempt \in [at : {"database", "bucket", "migrations", "objects", "count"},
                            archive : Archives, d : Targets, b : Targets,
                            put : SUBSET AllObjects]
            /\ AttemptStands(attempt)
    /\ ReportedIsWhole

LEMMA StoredSets ==
  /\ Missing \in RowSets /\ {} \in RowSets
  /\ Missing \in ObjectSets /\ {} \in ObjectSets
  /\ \A a \in Archives : SUBSET RowsOf[a] \subseteq RowSets /\ SUBSET ObjectsOf[a] \subseteq ObjectSets
<1>2. \A a \in Archives : RowsOf[a] \subseteq AllRows
  BY DEF AllRows
<1>3. \A a \in Archives : ObjectsOf[a] \subseteq AllObjects
  BY DEF AllObjects
<1>4. \A a \in Archives : SUBSET RowsOf[a] \subseteq RowSets
  BY <1>2 DEF RowSets
<1>5. \A a \in Archives : SUBSET ObjectsOf[a] \subseteq ObjectSets
  BY <1>3 DEF ObjectSets
<1>6. Missing \in RowSets /\ {} \in RowSets
  BY DEF RowSets
<1>7. Missing \in ObjectSets /\ {} \in ObjectSets
  BY DEF ObjectSets
<1> QED
  BY <1>4, <1>5, <1>6, <1>7

LEMMA RestoreStep ==
  ASSUME RestoreAssumption, RestoreInvariant, [RestoreNext]_restoreVars
  PROVE  RestoreInvariant'
<1> USE DEF ReportedIsWhole
<1>a. \A a \in Archives : RowsOf[a] # Missing /\ ObjectsOf[a] # Missing
  BY DEF RestoreAssumption, Missing
<1>r. \A r \in reported : /\ r[1] \in Archives /\ r[2] \in Targets /\ r[3] \in Targets
                          /\ database[r[2]] # Missing /\ bucket[r[3]] # Missing
  BY <1>a DEF RestoreInvariant
<1>n. attempt # Resting => attempt.at # "rest"
  BY DEF RestoreInvariant
<1>1. CASE UNCHANGED restoreVars
  BY <1>1 DEF restoreVars, RestoreInvariant, AttemptStands
<1>2. ASSUME NEW a \in Archives, NEW d \in Targets, NEW b \in Targets, Confirm(a, d, b)
      PROVE  RestoreInvariant'
  BY <1>2 DEF Confirm, RestoreInvariant, AttemptStands
<1>3. CASE CreateDatabase
  <2> USE <1>3 DEF CreateDatabase
  <2>1. attempt # Resting /\ AttemptStands(attempt)
    BY DEF RestoreInvariant, Resting
  <2>2. \A r \in reported : r[2] # attempt.d /\ database'[r[2]] = database[r[2]]
    BY <1>r DEF RestoreInvariant
  <2>3. database' \in [Targets -> RowSets] /\ database'[attempt.d] = {}
    BY <2>1, StoredSets DEF RestoreInvariant, AttemptStands
  <2>4. CASE attempt' = Resting
    BY <2>2, <2>3, <2>4 DEF RestoreInvariant
  <2>5. CASE GoTo("bucket")
    BY <2>1, <2>2, <2>3, <2>5 DEF RestoreInvariant, AttemptStands, GoTo, Resting
  <2> QED
    BY <2>4, <2>5
<1>4. CASE CreateBucket
  <2> USE <1>4 DEF CreateBucket
  <2>1. attempt # Resting /\ AttemptStands(attempt)
    BY DEF RestoreInvariant, Resting
  <2>2. \A r \in reported : r[3] # attempt.b /\ bucket'[r[3]] = bucket[r[3]]
    BY <1>r DEF RestoreInvariant
  <2>3. bucket' \in [Targets -> ObjectSets] /\ bucket'[attempt.b] = {}
    BY <2>1, StoredSets DEF RestoreInvariant, AttemptStands
  <2>4. CASE attempt' = Resting
    BY <2>2, <2>3, <2>4 DEF RestoreInvariant
  <2>5. CASE GoTo("migrations")
    BY <2>1, <2>2, <2>3, <2>5 DEF RestoreInvariant, AttemptStands, GoTo, Resting
  <2> QED
    BY <2>4, <2>5
<1>5. CASE Migrate
  BY <1>5 DEF Migrate, RestoreInvariant, AttemptStands, GoTo, Resting
<1>6. CASE PutObject
  <2> USE <1>6 DEF PutObject
  <2>1. attempt # Resting /\ AttemptStands(attempt)
    BY DEF RestoreInvariant, Resting
  <2>2. PICK o \in ObjectsOf[attempt.archive] \ attempt.put :
          /\ bucket' = [bucket EXCEPT ![attempt.b] = @ \cup {o}]
          /\ \/ attempt' = [attempt EXCEPT !.put = @ \cup {o}]
             \/ attempt' = Resting
    OBVIOUS
  <2>3. \A r \in reported : r[3] # attempt.b /\ bucket'[r[3]] = bucket[r[3]]
    BY <1>r, <2>1, <2>2 DEF RestoreInvariant, AttemptStands
  <2>4. bucket' \in [Targets -> ObjectSets] /\ bucket'[attempt.b] = attempt.put \cup {o}
    BY <2>1, <2>2, StoredSets DEF RestoreInvariant, AttemptStands
  <2>5. CASE attempt' = Resting
    BY <2>3, <2>4, <2>5 DEF RestoreInvariant
  <2>6. CASE attempt' = [attempt EXCEPT !.put = @ \cup {o}]
    <3>1. attempt.archive \in Archives /\ attempt.put \in SUBSET AllObjects
      BY <2>1 DEF RestoreInvariant, AttemptStands
    <3>2. o \in AllObjects
      BY <3>1, <2>2 DEF AllObjects
    <3>3. attempt.put \cup {o} \in SUBSET AllObjects
      BY <3>1, <3>2
    <3> QED
      BY <2>1, <2>2, <2>3, <2>4, <2>6, <3>3 DEF RestoreInvariant, AttemptStands, Resting
  <2> QED
    BY <2>2, <2>5, <2>6
<1>7. CASE ExecuteSql
  <2> USE <1>7 DEF ExecuteSql
  <2>1. attempt # Resting /\ AttemptStands(attempt)
    BY DEF RestoreInvariant, Resting
  <2>2. PICK done \in SUBSET RowsOf[attempt.archive] :
          database' = [database EXCEPT ![attempt.d] = @ \cup done]
    OBVIOUS
  <2>3. \A r \in reported : r[2] # attempt.d /\ database'[r[2]] = database[r[2]]
    BY <1>r, <2>1, <2>2 DEF RestoreInvariant, AttemptStands
  <2>4. database' \in [Targets -> RowSets] /\ database'[attempt.d] = done
    BY <2>1, <2>2, StoredSets DEF RestoreInvariant, AttemptStands
  <2>5. CASE attempt' = Resting
    BY <2>3, <2>4, <2>5 DEF RestoreInvariant
  <2>6. CASE GoTo("count")
    BY <2>1, <2>3, <2>4, <2>6 DEF RestoreInvariant, AttemptStands, Resting, GoTo
  <2> QED
    BY <2>5, <2>6
<1>8. CASE Report
  <2> USE <1>8 DEF Report
  <2>1. attempt # Resting /\ AttemptStands(attempt)
    BY DEF RestoreInvariant, Resting
  <2>2. attempt.archive \in Archives /\ attempt.d \in Targets /\ attempt.b \in Targets
    BY <2>1 DEF AttemptStands
  <2>3. Counts(attempt.d, attempt.archive) => database[attempt.d] = RowsOf[attempt.archive]
    <3>1. IsFiniteSet(RowsOf[attempt.archive])
      BY <2>2 DEF RestoreAssumption
    <3>2. database[attempt.d] \in SUBSET RowsOf[attempt.archive]
      BY <2>1 DEF AttemptStands
    <3> QED
      BY <3>1, <3>2, FS_Subset DEF Counts
  <2>4. bucket[attempt.b] = ObjectsOf[attempt.archive]
    BY <2>1 DEF AttemptStands
  <2> QED
    BY <2>2, <2>3, <2>4 DEF RestoreInvariant
<1>9. CASE Fail
  BY <1>9 DEF Fail, RestoreInvariant
<1>10. ASSUME NEW n \in Targets, Discard(n)
       PROVE  RestoreInvariant'
  <2> USE <1>10 DEF Discard
  <2>1. database' \in [Targets -> RowSets] /\ bucket' \in [Targets -> ObjectSets]
    BY StoredSets DEF RestoreInvariant
  <2>2. \A r \in reported' : database'[r[2]] = database[r[2]] /\ bucket'[r[3]] = bucket[r[3]]
    BY <1>r DEF RestoreInvariant
  <2> QED
    BY <2>1, <2>2 DEF RestoreInvariant
<1> QED
  BY <1>1, <1>2, <1>3, <1>4, <1>5, <1>6, <1>7, <1>8, <1>9, <1>10 DEF RestoreNext

\* A restoration that was reported holds the rows and the objects of its archive and
\* nothing else, for any number of attempts, archives and names.
THEOREM ReportedStaysWhole == RestoreSpec => []ReportedIsWhole
<1>1. RestoreInit => RestoreInvariant
  BY StoredSets DEF RestoreInit, RestoreInvariant, ReportedIsWhole
<1>2. RestoreInvariant /\ [RestoreNext]_restoreVars => RestoreInvariant'
  BY RestoreAssumption, RestoreStep
<1>3. RestoreInvariant => ReportedIsWhole
  BY DEF RestoreInvariant
<1> QED
  BY <1>1, <1>2, <1>3, PTL DEF RestoreSpec

-------------------------------------------------------------------------------
(* Where the records of an archive are (ZipArchive).                           *)

LEMMA BytesOfNext ==
  ASSUME NEW file, NEW n \in Nat
  PROVE  /\ BytesOf(file, n) \in Nat
         /\ BytesOf(file, n + 1) = BytesOf(file, n) + (IF file[n + 1].kind \in Headed THEN 2 ELSE 1)
<1> DEFINE Before == {i \in 1..n : file[i].kind \in Headed}
           After == {i \in 1..(n + 1) : file[i].kind \in Headed}
<1>1. IsFiniteSet(1..n)
  BY FS_Interval
<1>2. IsFiniteSet(Before)
  BY <1>1, FS_Subset
<1>3. Cardinality(Before) \in Nat
  BY <1>2, FS_CardinalityType
<1>4. CASE file[n + 1].kind \in Headed
  <2>1. After = Before \cup {n + 1} /\ n + 1 \notin Before
    BY <1>4
  <2>2. Cardinality(After) = Cardinality(Before) + 1
    BY <2>1, <1>2, FS_AddElement
  <2> QED
    BY <2>2, <1>3, <1>4 DEF BytesOf
<1>5. CASE file[n + 1].kind \notin Headed
  <2>1. After = Before
    BY <1>5
  <2>2. Cardinality(After) = Cardinality(Before)
    BY <2>1
  <2> QED
    BY <2>2, <1>3, <1>5 DEF BytesOf
<1> QED
  BY <1>4, <1>5

LEMMA BytesOfPrefix ==
  ASSUME NEW f, NEW g, NEW n \in Nat, \A i \in 1..n : f[i] = g[i]
  PROVE  BytesOf(f, n) = BytesOf(g, n)
<1>1. {i \in 1..n : f[i].kind \in Headed} = {i \in 1..n : g[i].kind \in Headed}
  OBVIOUS
<1> QED
  BY <1>1 DEF BytesOf

LEMMA BytesOfGrows ==
  ASSUME NEW file, NEW m \in Nat, NEW n \in Nat, m < n
  PROVE  BytesOf(file, m) < BytesOf(file, n)
<1> DEFINE First == {i \in 1..m : file[i].kind \in Headed}
           All == {i \in 1..n : file[i].kind \in Headed}
<1>1. IsFiniteSet(1..n)
  BY FS_Interval
<1>2. IsFiniteSet(All) /\ First \subseteq All
  BY <1>1, FS_Subset
<1>3. IsFiniteSet(First) /\ Cardinality(First) <= Cardinality(All)
  BY <1>2, FS_Subset
<1>4. Cardinality(First) \in Nat /\ Cardinality(All) \in Nat
  BY <1>2, <1>3, FS_CardinalityType
<1> QED
  BY <1>3, <1>4 DEF BytesOf

\* No two records begin at the same byte.
LEMMA RecordFound ==
  ASSUME NEW file, Len(file) \in Nat, NEW i \in 1..Len(file)
  PROVE  RecordAt(file, BytesOf(file, i - 1)) = i
<1> DEFINE at == {j \in 1..Len(file) : BytesOf(file, j - 1) = BytesOf(file, i - 1)}
<1>1. ASSUME NEW j \in at
      PROVE  j = i
  <2>1. BytesOf(file, j - 1) \in Nat /\ BytesOf(file, i - 1) \in Nat
    BY BytesOfNext
  <2>2. ~(j - 1 < i - 1)
    BY <2>1, <1>1, BytesOfGrows
  <2>3. ~(i - 1 < j - 1)
    BY <2>1, <1>1, BytesOfGrows
  <2> QED
    BY <2>2, <2>3
<1>2. at = {i}
  BY <1>1
<1> QED
  BY <1>2 DEF RecordAt

LEMMA CentralsCounted ==
  ASSUME NEW file, NEW n \in Nat, NEW b \in 0..n,
         \A i \in 1..n : file[i].kind = "central" <=> i > b
  PROVE  Cardinality({i \in 1..n : file[i].kind = "central"}) = n - b
<1>1. {i \in 1..n : file[i].kind = "central"} = (b + 1)..n
  OBVIOUS
<1>2. b + 1 \in Int /\ n \in Int
  OBVIOUS
<1>3. Cardinality((b + 1)..n) = IF b + 1 > n THEN 0 ELSE n - (b + 1) + 1
  BY ONLY <1>2, FS_Interval
<1>4. (IF b + 1 > n THEN 0 ELSE n - (b + 1) + 1) = n - b
  OBVIOUS
<1>5. Cardinality({i \in 1..n : file[i].kind = "central"}) = Cardinality((b + 1)..n)
  BY <1>1
<1> QED
  BY <1>3, <1>4, <1>5

-------------------------------------------------------------------------------
(* What is written and where (ZipArchive).                                     *)

Centrals == [kind : {"central"}, name : Names, crc : Bodies, size : Nat, offset : Int]
Records == [kind : {"local"}, name : Names] \cup [kind : {"word"}, word : Words]
           \cup [kind : {"descriptor"}, crc : Bodies, size : Nat] \cup Centrals
           \cup [kind : {"end"}, count : Nat, size : Int, offset : Int]

\* The entries are taken in order, each once.
EntriesAreTaken ==
    /\ given \in Seq(Entries)
    /\ \A i, j \in 1..Len(given) : given[i].name = given[j].name => i = j
    /\ out \in Seq(Records) /\ directory \in Seq(Centrals) /\ body \in Seq(Words)
    /\ stage \in {"entry", "body", "directory", "closed", "cut"}
    /\ todo \in Seq(Entries) /\ Len(directory) + Len(todo) = Len(given)
    /\ \A k \in 1..Len(todo) : todo[k] = given[Len(directory) + k]

\* A file starts with what was written of it before.
Grown(earlier, file) ==
    /\ Len(earlier) <= Len(file)
    /\ \A i \in 1..Len(earlier) : file[i] = earlier[i]
    /\ \A n \in 0..Len(earlier) : BytesOf(file, n) = BytesOf(earlier, n)

\* Behind the local header of an entry, record i, are the first n words of its body.
Begun(file, i, entry, n) ==
    /\ i + n <= Len(file)
    /\ file[i] = [kind |-> "local", name |-> entry.name]
    /\ \A j \in 1..n : file[i + j] = [kind |-> "word", word |-> entry.body[j]]

\* A record of the directory says what an entry is and where it begins.
Listed(file, record, entry) ==
    /\ record = [kind |-> "central", name |-> entry.name, crc |-> entry.body,
                 size |-> Len(entry.body), offset |-> record.offset]
    /\ \E i \in 1..Len(file) : /\ BytesOf(file, i - 1) = record.offset
                               /\ Begun(file, i, entry, Len(entry.body))

\* The entry under way has its first words behind its header, and nothing else.
Underway(file, i, entry, left) ==
    LET n == Len(file) - i
    IN  /\ Begun(file, i, entry, n)
        /\ n + Len(left) = Len(entry.body)
        /\ \A j \in 1..Len(left) : left[j] = entry.body[n + j]
        /\ Length(file) = BytesOf(file, i - 1) + 2 + n

\* Behind record b are the first n records of the directory, and none before.
DirectoryFrom(file, records, b, n) ==
    /\ b + n <= Len(file) /\ n <= Len(records)
    /\ \A i \in 1..b : file[i].kind # "central"
    /\ \A k \in 1..n : file[b + k] = records[k]
    /\ BytesOf(file, b + n) = BytesOf(file, b) + 2 * n

Ended(file, records, b) ==
    /\ Len(file) = b + Len(records) + 1
    /\ DirectoryFrom(file, records, b, Len(records))
    /\ file[Len(file)] = [kind |-> "end", count |-> Len(records), size |-> 2 * Len(records),
                          offset |-> BytesOf(file, b)]

EntriesAreListed ==
    /\ Length(directory) = 2 * Len(directory)
    /\ \A k \in 1..Len(directory) : Listed(out, directory[k], given[k])

ZipInvariant ==
    /\ EntriesAreTaken
    /\ EntriesAreListed
    /\ stage = "body" => /\ todo # <<>>
                         /\ \E i \in 1..Len(out) : Underway(out, i, given[Len(directory) + 1], body)
    /\ stage \in {"entry", "body"} => \A i \in 1..Len(out) : out[i].kind # "central"
    /\ stage \in {"directory", "closed"} => todo = <<>>
    /\ stage = "directory" => \E b \in 0..Len(out) : DirectoryFrom(out, directory, b, Len(out) - b)
    /\ stage = "closed" => \E b \in 0..Len(out) : Ended(out, directory, b)
    /\ stage # "closed" => \A i \in 1..Len(out) : out[i].kind # "end"

LEMMA EntryKnown ==
  ASSUME ZipAssumption, NEW entry \in Entries
  PROVE  /\ entry.name \in Names /\ entry.body \in Bodies
         /\ entry.body \in Seq(Words) /\ Len(entry.body) \in Nat
<1>1. entry.name \in Names /\ entry.body \in Bodies
  BY DEF Entries
<1>2. PICK n \in 0..MaxBody : entry.body \in [1..n -> Words]
  BY <1>1 DEF Bodies
<1>3. n \in Nat
  BY <1>2 DEF ZipAssumption
<1>4. entry.body \in Seq(Words)
  BY <1>2, <1>3
<1> QED
  BY <1>1, <1>4

LEMMA BegunStays ==
  ASSUME NEW earlier \in Seq(Records), NEW file \in Seq(Records), Grown(earlier, file),
         NEW i \in 1..Len(earlier), NEW entry, NEW n \in Nat, Begun(earlier, i, entry, n)
  PROVE  Begun(file, i, entry, n)
<1>1. \A j \in 0..n : i + j \in 1..Len(earlier)
  BY DEF Begun
<1>2. \A j \in 0..n : file[i + j] = earlier[i + j]
  BY <1>1 DEF Grown
<1>3. file[i] = earlier[i]
  BY DEF Grown
<1>4. i + n <= Len(file)
  BY DEF Begun, Grown
<1>5. ASSUME NEW j \in 1..n
      PROVE  file[i + j] = [kind |-> "word", word |-> entry.body[j]]
  <2>0. j \in 0..n
    OBVIOUS
  <2>1. file[i + j] = earlier[i + j]
    BY <1>2, <2>0
  <2> QED
    BY <2>1 DEF Begun
<1>6. file[i] = [kind |-> "local", name |-> entry.name]
  BY <1>3 DEF Begun
<1> QED
  BY <1>4, <1>5, <1>6 DEF Begun

LEMMA ListedStays ==
  ASSUME ZipAssumption, NEW earlier \in Seq(Records), NEW file \in Seq(Records),
         Grown(earlier, file), NEW record, NEW entry \in Entries, Listed(earlier, record, entry)
  PROVE  Listed(file, record, entry)
<1>1. Len(entry.body) \in Nat
  BY EntryKnown
<1>2. PICK i \in 1..Len(earlier) : /\ BytesOf(earlier, i - 1) = record.offset
                                  /\ Begun(earlier, i, entry, Len(entry.body))
  BY DEF Listed
<1>3. Begun(file, i, entry, Len(entry.body))
  BY <1>1, <1>2, BegunStays
<1>4. i \in 1..Len(file) /\ BytesOf(file, i - 1) = record.offset
  BY <1>2 DEF Grown
<1> QED
  BY <1>3, <1>4 DEF Listed

\* What one record more does to a file.
LEMMA Written ==
  ASSUME NEW earlier \in Seq(Records), NEW r \in Records
  PROVE  /\ Append(earlier, r) \in Seq(Records)
         /\ Len(Append(earlier, r)) = Len(earlier) + 1
         /\ Append(earlier, r)[Len(earlier) + 1] = r
         /\ Grown(earlier, Append(earlier, r))
         /\ Length(earlier) \in Nat
         /\ Length(Append(earlier, r)) =
              Length(earlier) + (IF r.kind \in Headed THEN 2 ELSE 1)
<1> DEFINE file == Append(earlier, r)
           n == Len(earlier)
<1>1. n \in Nat /\ file \in Seq(Records) /\ Len(file) = n + 1 /\ file[n + 1] = r
  OBVIOUS
<1>2. \A i \in 1..n : file[i] = earlier[i]
  OBVIOUS
<1> HIDE DEF file, n
<1>3. \A m \in 0..n : BytesOf(file, m) = BytesOf(earlier, m)
  <2> TAKE m \in 0..n
  <2>1. m \in Nat /\ \A i \in 1..m : file[i] = earlier[i]
    BY <1>1, <1>2
  <2> QED
    BY <2>1, BytesOfPrefix
<1>4. BytesOf(file, n + 1) = BytesOf(file, n) + (IF r.kind \in Headed THEN 2 ELSE 1)
  BY <1>1, BytesOfNext
<1>5. BytesOf(earlier, n) \in Nat /\ BytesOf(file, n) = BytesOf(earlier, n)
  BY <1>1, <1>3, BytesOfNext
<1>6. Length(file) = BytesOf(file, n + 1) /\ Length(earlier) = BytesOf(earlier, n)
  BY <1>1 DEF Length, n
<1>7. Grown(earlier, file)
  BY <1>1, <1>2, <1>3 DEF Grown, n
<1> QED
  BY <1>1, <1>4, <1>5, <1>6, <1>7 DEF file, n

LEMMA Emitted ==
  ASSUME EntriesAreTaken, NEW r \in Records, NEW s, Emit(r, s)
  PROVE  /\ out' \in Seq(Records) /\ Grown(out, out')
         /\ \/ stage' = "cut" /\ out' = out
            \/ /\ stage' = s
               /\ Len(out') = Len(out) + 1 /\ out'[Len(out) + 1] = r
               /\ Length(out') = Length(out) + (IF r.kind \in Headed THEN 2 ELSE 1)
<1>1. out \in Seq(Records)
  BY DEF EntriesAreTaken
<1>2. Grown(out, out)
  BY <1>1 DEF Grown
<1>3. CASE out' = out /\ stage' = "cut"
  BY <1>1, <1>2, <1>3
<1>4. CASE out' = Append(out, r) /\ stage' = s
  BY <1>1, <1>4, Written
<1> QED
  BY <1>3, <1>4 DEF Emit

\* A step that does not touch the directory leaves the entries listed.
LEMMA StillListed ==
  ASSUME ZipAssumption, EntriesAreTaken, EntriesAreListed, out' \in Seq(Records), Grown(out, out'),
         UNCHANGED <<given, directory>>
  PROVE  EntriesAreListed'
<1>1. out \in Seq(Records) /\ directory \in Seq(Centrals) /\ given \in Seq(Entries)
  BY DEF EntriesAreTaken
<1>2. ASSUME NEW k \in 1..Len(directory)
      PROVE  Listed(out', directory[k], given[k])
  <2>1. k \in 1..Len(given)
    BY <1>1 DEF EntriesAreTaken
  <2>2. given[k] \in Entries
    BY <1>1, <2>1
  <2>3. Listed(out, directory[k], given[k])
    BY DEF EntriesAreListed
  <2> QED
    BY <1>1, <2>2, <2>3, ListedStays
<1> QED
  BY <1>2 DEF EntriesAreListed

\* The writer may stop at any moment.
LEMMA ZipCut ==
  ASSUME ZipInvariant, stage # "closed", stage' = "cut", out' = out, body' \in Seq(Words),
         UNCHANGED <<given, todo, directory>>
  PROVE  ZipInvariant'
<1>1. EntriesAreTaken'
  BY DEF ZipInvariant, EntriesAreTaken
<1>2. EntriesAreListed'
  BY DEF ZipInvariant, EntriesAreListed
<1> QED
  BY <1>1, <1>2 DEF ZipInvariant

LEMMA ZipBegin ==
  ASSUME ZipAssumption, ZipInvariant, BeginEntry
  PROVE  ZipInvariant'
<1> USE DEF BeginEntry
<1> DEFINE entry == given[Len(directory) + 1]
           r == [kind |-> "local", name |-> entry.name]
<1>1. EntriesAreTaken /\ EntriesAreListed /\ stage = "entry" /\ todo # <<>>
  BY DEF ZipInvariant
<1>2. /\ todo \in Seq(Entries) /\ given \in Seq(Entries) /\ directory \in Seq(Centrals)
      /\ out \in Seq(Records) /\ body \in Seq(Words)
  BY <1>1 DEF EntriesAreTaken
<1>3. Head(todo) = todo[1] /\ 1 \in 1..Len(todo)
  BY <1>1, <1>2
<1>4. Head(todo) = entry /\ Len(directory) + 1 \in 1..Len(given)
  BY <1>1, <1>2, <1>3 DEF EntriesAreTaken
<1>5. entry \in Entries
  BY <1>2, <1>4
<1>6. entry.name \in Names /\ entry.body \in Seq(Words) /\ Len(entry.body) \in Nat
  BY <1>5, EntryKnown
<1>7. CASE Len(directory) >= MaxEntries
  BY <1>1, <1>2, <1>7, ZipCut
<1>8. CASE ~(Len(directory) >= MaxEntries)
  <2>1. Emit(r, "body") /\ body' = entry.body /\ UNCHANGED <<given, todo, directory>>
    BY <1>4, <1>8
  <2>2. r \in Records /\ r.kind = "local" /\ (IF r.kind \in Headed THEN 2 ELSE 1) = 2
    BY <1>6 DEF Records, Headed
  <2> HIDE DEF entry, r
  <2>3. /\ out' \in Seq(Records) /\ Grown(out, out')
        /\ \/ stage' = "cut" /\ out' = out
           \/ /\ stage' = "body"
              /\ Len(out') = Len(out) + 1 /\ out'[Len(out) + 1] = r
              /\ Length(out') = Length(out) + 2
    BY <1>1, <2>1, <2>2, Emitted
  <2>4. CASE stage' = "cut" /\ out' = out
    BY <1>1, <1>6, <2>1, <2>4, ZipCut
  <2>5. CASE /\ stage' = "body"
             /\ Len(out') = Len(out) + 1 /\ out'[Len(out) + 1] = r
             /\ Length(out') = Length(out) + 2
    <3> DEFINE i == Len(out) + 1
    <3>1. EntriesAreTaken'
      BY <1>1, <1>6, <2>1, <2>3, <2>5 DEF EntriesAreTaken
    <3>2. EntriesAreListed'
      BY <1>1, <2>1, <2>3, StillListed
    <3>3. i \in 1..Len(out') /\ Len(out') - i = 0 /\ BytesOf(out', i - 1) = Length(out)
      BY <1>2, <2>3, <2>5 DEF Grown, Length
    <3>4. Begun(out', i, entry, 0)
      BY <1>2, <2>5 DEF Begun, r
    <3>5. Underway(out', i, entry, body')
      <4>1. 0 + Len(body') = Len(entry.body) /\ \A j \in 1..Len(body') : body'[j] = entry.body[0 + j]
        BY <1>6, <2>1
      <4>2. BytesOf(out', i - 1) \in Nat
        BY <1>2, <3>3, Written, BytesOfNext
      <4>3. Length(out') = BytesOf(out', i - 1) + 2 + 0
        BY <2>5, <3>3, <4>2
      <4> HIDE DEF i
      <4> QED
        BY <3>3, <3>4, <4>1, <4>3 DEF Underway
    <3>6. entry = given'[Len(directory') + 1]
      BY <2>1 DEF entry
    <3>7. \A j \in 1..Len(out') : out'[j].kind # "central" /\ out'[j].kind # "end"
      <4> TAKE j \in 1..Len(out')
      <4>1. j \in 1..Len(out) \/ j = Len(out) + 1
        BY <1>2, <2>5
      <4>2. j \in 1..Len(out) => out'[j] = out[j]
        BY <2>3 DEF Grown
      <4> QED
        BY <1>1, <2>2, <2>5, <4>1, <4>2 DEF ZipInvariant
    <3> HIDE DEF i
    <3> QED
      BY <1>1, <2>1, <2>5, <3>1, <3>2, <3>3, <3>5, <3>6, <3>7 DEF ZipInvariant
  <2> QED
    BY <2>3, <2>4, <2>5
<1> QED
  BY <1>7, <1>8

LEMMA ZipBody ==
  ASSUME ZipAssumption, ZipInvariant, EmitBody
  PROVE  ZipInvariant'
<1> USE DEF EmitBody
<1> DEFINE entry == given[Len(directory) + 1]
           r == [kind |-> "word", word |-> Head(body)]
<1>1. EntriesAreTaken /\ EntriesAreListed /\ stage = "body" /\ body # <<>> /\ todo # <<>>
  BY DEF ZipInvariant
<1>2. /\ todo \in Seq(Entries) /\ given \in Seq(Entries) /\ directory \in Seq(Centrals)
      /\ out \in Seq(Records) /\ body \in Seq(Words)
  BY <1>1 DEF EntriesAreTaken
<1>3. /\ Head(body) = body[1] /\ Head(body) \in Words /\ body' \in Seq(Words)
      /\ Len(body') = Len(body) - 1 /\ \A j \in 1..Len(body') : body'[j] = body[j + 1]
      /\ Len(body) \in Nat /\ Len(body) >= 1
  BY <1>1, <1>2
<1>4. PICK i \in 1..Len(out) : Underway(out, i, entry, body)
  BY <1>1 DEF ZipInvariant
<1>5. Emit(r, "body") /\ UNCHANGED <<given, todo, directory>>
  OBVIOUS
<1>6. r \in Records /\ r.kind = "word" /\ r.word = body[1]
      /\ (IF r.kind \in Headed THEN 2 ELSE 1) = 1
  BY <1>3 DEF Records, Headed
<1> HIDE DEF r
<1>7. /\ out' \in Seq(Records) /\ Grown(out, out')
      /\ \/ stage' = "cut" /\ out' = out
         \/ /\ stage' = "body"
            /\ Len(out') = Len(out) + 1 /\ out'[Len(out) + 1] = r
            /\ Length(out') = Length(out) + 1
  BY <1>1, <1>5, <1>6, Emitted
<1>8. CASE stage' = "cut" /\ out' = out
  BY <1>1, <1>3, <1>5, <1>8, ZipCut
<1>9. CASE /\ stage' = "body"
           /\ Len(out') = Len(out) + 1 /\ out'[Len(out) + 1] = r
           /\ Length(out') = Length(out) + 1
  <2> DEFINE n == Len(out) - i
  <2>1. EntriesAreTaken'
    BY <1>1, <1>3, <1>5, <1>7, <1>9 DEF EntriesAreTaken
  <2>2. EntriesAreListed'
    BY <1>1, <1>5, <1>7, StillListed
  <2>3. /\ n \in Nat /\ i + n = Len(out) /\ Len(out') - i = n + 1 /\ i \in 1..Len(out')
        /\ i \in Nat /\ Len(out) \in Nat /\ i - 1 \in Nat /\ i - 1 \in 0..Len(out)
    BY <1>2, <1>9
  <2>4. /\ Begun(out, i, entry, n) /\ n + Len(body) = Len(entry.body)
        /\ \A j \in 1..Len(body) : body[j] = entry.body[n + j]
        /\ Length(out) = BytesOf(out, i - 1) + 2 + n
    BY <1>4 DEF Underway
  <2>5. r = [kind |-> "word", word |-> entry.body[n + 1]]
    <3>1. 1 \in 1..Len(body)
      BY <1>3
    <3>2. Head(body) = entry.body[n + 1]
      BY <1>3, <2>4, <3>1
    <3> QED
      BY <3>2 DEF r
  <2> HIDE DEF n, entry
  <2>6. Begun(out', i, entry, n)
    BY <1>2, <1>7, <2>3, <2>4, BegunStays
  <2>7. Begun(out', i, entry, n + 1)
    <3>1. \A j \in 1..(n + 1) : j \in 1..n \/ j = n + 1
      BY <2>3
    <3>2. out'[i + (n + 1)] = r
      <4>1. i + (n + 1) = Len(out) + 1
        BY <2>3
      <4> QED
        BY <1>9, <4>1
    <3>3. i + (n + 1) <= Len(out')
      BY <1>2, <1>9, <2>3
    <3> QED
      BY <2>5, <2>6, <3>1, <3>2, <3>3 DEF Begun
  <2>8. BytesOf(out', i - 1) = BytesOf(out, i - 1) /\ BytesOf(out, i - 1) \in Nat
    BY <1>7, <2>3, BytesOfNext DEF Grown
  <2>9. \A j \in 1..Len(body') : body'[j] = entry.body[(n + 1) + j]
    <3> TAKE j \in 1..Len(body')
    <3>1. j + 1 \in 1..Len(body) /\ n + (j + 1) = (n + 1) + j
      BY <1>3, <2>3
    <3> QED
      BY <1>3, <2>4, <3>1
  <2>10. Underway(out', i, entry, body')
    <3>1. n + 1 + Len(body') = Len(entry.body)
      BY <1>3, <2>3, <2>4
    <3>2. Length(out') = BytesOf(out', i - 1) + 2 + (n + 1)
      BY <1>9, <2>3, <2>4, <2>8
    <3> QED
      BY <2>3, <2>7, <2>9, <3>1, <3>2 DEF Underway
  <2>11. entry = given'[Len(directory') + 1]
    BY <1>5 DEF entry
  <2>12. \A j \in 1..Len(out') : out'[j].kind # "central" /\ out'[j].kind # "end"
    <3> TAKE j \in 1..Len(out')
    <3>0. Len(out') = Len(out) + 1
      BY <1>9
    <3>1. j \in 1..Len(out) \/ j = Len(out) + 1
      BY <2>3, <3>0
    <3>2. j \in 1..Len(out) => out'[j] = out[j]
      BY <1>7 DEF Grown
    <3> QED
      BY <1>1, <1>6, <1>9, <3>1, <3>2 DEF ZipInvariant
  <2> QED
    BY <1>1, <1>5, <1>9, <2>1, <2>2, <2>3, <2>10, <2>11, <2>12 DEF ZipInvariant
<1> QED
  BY <1>7, <1>8, <1>9

LEMMA ZipEnd ==
  ASSUME ZipAssumption, ZipInvariant, EndEntry
  PROVE  ZipInvariant'
<1> DEFINE entry == given[Len(directory) + 1]
           size == Len(entry.body)
           r == [kind |-> "descriptor", crc |-> entry.body, size |-> size]
           record == [kind |-> "central", name |-> entry.name, crc |-> entry.body, size |-> size,
                      offset |-> Length(out) - size - 2]
<1>1. EntriesAreTaken /\ EntriesAreListed /\ stage = "body" /\ body = <<>> /\ todo # <<>>
  BY DEF ZipInvariant, EndEntry
<1>2. /\ todo \in Seq(Entries) /\ given \in Seq(Entries) /\ directory \in Seq(Centrals)
      /\ out \in Seq(Records) /\ body \in Seq(Words)
  BY <1>1 DEF EntriesAreTaken
<1>3. Head(todo) = todo[1] /\ 1 \in 1..Len(todo)
  BY <1>1, <1>2
<1>4. Head(todo) = entry /\ Len(directory) + 1 \in 1..Len(given)
  BY <1>1, <1>2, <1>3 DEF EntriesAreTaken
<1>5. entry \in Entries
  BY <1>2, <1>4
<1>6. /\ entry.name \in Names /\ entry.body \in Bodies
      /\ entry.body \in Seq(Words) /\ Len(entry.body) \in Nat
  BY <1>5, EntryKnown
<1>7. /\ Emit(r, "entry") /\ directory' = Append(directory, record) /\ todo' = Tail(todo)
      /\ UNCHANGED <<given, body>>
  BY <1>4 DEF EndEntry
<1>8. PICK i \in 1..Len(out) : Underway(out, i, entry, body)
  BY <1>1 DEF ZipInvariant
<1> HIDE DEF entry
<1>9. r \in Records /\ r.kind = "descriptor"
  BY <1>6 DEF Records
<1>10. Length(out) \in Int
  BY <1>2, <1>9, Written
<1>11. /\ record \in Centrals /\ record.kind = "central" /\ record.kind \in Headed
       /\ record.offset = Length(out) - size - 2
       /\ record = [kind |-> "central", name |-> entry.name, crc |-> entry.body,
                    size |-> Len(entry.body), offset |-> record.offset]
  BY <1>6, <1>10 DEF Centrals, Headed
<1> HIDE DEF r, record
<1>12. /\ out' \in Seq(Records) /\ Grown(out, out')
       /\ \/ stage' = "cut" /\ out' = out
          \/ stage' = "entry" /\ Len(out') = Len(out) + 1 /\ out'[Len(out) + 1] = r
  BY <1>1, <1>7, <1>9, Emitted
<1>13. /\ Len(directory) \in Nat /\ Len(directory') = Len(directory) + 1
       /\ directory'[Len(directory) + 1] = record
       /\ directory' \in Seq(Centrals)
       /\ \A k \in 1..Len(directory) : directory'[k] = directory[k]
  <2>1. directory \in Seq(Centrals) /\ record \in Centrals
    BY <1>2, <1>11
  <2>2. directory' = Append(directory, record)
    BY <1>7
  <2> QED
    BY ONLY <2>1, <2>2, AppendProperties
<1>14. EntriesAreTaken'
  <2>1. /\ todo' \in Seq(Entries) /\ Len(todo') = Len(todo) - 1 /\ Len(todo) \in Nat
        /\ \A k \in 1..Len(todo') : todo'[k] = todo[k + 1]
    BY <1>1, <1>2, <1>7
  <2>2. Len(directory') + Len(todo') = Len(given')
    BY <1>1, <1>7, <1>13, <2>1 DEF EntriesAreTaken
  <2>3. ASSUME NEW k \in 1..Len(todo')
        PROVE  todo'[k] = given'[Len(directory') + k]
    <3>1. k + 1 \in 1..Len(todo) /\ Len(directory) + (k + 1) = Len(directory') + k
      BY <1>13, <2>1
    <3>2. todo[k + 1] = given[Len(directory) + (k + 1)]
      BY <1>1, <3>1 DEF EntriesAreTaken
    <3> QED
      BY <1>7, <2>1, <3>1, <3>2
  <2>4. stage' \in {"entry", "body", "directory", "closed", "cut"}
    BY <1>12
  <2> QED
    BY <1>1, <1>7, <1>12, <1>13, <2>1, <2>2, <2>3, <2>4 DEF EntriesAreTaken
<1>15. Listed(out', record, entry)
  <2> DEFINE n == Len(out) - i
  <2>1. /\ Begun(out, i, entry, n) /\ n + Len(body) = Len(entry.body)
        /\ Length(out) = BytesOf(out, i - 1) + 2 + n
    BY <1>8 DEF Underway
  <2>2. /\ i \in Nat /\ i - 1 \in Nat /\ i - 1 \in 0..Len(out) /\ n \in Nat /\ i \in 1..Len(out)
        /\ Len(body) = 0
    BY <1>1, <1>2
  <2> HIDE DEF n
  <2>3. n = size
    BY <1>6, <2>1, <2>2
  <2>4. BytesOf(out, i - 1) = record.offset
    <3>1. BytesOf(out, i - 1) \in Nat
      BY <2>2, BytesOfNext
    <3>2. size \in Nat /\ Length(out) = BytesOf(out, i - 1) + 2 + size
      BY <1>6, <2>1, <2>3
    <3>3. record.offset = Length(out) - size - 2
      BY <1>11
    <3> HIDE DEF size
    <3> QED
      BY <3>1, <3>2, <3>3
  <2>5. Listed(out, record, entry)
    BY <1>11, <2>1, <2>2, <2>3, <2>4 DEF Listed
  <2> QED
    BY <1>2, <1>5, <1>12, <2>5, ListedStays
<1>16. EntriesAreListed'
  <2>1. Length(directory') = Length(directory) + 2
    <3>1. \A k \in 1..Len(directory) : directory[k] = directory'[k]
      BY <1>13
    <3>2. BytesOf(directory, Len(directory)) = BytesOf(directory', Len(directory))
      BY <1>13, <3>1, BytesOfPrefix
    <3>3. BytesOf(directory', Len(directory) + 1) = BytesOf(directory', Len(directory)) + 2
      BY <1>11, <1>13, BytesOfNext
    <3> QED
      BY <1>13, <3>2, <3>3 DEF Length
  <2>2. Length(directory') = 2 * Len(directory')
    BY <1>1, <1>13, <2>1 DEF EntriesAreListed
  <2>3. ASSUME NEW k \in 1..Len(directory')
        PROVE  Listed(out', directory'[k], given'[k])
    <3>1. CASE k = Len(directory) + 1
      BY <1>7, <1>13, <1>15, <3>1 DEF entry
    <3>2. CASE k \in 1..Len(directory)
      <4>1. k \in 1..Len(given)
        BY <1>1, <1>2, <3>2 DEF EntriesAreTaken
      <4>2. given[k] \in Entries
        BY <1>2, <4>1
      <4>3. Listed(out, directory[k], given[k])
        BY <1>1, <3>2 DEF EntriesAreListed
      <4>4. Listed(out', directory[k], given[k])
        BY <1>2, <1>12, <4>2, <4>3, ListedStays
      <4> QED
        BY <1>7, <1>13, <3>2, <4>4
    <3> QED
      BY <1>13, <3>1, <3>2
  <2> QED
    BY <2>2, <2>3 DEF EntriesAreListed
<1>17. \A j \in 1..Len(out') : out'[j].kind # "central" /\ out'[j].kind # "end"
  <2> TAKE j \in 1..Len(out')
  <2>0. Len(out) \in Nat /\ (Len(out') = Len(out) \/ Len(out') = Len(out) + 1)
    BY <1>2, <1>12
  <2>1. j \in 1..Len(out) \/ (j = Len(out) + 1 /\ Len(out') # Len(out))
    BY <2>0
  <2>2. j \in 1..Len(out) => out'[j] = out[j]
    BY <1>12 DEF Grown
  <2> QED
    BY <1>1, <1>9, <1>12, <2>1, <2>2 DEF ZipInvariant
<1> QED
  BY <1>12, <1>14, <1>16, <1>17 DEF ZipInvariant

LEMMA ZipDirectory ==
  ASSUME ZipAssumption, ZipInvariant, EmitDirectory
  PROVE  ZipInvariant'
<1> DEFINE written == Cardinality({i \in 1..Len(out) : out[i].kind = "central"})
           n == Len(directory)
<1>1. EntriesAreTaken /\ EntriesAreListed /\ stage \in {"entry", "directory"} /\ todo = <<>>
  BY DEF ZipInvariant, EmitDirectory
<1>2. /\ given \in Seq(Entries) /\ directory \in Seq(Centrals)
      /\ out \in Seq(Records) /\ body \in Seq(Words) /\ n \in Nat /\ Len(out) \in Nat
  BY <1>1 DEF EntriesAreTaken
<1>3. UNCHANGED <<given, todo, body, directory>>
  BY DEF EmitDirectory
<1>4. \A i \in 1..Len(out) : out[i].kind # "end"
  BY <1>1 DEF ZipInvariant
<1>5. \A k \in 1..n : directory[k] \in Centrals /\ directory[k].kind = "central"
  <2> TAKE k \in 1..n
  <2>1. directory[k] \in Centrals
    BY <1>2
  <2> QED
    BY <2>1 DEF Centrals
<1>6. \E b \in 0..Len(out) : DirectoryFrom(out, directory, b, Len(out) - b)
  <2>1. CASE stage = "entry"
    <3>1. Len(out) + 0 = Len(out) /\ BytesOf(out, Len(out)) \in Nat
      BY <1>2, BytesOfNext
    <3>2. \A i \in 1..Len(out) : out[i].kind # "central"
      BY <2>1 DEF ZipInvariant
    <3>3. DirectoryFrom(out, directory, Len(out), 0)
      BY <1>2, <3>1, <3>2 DEF DirectoryFrom
    <3> QED
      BY <1>2, <3>3
  <2>2. CASE stage = "directory"
    BY <2>2 DEF ZipInvariant
  <2> QED
    BY <1>1, <2>1, <2>2
<1>7. PICK b \in 0..Len(out) : DirectoryFrom(out, directory, b, Len(out) - b)
  BY <1>6
<1> DEFINE w == Len(out) - b
<1>8. /\ b \in Nat /\ w \in Nat /\ b + w = Len(out) /\ w <= n
      /\ \A i \in 1..b : out[i].kind # "central"
      /\ \A k \in 1..w : out[b + k] = directory[k]
      /\ Length(out) = BytesOf(out, b) + 2 * w
  <2>1. b \in Nat /\ w \in Nat /\ b + w = Len(out)
    BY <1>2
  <2> HIDE DEF w
  <2>2. DirectoryFrom(out, directory, b, w)
    BY <1>7 DEF w
  <2> QED
    BY <2>1, <2>2 DEF DirectoryFrom, Length
<1>9. \A i \in 1..Len(out) : out[i].kind = "central" <=> i > b
  <2> TAKE i \in 1..Len(out)
  <2>1. i > b => i - b \in 1..w /\ i - b \in 1..n /\ b + (i - b) = i
    BY <1>2, <1>8
  <2>2. i > b => out[i].kind = "central"
    BY <1>5, <1>8, <2>1
  <2>3. ~(i > b) => i \in 1..b
    BY <1>8
  <2> QED
    BY <1>8, <2>2, <2>3
<1>10. written = w
  BY <1>2, <1>9, CentralsCounted
<1>11. IF w < n THEN Emit(directory[w + 1], "directory")
       ELSE Emit([kind |-> "end", count |-> n, size |-> 2 * w, offset |-> Length(out) - 2 * w],
                 "closed")
  BY <1>10 DEF EmitDirectory
<1> HIDE DEF w, n, written
<1>12. BytesOf(out, b) \in Nat
  BY <1>8, BytesOfNext
<1>13. CASE w < n
  <2> DEFINE r == directory[w + 1]
  <2>1. w + 1 \in 1..n
    BY <1>2, <1>8, <1>13
  <2>2. r \in Records /\ r.kind = "central" /\ (IF r.kind \in Headed THEN 2 ELSE 1) = 2
    BY <1>5, <2>1 DEF Records, Headed
  <2>3. Emit(r, "directory")
    BY <1>11, <1>13
  <2> HIDE DEF r
  <2>4. /\ out' \in Seq(Records) /\ Grown(out, out')
        /\ \/ stage' = "cut" /\ out' = out
           \/ /\ stage' = "directory"
              /\ Len(out') = Len(out) + 1 /\ out'[Len(out) + 1] = r
              /\ Length(out') = Length(out) + 2
    BY <1>1, <2>2, <2>3, Emitted
  <2>5. CASE stage' = "cut" /\ out' = out
    BY <1>1, <1>2, <1>3, <2>5, ZipCut
  <2>6. CASE /\ stage' = "directory"
             /\ Len(out') = Len(out) + 1 /\ out'[Len(out) + 1] = r
             /\ Length(out') = Length(out) + 2
    <3>1. EntriesAreTaken'
      BY <1>1, <1>3, <2>4, <2>6 DEF EntriesAreTaken
    <3>2. EntriesAreListed'
      BY <1>1, <1>3, <2>4, StillListed
    <3>3. \A j \in 1..Len(out') : out'[j].kind # "end"
      <4> TAKE j \in 1..Len(out')
      <4>0. Len(out') = Len(out) + 1 /\ Len(out) \in Nat
        BY <1>2, <2>6
      <4>1. j \in 1..Len(out) \/ j = Len(out) + 1
        BY <4>0
      <4>2. j \in 1..Len(out) => out'[j] = out[j]
        BY <2>4 DEF Grown
      <4> QED
        BY <1>4, <2>2, <2>6, <4>1, <4>2
    <3>4. Len(out') = b + (w + 1) /\ Len(out') - b = w + 1 /\ b \in 0..Len(out') /\ w + 1 <= n
      <4>1. Len(out') = (b + w) + 1
        BY <1>8, <2>6
      <4> QED
        BY <1>2, <1>8, <1>13, <4>1
    <3>5. \A j \in 1..Len(out) : out'[j] = out[j]
      BY <2>4 DEF Grown
    <3>6. \A j \in 1..b : out'[j].kind # "central"
      <4>1. \A j \in 1..b : j \in 1..Len(out)
        BY <1>8
      <4> QED
        BY <1>8, <3>5, <4>1
    <3>7. \A k \in 1..(w + 1) : out'[b + k] = directory[k]
      <4> TAKE k \in 1..(w + 1)
      <4>0. b \in Nat /\ w \in Nat /\ Len(out) = b + w
        BY <1>8
      <4>1. (k \in 1..w /\ b + k \in 1..Len(out)) \/ (k = w + 1 /\ b + k = Len(out) + 1)
        BY ONLY <4>0, k \in 1..(w + 1)
      <4> QED
        BY <1>8, <2>6, <3>5, <4>1 DEF r
    <3>8. BytesOf(out', b + (w + 1)) = BytesOf(out', b) + 2 * (w + 1)
      <4>1. BytesOf(out', b + (w + 1)) = Length(out) + 2
        BY <2>6, <3>4 DEF Length
      <4>2. BytesOf(out', b) = BytesOf(out, b)
        BY <2>4 DEF Grown
      <4> QED
        BY <1>8, <1>12, <4>1, <4>2
    <3>9. DirectoryFrom(out', directory, b, w + 1)
      <4>1. b + (w + 1) <= Len(out') /\ w + 1 <= Len(directory)
        BY <1>2, <1>8, <3>4 DEF n
      <4> QED
        BY <3>6, <3>7, <3>8, <4>1 DEF DirectoryFrom
    <3> QED
      BY <1>1, <1>3, <2>6, <3>1, <3>2, <3>3, <3>4, <3>9 DEF ZipInvariant
  <2> QED
    BY <2>4, <2>5, <2>6
<1>14. CASE ~(w < n)
  <2> DEFINE r == [kind |-> "end", count |-> n, size |-> 2 * w, offset |-> Length(out) - 2 * w]
  <2>1. w = n /\ 2 * w \in Int /\ Length(out) - 2 * w = BytesOf(out, b)
    BY <1>2, <1>8, <1>12, <1>14
  <2>2. r = [kind |-> "end", count |-> n, size |-> 2 * n, offset |-> BytesOf(out, b)]
    BY <2>1
  <2>3. r \in Records
    BY <1>2, <1>12, <2>1, <2>2 DEF Records
  <2>4. Emit(r, "closed")
    BY <1>11, <1>14
  <2> HIDE DEF r
  <2>5. /\ out' \in Seq(Records) /\ Grown(out, out')
        /\ \/ stage' = "cut" /\ out' = out
           \/ stage' = "closed" /\ Len(out') = Len(out) + 1 /\ out'[Len(out) + 1] = r
    BY <1>1, <2>3, <2>4, Emitted
  <2>6. CASE stage' = "cut" /\ out' = out
    BY <1>1, <1>2, <1>3, <2>6, ZipCut
  <2>7. CASE stage' = "closed" /\ Len(out') = Len(out) + 1 /\ out'[Len(out) + 1] = r
    <3>1. EntriesAreTaken'
      BY <1>1, <1>3, <2>5, <2>7 DEF EntriesAreTaken
    <3>2. EntriesAreListed'
      BY <1>1, <1>3, <2>5, StillListed
    <3>3. Len(out') = b + n + 1 /\ b + n = Len(out) /\ b \in 0..Len(out')
      BY <1>2, <1>8, <2>1, <2>7
    <3>4. \A j \in 1..Len(out) : out'[j] = out[j]
      BY <2>5 DEF Grown
    <3>5. \A j \in 1..b : out'[j].kind # "central"
      <4>1. \A j \in 1..b : j \in 1..Len(out)
        BY <1>8
      <4> QED
        BY <1>8, <3>4, <4>1
    <3>6. \A k \in 1..n : out'[b + k] = directory[k]
      <4> TAKE k \in 1..n
      <4>1. k \in 1..w /\ b + k \in 1..Len(out)
        BY <1>8, <2>1
      <4> QED
        BY <1>8, <3>4, <4>1
    <3>7. BytesOf(out', b) = BytesOf(out, b) /\ BytesOf(out', b + n) = Length(out)
      BY <1>2, <2>5, <3>3 DEF Grown, Length
    <3>8. DirectoryFrom(out', directory, b, n)
      <4>1. BytesOf(out', b + n) = BytesOf(out', b) + 2 * n
        BY <1>8, <2>1, <3>7
      <4>2. b + n <= Len(out') /\ n <= Len(directory)
        BY <1>2, <1>8, <3>3 DEF n
      <4> QED
        BY <3>5, <3>6, <4>1, <4>2 DEF DirectoryFrom
    <3>9. Ended(out', directory, b)
      <4>1. out'[Len(out')] = [kind |-> "end", count |-> n, size |-> 2 * n,
                               offset |-> BytesOf(out', b)]
        BY <2>2, <2>7, <3>7
      <4> QED
        BY <3>3, <3>8, <4>1 DEF Ended, n
    <3> QED
      BY <1>1, <1>3, <2>7, <3>1, <3>2, <3>3, <3>9 DEF ZipInvariant
  <2> QED
    BY <2>5, <2>6, <2>7
<1> QED
  BY <1>13, <1>14

-------------------------------------------------------------------------------
(* What is read back (ZipArchive).                                             *)

LEMMA Between ==
  ASSUME NEW s \in Seq(Records), NEW m \in Nat, NEW n \in Nat, m + n <= Len(s)
  PROVE  SubSeq(s, m + 1, m + n) = [j \in 1..n |-> s[m + j]]
<1> DEFINE part == SubSeq(s, m + 1, m + n)
<1>1. \A i \in (m + 1)..(m + n) : s[i] \in Records
  OBVIOUS
<1>2. m + 1 \in Int /\ m + n \in Int
  OBVIOUS
<1>3. /\ part \in Seq(Records)
      /\ Len(part) = IF m + 1 <= m + n THEN (m + n) - (m + 1) + 1 ELSE 0
      /\ \A i \in 1..((m + n) - (m + 1) + 1) : part[i] = s[(m + 1) + i - 1]
  BY ONLY <1>1, <1>2, SubSeqProperties, SMTT(60)
<1> HIDE DEF part
<1>4. (m + n) - (m + 1) + 1 = n /\ (IF m + 1 <= m + n THEN (m + n) - (m + 1) + 1 ELSE 0) = n
  OBVIOUS
<1>5. \A i \in 1..n : (m + 1) + i - 1 = m + i
  OBVIOUS
<1>6. part \in Seq(Records) /\ Len(part) = n /\ \A i \in 1..n : part[i] = s[m + i]
  BY <1>3, <1>4, <1>5
<1>7. part = [j \in 1..n |-> part[j]]
  BY <1>6
<1>8. part = [j \in 1..n |-> s[m + j]]
  BY <1>6, <1>7
<1> QED
  BY <1>8 DEF part

\* An entry the directory lists is read as it was given.
LEMMA EntryRead ==
  ASSUME ZipAssumption, NEW file \in Seq(Records), NEW record, NEW entry \in Entries,
         Listed(file, record, entry)
  PROVE  ReadEntry(file, record) = {entry}
<1> DEFINE size == Len(entry.body)
<1>1. /\ entry.body \in Seq(Words) /\ size \in Nat
      /\ entry = [name |-> entry.name, body |-> entry.body]
  BY EntryKnown DEF Entries
<1>2. /\ record.name = entry.name /\ record.crc = entry.body /\ record.size = size
  BY DEF Listed
<1>3. PICK i \in 1..Len(file) : BytesOf(file, i - 1) = record.offset /\ Begun(file, i, entry, size)
  BY DEF Listed
<1>4. Len(file) \in Nat /\ i \in Nat /\ i # 0
  OBVIOUS
<1>5. RecordAt(file, record.offset) = i
  BY <1>3, <1>4, RecordFound
<1> DEFINE words == SubSeq(file, i + 1, i + size)
           read == [j \in DOMAIN words |-> words[j].word]
<1>6. /\ i + size <= Len(file) /\ file[i].kind = "local" /\ file[i].name = entry.name
      /\ \A j \in 1..size : file[i + j] = [kind |-> "word", word |-> entry.body[j]]
  BY <1>3 DEF Begun
<1> HIDE DEF size
<1>0. words = [j \in 1..size |-> file[i + j]]
  BY <1>1, <1>4, <1>6, Between
<1> HIDE DEF words
<1>7. DOMAIN words = 1..size /\ \A j \in 1..size : words[j] = file[i + j]
  BY <1>0
<1>8. \A j \in 1..size : words[j].kind = "word" /\ words[j].word = entry.body[j]
  <2> TAKE j \in 1..size
  <2>1. words[j] = [kind |-> "word", word |-> entry.body[j]]
    BY <1>6, <1>7
  <2> QED
    BY <2>1
<1>9. read = entry.body
  <2>1. entry.body = [j \in 1..size |-> entry.body[j]]
    BY <1>1 DEF size
  <2>2. read = [j \in 1..size |-> entry.body[j]]
    BY <1>7, <1>8
  <2> QED
    BY <2>1, <2>2
<1> HIDE DEF read
<1>10. ReadEntry(file, record) =
         IF /\ i # 0 /\ file[i].kind = "local" /\ file[i].name = record.name
            /\ \A j \in DOMAIN words : words[j].kind = "word"
            /\ read = record.crc
           THEN {[name |-> record.name, body |-> read]} ELSE Refused
  BY <1>2, <1>5 DEF ReadEntry, words, read
<1> QED
  BY <1>1, <1>2, <1>4, <1>6, <1>7, <1>8, <1>9, <1>10

\* A file that is closed ends with the whole directory.
LEMMA DirectoryEntered ==
  ASSUME ZipAssumption, ZipInvariant, stage = "closed"
  PROVE  LET end == out[Len(out)]
         IN  /\ out # <<>> /\ end.kind = "end" /\ end.count = Len(given)
             /\ end.size = Length(directory)
             /\ Entered(out, end) = directory /\ DOMAIN directory = 1..Len(given)
             /\ Len(directory) = Len(given)
<1> DEFINE end == out[Len(out)]
           n == Len(directory)
<1>1. EntriesAreTaken /\ EntriesAreListed /\ todo = <<>>
  BY DEF ZipInvariant
<1>2. /\ given \in Seq(Entries) /\ directory \in Seq(Centrals) /\ out \in Seq(Records)
      /\ n \in Nat /\ Len(out) \in Nat /\ Len(given) = n
  BY <1>1 DEF EntriesAreTaken
<1>3. PICK b \in 0..Len(out) : Ended(out, directory, b)
  BY DEF ZipInvariant
<1>4. /\ Len(out) = b + n + 1 /\ \A k \in 1..n : out[b + k] = directory[k]
      /\ end = [kind |-> "end", count |-> n, size |-> 2 * n, offset |-> BytesOf(out, b)]
  BY <1>2, <1>3 DEF Ended, DirectoryFrom
<1> HIDE DEF n
<1>5. b \in Nat /\ b + 1 \in 1..Len(out) /\ (b + 1) - 1 = b /\ b + n <= Len(out)
      /\ (b + 1) + n - 1 = b + n
  BY <1>2, <1>4
<1>6. RecordAt(out, BytesOf(out, b)) = b + 1
  BY <1>2, <1>5, RecordFound
<1>7. Entered(out, end) = SubSeq(out, b + 1, b + n)
  <2>1. end.offset = BytesOf(out, b) /\ end.count = n
    BY <1>4
  <2>2. Entered(out, end) =
          SubSeq(out, RecordAt(out, end.offset), RecordAt(out, end.offset) + end.count - 1)
    BY DEF Entered
  <2> QED
    BY <1>5, <1>6, <2>1, <2>2
<1>8. SubSeq(out, b + 1, b + n) = [k \in 1..n |-> out[b + k]]
  BY <1>2, <1>5, Between
<1>9. directory = [k \in 1..n |-> directory[k]]
  BY <1>2 DEF n
<1>10. SubSeq(out, b + 1, b + n) = [k \in 1..n |-> directory[k]]
  BY <1>4, <1>8
<1>11. Entered(out, end) = directory
  BY <1>7, <1>9, <1>10
<1>12. out # <<>> /\ DOMAIN directory = 1..Len(given)
  BY <1>2, <1>5, <1>9
<1>13. end.size = Length(directory)
  BY <1>1, <1>4 DEF EntriesAreListed, n
<1> QED
  BY <1>2, <1>4, <1>11, <1>12, <1>13 DEF n

\* Unless the whole archive is there nothing is read; and what is read was given.
LEMMA ReadFromHere ==
  ASSUME ZipAssumption, ZipInvariant
  PROVE  ReadBackIsWritten
<1> DEFINE end == out[Len(out)]
           n == Len(directory)
<1>1. EntriesAreTaken /\ EntriesAreListed
  BY DEF ZipInvariant
<1>2. /\ given \in Seq(Entries) /\ directory \in Seq(Centrals) /\ out \in Seq(Records)
      /\ n \in Nat /\ Len(given) \in Nat /\ n <= Len(given) /\ Len(out) \in Nat
      /\ DOMAIN directory = 1..n /\ DOMAIN given = 1..Len(given)
  BY <1>1 DEF EntriesAreTaken
<1>3. \A k \in 1..n : Listed(out, directory[k], given[k]) /\ given[k] \in Entries
  <2> TAKE k \in 1..n
  <2>1. k \in 1..Len(given)
    BY <1>2
  <2> QED
    BY <1>1, <1>2, <2>1 DEF EntriesAreListed
<1>4. \A k \in 1..n : ReadEntry(out, directory[k]) = {given[k]}
  BY <1>2, <1>3, EntryRead
<1>5. CASE stage # "closed"
  <2>1. out # <<>> => Len(out) \in 1..Len(out)
    BY <1>2
  <2>2. out # <<>> => end.kind # "end"
    BY <1>5, <2>1 DEF ZipInvariant
  <2>3. ReadDirectory(out) = {}
    BY <2>2 DEF ReadDirectory, Refused
  <2>4. ReadBack(out) = {}
    BY <2>3 DEF ReadBack
  <2> QED
    BY <1>5, <2>4 DEF ReadBackIsWritten, Refused
<1>6. CASE stage = "closed"
  <2>1. /\ out # <<>> /\ end.kind = "end" /\ end.count = Len(given)
        /\ end.size = Length(directory)
        /\ Entered(out, end) = directory
        /\ n = Len(given)
    BY <1>6, DirectoryEntered
  <2>2. ReadDirectory(out) = IF Coherent(out, end, directory) THEN {directory} ELSE {}
    BY <2>1 DEF ReadDirectory, Refused
  <2> HIDE DEF end, n
  <2>3. ReadDirectory(out) = {} => ReadBack(out) = {}
    BY DEF ReadBack
  <2>4. ASSUME ReadDirectory(out) = {directory}
        PROVE  ReadBack(out) = {given}
    <3> DEFINE Read == UNION {ReadEntry(out, directory[i]) : i \in DOMAIN directory}
    <3>1. ReadBack(out) = {entries \in [DOMAIN directory -> Read] :
                             \A i \in DOMAIN entries : entries[i] \in ReadEntry(out, directory[i])}
      BY <2>4 DEF ReadBack
    <3>2. \A k \in 1..n : given[k] \in Read
      BY <1>2, <1>4
    <3> HIDE DEF Read
    <3>3. given \in [1..n -> Read]
      <4>1. given = [k \in 1..n |-> given[k]]
        BY <1>2, <2>1
      <4> QED
        BY <3>2, <4>1
    <3>4. given \in ReadBack(out)
      <4>1. \A i \in 1..n : given[i] \in ReadEntry(out, directory[i])
        BY <1>4
      <4> QED
        BY <1>2, <2>1, <3>1, <3>3, <4>1
    <3>5. ASSUME NEW entries \in ReadBack(out)
          PROVE  entries = given
      <4>1. entries \in [1..n -> Read] /\ \A i \in 1..n : entries[i] \in ReadEntry(out, directory[i])
        BY <1>2, <3>1
      <4>2. \A i \in 1..n : entries[i] = given[i]
        BY <1>4, <4>1
      <4>3. entries = [i \in 1..n |-> entries[i]] /\ given = [i \in 1..n |-> given[i]]
        BY <3>3, <4>1
      <4> QED
        BY <4>2, <4>3
    <3> QED
      BY <3>4, <3>5
  <2>5. /\ ReadBack(out) \in {{}, {given}}
        /\ Coherent(out, end, directory) => ReadBack(out) = {given}
    BY <2>2, <2>3, <2>4
  <2>6. ASSUME Len(given) < MaxEntries, Length(out) <= MaxArchive,
               \A i \in DOMAIN given : Len(given[i].body) <= MaxEntry
        PROVE  Coherent(out, end, directory)
    <3>1. \A i \in 1..n : /\ directory[i].kind = "central" /\ directory[i].name = given[i].name
                          /\ directory[i].size = Len(given[i].body)
      <4> TAKE i \in 1..n
      <4>1. directory[i] = [kind |-> "central", name |-> given[i].name, crc |-> given[i].body,
                            size |-> Len(given[i].body), offset |-> directory[i].offset]
        BY <1>3 DEF Listed
      <4> QED
        BY <4>1
    <3>2. \A i, j \in 1..n : i # j => given[i].name # given[j].name
      BY <1>1, <2>1 DEF EntriesAreTaken
    <3>3. end.count # MaxEntries
      <4>1. MaxEntries \in Nat /\ Len(given) \in Nat
        BY <1>2 DEF ZipAssumption
      <4>2. Len(given) # MaxEntries
        BY ONLY <2>6, <4>1
      <4> QED
        BY <2>1, <4>2
    <3>4. \A i \in 1..n : directory[i].size <= MaxEntry
      BY <1>2, <2>1, <2>6, <3>1
    <3> QED
      <4>1. \A i, j \in 1..n : i # j => directory[i].name # directory[j].name
        BY <3>1, <3>2
      <4>2. \A i \in 1..n : directory[i].kind = "central" /\ directory[i].size <= MaxEntry
        BY <3>1, <3>4
      <4>3. Length(out) <= MaxArchive /\ end.size = Length(directory)
        BY <2>1, <2>6
      <4>4. DOMAIN directory = 1..n
        BY <1>2
      <4> QED
        BY <3>3, <4>1, <4>2, <4>3, <4>4 DEF Coherent
  <2> QED
    BY <2>5, <2>6 DEF ReadBackIsWritten, Refused
<1> QED
  BY <1>5, <1>6

LEMMA ZipBegins ==
  ASSUME ZipAssumption, ZipInit
  PROVE  ZipInvariant
<1>1. /\ todo = given /\ body = <<>> /\ out = <<>> /\ directory = <<>> /\ stage = "entry"
      /\ \A i, j \in DOMAIN given : given[i].name = given[j].name => i = j
  BY DEF ZipInit
<1>2. PICK n \in 0..(MaxEntries + 1) : given \in [1..n -> Entries]
  BY DEF ZipInit
<1>3. given \in Seq(Entries) /\ DOMAIN given = 1..Len(given)
  BY <1>2 DEF ZipAssumption
<1>4. EntriesAreTaken
  BY <1>1, <1>3 DEF EntriesAreTaken
<1>5. Length(directory) = 0
  <2>1. {i \in 1..0 : directory[i].kind \in Headed} = {}
    OBVIOUS
  <2> QED
    BY <1>1, <2>1, FS_EmptySet DEF Length, BytesOf
<1>6. EntriesAreListed
  BY <1>1, <1>5 DEF EntriesAreListed
<1> QED
  BY <1>1, <1>4, <1>6 DEF ZipInvariant

\* What the reader makes of an archive, cut anywhere or whole, is every entry as it was
\* given or nothing, and a whole archive within its limits is read: for any entries,
\* of any length, and any limits.
THEOREM ReadBackStaysWritten == ZipSpec => []ReadBackIsWritten
<1>1. ZipInit => ZipInvariant
  BY ZipAssumption, ZipBegins
<1>2. ZipInvariant /\ [ZipNext]_zipVars => ZipInvariant'
  <2> SUFFICES ASSUME ZipInvariant, [ZipNext]_zipVars
               PROVE  ZipInvariant'
    OBVIOUS
  <2>1. CASE Cut
    <3>1. body \in Seq(Words)
      BY DEF ZipInvariant, EntriesAreTaken
    <3> QED
      BY <2>1, <3>1, ZipCut DEF Cut
  <2>2. CASE UNCHANGED zipVars
    <3>1. EntriesAreTaken' /\ EntriesAreListed'
      BY <2>2 DEF zipVars, ZipInvariant, EntriesAreTaken, EntriesAreListed
    <3> QED
      BY <2>2, <3>1 DEF zipVars, ZipInvariant
  <2> QED
    BY <2>1, <2>2, ZipAssumption, ZipBegin, ZipBody, ZipEnd, ZipDirectory DEF ZipNext
<1>3. ZipInvariant => ReadBackIsWritten
  BY ZipAssumption, ReadFromHere
<1> QED
  BY <1>1, <1>2, <1>3, PTL DEF ZipSpec
===============================================================================
