-------------------------- MODULE OutgoingSendProofs ---------------------------
(***************************************************************************)
(* What goes out: what the handlers promise, for any drafts, requests and  *)
(* files; and what the composer does, for any number of drafts, messages,  *)
(* sizes of its window and operations that wait for a save.                *)
(***************************************************************************)
EXTENDS OutgoingSend, OutgoingComposer, WellFoundedInduction, TLAPS

\* While it is at one of these, a send holds the claim of its draft.
Holding == {"reread", "list", "fetch", "reset", "submit", "copy", "archive"}

\* Where a send is, or how it ended, that the mail service may have accepted.
Submitted == {"copy", "archive", "uncertain", "sent", "unarchived", "crashed"}

\* The row that i archives.
Archived(i) == [by |-> i, draft |-> job[i], subject |-> body[i], body |-> body[i],
                files |-> files[i]]

\* The draft of a claim is locked by it, and the claim is the only one.
ClaimsStand ==
  /\ \A i \in Senders : pc[i] \in Holding \cup {"claim"} => job[i] \in Drafts
  /\ \A i \in Senders : pc[i] \in Holding => status[job[i]] = "sending"
  /\ \A i, j \in Senders :
       pc[i] \in Holding /\ pc[j] \in Holding /\ job[i] = job[j] => i = j

\* What the mail service accepted is what its send transmitted, and no other claim
\* of the draft can follow it.
MailsStand ==
  \A m \in mails :
    /\ m.by \in Senders /\ m = Mail(m.by) /\ pc[m.by] \in Submitted
    /\ status[m.draft] \in {"sending", "gone"}
    /\ \A i \in Senders : pc[i] \in Holding /\ job[i] = m.draft => i = m.by

\* A send copies and archives what was accepted.
CopiesStand ==
  \A i \in Senders :
    /\ pc[i] \in {"copy", "archive"} => Mail(i) \in mails
    /\ pc[i] = "archive" => {Mime} \cup files[i] \subseteq copied[i]

\* A row was accepted, its send is over, and its copies are there.
RowsStand ==
  \A a \in messages :
    /\ a.by \in Senders /\ a = Archived(a.by) /\ Mail(a.by) \in mails
    /\ pc[a.by] \in {"sent", "unarchived"}
    /\ {Mime} \cup files[a.by] \subseteq copied[a.by]

SendInvariant ==
  /\ TypeOK
  /\ ClaimsStand /\ MailsStand /\ CopiesStand /\ RowsStand
  /\ SentOnce /\ AcceptedIsRecorded

-----------------------------------------------------------------------------
(* The shape of the state.                                                 *)

\* A mail and the row made of it have the fields of their send.
LEMMA MailShape ==
  ASSUME NEW i \in Senders
  PROVE  /\ Mail(i).by = i /\ Mail(i).draft = job[i] /\ Mail(i).body = body[i]
         /\ Mail(i).files = files[i]
         /\ [Mail(i) EXCEPT !.subject = body[i]] = Archived(i)
         /\ Archived(i).by = i /\ Archived(i).draft = job[i] /\ Archived(i).body = body[i]
         /\ Archived(i).files = files[i]
  BY DEF Mail, Archived

LEMMA InitTyped == ASSUME DraftsAssumption, Init PROVE TypeOK
  BY DEF DraftsAssumption, Init, TypeOK, UploadSteps, SendSteps, SendEnds

\* Writing, files and access.
LEMMA DraftsTyped ==
  ASSUME DraftsAssumption, TypeOK,
         \/ \E d \in Drafts : Create(d) \/ Save(d) \/ ListFiles(d) \/ DeleteDraft(d)
         \/ \E d \in Drafts, f \in Uploads : RemoveFile(d, f)
         \/ ChangeAccess
  PROVE  TypeOK'
<1> USE DEF TypeOK
<1>1. ASSUME NEW d \in Drafts, Create(d) PROVE TypeOK'
  BY <1>1 DEF Create, fileVars, sendVars
<1>2. ASSUME NEW d \in Drafts, Save(d) PROVE TypeOK'
  <2>1. version' \in [Drafts -> 0..MaxSaves]
    BY <1>2 DEF Save, DraftsAssumption
  <2> QED
    BY <1>2, <2>1 DEF Save, fileVars, sendVars
<1>3. ASSUME NEW d \in Drafts, ListFiles(d) PROVE TypeOK'
  BY <1>3 DEF ListFiles, draftVars, sendVars
<1>4. ASSUME NEW d \in Drafts, DeleteDraft(d) PROVE TypeOK'
  BY <1>4 DEF DeleteDraft, sendVars
<1>5. ASSUME NEW d \in Drafts, NEW f \in Uploads, RemoveFile(d, f) PROVE TypeOK'
  BY <1>5 DEF RemoveFile, sendVars
<1>6. CASE ChangeAccess
  BY <1>6 DEF ChangeAccess, draftVars, fileVars, sendVars
<1> QED
  BY <1>1, <1>2, <1>3, <1>4, <1>5, <1>6

LEMMA UploadsTyped ==
  ASSUME TypeOK, NEW f \in Uploads,
         \/ RequestUpload(f) \/ PutFile(f) \/ InsertFile(f) \/ WithdrawFile(f)
         \/ DeleteObject(f) \/ CrashUpload(f)
  PROVE  TypeOK'
<1> USE DEF TypeOK, UploadTo, UploadSteps
<1>1. CASE RequestUpload(f)
  BY <1>1 DEF RequestUpload, draftVars, sendVars
<1>2. CASE PutFile(f)
  BY <1>2 DEF PutFile, draftVars, sendVars
<1>3. CASE InsertFile(f)
  BY <1>3 DEF InsertFile, sendVars
<1>4. CASE WithdrawFile(f)
  BY <1>4 DEF WithdrawFile, draftVars, sendVars
<1>5. CASE DeleteObject(f)
  BY <1>5 DEF DeleteObject, draftVars, sendVars
<1>6. CASE CrashUpload(f)
  BY <1>6 DEF CrashUpload, draftVars, sendVars
<1> QED
  BY <1>1, <1>2, <1>3, <1>4, <1>5, <1>6

LEMMA SendsTyped ==
  ASSUME DraftsAssumption, TypeOK, ClaimsStand, NEW i \in Senders,
         ProceedSend(i) \/ CrashSend(i)
  PROVE  TypeOK'
<1> USE DEF TypeOK, Goto, SendSteps, SendEnds
<1>1. CASE ReadDraft(i)
  BY <1>1 DEF ReadDraft, draftVars, fileVars
<1>2. CASE Claim(i)
  BY <1>2 DEF Claim, fileVars
<1>3. CASE Reread(i)
  BY <1>3 DEF Reread, draftVars, fileVars, ClaimsStand, Holding
<1>4. CASE ListAttachments(i)
  BY <1>4 DEF ListAttachments, draftVars, fileVars, ClaimsStand, Holding
<1>5. CASE FetchFiles(i)
  BY <1>5 DEF FetchFiles, draftVars, fileVars
<1>6. CASE ResetDraft(i)
  BY <1>6 DEF ResetDraft, fileVars
<1>7. CASE Submit(i)
  <2>1. Mail(i) \in MailType
    BY <1>7 DEF Submit, ClaimsStand, Holding, Mail, MailType
  <2> QED
    BY <1>7, <2>1 DEF Submit, draftVars, fileVars
<1>8. CASE CopyMail(i)
  BY <1>8 DEF CopyMail, draftVars, fileVars
<1>9. CASE Archive(i)
  <2>1. [Mail(i) EXCEPT !.subject = body[i]] \in MailType
    <3>1. Archived(i) \in MailType
      BY <1>9 DEF Archive, ClaimsStand, Holding, Archived, MailType
    <3> QED
      BY <3>1, MailShape
  <2>2. /\ status' \in [Drafts -> {"none", "draft", "sending", "gone"}]
        /\ attached' \in [Drafts -> SUBSET Uploads]
        /\ messages' \subseteq MailType
    BY <1>9, <2>1 DEF Archive
  <2> QED
    BY <1>9, <2>2 DEF Archive, fileVars
<1>10. CASE CrashSend(i)
  BY <1>10 DEF CrashSend, draftVars, fileVars
<1> QED
  BY <1>1, <1>2, <1>3, <1>4, <1>5, <1>6, <1>7, <1>8, <1>9, <1>10 DEF ProceedSend
-----------------------------------------------------------------------------
(* Writing, files and access: no send moves.                               *)

LEMMA QuietStep ==
  ASSUME SendInvariant, TypeOK', UNCHANGED <<sendVars, mails, messages>>,
         \A d \in Drafts : status[d] \in {"sending", "gone"} => status'[d] = status[d]
  PROVE  SendInvariant'
<1> USE DEF SendInvariant, sendVars
<1>1. ClaimsStand'
  BY DEF ClaimsStand, Holding
<1>2. MailsStand'
  BY DEF MailsStand, Mail, TypeOK, MailType
<1>3. CopiesStand' /\ RowsStand' /\ SentOnce'
  BY DEF CopiesStand, RowsStand, SentOnce, Mail, Archived
<1>4. AcceptedIsRecorded'
  BY DEF AcceptedIsRecorded, TypeOK, MailType
<1> QED
  BY <1>1, <1>2, <1>3, <1>4

LEMMA WritingKeeps ==
  ASSUME DraftsAssumption, SendInvariant,
         \/ \E d \in Drafts : Create(d) \/ Save(d) \/ ListFiles(d) \/ DeleteDraft(d)
         \/ \E d \in Drafts, f \in Uploads : RemoveFile(d, f)
         \/ ChangeAccess
         \/ \E f \in Uploads :
              \/ RequestUpload(f) \/ PutFile(f) \/ InsertFile(f) \/ WithdrawFile(f)
              \/ DeleteObject(f) \/ CrashUpload(f)
  PROVE  SendInvariant'
<1>1. TypeOK'
  BY DraftsTyped, UploadsTyped DEF SendInvariant
<1>2. /\ UNCHANGED <<sendVars, mails, messages>>
      /\ \A d \in Drafts : status[d] \in {"sending", "gone"} => status'[d] = status[d]
  BY DEF SendInvariant, TypeOK, Create, Save, ListFiles, DeleteDraft, RemoveFile, ChangeAccess,
       RequestUpload, PutFile, InsertFile, WithdrawFile, DeleteObject, CrashUpload, draftVars
<1> QED
  BY <1>1, <1>2, QuietStep

-----------------------------------------------------------------------------
(* Sending.                                                                *)

\* Until it submits, a send has nothing accepted: no mail is of its draft.
LEMMA NothingAccepted ==
  ASSUME SendInvariant, NEW i \in Senders,
         pc[i] \in {"read", "claim", "reread", "list", "fetch", "reset", "submit"}
  PROVE  /\ \A m \in mails : m.by # i
         /\ \A a \in messages : a.by # i
         /\ pc[i] \in Holding => \A m \in mails : m.draft # job[i]
  BY DEF SendInvariant, MailsStand, RowsStand, Submitted, Holding

\* A send that does not submit yet: it claims its draft, goes on with it or gives it
\* up, and reopens it only without having submitted.
LEMMA BeforeSubmit ==
  ASSUME DraftsAssumption, SendInvariant, TypeOK', NEW i \in Senders, NEW s \in SendSteps,
         pc[i] \in {"read", "claim", "reread", "list", "fetch", "reset"},
         pc' = [pc EXCEPT ![i] = s], UNCHANGED <<mails, messages, copied>>,
         \A j \in Senders \ {i} : /\ job'[j] = job[j] /\ subject'[j] = subject[j]
                                  /\ body'[j] = body[j] /\ files'[j] = files[j],
         s \notin {"copy", "archive"},
         s \in Holding \cup {"claim"} => job'[i] \in Drafts,
         s \in Holding => /\ job'[i] = job[i] /\ status'[job[i]] = "sending"
                          /\ pc[i] \in Holding \/ status[job[i]] = "draft",
         \A d \in Drafts : \/ status'[d] = status[d]
                           \/ pc[i] = "claim" /\ d = job[i] /\ status[d] = "draft"
                           \/ pc[i] = "reset" /\ d = job[i] /\ s \notin Holding
  PROVE  SendInvariant'
<1> USE DEF SendInvariant
<1>1. /\ \A j \in Senders : pc'[j] = IF j = i THEN s ELSE pc[j]
      /\ \A j \in Senders \ {i} : Mail(j)' = Mail(j) /\ Archived(j)' = Archived(j)
  BY DEF TypeOK, Mail, Archived
<1>2. /\ \A m \in mails : m.by # i /\ m.draft \in Drafts
      /\ \A a \in messages : a.by # i
      /\ pc[i] \in Holding => \A m \in mails : m.draft # job[i]
  BY NothingAccepted DEF TypeOK, MailType
<1>3. ClaimsStand'
  <2>1. ASSUME NEW j \in Senders, j # i, pc[j] \in Holding
        PROVE  status'[job[j]] = "sending" /\ (s \in Holding => job[j] # job[i])
    BY <2>1 DEF ClaimsStand, Holding
  <2> QED
    BY <1>1, <2>1 DEF ClaimsStand
<1>4. MailsStand'
  <2> SUFFICES ASSUME NEW m \in mails
               PROVE  /\ m.by \in Senders /\ m = Mail(m.by)' /\ pc'[m.by] \in Submitted
                      /\ status'[m.draft] \in {"sending", "gone"}
                      /\ \A j \in Senders : pc'[j] \in Holding /\ job'[j] = m.draft => j = m.by
    BY DEF MailsStand
  <2>1. m.by \in Senders /\ m = Mail(m.by)' /\ pc'[m.by] \in Submitted
    BY <1>1, <1>2 DEF MailsStand
  <2>2. status'[m.draft] = status[m.draft]
    <3>1. status[m.draft] \in {"sending", "gone"}
      BY DEF MailsStand
    <3> QED
      BY <1>2, <3>1 DEF Holding
  <2>3. s \in Holding => m.draft # job[i]
    BY <1>2 DEF MailsStand
  <2> QED
    BY <1>1, <2>1, <2>2, <2>3 DEF MailsStand
<1>5. CopiesStand'
  BY <1>1 DEF CopiesStand
<1>6. RowsStand'
  <2> SUFFICES ASSUME NEW a \in messages
               PROVE  /\ a.by \in Senders /\ a = Archived(a.by)' /\ Mail(a.by)' \in mails
                      /\ pc'[a.by] \in {"sent", "unarchived"}
                      /\ {Mime} \cup files'[a.by] \subseteq copied[a.by]
    BY DEF RowsStand
  <2>1. a.by \in Senders /\ a.by # i
    BY <1>2 DEF RowsStand
  <2>2. /\ Mail(a.by)' = Mail(a.by) /\ Archived(a.by)' = Archived(a.by)
        /\ pc'[a.by] = pc[a.by] /\ files'[a.by] = files[a.by]
    BY <1>1, <2>1
  <2> QED
    BY <2>1, <2>2 DEF RowsStand
<1>7. SentOnce'
  BY DEF SentOnce
<1>8. AcceptedIsRecorded'
  <2>1. ASSUME NEW m \in mails PROVE status'[m.draft] = status[m.draft]
    <3>1. status[m.draft] \in {"sending", "gone"}
      BY DEF MailsStand
    <3> QED
      BY <1>2, <3>1 DEF Holding
  <2> QED
    BY <2>1 DEF AcceptedIsRecorded
<1> QED
  BY <1>3, <1>4, <1>5, <1>6, <1>7, <1>8

LEMMA SearchKeeps ==
  ASSUME DraftsAssumption, SendInvariant, NEW i \in Senders,
         \/ ReadDraft(i) \/ Claim(i) \/ Reread(i) \/ ListAttachments(i) \/ FetchFiles(i)
         \/ ResetDraft(i)
  PROVE  SendInvariant'
<1>1. TypeOK'
  BY SendsTyped DEF SendInvariant, ProceedSend
<1>2. /\ job \in [Senders -> Drafts \cup {NoDraft}] /\ subject \in [Senders -> 0..MaxSaves]
      /\ body \in [Senders -> 0..MaxSaves] /\ files \in [Senders -> SUBSET Uploads]
      /\ pc \in [Senders -> SendSteps]
      /\ status \in [Drafts -> {"none", "draft", "sending", "gone"}]
  BY DEF SendInvariant, TypeOK
<1>3. /\ pc[i] \in Holding \cup {"claim"} => job[i] \in Drafts
      /\ pc[i] \in Holding => status[job[i]] = "sending"
  BY DEF SendInvariant, ClaimsStand
<1>4. CASE ReadDraft(i)
  <2>1. PICK s \in {"claim", "refused"} :
          /\ pc' = [pc EXCEPT ![i] = s]
          /\ s = "claim" => job'[i] \in Drafts
          /\ \A j \in Senders \ {i} : job'[j] = job[j] /\ subject'[j] = subject[j]
    BY <1>2, <1>4 DEF ReadDraft, Goto
  <2> QED
    BY <1>1, <1>2, <1>4, <2>1, BeforeSubmit DEF ReadDraft, draftVars, Holding, SendSteps, SendEnds
<1>5. CASE Claim(i)
  <2>1. /\ pc[i] = "claim" /\ job[i] \in Drafts
        /\ UNCHANGED <<job, subject, body, files, copied, mails, messages>>
    BY <1>3, <1>5 DEF Claim
  <2>2. PICK s \in {"reread", "thrown", "refused"} :
          /\ pc' = [pc EXCEPT ![i] = s]
          /\ \/ /\ status[job[i]] = "draft"
                /\ status' = [status EXCEPT ![job[i]] = "sending"]
             \/ s # "reread" /\ status' = status
    BY <1>5 DEF Claim, Goto
  <2>3. /\ s = "reread" => status[job[i]] = "draft" /\ status'[job[i]] = "sending"
        /\ \A d \in Drafts : status'[d] = status[d] \/ (d = job[i] /\ status[d] = "draft")
    BY <1>2, <2>1, <2>2
  <2> QED
    BY <1>1, <2>1, <2>2, <2>3, BeforeSubmit DEF Holding, SendSteps, SendEnds
<1>6. CASE Reread(i)
  <2>1. PICK s \in {"list", "submit", "reset", "thrown", "refused"} :
          /\ pc' = [pc EXCEPT ![i] = s]
          /\ \A j \in Senders \ {i} : subject'[j] = subject[j] /\ body'[j] = body[j]
    BY <1>2, <1>6 DEF Reread, Goto
  <2> QED
    BY <1>1, <1>2, <1>3, <1>6, <2>1, BeforeSubmit
       DEF Reread, draftVars, Holding, SendSteps, SendEnds
<1>7. CASE ListAttachments(i) \/ FetchFiles(i)
  <2>1. PICK s \in {"fetch", "submit", "reset", "thrown"} :
          /\ pc' = [pc EXCEPT ![i] = s]
          /\ \A j \in Senders \ {i} : files'[j] = files[j]
    BY <1>2, <1>7 DEF ListAttachments, FetchFiles, Goto
  <2>2. /\ pc[i] \in {"list", "fetch"}
        /\ UNCHANGED <<status, job, subject, body, copied, mails, messages>>
    BY <1>7 DEF ListAttachments, FetchFiles, draftVars
  <2> QED
    BY <1>1, <1>2, <1>3, <2>1, <2>2, BeforeSubmit DEF Holding, SendSteps, SendEnds
<1>8. CASE ResetDraft(i)
  <2>1. PICK s \in {"refused", "thrown"} :
          /\ pc' = [pc EXCEPT ![i] = s]
          /\ \A d \in Drafts : status'[d] = status[d] \/ d = job[i]
    BY <1>2, <1>8 DEF ResetDraft, Goto
  <2> QED
    BY <1>1, <1>2, <1>3, <1>8, <2>1, BeforeSubmit DEF ResetDraft, Holding, SendSteps, SendEnds
<1> QED
  BY <1>4, <1>5, <1>6, <1>7, <1>8

LEMMA SubmitKeeps ==
  ASSUME DraftsAssumption, SendInvariant, NEW i \in Senders, Submit(i)
  PROVE  SendInvariant'
<1> USE DEF SendInvariant
<1>1. TypeOK'
  BY SendsTyped DEF ProceedSend
<1>2. PICK s \in {"copy", "uncertain", "reset"} :
        /\ pc' = [pc EXCEPT ![i] = s]
        /\ mails' \in {mails, mails \cup {Mail(i)}}
        /\ s = "copy" => Mail(i) \in mails'
        /\ s = "reset" => mails' = mails
  BY DEF Submit, Goto
<1>3. /\ pc[i] = "submit" /\ pc[i] \in Holding
      /\ \A j \in Senders : pc'[j] = IF j = i THEN s ELSE pc[j]
      /\ UNCHANGED <<status, job, subject, body, files, copied, messages>>
      /\ \A j \in Senders : Mail(j)' = Mail(j) /\ Archived(j)' = Archived(j)
  BY <1>2 DEF Submit, TypeOK, Holding, Mail, Archived, draftVars
<1>4. /\ \A m \in mails : m.by # i /\ m.draft # job[i]
      /\ \A a \in messages : a.by # i
  BY <1>3, NothingAccepted
<1>5. ClaimsStand'
  BY <1>3 DEF ClaimsStand, Holding
<1>6. MailsStand'
  <2> SUFFICES ASSUME NEW m \in mails'
               PROVE  /\ m.by \in Senders /\ m = Mail(m.by)' /\ pc'[m.by] \in Submitted
                      /\ status'[m.draft] \in {"sending", "gone"}
                      /\ \A j \in Senders : pc'[j] \in Holding /\ job'[j] = m.draft => j = m.by
    BY DEF MailsStand
  <2>1. CASE m \in mails
    BY <1>3, <1>4, <2>1 DEF MailsStand
  <2>2. CASE m = Mail(i) /\ m \notin mails
    <3>1. m.by = i /\ m.draft = job[i] /\ s # "reset"
      BY <1>2, <2>2, MailShape
    <3>2. \A j \in Senders : pc'[j] \in Holding /\ job'[j] = m.draft => j = i
      BY <1>3, <3>1 DEF ClaimsStand
    <3> QED
      BY <1>3, <2>2, <3>1, <3>2 DEF ClaimsStand, Submitted
  <2> QED
    BY <1>2, <2>1, <2>2
<1>7. CopiesStand'
  BY <1>2, <1>3 DEF CopiesStand
<1>8. RowsStand'
  BY <1>2, <1>3, <1>4 DEF RowsStand
<1>9. SentOnce'
  BY <1>2, <1>4, MailShape DEF SentOnce
<1>10. AcceptedIsRecorded'
  <2>1. status[Mail(i).draft] = "sending"
    BY <1>3, MailShape DEF ClaimsStand
  <2> QED
    BY <1>2, <1>3, <2>1 DEF AcceptedIsRecorded
<1> QED
  BY <1>1, <1>5, <1>6, <1>7, <1>8, <1>9, <1>10

\* The copies are made, or the Worker is evicted: nothing else is decided.
LEMMA CopyKeeps ==
  ASSUME DraftsAssumption, SendInvariant, NEW i \in Senders, CopyMail(i) \/ CrashSend(i)
  PROVE  SendInvariant'
<1> USE DEF SendInvariant
<1>1. TypeOK'
  BY SendsTyped DEF ProceedSend
<1>2. PICK s \in {"archive", "unarchived", "crashed"} :
        /\ pc' = [pc EXCEPT ![i] = s]
        /\ s = "archive" => copied'[i] = {Mime} \cup files[i] /\ pc[i] = "copy"
        /\ pc[i] \notin SendEnds \cup {"read"}
        /\ s = "unarchived" => pc[i] = "copy"
        /\ \A j \in Senders \ {i} : copied'[j] = copied[j]
        /\ UNCHANGED <<status, job, subject, body, files, mails, messages>>
  BY DEF CopyMail, CrashSend, Goto, TypeOK, draftVars, SendEnds
<1>3. /\ \A j \in Senders : pc'[j] = IF j = i THEN s ELSE pc[j]
      /\ \A j \in Senders : Mail(j)' = Mail(j) /\ Archived(j)' = Archived(j)
      /\ \A a \in messages : a.by # i
  BY <1>2 DEF TypeOK, Mail, Archived, RowsStand, SendEnds
<1>4. ClaimsStand'
  BY <1>2, <1>3 DEF ClaimsStand, Holding
<1>5. MailsStand'
  BY <1>2, <1>3 DEF MailsStand, Submitted, Holding
<1>6. CopiesStand'
  BY <1>2, <1>3 DEF CopiesStand
<1>7. RowsStand'
  BY <1>2, <1>3 DEF RowsStand
<1>8. SentOnce' /\ AcceptedIsRecorded'
  BY <1>2 DEF SentOnce, AcceptedIsRecorded
<1> QED
  BY <1>1, <1>4, <1>5, <1>6, <1>7, <1>8

LEMMA ArchiveKeeps ==
  ASSUME DraftsAssumption, SendInvariant, NEW i \in Senders, Archive(i)
  PROVE  SendInvariant'
<1> USE DEF SendInvariant
<1>1. TypeOK'
  BY SendsTyped DEF ProceedSend
<1>2. PICK s \in {"sent", "unarchived"} :
        /\ pc' = [pc EXCEPT ![i] = s]
        /\ \/ /\ messages' = messages \cup {Archived(i)}
              /\ status' \in {status, [status EXCEPT ![job[i]] = "gone"]}
           \/ UNCHANGED <<messages, status>>
  BY MailShape DEF Archive, Goto
<1>3. /\ pc[i] = "archive" /\ job[i] \in Drafts
      /\ \A j \in Senders : pc'[j] = IF j = i THEN s ELSE pc[j]
      /\ UNCHANGED <<job, subject, body, files, copied, mails>>
      /\ \A j \in Senders : Mail(j)' = Mail(j) /\ Archived(j)' = Archived(j)
  <2>1. pc[i] = "archive" /\ UNCHANGED <<job, subject, body, files, copied, mails>>
    BY DEF Archive
  <2>2. job[i] \in Drafts
    BY <2>1 DEF ClaimsStand, Holding
  <2>3. \A j \in Senders : pc'[j] = IF j = i THEN s ELSE pc[j]
    BY <1>2 DEF TypeOK
  <2>4. \A j \in Senders : Mail(j)' = Mail(j) /\ Archived(j)' = Archived(j)
    BY <2>1 DEF Mail, Archived
  <2> QED
    BY <2>1, <2>2, <2>3, <2>4
<1>4. /\ Mail(i) \in mails /\ {Mime} \cup files[i] \subseteq copied[i]
      /\ \A a \in messages : a.by # i
  BY <1>3 DEF CopiesStand, RowsStand
<1>5. \A d \in Drafts :
        \/ status'[d] = status[d]
        \/ /\ d = job[i] /\ status'[d] = "gone"
           /\ messages' = messages \cup {Archived(i)}
  BY <1>2, <1>3 DEF TypeOK
<1>6. ClaimsStand'
  BY <1>3, <1>5 DEF ClaimsStand, Holding
<1>7. MailsStand'
  <2>1. \A m \in mails : m.draft \in Drafts
    BY DEF TypeOK, MailType
  <2> QED
    BY <1>3, <1>5, <2>1 DEF MailsStand, Submitted, Holding
<1>8. CopiesStand'
  BY <1>2, <1>3 DEF CopiesStand
<1>9. RowsStand'
  <2> SUFFICES ASSUME NEW a \in messages'
               PROVE  /\ a.by \in Senders /\ a = Archived(a.by)' /\ Mail(a.by)' \in mails'
                      /\ pc'[a.by] \in {"sent", "unarchived"}
                      /\ {Mime} \cup files'[a.by] \subseteq copied'[a.by]
    BY DEF RowsStand
  <2>1. CASE a \in messages
    BY <1>3, <1>4, <2>1 DEF RowsStand
  <2>2. CASE a = Archived(i)
    <3>1. a.by = i
      BY <2>2, MailShape
    <3> QED
      BY <1>3, <1>4, <2>2, <3>1
  <2> QED
    BY <1>2, <2>1, <2>2
<1>10. SentOnce'
  BY <1>3 DEF SentOnce
<1>11. AcceptedIsRecorded'
  <2> SUFFICES ASSUME NEW m \in mails
               PROVE  status'[m.draft] = "sending" \/ \E a \in messages' : a.by = m.by
    BY <1>3 DEF AcceptedIsRecorded
  <2>1. m.draft \in Drafts
    BY DEF TypeOK, MailType
  <2>2. CASE status'[m.draft] = status[m.draft]
    BY <1>2, <2>2 DEF AcceptedIsRecorded
  <2>3. CASE m.draft = job[i] /\ messages' = messages \cup {Archived(i)}
    <3>1. m = Mail(i)
      BY <1>4, <2>3, MailShape DEF SentOnce
    <3> QED
      BY <2>3, <3>1, MailShape
  <2> QED
    BY <1>5, <2>1, <2>2, <2>3
<1> QED
  BY <1>1, <1>6, <1>7, <1>8, <1>9, <1>10, <1>11

-----------------------------------------------------------------------------
(* The theorems.                                                           *)

LEMMA InitHolds == ASSUME DraftsAssumption, Init PROVE SendInvariant
<1>1. /\ mails = {} /\ messages = {} /\ pc = [i \in Senders |-> "read"]
  BY DEF Init
<1> QED
  BY <1>1, InitTyped DEF SendInvariant, ClaimsStand, MailsStand, CopiesStand, RowsStand,
       SentOnce, AcceptedIsRecorded, Holding

LEMMA StepKeeps ==
  ASSUME DraftsAssumption, SendInvariant, [Next]_vars
  PROVE  SendInvariant'
<1>1. CASE UNCHANGED vars
  <2>1. TypeOK'
    BY <1>1 DEF SendInvariant, TypeOK, vars, draftVars, fileVars, sendVars
  <2> QED
    BY <1>1, <2>1, QuietStep DEF vars, draftVars
<1>2. ASSUME NEW i \in Senders, ProceedSend(i) \/ CrashSend(i) PROVE SendInvariant'
  BY <1>2, SearchKeeps, SubmitKeeps, CopyKeeps, ArchiveKeeps DEF ProceedSend
<1> QED
  BY <1>1, <1>2, WritingKeeps DEF Next

\* A claim locks its draft and is the only one; a mail belongs to the claim that
\* submitted it, and a row to a mail.
THEOREM SendInvariantHolds == Spec => []SendInvariant
  BY DraftsAssumption, InitHolds, StepKeeps, PTL DEF Spec

\* The mail service accepts no draft twice, whatever sends, retries, lost answers,
\* evictions and changes of access cross.
THEOREM SentOnceHolds == Spec => []SentOnce
<1>1. SendInvariant => SentOnce
  BY DEF SendInvariant
<1> QED
  BY <1>1, SendInvariantHolds, PTL

\* An accepted mail is archived, or its draft is still shown as being sent: no
\* failure or deletion loses both.
THEOREM AcceptedIsRecordedHolds == Spec => []AcceptedIsRecorded
<1>1. SendInvariant => AcceptedIsRecorded
  BY DEF SendInvariant
<1> QED
  BY <1>1, SendInvariantHolds, PTL

\* An archived message is one that was accepted, with the same text and files, and
\* its copies are complete.
THEOREM ArchiveIsFaithfulHolds == Spec => []ArchiveIsFaithful
<1>1. SendInvariant => ArchiveIsFaithful
  <2> SUFFICES ASSUME SendInvariant, NEW a \in messages
               PROVE  /\ \E m \in mails : /\ m.by = a.by /\ m.draft = a.draft
                                          /\ m.body = a.body /\ m.files = a.files
                      /\ {Mime} \cup a.files \subseteq copied[a.by]
    BY DEF ArchiveIsFaithful
  <2>1. /\ a.by \in Senders /\ a = Archived(a.by) /\ Mail(a.by) \in mails
        /\ {Mime} \cup files[a.by] \subseteq copied[a.by]
    BY DEF SendInvariant, RowsStand
  <2>2. /\ a.draft = job[a.by] /\ a.body = body[a.by] /\ a.files = files[a.by]
        /\ Mail(a.by).by = a.by /\ Mail(a.by).draft = job[a.by]
        /\ Mail(a.by).body = body[a.by] /\ Mail(a.by).files = files[a.by]
    BY <2>1, MailShape
  <2> QED
    BY <2>1, <2>2
<1> QED
  BY <1>1, SendInvariantHolds, PTL

-----------------------------------------------------------------------------
(* The composer: what is true of it between two steps.                     *)

\* The shape of the composer.
CallerNames == {"timer", "close", "send", "fresh", "file", "full", "popup", "minimized"}

Ids == 0..MaxDrafts

Saves == [at : {"create", "update"}, id : Ids, text : Contents, current : BOOLEAN,
          callers : Seq(CallerNames) \ {<<>>}, live : BOOLEAN]
SendRequests == [at : {"send"}, id : DraftRows, live : BOOLEAN, shown : Contents, rewritten : BOOLEAN]
Discards == [at : {"discard"}, id : Ids, live : BOOLEAN]
FileRequests == [at : {"add", "remove"}, id : Ids, live : BOOLEAN]
Loads == [at : {"load"}, id : 0..(MaxDrafts + 1), begun : BOOLEAN]

Pages ==
    [open : BOOLEAN, size : {"full", "popup", "minimized"}, id : Ids, text : Contents,
     file : BOOLEAN, status : {"draft", "sending"}, saved : BOOLEAN, dirty : BOOLEAN,
     forced : BOOLEAN, timer : BOOLEAN, error : BOOLEAN, failed : BOOLEAN,
     uploading : BOOLEAN, sending : BOOLEAN, dialog : {"none", "send", "discard"},
     left : {"open", "close", "leave", "sent", "discard"},
     load : {NoRequest} \cup Loads, save : {NoRequest} \cup Saves,
     send : {NoRequest} \cup SendRequests, discard : {NoRequest} \cup Discards,
     upload : {NoRequest} \cup FileRequests]

ServerRows == [DraftRows -> Contents \cup {Unused, Gone}]

Saving(p) == p.save # NoRequest
Sent(p) == p.send # NoRequest

\* A page that is closed shows nothing, and nobody reads the answers of its requests.
ClosedShape(p) ==
    ~p.open =>
        /\ ~p.timer /\ ~Loading(p) /\ ~p.sending /\ p.dialog = "none" /\ ~p.saved
        /\ p.text = Nothing /\ p.id = 0
        /\ Saving(p) => ~p.save.live
        /\ Sent(p) => ~p.send.live
        /\ p.discard # NoRequest => ~p.discard.live
        /\ p.upload # NoRequest => ~p.upload.live

\* The requests of a page that is open are its own.
OpenShape(p) ==
    p.open =>
        /\ Saving(p) => p.save.live
        /\ Sent(p) => p.send.live
        /\ p.discard # NoRequest => p.discard.live
        /\ p.upload # NoRequest => p.upload.live
        /\ p.sending => Sent(p)

\* A page that loads no draft waits with nothing done yet; the inbox loads no other.
LoadShape(p) ==
    /\ Loading(p) => (host = "inbox" <=> p.load.id = 0)
    /\ Loading(p) /\ p.load.id = 0 =>
        /\ p.text = Nothing /\ p.id = 0 /\ ~p.file /\ p.status = "draft" /\ ~p.timer
        /\ ~p.saved /\ ~p.forced /\ ~p.dirty /\ ~p.sending /\ p.dialog = "none" /\ ~p.failed
        /\ ~Saving(p) /\ ~Sent(p) /\ p.discard = NoRequest /\ p.upload = NoRequest

\* A save that is still current carries what is shown.
SaveShape(p) ==
    /\ Saving(p) /\ p.save.live /\ p.save.current /\ ~p.saved /\ p.status = "draft"
    /\ Meaningful(p) \/ p.id # 0
    => p.save.text = p.text

\* From the inbox: what is saved is a draft with no save under way, a save is of the
\* draft the page shows, and only the timer saves while a send is confirmed or goes out.
InboxShape(p) ==
    /\ ~p.failed
    /\ p.saved => p.id # 0 /\ ~Saving(p) /\ ~p.dirty /\ ~p.forced
    /\ p.forced => p.id = 0
    /\ p.text.of = 0 => p.text.v = 0
    /\ Saving(p) /\ p.open =>
         /\ p.save.id = p.id /\ (p.save.at = "create" <=> p.id = 0)
         /\ p.save.text.of \in {0, p.text.of}
    /\ Saving(p) /\ (p.dialog = "send" \/ Sent(p)) => p.save.callers \in Seq({"timer"})
    /\ Saving(p) /\ p.dialog = "send" => p.save.text = p.text

\* A send goes out for the draft the page shows, and with the text it shows until the
\* writer changes it; so does a save beside it.
SendShape(p) ==
    Sent(p) =>
        /\ p.send.id # 0
        /\ p.open => p.sending /\ p.send.id = p.id
        /\ Saving(p) => p.save.at = "update" /\ p.save.id = p.send.id
        /\ Saving(p) /\ ~p.send.rewritten => p.save.text = p.send.shown
        /\ p.open /\ ~p.send.rewritten => p.text = p.send.shown

\* In the rows D, draft d is text, if it is there.
Reads(D, d, text) == d \in DraftRows /\ D[d] \notin {Unused, Gone} => D[d] = text

\* What counts as saved, what is about to be confirmed and what was is in the rows.
Backed(p, D) ==
    /\ p.saved /\ p.status = "draft" /\ Meaningful(p) => Reads(D, p.id, p.text)
    /\ p.dialog = "send" => Reads(D, p.id, p.text)
    /\ Sent(p) /\ ~p.send.rewritten => Reads(D, p.send.id, p.send.shown)

\* In the rows D, no draft but d holds what was written for message m, unless m is in X.
Sole(D, d, m, X) ==
    m \notin X \cup {0} =>
        \A e \in DraftRows : D[e] \notin {Unused, Gone} /\ D[e].of = m => e = d

\* A message that is written or saved has no other draft than the one at hand.
Single(p, D, X) ==
    /\ \A d \in DraftRows : D[d] \notin {Unused, Gone} => Sole(D, d, D[d].of, X)
    /\ p.open => Sole(D, p.id, p.text.of, X)
    /\ Saving(p) => Sole(D, IF p.save.at = "update" THEN p.save.id ELSE 0, p.save.text.of, X)

\* Messages have the numbers up to w.
Numbered(p, D, w) ==
    /\ \A d \in DraftRows : D[d].of <= w
    /\ p.text.of <= w
    /\ Saving(p) => p.save.text.of <= w

\* What is true of a page, the rows, the doubtful messages and the number of messages.
FromInbox(p, D, X, w) ==
    /\ InboxShape(p) /\ SendShape(p)
    /\ Backed(p, D) /\ Single(p, D, X) /\ Numbered(p, D, w)

Sound(p, D, X, w) ==
    /\ p \in Pages
    /\ ClosedShape(p) /\ OpenShape(p) /\ LoadShape(p) /\ SaveShape(p)
    /\ host = "inbox" => FromInbox(p, D, X, w)

\* NothingForgotten, of a page.
Remembered(p) ==
    /\ p.open /\ ~Loading(p) /\ p.status = "draft" /\ ~p.sending
    /\ p.text.v > 0 /\ ~p.saved
    => p.timer \/ Saving(p) \/ p.error

ComposerTypeOK ==
    /\ host \in {"inbox", "drafts"} /\ wanted \in Ids /\ page \in Pages
    /\ written \in 0..MaxMessages /\ drafts \in ServerRows
    /\ locked \subseteq DraftRows /\ doubtful \subseteq 0..MaxMessages

ComposerInvariant ==
    /\ ComposerTypeOK
    /\ Sound(page, drafts, doubtful, written)
    /\ Remembered(page)

-----------------------------------------------------------------------------
(* Parts of its operations keep that: what only ends a request or shows.   *)

\* What only shows, or ends a request, keeps a page sound.
Aside(p, q) ==
  /\ q.open = p.open /\ q.id = p.id /\ q.text = p.text /\ q.file = p.file
  /\ q.status = p.status /\ q.saved = p.saved /\ q.dirty = p.dirty /\ q.forced = p.forced
  /\ q.load = p.load /\ q.save \in {p.save, NoRequest}
  /\ \/ q.send = p.send /\ q.sending = p.sending
     \/ q.send = NoRequest /\ ~q.sending
  /\ q.timer => p.timer
  /\ q.failed => p.failed
  /\ \/ q.dialog \in {"none", p.dialog}
     \/ q.dialog = "discard" /\ p.open /\ (Loading(p) => p.load.id # 0)
  /\ \/ q.discard \in {NoRequest, p.discard}
     \/ p.open /\ (Loading(p) => p.load.id # 0) /\ q.discard.live
  /\ \/ q.upload \in {NoRequest, p.upload}
     \/ p.open /\ (Loading(p) => p.load.id # 0) /\ q.upload.live

\* So a page that was sound is sound after it.
LEMMA AsideIsSound ==
  ASSUME NEW p, NEW q \in Pages, NEW D, NEW X, NEW w, Sound(p, D, X, w), Aside(p, q)
  PROVE  Sound(q, D, X, w)
<1>1. ClosedShape(p) => ClosedShape(q)
  BY DEF Aside, ClosedShape, Saving, Sent, Loading
<1>2. OpenShape(p) => OpenShape(q)
  BY DEF Aside, OpenShape, Saving, Sent, Loading
<1>3. LoadShape(p) => LoadShape(q)
  BY DEF Aside, LoadShape, Saving, Sent, Loading
<1>4. SaveShape(p) => SaveShape(q)
  BY DEF Aside, SaveShape, Saving, Meaningful
<1>5. InboxShape(p) => InboxShape(q)
  BY DEF Aside, InboxShape, Saving, Sent
<1>6. SendShape(p) => SendShape(q)
  BY DEF Aside, SendShape, Saving, Sent
<1>7. Backed(p, D) => Backed(q, D)
  BY DEF Aside, Backed, Sent, Meaningful
<1>8. Single(p, D, X) => Single(q, D, X)
  BY DEF Aside, Single, Saving
<1>9. Numbered(p, D, w) => Numbered(q, D, w)
  BY DEF Aside, Numbered, Saving
<1> QED
  BY <1>1, <1>2, <1>3, <1>4, <1>5, <1>6, <1>7, <1>8, <1>9 DEF Sound, FromInbox

\* A revision: what was saved, or is being saved, is not what is shown any more.
LEMMA OutdateFields ==
  ASSUME NEW p \in Pages
  PROVE  LET q == Outdate(p)
         IN  /\ q \in Pages
             /\ q.open = p.open /\ q.size = p.size /\ q.id = p.id /\ q.text = p.text
             /\ q.file = p.file /\ q.status = p.status /\ ~q.saved /\ q.dirty
             /\ q.forced = p.forced /\ q.timer = p.timer /\ q.error = p.error
             /\ q.failed = p.failed /\ q.uploading = p.uploading /\ q.sending = p.sending
             /\ q.dialog = p.dialog /\ q.left = p.left /\ q.load = p.load
             /\ q.send = p.send /\ q.discard = p.discard /\ q.upload = p.upload
             /\ p.save = NoRequest => q.save = NoRequest
             /\ p.save # NoRequest =>
                  /\ q.save # NoRequest
                  /\ q.save.at = p.save.at /\ q.save.id = p.save.id /\ q.save.text = p.save.text
                  /\ ~q.save.current /\ q.save.callers = p.save.callers /\ q.save.live = p.save.live
<1> DEFINE s == IF p.save = NoRequest THEN p.save ELSE [p.save EXCEPT !.current = FALSE]
<1>1. s \in {NoRequest} \cup Saves
  BY DEF Pages, Saves
<1>2. p.save # NoRequest => 
                  /\ s # NoRequest
                  /\ s.at = p.save.at /\ s.id = p.save.id /\ s.text = p.save.text
                  /\ ~s.current /\ s.callers = p.save.callers /\ s.live = p.save.live
  BY DEF Pages, Saves, NoRequest
<1>3. p.save = NoRequest => s = NoRequest
  OBVIOUS
<1>4. Outdate(p) = [p EXCEPT !.dirty = TRUE, !.saved = FALSE, !.save = s]
  BY DEF Outdate
<1> HIDE DEF s
<1>5. Outdate(p) \in Pages
  BY <1>1, <1>4, ZenonT(60) DEF Pages
<1> QED
  BY <1>1, <1>2, <1>3, <1>4, <1>5 DEF Pages

\* What the writer, or a file, changes of a page that shows more than a blank.
Revised(p, q, D, X, v, w) ==
  /\ p.open /\ q.open /\ (Loading(p) => p.load.id # 0)
  /\ q.id = p.id /\ q.status = p.status /\ q.load = p.load /\ ~q.saved
  /\ q.forced => p.forced \/ p.id = 0
  /\ q.failed => p.failed
  /\ q.dialog = p.dialog /\ q.sending = p.sending
  /\ q.discard = p.discard /\ q.upload \in {p.upload, NoRequest}
  /\ Saving(q) <=> Saving(p)
  /\ Saving(q) =>
       /\ q.save.at = p.save.at /\ q.save.id = p.save.id /\ q.save.text = p.save.text
       /\ ~q.save.current /\ q.save.callers = p.save.callers /\ q.save.live = p.save.live
  /\ Sent(q) <=> Sent(p)
  /\ Sent(q) =>
       /\ q.send.id = p.send.id /\ q.send.live = p.send.live /\ q.send.shown = p.send.shown
  /\ p.dialog = "none" \/ q.text = p.text
  /\ host = "inbox" =>
       /\ q.text = p.text \/ (q.text.of # 0 /\ Sole(D, q.id, q.text.of, X))
       /\ p.text.of \in {0, q.text.of}
       /\ v <= w /\ q.text.of <= w
       /\ Sent(q) => q.send.rewritten \/ (~p.send.rewritten /\ q.text = p.text)

\* A page on which something else is written waits to be saved, and is sound.
LEMMA RevisedIsSound ==
  ASSUME NEW p, NEW q \in Pages, NEW D \in ServerRows, NEW X, NEW v \in Nat, NEW w \in Nat,
         Sound(p, D, X, v), Revised(p, q, D, X, v, w)
  PROVE  Sound(q, D, X, w)
<1>0. p \in Pages /\ (Saving(p) => p.save.text.of \in Nat)
  BY DEF Sound, Pages, Saves, Contents, Saving
<1>r. \A d \in DraftRows : D[d].of \in Nat
  BY DEF ServerRows, Contents, Unused, Gone
<1>1. ClosedShape(q)
  BY DEF Revised, ClosedShape
<1>2. OpenShape(p) => OpenShape(q)
  BY DEF Revised, OpenShape, Saving, Sent
<1>3. LoadShape(p) => LoadShape(q)
  BY DEF Revised, LoadShape, Saving, Sent, Loading
<1>4. SaveShape(q)
  BY DEF Revised, SaveShape
<1>5. InboxShape(p) /\ host = "inbox" => InboxShape(q)
  BY DEF Revised, InboxShape, Sent
<1>6. SendShape(p) /\ host = "inbox" => SendShape(q)
  BY DEF Revised, SendShape
<1>7. Backed(p, D) /\ host = "inbox" => Backed(q, D)
  BY DEF Revised, Backed
<1>8. Single(p, D, X) /\ host = "inbox" => Single(q, D, X)
  BY DEF Revised, Single
<1>9. Numbered(p, D, v) /\ host = "inbox" => Numbered(q, D, w)
  BY <1>0, <1>r DEF Revised, Numbered
<1> QED
  BY <1>0, <1>1, <1>2, <1>3, <1>4, <1>5, <1>6, <1>7, <1>8, <1>9 DEF Sound, FromInbox

\* A page as it is opened, and one that is closed, are pages.
LEMMA BlankFields ==
  /\ Blank \in Pages
  /\ Blank.open /\ Blank.id = 0 /\ Blank.text = Nothing /\ ~Blank.file
  /\ Blank.status = "draft" /\ ~Blank.saved /\ ~Blank.dirty /\ ~Blank.forced
  /\ ~Blank.timer /\ ~Blank.failed /\ ~Blank.sending
  /\ Blank.dialog = "none" /\ Blank.load = NoRequest /\ Blank.save = NoRequest
  /\ Blank.send = NoRequest /\ Blank.discard = NoRequest /\ Blank.upload = NoRequest
<1>1. Nothing \in Contents /\ 0 \in Ids
  BY ComposerAssumption DEF Nothing, Contents, Ids
<1> QED
  BY <1>1 DEF Blank, Pages

\* The fields of a page that is closed.
LEMMA ClosedFields ==
  /\ Closed \in Pages
  /\ ~Closed.open /\ Closed.id = 0 /\ Closed.text = Nothing /\ ~Closed.file
  /\ Closed.status = "draft" /\ ~Closed.saved /\ ~Closed.dirty /\ ~Closed.forced
  /\ ~Closed.timer /\ ~Closed.failed /\ ~Closed.sending
  /\ Closed.dialog = "none" /\ Closed.load = NoRequest /\ Closed.save = NoRequest
  /\ Closed.send = NoRequest /\ Closed.discard = NoRequest /\ Closed.upload = NoRequest
<1>1. Closed = [Blank EXCEPT !.open = FALSE, !.left = "close"]
  BY DEF Closed
<1> QED
  BY <1>1, BlankFields DEF Pages

\* A page with other requests is one.
LEMMA PageLeft ==
  /\ \A c \in Pages, how \in {"close", "leave", "sent", "discard"},
        a \in {NoRequest} \cup Saves, b \in {NoRequest} \cup SendRequests :
       [c EXCEPT !.left = how, !.save = a, !.send = b] \in Pages
  /\ \A c \in Pages, a \in {NoRequest} \cup Discards, b \in {NoRequest} \cup FileRequests :
       [c EXCEPT !.discard = a, !.upload = b] \in Pages
<1>1. ASSUME NEW c \in Pages, NEW how \in {"close", "leave", "sent", "discard"},
             NEW a \in {NoRequest} \cup Saves, NEW b \in {NoRequest} \cup SendRequests
      PROVE  [c EXCEPT !.left = how, !.save = a, !.send = b] \in Pages
  BY ZenonT(60) DEF Pages
<1>2. ASSUME NEW c \in Pages, NEW a \in {NoRequest} \cup Discards,
             NEW b \in {NoRequest} \cup FileRequests
      PROVE  [c EXCEPT !.discard = a, !.upload = b] \in Pages
  BY DEF Pages
<1> QED
  BY <1>1, <1>2

\* The page as it is left: closed, its requests with nobody to answer to.
LEMMA DropFields ==
  ASSUME NEW p \in Pages, NEW how \in {"close", "leave", "sent", "discard"}
  PROVE  LET q == Drop(p, how)
         IN  /\ q \in Pages
             /\ ~q.open /\ q.id = 0 /\ q.text = Nothing /\ ~q.file /\ q.status = "draft"
             /\ ~q.saved /\ ~q.dirty /\ ~q.forced /\ ~q.timer /\ ~q.failed /\ ~q.sending
             /\ q.dialog = "none" /\ q.left = how /\ q.load = NoRequest
             /\ q.save = Orphan(p.save) /\ q.send = Orphan(p.send)
             /\ q.discard = Orphan(p.discard) /\ q.upload = Orphan(p.upload)
<1>1. Orphan(p.save) \in {NoRequest} \cup Saves
  BY DEF Pages, Saves, Orphan
<1>2. Orphan(p.send) \in {NoRequest} \cup SendRequests
  BY DEF Pages, SendRequests, Orphan
<1>3. Orphan(p.discard) \in {NoRequest} \cup Discards
  BY DEF Pages, Discards, Orphan
<1>4. Orphan(p.upload) \in {NoRequest} \cup FileRequests
  BY DEF Pages, FileRequests, Orphan
<1>5. Nothing \in Contents /\ 0 \in Ids
  BY ComposerAssumption DEF Nothing, Contents, Ids
<1> DEFINE a == Orphan(p.save)
           b == Orphan(p.send)
           c == Orphan(p.discard)
           e == Orphan(p.upload)
<1>6. /\ Closed \in Pages
      /\ ~Closed.open /\ Closed.id = 0 /\ Closed.text = Nothing /\ ~Closed.file
      /\ Closed.status = "draft" /\ ~Closed.saved /\ ~Closed.dirty /\ ~Closed.forced
      /\ ~Closed.timer /\ ~Closed.failed /\ ~Closed.sending
      /\ Closed.dialog = "none" /\ Closed.load = NoRequest
  BY ClosedFields
<1>7. Drop(p, how) = [Closed EXCEPT !.left = how, !.save = a, !.send = b,
                                    !.discard = c, !.upload = e]
  BY DEF Drop
<1>8. a \in {NoRequest} \cup Saves /\ b \in {NoRequest} \cup SendRequests
      /\ c \in {NoRequest} \cup Discards /\ e \in {NoRequest} \cup FileRequests
  BY <1>1, <1>2, <1>3, <1>4
<1> HIDE DEF a, b, c, e
<1>9. Drop(p, how) \in Pages
  <2> DEFINE q == [Closed EXCEPT !.left = how, !.save = a, !.send = b]
  <2>1. q \in Pages
    BY <1>6, <1>8, PageLeft
  <2>2. Drop(p, how) = [q EXCEPT !.discard = c, !.upload = e]
    BY <1>7
  <2> HIDE DEF q
  <2> QED
    <3>1. /\ q \in Pages /\ c \in {NoRequest} \cup Discards
          /\ e \in {NoRequest} \cup FileRequests
      BY <1>8, <2>1
    <3>2. [q EXCEPT !.discard = c, !.upload = e] \in Pages
      BY <3>1, PageLeft
    <3> QED
      BY <2>2, <3>2
<1>10. LET q == Drop(p, how)
       IN  /\ ~q.open /\ q.id = 0 /\ q.text = Nothing /\ ~q.file /\ q.status = "draft"
           /\ ~q.saved /\ ~q.dirty /\ ~q.forced /\ ~q.timer /\ ~q.failed /\ ~q.sending
           /\ q.dialog = "none" /\ q.left = how /\ q.load = NoRequest
           /\ q.save = a /\ q.send = b /\ q.discard = c /\ q.upload = e
  BY <1>6, <1>7 DEF Pages
<1> QED
  BY <1>9, <1>10 DEF a, b, c, e

\* An orphan is the request it was, but for its answer.
LEMMA OrphanFields ==
  ASSUME NEW r
  PROVE  /\ r \in {NoRequest} \cup Saves =>
              /\ Orphan(r) = NoRequest <=> r = NoRequest
              /\ r # NoRequest =>
                   /\ Orphan(r).at = r.at /\ Orphan(r).id = r.id /\ Orphan(r).text = r.text
                   /\ Orphan(r).current = r.current /\ Orphan(r).callers = r.callers
                   /\ ~Orphan(r).live
         /\ r \in {NoRequest} \cup SendRequests =>
              /\ Orphan(r) = NoRequest <=> r = NoRequest
              /\ r # NoRequest =>
                   /\ Orphan(r).id = r.id /\ Orphan(r).shown = r.shown
                   /\ Orphan(r).rewritten = r.rewritten /\ ~Orphan(r).live
         /\ r \in {NoRequest} \cup Discards \cup FileRequests =>
              /\ Orphan(r) = NoRequest <=> r = NoRequest
              /\ r # NoRequest => ~Orphan(r).live
<1>1. CASE r \in Saves
  BY <1>1 DEF Orphan, Saves, NoRequest
<1>2. CASE r \in SendRequests
  BY <1>2 DEF Orphan, SendRequests, NoRequest
<1>3. CASE r \in Discards
  BY <1>3 DEF Orphan, Discards, NoRequest
<1>4. CASE r \in FileRequests
  BY <1>4 DEF Orphan, FileRequests, NoRequest
<1> QED
  BY <1>1, <1>2, <1>3, <1>4 DEF Orphan

\* A page that is dropped stays sound, whatever is still under way for it.
LEMMA DropIsSound ==
  ASSUME NEW p, NEW D, NEW X, NEW w \in Nat, NEW how \in {"close", "leave", "sent", "discard"},
         Sound(p, D, X, w)
  PROVE  Sound(Drop(p, how), D, X, w)
<1> DEFINE q == Drop(p, how)
<1>1. p \in Pages
  BY DEF Sound
<1>2. /\ p.save \in {NoRequest} \cup Saves /\ p.send \in {NoRequest} \cup SendRequests
      /\ p.discard \in {NoRequest} \cup Discards \cup FileRequests
      /\ p.upload \in {NoRequest} \cup Discards \cup FileRequests
  BY <1>1 DEF Pages
<1>3. /\ q \in Pages
      /\ ~q.open /\ q.id = 0 /\ q.text = Nothing /\ ~q.file /\ q.status = "draft"
      /\ ~q.saved /\ ~q.dirty /\ ~q.forced /\ ~q.timer /\ ~q.failed /\ ~q.sending
      /\ q.dialog = "none" /\ q.load = NoRequest
      /\ q.save = Orphan(p.save) /\ q.send = Orphan(p.send)
      /\ q.discard = Orphan(p.discard) /\ q.upload = Orphan(p.upload)
  BY <1>1, DropFields
<1>4. /\ Saving(q) <=> Saving(p)
      /\ Saving(p) =>
           /\ q.save.at = p.save.at /\ q.save.id = p.save.id /\ q.save.text = p.save.text
           /\ q.save.callers = p.save.callers /\ ~q.save.live
  BY <1>2, <1>3, OrphanFields DEF Saving
<1>5. /\ Sent(q) <=> Sent(p)
      /\ Sent(p) =>
           /\ q.send.id = p.send.id /\ q.send.shown = p.send.shown
           /\ q.send.rewritten = p.send.rewritten /\ ~q.send.live
  BY <1>2, <1>3, OrphanFields DEF Sent
<1>6. /\ q.discard # NoRequest => ~q.discard.live
      /\ q.upload # NoRequest => ~q.upload.live
  BY <1>2, <1>3, OrphanFields
<1> HIDE DEF q
<1>7. ClosedShape(q)
  BY <1>3, <1>4, <1>5, <1>6 DEF ClosedShape, Loading
<1>8. OpenShape(q) /\ LoadShape(q) /\ SaveShape(q)
  BY <1>3, <1>4 DEF OpenShape, LoadShape, SaveShape, Loading
<1>9. InboxShape(p) => InboxShape(q)
  BY <1>3, <1>4, <1>5 DEF InboxShape, Nothing
<1>10. SendShape(p) => SendShape(q)
  BY <1>3, <1>4, <1>5 DEF SendShape
<1>11. Backed(p, D) => Backed(q, D)
  BY <1>3, <1>5 DEF Backed
<1>12. Single(p, D, X) => Single(q, D, X)
  BY <1>3, <1>4 DEF Single
<1>13. Numbered(p, D, w) => Numbered(q, D, w)
  BY <1>3, <1>4 DEF Numbered, Nothing
<1> QED
  BY <1>3, <1>7, <1>8, <1>9, <1>10, <1>11, <1>12, <1>13 DEF Sound, FromInbox, q

\* The page is cleared for another message.  From the inbox it has no request then.
LEMMA ResetIsSound ==
  ASSUME NEW p, NEW D, NEW X, NEW w \in Nat, NEW h \in {"full", "popup", "minimized"},
         Sound(p, D, X, w), host = "inbox" => ~Saving(p) /\ ~Sent(p)
  PROVE  LET q == Reset([p EXCEPT !.size = h])
         IN  /\ Sound(q, D, X, w)
             /\ q.text = Nothing /\ q.open = p.open /\ q.load = p.load /\ q.send = p.send
             /\ Saving(q) <=> Saving(p)
<1> DEFINE r == [p EXCEPT !.size = h]
           o == Outdate(r)
           q == Reset(r)
<1>1. p \in Pages
  BY DEF Sound
<1>2. /\ r \in Pages /\ r.open = p.open /\ r.sending = p.sending /\ r.dialog = p.dialog
      /\ r.load = p.load /\ r.send = p.send /\ r.save = p.save
      /\ r.discard = p.discard /\ r.upload = p.upload
  BY <1>1 DEF Pages
<1>3. /\ o \in Pages /\ o.open = r.open /\ o.sending = r.sending /\ o.dialog = r.dialog
      /\ o.load = r.load /\ o.send = r.send /\ o.discard = r.discard /\ o.upload = r.upload
      /\ ~o.saved
      /\ Saving(o) <=> Saving(r)
      /\ Saving(o) => ~o.save.current /\ o.save.live = r.save.live
  BY <1>2, OutdateFields DEF Saving
<1>4. q = [o EXCEPT !.timer = FALSE, !.id = 0, !.text = Nothing, !.file = FALSE,
                    !.status = "draft", !.failed = FALSE, !.forced = FALSE,
                    !.dirty = FALSE, !.error = FALSE]
  BY DEF Reset
<1> HIDE DEF r, o, q
<1>5. Nothing \in Contents /\ 0 \in Ids /\ Nothing.of = 0 /\ Nothing.v = 0
  BY ComposerAssumption DEF Nothing, Contents, Ids
<1>6. /\ q \in Pages /\ ~q.timer /\ q.id = 0 /\ q.text = Nothing /\ ~q.file
      /\ q.status = "draft" /\ ~q.failed /\ ~q.forced /\ ~q.dirty
  BY <1>3, <1>4, <1>5, ZenonT(60) DEF Pages
<1>7. /\ q.open = o.open /\ q.sending = o.sending /\ q.dialog = o.dialog /\ q.saved = o.saved
      /\ q.load = o.load /\ q.send = o.send /\ q.save = o.save
      /\ q.discard = o.discard /\ q.upload = o.upload
  BY <1>3, <1>4 DEF Pages
<1>8. /\ q.open = p.open /\ q.sending = p.sending /\ q.dialog = p.dialog /\ ~q.saved
      /\ q.load = p.load /\ q.send = p.send /\ q.discard = p.discard /\ q.upload = p.upload
      /\ Saving(q) <=> Saving(p)
      /\ Saving(q) => ~q.save.current /\ q.save.live = p.save.live
  BY <1>2, <1>3, <1>7 DEF Saving
<1>9. ClosedShape(p) => ClosedShape(q)
  BY <1>6, <1>8 DEF ClosedShape, Loading, Sent
<1>10. OpenShape(p) => OpenShape(q)
  BY <1>6, <1>8 DEF OpenShape, Sent
<1>11. LoadShape(p) => LoadShape(q)
  BY <1>6, <1>8 DEF LoadShape, Loading, Sent
<1>12. SaveShape(q)
  BY <1>8 DEF SaveShape
<1>13. host = "inbox" /\ FromInbox(p, D, X, w) => InboxShape(q) /\ SendShape(q)
  BY <1>5, <1>6, <1>8 DEF FromInbox, InboxShape, SendShape, Sent
<1>14. host = "inbox" /\ FromInbox(p, D, X, w) => Backed(q, D)
  BY <1>6, <1>8 DEF FromInbox, Backed, Sent, Reads, DraftRows
<1>15. host = "inbox" /\ FromInbox(p, D, X, w) => Single(q, D, X) /\ Numbered(q, D, w)
  BY <1>5, <1>6, <1>8 DEF FromInbox, Single, Sole, Numbered
<1>16. Sound(q, D, X, w)
  BY <1>6, <1>9, <1>10, <1>11, <1>12, <1>13, <1>14, <1>15 DEF Sound, FromInbox
<1> QED
  BY <1>6, <1>8, <1>16 DEF q, r

-----------------------------------------------------------------------------
(* What waits for a save goes on, one operation after the other.           *)

\* A set that holds 0, and with a number the next one up to n, holds all of them.
LEMMA UpTo ==
  ASSUME NEW n \in Nat, NEW S, 0 \in S, \A i \in 0..n : i \in S /\ i < n => i + 1 \in S
  PROVE  0..n \subseteq S
<1> DEFINE T == {i \in 0..n : i \notin S}
<1> SUFFICES ASSUME T # {} PROVE FALSE
  OBVIOUS
<1>1. IsWellFoundedOn(OpToRel(<, Nat), Nat)
  BY NatLessThanWellFounded
<1>2. T \subseteq Nat
  OBVIOUS
<1>3. \E i \in T : \A j \in T : <<j, i>> \notin OpToRel(<, Nat)
  <2> HIDE DEF T
  <2> QED
    BY <1>1, <1>2, WFMin
<1>4. PICK i \in T : \A j \in T : <<j, i>> \notin OpToRel(<, Nat)
  BY <1>3
<1>5. i # 0 /\ i - 1 \in 0..n /\ i - 1 < i
  OBVIOUS
<1>6. <<i - 1, i>> \in OpToRel(<, Nat)
  BY <1>5, i \in Nat, i - 1 \in Nat DEF OpToRel
<1>7. i - 1 \in S
  BY <1>4, <1>5, <1>6
<1>8. (i - 1) + 1 = i /\ i - 1 < n
  BY i \in 0..n, n \in Nat
<1>9. i \in S
  BY <1>5, <1>7, <1>8
<1> QED
  BY <1>9

\* Those who wait go on one after the other, and each finds the page as it may be.
LEMMA ResumeStays ==
  ASSUME NEW C, NEW callers \in Seq(C), NEW Q, NEW p \in Q,
         \A q \in Q, c \in C : Continue(q, c) \in Q
  PROVE  Resume(p, callers) \in Q
<1> DEFINE n == Len(callers)
           Step(f, m) == IF m = 0 THEN p ELSE Continue(f[m - 1], callers[m])
           Run(f, m) == f = [k \in 0..m |-> Step(f, k)]
           after[k \in 0..n] == IF k = 0 THEN p ELSE Continue(after[k - 1], callers[k])
<1>0. n \in Nat /\ \A k \in 1..n : callers[k] \in C
  OBVIOUS
<1> HIDE DEF n
<1>1. \E f : Run(f, n)
  <2> DEFINE S == {m \in 0..n : \E f : Run(f, m)}
  <2>1. 0 \in S
    <3> DEFINE g == [k \in 0..0 |-> p]
    <3>1. g = [k \in 0..0 |-> Step(g, k)]
      BY \A k \in 0..0 : k = 0
    <3>2. Run(g, 0)
      BY <3>1
    <3> HIDE DEF Run, g
    <3>3. 0 \in 0..n
      BY <1>0
    <3> QED
      BY <3>2, <3>3
  <2>2. ASSUME NEW m \in 0..n, m \in S, m < n PROVE m + 1 \in S
    <3>1. PICK f : Run(f, m)
      BY <2>2
    <3> DEFINE g == [k \in 0..(m + 1) |-> IF k = m + 1 THEN Continue(f[m], callers[m + 1]) ELSE f[k]]
    <3>2. ASSUME NEW k \in 0..(m + 1) PROVE g[k] = Step(g, k)
      <4>1. CASE k = m + 1
        <5>1. k - 1 = m /\ k - 1 \in 0..(m + 1) /\ k # 0
          BY <4>1
        <5>2. g[m] = f[m]
          OBVIOUS
        <5>3. g[k] = Continue(f[m], callers[m + 1])
          BY <4>1
        <5> HIDE DEF g
        <5> QED
          BY <4>1, <5>1, <5>2, <5>3
      <4>2. CASE k # m + 1
        <5>1. k \in 0..m
          BY <4>2
        <5>2. g[k] = f[k] /\ (k # 0 => g[k - 1] = f[k - 1])
          BY <4>2
        <5>3. f[k] = Step(f, k)
          BY <3>1, <5>1
        <5> HIDE DEF g
        <5> QED
          BY <5>2, <5>3
      <4> QED
        BY <4>1, <4>2
    <3>3. Run(g, m + 1)
      <4>1. g = [k \in 0..(m + 1) |-> g[k]]
        OBVIOUS
      <4> HIDE DEF g
      <4> QED
        BY <3>2, <4>1
    <3>4. m + 1 \in 0..n
      BY <1>0, <2>2
    <3> QED
      BY <3>3, <3>4
  <2>3. 0..n \subseteq S
    <3> HIDE DEF S
    <3> QED
      BY <1>0, <2>1, <2>2, UpTo
  <2>4. n \in S
    <3> HIDE DEF S
    <3> QED
      BY <1>0, <2>3
  <2> QED
    BY <2>4
<1>2. after = [k \in 0..n |-> IF k = 0 THEN p ELSE Continue(after[k - 1], callers[k])]
  BY <1>1
<1>3. after[0] = p /\ \A k \in 1..n : after[k] = Continue(after[k - 1], callers[k])
  <2> HIDE DEF after
  <2> QED
    BY <1>0, <1>2
<1>4. Resume(p, callers) = after[n]
  BY DEF Resume, n
<1> HIDE DEF after
<1>5. 0..n \subseteq {k \in 0..n : after[k] \in Q}
  <2> DEFINE S == {k \in 0..n : after[k] \in Q}
  <2>1. 0 \in S
    BY <1>0, <1>3
  <2>2. ASSUME NEW m \in 0..n, m \in S, m < n PROVE m + 1 \in S
    <3>1. m + 1 \in 1..n /\ (m + 1) - 1 = m
      BY <1>0, <2>2
    <3>2. after[m + 1] = Continue(after[m], callers[m + 1])
      BY <1>3, <3>1
    <3> QED
      BY <1>0, <2>2, <3>1, <3>2
  <2> HIDE DEF S
  <2>3. 0..n \subseteq S
    BY <1>0, <2>1, <2>2, UpTo
  <2> QED
    BY <2>3 DEF S
<1> QED
  BY <1>0, <1>4, <1>5

\* The mark of an upload is nothing that anything else depends on.
LEMMA UploadEnds ==
  ASSUME NEW p \in Pages
  PROVE  LET q == [p EXCEPT !.uploading = FALSE]
         IN  /\ q \in Pages /\ Aside(p, q)
             /\ q.save = p.save /\ q.send = p.send /\ q.error = p.error /\ q.dialog = p.dialog
             /\ q.timer = p.timer /\ q.sending = p.sending
<1> DEFINE q == [p EXCEPT !.uploading = FALSE]
<1>1. q = [p EXCEPT !.uploading = FALSE]
  OBVIOUS
<1> HIDE DEF q
<1>2. /\ q \in Pages /\ q.error = p.error
      /\ q.open = p.open /\ q.id = p.id /\ q.text = p.text /\ q.file = p.file
      /\ q.status = p.status /\ q.saved = p.saved /\ q.dirty = p.dirty
      /\ q.forced = p.forced /\ q.timer = p.timer /\ q.failed = p.failed
      /\ q.sending = p.sending /\ q.dialog = p.dialog /\ q.load = p.load
      /\ q.save = p.save /\ q.send = p.send /\ q.discard = p.discard /\ q.upload = p.upload
  BY <1>1 DEF Pages
<1>3. Aside(p, q)
  BY <1>2 DEF Aside
<1> QED
  BY <1>2, <1>3 DEF q

\* What goes on after a save keeps a page sound.  From the inbox, nothing is confirmed
\* or cleared while a save is under way.
LEMMA ContinueIsSound ==
  ASSUME NEW p, NEW D, NEW X, NEW w \in Nat, NEW caller \in CallerNames, Sound(p, D, X, w),
         host = "inbox" /\ caller \in {"send", "fresh"} => ~Saving(p) /\ ~Sent(p)
  PROVE  LET q == Continue(p, caller)
         IN  /\ Sound(q, D, X, w)
             /\ Remembered(p) => Remembered(q)
             /\ ~Saving(p) => ~Saving(q)
             /\ Sent(q) <=> Sent(p)
<1> DEFINE q == Continue(p, caller)
<1>0. p \in Pages
  BY DEF Sound
<1>1. CASE caller = "timer"
  <2>1. q = p
    BY <1>1 DEF Continue
  <2> QED
    BY <2>1
<1>2. CASE caller = "close"
  <2>1. q = Drop(p, "close")
    BY <1>2 DEF Continue
  <2>2. Sound(q, D, X, w)
    BY <2>1, DropIsSound
  <2>3. /\ ~q.open /\ q.save = Orphan(p.save) /\ q.send = Orphan(p.send)
    BY <1>0, <2>1, DropFields
  <2>4. p.send \in {NoRequest} \cup SendRequests
    BY <1>0 DEF Pages
  <2>5. Sent(q) <=> Sent(p)
    BY <2>3, <2>4, OrphanFields DEF Sent
  <2> HIDE DEF q
  <2> QED
    BY <2>2, <2>3, <2>5 DEF Remembered, Saving, Orphan, q
<1>3. CASE caller = "send"
  <2>1. q = IF CanSend(p) /\ p.saved THEN [p EXCEPT !.dialog = "send"] ELSE p
    BY <1>3 DEF Continue
  <2>2. CASE ~(CanSend(p) /\ p.saved)
    BY <2>1, <2>2
  <2>3. CASE CanSend(p) /\ p.saved
    <3>1. /\ q \in Pages /\ q.dialog = "send"
          /\ q.open = p.open /\ q.id = p.id /\ q.text = p.text /\ q.file = p.file
          /\ q.status = p.status /\ q.saved = p.saved /\ q.dirty = p.dirty
          /\ q.forced = p.forced /\ q.timer = p.timer /\ q.error = p.error
          /\ q.failed = p.failed /\ q.sending = p.sending /\ q.load = p.load
          /\ q.save = p.save /\ q.send = p.send /\ q.discard = p.discard
          /\ q.upload = p.upload
      <4>1. q = [p EXCEPT !.dialog = "send"]
        BY <2>1, <2>3
      <4> HIDE DEF q
      <4> QED
        BY <1>0, <4>1 DEF Pages
    <3> HIDE DEF q
    <3>2. p.id # 0 /\ Meaningful(p) /\ ~Loading(p) /\ p.status = "draft"
      BY <2>3 DEF CanSend
    <3>3. ClosedShape(q) /\ OpenShape(q)
      BY <3>1, <3>2 DEF Sound, ClosedShape, OpenShape, Saving, Sent, Loading
    <3>4. LoadShape(q) /\ SaveShape(q)
      BY <3>1, <3>2 DEF Sound, LoadShape, SaveShape, Loading, Saving, Meaningful
    <3>5. host = "inbox" => InboxShape(q) /\ SendShape(q)
      BY <1>3, <3>1 DEF Sound, FromInbox, InboxShape, SendShape, Saving, Sent
    <3>6. host = "inbox" => Backed(q, D)
      BY <2>3, <3>1, <3>2 DEF Sound, FromInbox, Backed, Sent, Meaningful
    <3>7. host = "inbox" => Single(q, D, X) /\ Numbered(q, D, w)
      BY <3>1 DEF Sound, FromInbox, Single, Numbered, Saving
    <3> QED
      BY <3>1, <3>3, <3>4, <3>5, <3>6, <3>7
      DEF Sound, FromInbox, Remembered, Saving, Sent, Loading, q
  <2> QED
    BY <2>2, <2>3
<1>4. CASE caller = "fresh"
  <2>1. q = Reset([p EXCEPT !.size = "full"])
    BY <1>4 DEF Continue
  <2>2. /\ Sound(q, D, X, w) /\ q.text = Nothing /\ q.send = p.send
        /\ Saving(q) <=> Saving(p)
    <3>1. host = "inbox" => ~Saving(p) /\ ~Sent(p)
      BY <1>4
    <3> DEFINE r == Reset([p EXCEPT !.size = "full"])
    <3>2. "full" \in {"full", "popup", "minimized"}
      OBVIOUS
    <3>3. /\ Sound(r, D, X, w) /\ r.text = Nothing /\ r.send = p.send
          /\ Saving(r) <=> Saving(p)
      BY <3>1, <3>2, ResetIsSound
    <3> HIDE DEF r
    <3> QED
      BY <2>1, <3>3 DEF r
  <2> HIDE DEF q
  <2> QED
    BY <2>2 DEF Remembered, Sent, Nothing, q
<1>5. CASE caller = "file"
  <2>1. CASE p.id = 0
    <3>1. q = [p EXCEPT !.uploading = FALSE]
      BY <1>5, <2>1 DEF Continue
    <3>2. q \in Pages /\ Aside(p, q) /\ q.save = p.save /\ q.send = p.send /\ q.timer = p.timer
          /\ q.error = p.error /\ q.sending = p.sending
      BY <1>0, <3>1, UploadEnds
    <3> HIDE DEF q
    <3>s. Sound(q, D, X, w)
      BY <3>2, AsideIsSound
    <3> QED
      BY <3>2, <3>s DEF Remembered, Saving, Sent, Loading, Aside, q
  <2>2. CASE p.id # 0
    <3> DEFINE r == [at |-> "add", id |-> p.id, live |-> TRUE]
    <3>1. q = [p EXCEPT !.upload = r]
      BY <1>5, <2>2 DEF Continue
    <3>2. r \in FileRequests /\ r.live
      BY <1>0 DEF FileRequests, Pages
    <3>3. p.open /\ (Loading(p) => p.load.id # 0)
      BY <2>2 DEF Sound, ClosedShape, LoadShape
    <3> HIDE DEF r
    <3>5. q \in Pages /\ q.upload = r
          /\ q.open = p.open /\ q.id = p.id /\ q.text = p.text /\ q.file = p.file
          /\ q.status = p.status /\ q.saved = p.saved /\ q.dirty = p.dirty
          /\ q.forced = p.forced /\ q.timer = p.timer /\ q.error = p.error
          /\ q.failed = p.failed /\ q.sending = p.sending /\ q.load = p.load
          /\ q.save = p.save /\ q.send = p.send /\ q.discard = p.discard
          /\ q.dialog = p.dialog
      BY <1>0, <3>1, <3>2 DEF Pages
    <3> HIDE DEF q
    <3>6. Aside(p, q)
      BY <3>2, <3>3, <3>5 DEF Aside
    <3> QED
      BY <3>5, <3>6, AsideIsSound DEF Remembered, Saving, Sent, Loading, q
  <2> QED
    BY <2>1, <2>2
<1>6. CASE caller \in {"full", "popup", "minimized"}
  <2>1. q = [p EXCEPT !.size = caller]
    BY <1>6 DEF Continue
  <2>2. q \in Pages /\ Aside(p, q) /\ q.save = p.save /\ q.send = p.send /\ q.timer = p.timer
        /\ q.error = p.error /\ q.sending = p.sending
    BY <1>0, <1>6, <2>1 DEF Pages, Aside
  <2> HIDE DEF q
  <2>s. Sound(q, D, X, w)
    BY <2>2, AsideIsSound
  <2> QED
    BY <2>2, <2>s DEF Remembered, Saving, Sent, Loading, Aside, q
<1> QED
  BY <1>1, <1>2, <1>3, <1>4, <1>5, <1>6 DEF CallerNames

-----------------------------------------------------------------------------
(* A save begins, or has nothing to do; its answer lands.                  *)

\* A save that begins carries what is shown, for the draft that is shown.
LEMMA BeginIsSound ==
  ASSUME NEW p, NEW D, NEW X, NEW w \in Nat, NEW callers \in Seq(CallerNames) \ {<<>>},
         Sound(p, D, X, w), p.open, Loading(p) => p.load.id # 0,
         host = "inbox" =>
           ~p.saved /\ (p.dialog = "send" \/ Sent(p) => callers \in Seq({"timer"}))
  PROVE  LET q == Begin(p, callers)
         IN  Sound(q, D, X, w) /\ Saving(q) /\ q.open /\ q.text = p.text /\ q.send = p.send
<1> DEFINE s == [at |-> IF p.id = 0 THEN "create" ELSE "update", id |-> p.id,
                 text |-> p.text, current |-> TRUE, callers |-> callers, live |-> TRUE]
           q == Begin(p, callers)
<1>0. p \in Pages
  BY DEF Sound
<1>1. /\ s \in Saves /\ s # NoRequest
      /\ s.at = IF p.id = 0 THEN "create" ELSE "update"
      /\ s.id = p.id /\ s.text = p.text /\ s.callers = callers /\ s.live
  BY <1>0 DEF Pages, Saves, NoRequest
<1>2. q = [p EXCEPT !.error = FALSE, !.save = s]
  BY DEF Begin
<1> HIDE DEF s, q
<1>3. /\ q \in Pages /\ q.save = s
      /\ q.open = p.open /\ q.id = p.id /\ q.text = p.text /\ q.file = p.file
      /\ q.status = p.status /\ q.saved = p.saved /\ q.dirty = p.dirty
      /\ q.forced = p.forced /\ q.timer = p.timer
      /\ q.failed = p.failed /\ q.sending = p.sending /\ q.load = p.load
      /\ q.send = p.send /\ q.discard = p.discard /\ q.upload = p.upload
      /\ q.dialog = p.dialog
  BY <1>0, <1>1, <1>2 DEF Pages
<1>4. ClosedShape(q) /\ LoadShape(q) /\ SaveShape(q)
  BY <1>1, <1>3 DEF ClosedShape, LoadShape, SaveShape, Loading, Sound
<1>5. OpenShape(q)
  BY <1>1, <1>3 DEF OpenShape, Saving, Sent, Sound
<1>6. host = "inbox" => InboxShape(q)
  BY <1>1, <1>3 DEF Sound, FromInbox, InboxShape, Saving, Sent
<1>7. host = "inbox" => SendShape(q)
  BY <1>1, <1>3 DEF Sound, FromInbox, SendShape, Saving, Sent
<1>8. host = "inbox" => Backed(q, D)
  BY <1>3 DEF Sound, FromInbox, Backed, Sent, Meaningful
<1>9. host = "inbox" => Single(q, D, X) /\ Numbered(q, D, w)
  BY <1>1, <1>3 DEF Sound, FromInbox, Single, Numbered, Saving
<1> QED
  BY <1>1, <1>3, <1>4, <1>5, <1>6, <1>7, <1>8, <1>9 DEF Sound, FromInbox, Saving, q

\* Whoever gives up changes nothing but the mark of an upload.
LEMMA GiveUpIsSound ==
  ASSUME NEW p, NEW D, NEW X, NEW w \in Nat, NEW callers, Sound(p, D, X, w)
  PROVE  LET q == GiveUp(p, callers)
         IN  /\ Sound(q, D, X, w) /\ Aside(p, q)
             /\ q.save = p.save /\ q.send = p.send /\ q.error = p.error /\ q.dialog = p.dialog
             /\ q.timer = p.timer /\ q.sending = p.sending
<1> DEFINE q == GiveUp(p, callers)
<1>0. p \in Pages
  BY DEF Sound
<1>1. q \in {p, [p EXCEPT !.uploading = FALSE]}
  BY DEF GiveUp
<1> HIDE DEF q
<1>2. /\ q \in Pages /\ Aside(p, q)
      /\ q.save = p.save /\ q.send = p.send /\ q.error = p.error /\ q.dialog = p.dialog
      /\ q.timer = p.timer /\ q.sending = p.sending
  <2>1. CASE q = p
    BY <1>0, <2>1 DEF Aside
  <2>2. CASE q = [p EXCEPT !.uploading = FALSE]
    BY <1>0, <2>2, UploadEnds
  <2> QED
    BY <1>1, <2>1, <2>2
<1> QED
  BY <1>2, AsideIsSound DEF q

\* The timer, or a caller in place of it, is about to save.
LEMMA UntimedIsSound ==
  ASSUME NEW p, NEW D, NEW X, NEW w \in Nat, Sound(p, D, X, w)
  PROVE  LET q == [p EXCEPT !.timer = FALSE]
         IN  /\ Sound(q, D, X, w) /\ Aside(p, q) /\ ~q.timer
             /\ q.save = p.save /\ q.send = p.send /\ q.error = p.error
             /\ q.dialog = p.dialog /\ q.sending = p.sending
<1> DEFINE q == [p EXCEPT !.timer = FALSE]
<1>0. p \in Pages
  BY DEF Sound
<1>e. q = [p EXCEPT !.timer = FALSE]
  OBVIOUS
<1> HIDE DEF q
<1>1. /\ q \in Pages /\ Aside(p, q) /\ ~q.timer
      /\ q.save = p.save /\ q.send = p.send /\ q.error = p.error
      /\ q.dialog = p.dialog /\ q.sending = p.sending
  BY <1>0, <1>e DEF Pages, Aside
<1> QED
  BY <1>1, AsideIsSound DEF q

\* One more waits for the save that is under way.
LEMMA QueueIsSound ==
  ASSUME NEW p, NEW D, NEW X, NEW w \in Nat, NEW caller \in CallerNames,
         Sound(p, D, X, w), p.open, Saving(p),
         host = "inbox" /\ (p.dialog = "send" \/ Sent(p)) => caller = "timer"
  PROVE  LET q == [p EXCEPT !.save.callers = Append(@, caller)]
         IN  Sound(q, D, X, w) /\ Saving(q) /\ q.open /\ q.text = p.text
<1> DEFINE s == [p.save EXCEPT !.callers = Append(@, caller)]
           q == [p EXCEPT !.save.callers = Append(@, caller)]
<1>0. p \in Pages /\ p.save \in Saves
  BY DEF Sound, Pages, Saving
<1>1. /\ Append(p.save.callers, caller) \in Seq(CallerNames) \ {<<>>}
      /\ p.save.callers \in Seq({"timer"}) /\ caller = "timer" =>
           Append(p.save.callers, caller) \in Seq({"timer"})
  <2>1. p.save.callers \in Seq(CallerNames)
    BY <1>0 DEF Saves
  <2> QED
    BY <2>1
<1>2. /\ s \in Saves /\ s # NoRequest
      /\ s.at = p.save.at /\ s.id = p.save.id /\ s.text = p.save.text
      /\ s.current = p.save.current /\ s.live = p.save.live
      /\ s.callers = Append(p.save.callers, caller)
  BY <1>0, <1>1 DEF Saves, NoRequest
<1>3. q = [p EXCEPT !.save = s]
  OBVIOUS
<1> HIDE DEF s, q
<1>4. /\ q \in Pages /\ q.save = s
      /\ q.open = p.open /\ q.id = p.id /\ q.text = p.text /\ q.file = p.file
      /\ q.status = p.status /\ q.saved = p.saved /\ q.dirty = p.dirty
      /\ q.forced = p.forced /\ q.timer = p.timer
      /\ q.failed = p.failed /\ q.sending = p.sending /\ q.load = p.load
      /\ q.send = p.send /\ q.discard = p.discard /\ q.upload = p.upload
      /\ q.dialog = p.dialog
  BY <1>0, <1>2, <1>3 DEF Pages
<1>5. ClosedShape(q) /\ LoadShape(q) /\ SaveShape(q)
  BY <1>2, <1>4 DEF ClosedShape, LoadShape, SaveShape, Loading, Sound, Saving, Meaningful
<1>6. OpenShape(q)
  BY <1>2, <1>4 DEF OpenShape, Saving, Sent, Sound
<1>7. host = "inbox" => InboxShape(q)
  BY <1>1, <1>2, <1>4, ZenonT(60) DEF Sound, FromInbox, InboxShape, Saving, Sent
<1>8. host = "inbox" => SendShape(q)
  BY <1>2, <1>4 DEF Sound, FromInbox, SendShape, Saving, Sent
<1>9. host = "inbox" => Backed(q, D)
  BY <1>4 DEF Sound, FromInbox, Backed, Sent, Meaningful
<1>10. host = "inbox" => Single(q, D, X) /\ Numbered(q, D, w)
  BY <1>2, <1>4 DEF Sound, FromInbox, Single, Numbered, Saving
<1> QED
  BY <1>2, <1>4, <1>5, <1>6, <1>7, <1>8, <1>9, <1>10 DEF Sound, FromInbox, Saving, q

\* What is written on page p, in place or in the rows D, is not lost with it.
Keeps(p, q, D) ==
  p.open /\ p.status = "draft" /\ p.text.v > 0 /\ ~p.saved =>
    \/ q.open /\ q.text = p.text
    \/ \E d \in DraftRows : D[d] = p.text

\* An operation that saves first keeps the page sound, and what is written on it.
LEMMA CallIsSound ==
  ASSUME NEW p, NEW D, NEW X, NEW w \in Nat, NEW caller \in CallerNames,
         Sound(p, D, X, w), p.open,
         host = "inbox" /\ (p.dialog = "send" \/ Sent(p)) => caller = "timer",
         host = "inbox" /\ caller \in {"send", "fresh"} => Meaningful(p)
  PROVE  LET q == Call(p, caller)
         IN  Sound(q, D, X, w) /\ Remembered(q) /\ Keeps(p, q, D)
<1> DEFINE u == [p EXCEPT !.timer = FALSE]
           q == Call(p, caller)
<1>0. p \in Pages
  BY DEF Sound
<1>1. /\ Sound(u, D, X, w) /\ u \in Pages
      /\ u.open = p.open /\ u.id = p.id /\ u.text = p.text /\ u.file = p.file
      /\ u.status = p.status /\ u.saved = p.saved /\ u.dirty = p.dirty /\ u.forced = p.forced
      /\ u.load = p.load /\ u.save = p.save /\ u.send = p.send /\ u.error = p.error
      /\ u.dialog = p.dialog /\ u.sending = p.sending
  BY UntimedIsSound DEF Aside, Sound
<1>2. q = IF u.status # "draft" THEN GiveUp(u, <<caller>>)
          ELSE IF Settled(u) THEN Continue(u, caller)
          ELSE IF u.save = NoRequest THEN Begin(u, <<caller>>)
          ELSE [u EXCEPT !.save.callers = Append(@, caller)]
  BY DEF Call
<1> HIDE DEF u, q
<1>3. CASE u.status # "draft"
  <2> DEFINE g == GiveUp(u, <<caller>>)
  <2>1. q = g
    BY <1>2, <1>3
  <2>2. Sound(g, D, X, w) /\ g.status = u.status
    BY <1>1, GiveUpIsSound DEF Aside
  <2> HIDE DEF g
  <2> QED
    BY <1>1, <1>3, <2>1, <2>2 DEF Remembered, Keeps, q
<1>4. CASE u.status = "draft" /\ Settled(u)
  <2> DEFINE g == Continue(u, caller)
  <2>1. q = g
    BY <1>2, <1>4
  <2>2. u.text.v > 0 => u.saved
    BY <1>4 DEF Settled, Savable, Meaningful
  <2>3. Remembered(u)
    BY <2>2 DEF Remembered
  <2>4. host = "inbox" /\ caller \in {"send", "fresh"} => ~Saving(u) /\ ~Sent(u)
    <3>1. Meaningful(p) => Meaningful(u)
      BY <1>1 DEF Meaningful
    <3>2. Meaningful(u) => u.saved
      BY <1>4 DEF Settled, Savable
    <3> QED
      BY <1>1, <3>1, <3>2 DEF Sound, FromInbox, InboxShape, Sent
  <2>5. Sound(g, D, X, w) /\ Remembered(g)
    BY <1>1, <2>3, <2>4, ContinueIsSound
  <2> HIDE DEF g
  <2> QED
    BY <1>1, <2>1, <2>2, <2>5 DEF Keeps, q
<1>5. CASE u.status = "draft" /\ ~Settled(u)
  <2>1. host = "inbox" => ~u.saved
    BY <1>1, <1>5 DEF Settled, Sound, FromInbox, InboxShape
  <2>2. Loading(u) => u.load.id # 0
    BY <1>1, <1>5 DEF Settled, Savable, Meaningful, Sound, LoadShape, Nothing
  <2>3. CASE u.save = NoRequest
    <3> DEFINE g == Begin(u, <<caller>>)
    <3>1. q = g
      BY <1>2, <1>5, <2>3
    <3>2. <<caller>> \in Seq(CallerNames) \ {<<>>} /\ (caller = "timer" => <<caller>> \in Seq({"timer"}))
      OBVIOUS
    <3>3. host = "inbox" =>
            ~u.saved /\ (u.dialog = "send" \/ Sent(u) => <<caller>> \in Seq({"timer"}))
      BY <1>1, <2>1, <3>2 DEF Sent
    <3>4. Sound(g, D, X, w) /\ Saving(g) /\ g.open /\ g.text = u.text
      BY <1>1, <2>2, <3>2, <3>3, BeginIsSound
    <3> HIDE DEF g
    <3> QED
      BY <1>1, <3>1, <3>4 DEF Remembered, Keeps, q
  <2>4. CASE u.save # NoRequest
    <3> DEFINE g == [u EXCEPT !.save.callers = Append(@, caller)]
    <3>1. q = g
      BY <1>2, <1>5, <2>4
    <3>2. Sound(g, D, X, w) /\ Saving(g) /\ g.open /\ g.text = u.text
      <4>1. Saving(u) /\ (Sent(u) <=> Sent(p))
        BY <1>1, <2>4 DEF Saving, Sent
      <4>2. host = "inbox" /\ (u.dialog = "send" \/ Sent(u)) => caller = "timer"
        BY <1>1, <4>1
      <4>3. Sound(u, D, X, w) /\ u.open
        BY <1>1
      <4> QED
        BY <4>1, <4>2, <4>3, QueueIsSound
    <3> HIDE DEF g
    <3> QED
      BY <1>1, <3>1, <3>2 DEF Remembered, Keeps, q
  <2> QED
    BY <2>3, <2>4
<1> QED
  BY <1>3, <1>4, <1>5

\* The rows D and the doubtful messages X become E and Y when the save of page p lands
\* in row d; the messages whose creation is not answered to the page are doubtful.
LandsIn(p, d, D, E, X, Y) ==
  /\ d \in DraftRows /\ E = [D EXCEPT ![d] = p.save.text]
  /\ p.save.at = "update" => d = p.save.id
  /\ X \subseteq Y

\* The rows keep one draft for a message.
LEMMA LandedRows ==
  ASSUME NEW p, NEW d, NEW D \in ServerRows, NEW E, NEW X, NEW Y, NEW w \in Nat,
         Sound(p, D, X, w), host = "inbox", Saving(p), LandsIn(p, d, D, E, X, Y)
  PROVE  /\ E \in ServerRows
         /\ \A e \in DraftRows : E[e] \notin {Unused, Gone} => Sole(E, e, E[e].of, Y)
         /\ \A e \in DraftRows : E[e].of <= w
<1>0. p \in Pages /\ p.save.text \in Contents
  BY DEF Sound, Pages, Saves, Saving
<1>1. E \in ServerRows
  BY <1>0 DEF LandsIn, ServerRows
<1>2. E[d] = p.save.text /\ \A e \in DraftRows : e # d => E[e] = D[e]
  BY <1>0 DEF LandsIn, ServerRows
<1>3. /\ \A e \in DraftRows : D[e] \notin {Unused, Gone} => Sole(D, e, D[e].of, X)
      /\ Sole(D, IF p.save.at = "update" THEN p.save.id ELSE 0, p.save.text.of, X)
  BY DEF Sound, FromInbox, Single
<1>4. \A e \in DraftRows : D[e] \notin {Unused, Gone} /\ D[e].of = p.save.text.of
        /\ p.save.text.of \notin X \cup {0} => e = d
  <2>1. 0 \notin DraftRows
    BY DEF DraftRows
  <2> QED
    BY <1>3, <2>1 DEF Sole, LandsIn
<1>5. ASSUME NEW e \in DraftRows, E[e] \notin {Unused, Gone}, E[e].of \notin Y \cup {0},
             NEW f \in DraftRows, E[f] \notin {Unused, Gone}, E[f].of = E[e].of
      PROVE  f = e
  <2>1. E[e].of \notin X \cup {0}
    BY <1>5 DEF LandsIn
  <2>2. CASE e = d
    BY <1>2, <1>4, <1>5, <2>1, <2>2
  <2>3. CASE f = d /\ e # d
    BY <1>2, <1>4, <1>5, <2>1, <2>3
  <2>4. CASE e # d /\ f # d
    BY <1>2, <1>3, <1>5, <2>1, <2>4 DEF Sole
  <2> QED
    BY <2>2, <2>3, <2>4
<1>6. \A e \in DraftRows : E[e].of <= w
  BY <1>2 DEF Sound, FromInbox, Numbered
<1> QED
  BY <1>1, <1>5, <1>6 DEF Sole

\* A save that has landed and is not answered is over: its page is closed, or what it
\* has created is doubtful.
LEMMA LandedIsSound ==
  ASSUME NEW p, NEW q \in Pages, NEW d, NEW D \in ServerRows, NEW E, NEW X, NEW Y, NEW w \in Nat,
         Sound(p, D, X, w), Saving(p), LandsIn(p, d, D, E, X, Y),
         host = "inbox" /\ p.open /\ p.save.at = "create" => p.save.text.of \in Y,
         Aside(p, q), ~Saving(q)
  PROVE  Sound(q, E, Y, w)
<1>1. Sound(q, D, X, w)
  BY AsideIsSound
<1>2. ASSUME host = "inbox" PROVE Backed(q, E)
  <2>1. FromInbox(p, D, X, w) /\ FromInbox(q, D, X, w)
    BY <1>1, <1>2 DEF Sound
  <2>2. E[d] = p.save.text /\ \A e \in DraftRows : e # d => E[e] = D[e]
    BY DEF LandsIn, ServerRows
  <2>3. ~q.saved
    BY <2>1 DEF FromInbox, InboxShape, Aside
  <2>4. q.dialog = "send" => Reads(E, q.id, q.text)
    <3>1. SUFFICES ASSUME q.dialog = "send" PROVE Reads(E, q.id, q.text)
      OBVIOUS
    <3>2. Reads(D, q.id, q.text) /\ p.save.text = q.text
      BY <2>1, <3>1 DEF FromInbox, Backed, InboxShape, Aside
    <3> QED
      BY <2>2, <3>2 DEF Reads
  <2>5. Sent(q) /\ ~q.send.rewritten => Reads(E, q.send.id, q.send.shown)
    <3>1. SUFFICES ASSUME Sent(q), ~q.send.rewritten PROVE Reads(E, q.send.id, q.send.shown)
      OBVIOUS
    <3>2. q.send = p.send
      BY <3>1 DEF Aside, Sent
    <3>3. Reads(D, q.send.id, q.send.shown)
      BY <2>1, <3>1 DEF FromInbox, Backed
    <3>4. p.save.text = q.send.shown
      BY <2>1, <3>1, <3>2 DEF FromInbox, SendShape, Sent
    <3> QED
      BY <2>2, <3>3, <3>4 DEF Reads
  <2> QED
    BY <2>3, <2>4, <2>5 DEF Backed
<1>3. ASSUME host = "inbox" PROVE Single(q, E, Y) /\ Numbered(q, E, w)
  <2>1. FromInbox(p, D, X, w) /\ FromInbox(q, D, X, w)
    BY <1>1, <1>3 DEF Sound
  <2>2. /\ \A e \in DraftRows : E[e] \notin {Unused, Gone} => Sole(E, e, E[e].of, Y)
        /\ \A e \in DraftRows : E[e].of <= w
    BY <1>3, LandedRows
  <2>3. E[d] = p.save.text /\ \A e \in DraftRows : e # d => E[e] = D[e]
    BY DEF LandsIn, ServerRows
  <2>4. ASSUME q.open PROVE Sole(E, q.id, q.text.of, Y)
    <3>1. p.open /\ q.id = p.id /\ q.text = p.text /\ X \subseteq Y
      BY <2>4 DEF Aside, LandsIn
    <3>2. p.save.id = p.id /\ p.save.text.of \in {0, p.text.of}
      BY <2>1, <3>1 DEF FromInbox, InboxShape
    <3>3. Sole(D, p.id, p.text.of, X)
      BY <2>1, <3>1 DEF FromInbox, Single
    <3>4. p.save.at # "create" => d = p.id
      BY <3>2 DEF LandsIn, Sound, Pages, Saves, Saving
    <3>5. p.save.at = "create" => p.save.text.of \in Y
      BY <1>3, <3>1
    <3> QED
      BY <2>3, <3>1, <3>2, <3>3, <3>4, <3>5 DEF Sole
  <2> QED
    BY <2>1, <2>2, <2>4 DEF Single, FromInbox, Numbered
<1> QED
  BY <1>1, <1>2, <1>3 DEF Sound, FromInbox

\* A page with other marks is one.
LEMMA PageMarked ==
  ASSUME NEW c \in Pages, NEW a \in BOOLEAN, NEW b \in BOOLEAN, NEW e \in BOOLEAN
  PROVE  [c EXCEPT !.forced = a, !.dirty = b, !.saved = e] \in Pages
  BY DEF Pages

\* A save that succeeded: the draft is the page's, and what waits goes on or saves again.
LEMMA SucceededIsSound ==
  ASSUME NEW p, NEW d, NEW D \in ServerRows, NEW E, NEW X, NEW w \in Nat,
         Sound(p, D, X, w), p.open, Saving(p), LandsIn(p, d, D, E, X, X)
  PROVE  LET q == Succeeded(p, d)
         IN  Sound(q, E, X, w) /\ Remembered(q) /\ Keeps(p, q, E) /\ (Sent(p) => Sent(q))
<1> DEFINE r == [p EXCEPT !.save = NoRequest, !.id = Adopt(p, d),
                          !.forced = IF p.save.at = "create" THEN FALSE ELSE p.forced,
                          !.dirty = ~Current(p),
                          !.saved = IF Current(p) THEN TRUE ELSE p.saved]
           q == Succeeded(p, d)
<1>0. p \in Pages /\ p.save \in Saves /\ p.save.text \in Contents /\ d \in DraftRows
  BY DEF Sound, Pages, Saves, Saving, LandsIn
<1>1. /\ r \in Pages /\ r.save = NoRequest
      /\ r.id = IF p.save.at = "create" THEN d ELSE p.id
      /\ r.forced = IF p.save.at = "create" THEN FALSE ELSE p.forced
      /\ r.dirty = ~p.save.current
      /\ r.saved = IF p.save.current THEN TRUE ELSE p.saved
      /\ r.open = p.open /\ r.text = p.text /\ r.file = p.file
      /\ r.status = p.status /\ r.timer = p.timer
      /\ r.failed = p.failed /\ r.sending = p.sending /\ r.load = p.load
      /\ r.send = p.send /\ r.discard = p.discard /\ r.upload = p.upload
      /\ r.dialog = p.dialog
  <2> DEFINE a == Adopt(p, d)
             b == IF p.save.at = "create" THEN FALSE ELSE p.forced
             c == IF Current(p) THEN TRUE ELSE p.saved
             e == ~Current(p)
  <2>1. a \in Ids /\ a = IF p.save.at = "create" THEN d ELSE p.id
    BY <1>0 DEF Adopt, Pages, Ids, DraftRows
  <2>2. b \in BOOLEAN /\ c \in BOOLEAN /\ e \in BOOLEAN
    BY <1>0 DEF Current, Pages, Saves
  <2>3. c = (IF p.save.current THEN TRUE ELSE p.saved) /\ e = ~p.save.current
    BY DEF Current
  <2>4. r = [p EXCEPT !.save = NoRequest, !.id = a, !.forced = b, !.dirty = e, !.saved = c]
    OBVIOUS
  <2> HIDE DEF a, c, e, r
  <2>5. b = IF p.save.at = "create" THEN FALSE ELSE p.forced
    OBVIOUS
  <2> HIDE DEF b
  <2> DEFINE o == [p EXCEPT !.save = NoRequest, !.id = a]
  <2>6. o \in Pages
    BY <1>0, <2>1, ZenonT(60) DEF Pages
  <2>7. /\ o.save = NoRequest /\ o.id = a /\ o.open = p.open /\ o.text = p.text
        /\ o.file = p.file /\ o.status = p.status /\ o.timer = p.timer
        /\ o.failed = p.failed /\ o.sending = p.sending /\ o.load = p.load
        /\ o.send = p.send /\ o.discard = p.discard /\ o.upload = p.upload
        /\ o.dialog = p.dialog
    BY <1>0 DEF Pages
  <2>8. r = [o EXCEPT !.forced = b, !.dirty = e, !.saved = c]
    BY <2>4
  <2> HIDE DEF o
  <2>9. r \in Pages
    BY <2>2, <2>6, <2>8, PageMarked
  <2>10. /\ r.forced = b /\ r.dirty = e /\ r.saved = c
         /\ r.save = o.save /\ r.id = o.id /\ r.open = o.open /\ r.text = o.text
         /\ r.file = o.file /\ r.status = o.status /\ r.timer = o.timer
         /\ r.failed = o.failed /\ r.sending = o.sending /\ r.load = o.load
         /\ r.send = o.send /\ r.discard = o.discard /\ r.upload = o.upload
         /\ r.dialog = o.dialog
    BY <2>6, <2>8 DEF Pages
  <2> QED
    BY <2>1, <2>3, <2>5, <2>7, <2>9, <2>10
<1>2. q = IF ~p.save.current /\ Savable(r) /\ r.status = "draft"
          THEN Begin([r EXCEPT !.timer = FALSE], p.save.callers)
          ELSE Resume(r, p.save.callers)
  BY DEF Succeeded, Current
<1> HIDE DEF r, q
<1>3. E[d] = p.save.text /\ \A e \in DraftRows : e # d => E[e] = D[e]
  BY <1>0 DEF LandsIn, ServerRows
<1>4. /\ p.save.live /\ (Loading(p) => p.load.id # 0)
  BY DEF Sound, OpenShape, LoadShape, Saving
<1>5. ClosedShape(r) /\ OpenShape(r) /\ LoadShape(r) /\ SaveShape(r)
  <2>1. ClosedShape(r) /\ SaveShape(r)
    BY <1>1 DEF ClosedShape, SaveShape, Saving
  <2>2. OpenShape(r)
    BY <1>1 DEF Sound, OpenShape, Sent, Saving
  <2>3. LoadShape(r)
    BY <1>1, <1>4 DEF Sound, LoadShape, Loading
  <2> QED
    BY <2>1, <2>2, <2>3
<1>6. p.save.current /\ ~p.saved /\ p.status = "draft" /\ (Meaningful(p) \/ p.id # 0)
        => p.save.text = p.text
  BY <1>4 DEF Sound, SaveShape
<1>7. ASSUME host = "inbox" PROVE FromInbox(r, E, X, w) /\ (~p.save.current => ~r.saved)
  <2>1. FromInbox(p, D, X, w)
    BY <1>7 DEF Sound
  <2>2. ~p.saved /\ p.save.id = p.id /\ (p.save.at = "create" <=> p.id = 0)
        /\ (p.forced => p.id = 0) /\ p.save.text.of \in {0, p.text.of}
    BY <2>1 DEF FromInbox, InboxShape
  <2>3. r.id = d /\ d # 0 /\ ~r.forced
    BY <1>0, <1>1, <2>2 DEF LandsIn, DraftRows, Saves
  <2>4. InboxShape(r)
    BY <1>1, <2>1, <2>2, <2>3 DEF FromInbox, InboxShape, Saving
  <2>5. SendShape(r)
    BY <1>1, <2>1, <2>2, <2>3 DEF FromInbox, SendShape, Saving, Sent
  <2>6. Backed(r, E)
    <3>1. r.saved /\ r.status = "draft" /\ Meaningful(r) => E[d] = r.text
      BY <1>1, <1>3, <1>6, <2>2 DEF Meaningful
    <3>2. r.dialog = "send" => E[d] = r.text
      BY <1>1, <1>3, <2>1 DEF FromInbox, InboxShape
    <3>3. Sent(r) /\ ~r.send.rewritten => Reads(E, r.send.id, r.send.shown)
      <4>1. SUFFICES ASSUME Sent(r), ~r.send.rewritten PROVE E[d] = r.send.shown /\ r.send.id = d
        BY DEF Reads
      <4>2. p.save.text = p.send.shown /\ p.send.id = p.id /\ p.id # 0
        BY <1>1, <2>1, <4>1 DEF FromInbox, SendShape, Sent
      <4> QED
        BY <1>1, <1>3, <2>2, <2>3, <4>2
    <3> QED
      BY <2>3, <3>1, <3>2, <3>3 DEF Backed, Reads
  <2>7. /\ \A e \in DraftRows : E[e] \notin {Unused, Gone} => Sole(E, e, E[e].of, X)
        /\ \A e \in DraftRows : E[e].of <= w
    BY <1>7, LandedRows
  <2>8. Sole(E, d, p.text.of, X)
    <3>1. Sole(D, p.id, p.text.of, X)
      BY <2>1 DEF FromInbox, Single
    <3>2. p.id = 0 \/ p.id = d
      BY <2>2, <2>3, <1>1
    <3>3. 0 \notin DraftRows
      BY DEF DraftRows
    <3> QED
      BY <1>3, <3>1, <3>2, <3>3 DEF Sole
  <2>9. Single(r, E, X) /\ Numbered(r, E, w)
    BY <1>1, <2>1, <2>3, <2>7, <2>8 DEF Single, Numbered, Saving, FromInbox
  <2> QED
    BY <1>1, <2>2, <2>4, <2>5, <2>6, <2>9 DEF FromInbox
<1>8. Sound(r, E, X, w)
  BY <1>1, <1>5, <1>7 DEF Sound
<1>9. host = "inbox" /\ (r.dialog = "send" \/ Sent(r)) => p.save.callers \in Seq({"timer"})
  BY <1>1 DEF Sound, FromInbox, InboxShape, Sent
<1>10. p.save.callers \in Seq(CallerNames) \ {<<>>}
  BY <1>0 DEF Saves
<1>11. CASE ~p.save.current /\ Savable(r) /\ r.status = "draft"
  <2> DEFINE u == [r EXCEPT !.timer = FALSE]
             g == Begin(u, p.save.callers)
  <2>1. q = g
    BY <1>2, <1>11
  <2>2. /\ Sound(u, E, X, w) /\ u.open /\ u.text = r.text /\ u.saved = r.saved
        /\ u.load = r.load /\ u.dialog = r.dialog /\ u.send = r.send
    BY <1>1, <1>8, UntimedIsSound DEF Aside
  <2> HIDE DEF u
  <2>3. Loading(u) => u.load.id # 0
    BY <1>1, <1>4, <2>2 DEF Loading
  <2>4. host = "inbox" =>
          ~u.saved /\ (u.dialog = "send" \/ Sent(u) => p.save.callers \in Seq({"timer"}))
    BY <1>7, <1>9, <1>11, <2>2 DEF Sent
  <2>5. Sound(g, E, X, w) /\ Saving(g) /\ g.open /\ g.text = u.text /\ g.send = u.send
    BY <1>10, <2>2, <2>3, <2>4, BeginIsSound
  <2> HIDE DEF g
  <2> QED
    BY <1>1, <2>1, <2>2, <2>5 DEF Remembered, Keeps, Sent, q
<1>12. CASE ~(~p.save.current /\ Savable(r) /\ r.status = "draft")
  <2> DEFINE g == Resume(r, p.save.callers)
             C == IF host = "inbox" /\ (r.dialog = "send" \/ Sent(r)) THEN {"timer"}
                  ELSE CallerNames
             Q == {x \in Pages : /\ Sound(x, E, X, w) /\ Remembered(x) /\ ~Saving(x)
                                 /\ host = "inbox" /\ C # {"timer"} => ~Sent(x)
                                 /\ Sent(x) <=> Sent(r)}
  <2>1. q = g
    BY <1>2, <1>12
  <2>2. Remembered(r)
    BY <1>1, <1>12 DEF Remembered, Savable, Meaningful
  <2>3. "close" \in CallerNames /\ C \subseteq CallerNames
    BY DEF CallerNames
  <2>4. r \in Q
    BY <1>1, <1>8, <2>2 DEF Saving
  <2>5. p.save.callers \in Seq(C)
    BY <1>9, <1>10
  <2>6. ASSUME NEW x \in Q, NEW c \in C PROVE Continue(x, c) \in Q
    <3>1. /\ Sound(x, E, X, w) /\ Remembered(x) /\ ~Saving(x)
          /\ host = "inbox" /\ C # {"timer"} => ~Sent(x)
          /\ Sent(x) <=> Sent(r)
      OBVIOUS
    <3>2. c \in CallerNames /\ (c # "timer" => C # {"timer"})
      BY <2>3
    <3>3. host = "inbox" /\ c \in {"send", "fresh"} => ~Saving(x) /\ ~Sent(x)
      BY <3>1, <3>2
    <3> DEFINE y == Continue(x, c)
    <3>4. Sound(y, E, X, w) /\ Remembered(y) /\ ~Saving(y) /\ (Sent(y) <=> Sent(x))
      BY <3>1, <3>2, <3>3, ContinueIsSound
    <3>5. y \in Pages
      BY <3>4 DEF Sound
    <3> HIDE DEF y
    <3>6. y \in Q
      BY <3>1, <3>4, <3>5
    <3> QED
      BY <3>6 DEF y
  <2> HIDE DEF Q, C
  <2>7. g \in Q
    BY <2>4, <2>5, <2>6, ResumeStays
  <2>8. Sound(g, E, X, w) /\ Remembered(g) /\ (Sent(p) => Sent(g))
    BY <1>1, <2>7 DEF Q, Sent
  <2>9. ASSUME p.status = "draft", p.text.v > 0, ~p.saved
        PROVE  \E e \in DraftRows : E[e] = p.text
    <3>1. p.save.current
      BY <1>1, <1>12, <2>9 DEF Savable, Meaningful
    <3>2. p.save.text = p.text
      BY <1>6, <2>9, <3>1 DEF Meaningful
    <3> QED
      BY <1>0, <1>3, <3>2
  <2> HIDE DEF g
  <2> QED
    BY <2>1, <2>8, <2>9 DEF Keeps, q
<1> QED
  BY <1>11, <1>12

\* A save that failed: its caller gives up, and what waits gives up too or saves again.
LEMMA FailedIsSound ==
  ASSUME NEW p \in Pages, NEW D, NEW X, NEW w \in Nat, p.open, Saving(p),
         Sound([p EXCEPT !.save = NoRequest, !.error = TRUE], D, X, w),
         Loading(p) => p.load.id # 0,
         host = "inbox" =>
           ~p.saved /\ (p.dialog = "send" \/ Sent(p) => p.save.callers \in Seq({"timer"}))
  PROVE  LET q == Failed(p)
         IN  Sound(q, D, X, w) /\ Remembered(q) /\ Keeps(p, q, D) /\ (Sent(p) => Sent(q))
<1> DEFINE r == [p EXCEPT !.save = NoRequest, !.error = TRUE]
           h == GiveUp(r, <<Head(p.save.callers)>>)
           rest == Tail(p.save.callers)
           q == Failed(p)
<1>1. q = IF rest # <<>> /\ h.dirty /\ Savable(h) /\ h.status = "draft"
          THEN Begin([h EXCEPT !.timer = FALSE], rest)
          ELSE GiveUp(h, rest)
  BY DEF Failed
<1>2. /\ r.error /\ r.save = NoRequest /\ r.open = p.open /\ r.text = p.text
      /\ r.saved = p.saved /\ r.load = p.load /\ r.dialog = p.dialog /\ r.send = p.send
  BY DEF Pages
<1>3. p.save.callers \in Seq(CallerNames) \ {<<>>}
  BY DEF Pages, Saves, Saving
<1>4. /\ rest \in Seq(CallerNames)
      /\ p.save.callers \in Seq({"timer"}) => rest \in Seq({"timer"})
  BY <1>3
<1>s. Sound(r, D, X, w)
  OBVIOUS
<1> HIDE DEF r, q
<1>5. /\ Sound(h, D, X, w) /\ h.error /\ h.open = p.open /\ h.text = p.text
      /\ h.saved = p.saved /\ h.load = p.load /\ h.dialog = p.dialog /\ h.send = p.send
  <2>1. /\ Sound(h, D, X, w) /\ Aside(r, h)
        /\ h.error = r.error /\ h.dialog = r.dialog /\ h.send = r.send
    BY <1>s, GiveUpIsSound
  <2> HIDE DEF h
  <2> QED
    BY <1>2, <2>1 DEF Aside
<1> HIDE DEF h, rest
<1>6. CASE rest # <<>> /\ h.dirty /\ Savable(h) /\ h.status = "draft"
  <2> DEFINE u == [h EXCEPT !.timer = FALSE]
             g == Begin(u, rest)
  <2>1. q = g
    BY <1>1, <1>6
  <2>2. /\ Sound(u, D, X, w) /\ u.open /\ u.text = p.text /\ u.saved = p.saved
        /\ u.load = p.load /\ u.dialog = p.dialog /\ u.send = p.send
    BY <1>5, UntimedIsSound DEF Aside
  <2> HIDE DEF u
  <2>3. Loading(u) => u.load.id # 0
    BY <2>2 DEF Loading
  <2>4. host = "inbox" =>
          ~u.saved /\ (u.dialog = "send" \/ Sent(u) => rest \in Seq({"timer"}))
    BY <1>4, <2>2 DEF Sent
  <2>5. rest \in Seq(CallerNames) \ {<<>>}
    BY <1>4, <1>6
  <2>6. Sound(g, D, X, w) /\ Saving(g) /\ g.open /\ g.text = u.text /\ g.send = u.send
    BY <2>2, <2>3, <2>4, <2>5, BeginIsSound
  <2> HIDE DEF g
  <2> QED
    BY <2>1, <2>2, <2>6 DEF Remembered, Keeps, Sent, q
<1>7. CASE ~(rest # <<>> /\ h.dirty /\ Savable(h) /\ h.status = "draft")
  <2> DEFINE g == GiveUp(h, rest)
  <2>1. q = g
    BY <1>1, <1>7
  <2>2. /\ Sound(g, D, X, w) /\ g.error /\ g.open = p.open /\ g.text = p.text
        /\ g.send = p.send
    BY <1>5, GiveUpIsSound, ZenonT(60) DEF Aside
  <2> HIDE DEF g
  <2> QED
    BY <2>1, <2>2 DEF Remembered, Keeps, Sent, q
<1> QED
  BY <1>6, <1>7

-----------------------------------------------------------------------------
(* What every step keeps: the invariant, and the two promises about steps. *)

\* What a step leaves true of page q and the rows D.
Fit(q, D, X, w) ==
  /\ Sound(q, D, X, w) /\ Remembered(q)
  /\ D \in ServerRows /\ X \subseteq 0..MaxMessages /\ w \in 0..MaxMessages

\* A page that is closed or cleared lets go of nothing, as in ClosedIsSaved.
LetsGo(p, q, D) ==
  /\ p.open /\ p.status = "draft" /\ p.text.v > 0 /\ ~p.saved
  /\ \/ ~q.open /\ q.left = "close"
     \/ host = "inbox" /\ q.open /\ q.text.of = 0
  => \E d \in DraftRows : D[d] = p.text

\* What the server does with a draft that is being sent, as in SentIsApproved.
SendsApproved ==
  host = "inbox" /\ page.send # NoRequest /\ page'.send = NoRequest
  /\ <<drafts, locked>>' # <<drafts, locked>>
  => page.send.rewritten \/ drafts[page.send.id] = page.send.shown

\* What is shown of the invariant before a step.
LEMMA Before ==
  ASSUME ComposerInvariant
  PROVE  /\ Fit(page, drafts, doubtful, written) /\ page \in Pages
         /\ host \in {"inbox", "drafts"} /\ wanted \in Ids /\ locked \subseteq DraftRows
         /\ written \in Nat
BY ComposerAssumption DEF ComposerInvariant, ComposerTypeOK, Fit

\* And what is enough after it.
LEMMA Ends ==
  ASSUME host \in {"inbox", "drafts"}, host' = host, wanted' \in Ids, locked' \subseteq DraftRows,
         Fit(page', drafts', doubtful', written')
  PROVE  ComposerInvariant'
<1>1. page' \in Pages
  BY DEF Fit, Sound
<1>2. ComposerTypeOK'
  BY <1>1 DEF ComposerTypeOK, Fit
<1>3. Remembered(page)'
  BY DEF Fit, Remembered
<1>4. Sound(page, drafts, doubtful, written)'
  BY DEF Fit, Sound, ClosedShape, OpenShape, LoadShape, SaveShape, FromInbox,
         InboxShape, SendShape, Backed, Single, Numbered, Sole, Reads, Loading, Saving, Sent, Meaningful
<1> QED
  BY <1>2, <1>3, <1>4 DEF ComposerInvariant

\* A page that keeps what is written lets go of nothing.
LEMMA KeepingLetsGo ==
  ASSUME NEW q, NEW D, Sound(page, drafts, doubtful, written), Keeps(page, q, D)
  PROVE  LetsGo(page, q, D)
<1>1. host = "inbox" /\ page.text.v > 0 => page.text.of # 0
  BY DEF Sound, FromInbox, InboxShape, Pages, Contents
<1> QED
  BY <1>1 DEF Keeps, LetsGo

\* The fields of a page that waits to be saved.
LEMMA ScheduleFields ==
  ASSUME NEW r \in Pages
  PROVE  LET q == Schedule(r)
         IN  /\ (r.id = 0 /\ ~Meaningful(r)) \/ r.status # "draft" => q = r
             /\ ~((r.id = 0 /\ ~Meaningful(r)) \/ r.status # "draft") =>
                  /\ q \in Pages /\ q.timer /\ ~q.saved
                  /\ q.open = r.open /\ q.id = r.id /\ q.text = r.text /\ q.file = r.file
                  /\ q.status = r.status /\ q.forced = r.forced /\ q.failed = r.failed
                  /\ q.sending = r.sending /\ q.dialog = r.dialog /\ q.load = r.load
                  /\ q.send = r.send /\ q.discard = r.discard /\ q.upload = r.upload
                  /\ Saving(q) <=> Saving(r)
                  /\ Saving(q) =>
                       /\ q.save.at = r.save.at /\ q.save.id = r.save.id
                       /\ q.save.text = r.save.text /\ ~q.save.current
                       /\ q.save.callers = r.save.callers /\ q.save.live = r.save.live
<1> DEFINE q == Schedule(r)
           o == Outdate(r)
<1>1. CASE (r.id = 0 /\ ~Meaningful(r)) \/ r.status # "draft"
  BY <1>1 DEF Schedule
<1>2. CASE ~((r.id = 0 /\ ~Meaningful(r)) \/ r.status # "draft")
  <2>1. q = [o EXCEPT !.error = FALSE, !.timer = TRUE]
    BY <1>2 DEF Schedule
  <2>2. /\ o \in Pages /\ ~o.saved
        /\ o.open = r.open /\ o.id = r.id /\ o.text = r.text /\ o.file = r.file
        /\ o.status = r.status /\ o.forced = r.forced /\ o.failed = r.failed
        /\ o.sending = r.sending /\ o.dialog = r.dialog /\ o.load = r.load
        /\ o.send = r.send /\ o.discard = r.discard /\ o.upload = r.upload
        /\ Saving(o) <=> Saving(r)
        /\ Saving(o) =>
             /\ o.save.at = r.save.at /\ o.save.id = r.save.id
             /\ o.save.text = r.save.text /\ ~o.save.current
             /\ o.save.callers = r.save.callers /\ o.save.live = r.save.live
    BY OutdateFields DEF Saving
  <2> HIDE DEF o, q
  <2>3. /\ q \in Pages /\ q.timer /\ q.saved = o.saved /\ q.save = o.save
        /\ q.open = o.open /\ q.id = o.id /\ q.text = o.text /\ q.file = o.file
        /\ q.status = o.status /\ q.forced = o.forced /\ q.failed = o.failed
        /\ q.sending = o.sending /\ q.dialog = o.dialog /\ q.load = o.load
        /\ q.send = o.send /\ q.discard = o.discard /\ q.upload = o.upload
    BY <2>1, <2>2 DEF Pages
  <2>4. /\ Saving(q) <=> Saving(r)
        /\ Saving(q) =>
             /\ q.save.at = r.save.at /\ q.save.id = r.save.id
             /\ q.save.text = r.save.text /\ ~q.save.current
             /\ q.save.callers = r.save.callers /\ q.save.live = r.save.live
    BY <2>2, <2>3 DEF Saving
  <2> QED
    BY <1>2, <2>2, <2>3, <2>4 DEF q
<1> QED
  BY <1>1, <1>2

\* A number that no message has yet is that of no draft.
LEMMA NextIsNew ==
  ASSUME NEW D \in ServerRows, NEW w \in Nat, NEW d, NEW X, \A e \in DraftRows : D[e].of <= w
  PROVE  Sole(D, d, w + 1, X)
<1>1. \A e \in DraftRows : D[e].of \in Nat
  BY DEF ServerRows, Contents, Unused, Gone
<1> QED
  BY <1>1 DEF Sole

\* From here on, XFits says what a step of the action X leaves true: the invariant, and
\* what ClosedIsSaved and SentIsApproved ask of the step.
LEMMA WriteFits ==
  ASSUME ComposerInvariant, NEW v \in Versions, Write(v)
  PROVE  ComposerInvariant' /\ LetsGo(page, page', drafts') /\ SendsApproved
<1> DEFINE t == [of |-> IF page.text.of = 0 THEN written' ELSE page.text.of, v |-> v]
           s == IF page.sending THEN [page.send EXCEPT !.rewritten = TRUE] ELSE page.send
           r == [page EXCEPT !.text = t, !.send = s]
           q == Schedule(r)
<1>1. /\ page \in Pages /\ Sound(page, drafts, doubtful, written) /\ drafts \in ServerRows
      /\ doubtful \subseteq 0..MaxMessages /\ written \in Nat
      /\ host \in {"inbox", "drafts"} /\ wanted \in Ids /\ locked \subseteq DraftRows
  BY Before DEF Fit
<1>2. /\ page.open /\ ~Loading(page) /\ page.dialog = "none" /\ page.status = "draft"
      /\ written' = (IF page.text.of = 0 THEN written + 1 ELSE written)
      /\ written' <= MaxMessages /\ page' = q
      /\ host' = host /\ wanted' = wanted /\ drafts' = drafts /\ locked' = locked
      /\ doubtful' = doubtful
  BY DEF Write, Writable, serverVars
<1>3. page.text.of \in Nat /\ written' \in 0..MaxMessages /\ written <= written'
  BY <1>1, <1>2, ComposerAssumption DEF Pages, Contents
<1>4. /\ t \in Contents /\ t.v = v /\ t.of # 0
      /\ page.text.of # 0 => t.of = page.text.of
      /\ page.text.of = 0 => t.of = written + 1
      /\ host = "inbox" => t.of <= written'
  <2>1. page.text.of <= MaxMessages
    BY <1>1 DEF Pages, Contents
  <2>2. host = "inbox" => page.text.of <= written
    BY <1>1 DEF Sound, FromInbox, Numbered
  <2> QED
    BY <1>1, <1>2, <1>3, <2>1, <2>2 DEF Contents
<1>5. /\ s \in {NoRequest} \cup SendRequests
      /\ (s # NoRequest <=> Sent(page))
      /\ s # NoRequest =>
           /\ s.id = page.send.id /\ s.live = page.send.live /\ s.shown = page.send.shown
           /\ page.sending => s.rewritten
  <2>1. page.sending => Sent(page)
    BY <1>1, <1>2 DEF Sound, OpenShape
  <2> QED
    BY <1>1, <2>1 DEF Pages, SendRequests, NoRequest, Sent
<1> HIDE DEF t, s
<1>6. /\ r \in Pages /\ r.text = t /\ r.send = s
      /\ r.open = page.open /\ r.id = page.id /\ r.file = page.file
      /\ r.status = page.status /\ r.saved = page.saved /\ r.dirty = page.dirty
      /\ r.forced = page.forced /\ r.failed = page.failed /\ r.timer = page.timer
      /\ r.sending = page.sending /\ r.dialog = page.dialog /\ r.load = page.load
      /\ r.save = page.save /\ r.discard = page.discard /\ r.upload = page.upload
  BY <1>1, <1>4, <1>5, ZenonT(60) DEF Pages
<1> HIDE DEF r
<1>7. host = "inbox" => Sole(drafts, page.id, t.of, doubtful)
  <2>1. CASE page.text.of = 0
    <3>1. host = "inbox" => \A e \in DraftRows : drafts[e].of <= written
      BY <1>1 DEF Sound, FromInbox, Numbered
    <3> QED
      BY <1>1, <1>4, <2>1, <3>1, NextIsNew
  <2>2. CASE page.text.of # 0
    BY <1>1, <1>2, <1>4, <2>2 DEF Sound, FromInbox, Single
  <2> QED
    BY <2>1, <2>2
<1>8. host = "inbox" /\ Sent(page) => page.sending /\ page.send.id = page.id /\ page.id # 0
  BY <1>1, <1>2 DEF Sound, FromInbox, SendShape
<1>9. CASE ~((r.id = 0 /\ ~Meaningful(r)) \/ r.status # "draft")
  <2>1. /\ q \in Pages /\ q.timer /\ ~q.saved
        /\ q.open = r.open /\ q.id = r.id /\ q.text = r.text /\ q.file = r.file
        /\ q.status = r.status /\ q.forced = r.forced /\ q.failed = r.failed
        /\ q.sending = r.sending /\ q.dialog = r.dialog /\ q.load = r.load
        /\ q.send = r.send /\ q.discard = r.discard /\ q.upload = r.upload
        /\ Saving(q) <=> Saving(r)
        /\ Saving(q) =>
             /\ q.save.at = r.save.at /\ q.save.id = r.save.id
             /\ q.save.text = r.save.text /\ ~q.save.current
             /\ q.save.callers = r.save.callers /\ q.save.live = r.save.live
    BY <1>6, <1>9, ScheduleFields
  <2> HIDE DEF q
  <2>2. /\ Sent(q) <=> Sent(page)
        /\ Sent(q) => /\ q.send.id = page.send.id /\ q.send.live = page.send.live
                      /\ q.send.shown = page.send.shown
                      /\ host = "inbox" => q.send.rewritten
    BY <1>5, <1>6, <1>8, <2>1 DEF Sent
  <2>3. Revised(page, q, drafts, doubtful, written, written')
    BY <1>2, <1>3, <1>4, <1>6, <1>7, <2>1, <2>2 DEF Revised, Saving
  <2>4. written' \in Nat
    BY <1>3
  <2>5. Sound(q, drafts, doubtful, written')
    BY <1>1, <2>1, <2>3, <2>4, RevisedIsSound
  <2>6. Fit(page', drafts', doubtful', written')
    BY <1>1, <1>2, <1>3, <2>1, <2>5 DEF Fit, Remembered
  <2>7. ComposerInvariant'
    BY <1>1, <1>2, <2>6, Ends
  <2> QED
    BY <1>2, <1>4, <1>6, <2>1, <2>7 DEF LetsGo, SendsApproved
<1>10. CASE (r.id = 0 /\ ~Meaningful(r)) \/ r.status # "draft"
  <2>1. q = r
    BY <1>6, <1>10, ScheduleFields
  <2>2. r.id = 0 /\ ~Meaningful(r) /\ r.text.v = 0
    <3>1. v \in 0..2 /\ r.text.v = v /\ r.status = "draft"
      BY <1>2, <1>4, <1>6, ComposerAssumption
    <3> QED
      BY <1>10, <3>1 DEF Meaningful
  <2>3. ClosedShape(r) /\ OpenShape(r) /\ LoadShape(r) /\ SaveShape(r)
    <3>1. ClosedShape(r) /\ LoadShape(r) /\ SaveShape(r)
      BY <1>2, <1>6, <2>2 DEF ClosedShape, LoadShape, SaveShape, Loading
    <3>2. OpenShape(r)
      BY <1>1, <1>2, <1>5, <1>6 DEF Sound, OpenShape, Sent, Saving
    <3> QED
      BY <3>1, <3>2
  <2>4. ASSUME host = "inbox" PROVE FromInbox(r, drafts, doubtful, written')
    <3>1. FromInbox(page, drafts, doubtful, written)
      BY <1>1, <2>4 DEF Sound
    <3>2. ~Sent(page) /\ ~Sent(r)
      BY <1>5, <1>6, <1>8, <2>2, <2>4 DEF Sent
    <3>3. InboxShape(r)
      BY <1>2, <1>4, <1>6, <2>2, <3>1, <3>2 DEF FromInbox, InboxShape, Saving
    <3>4. SendShape(r) /\ Backed(r, drafts)
      BY <1>2, <1>6, <2>2, <3>2 DEF SendShape, Backed
    <3>5. Single(r, drafts, doubtful)
      BY <1>6, <1>7, <2>4, <3>1 DEF FromInbox, Single, Saving
    <3>6. Numbered(r, drafts, written')
      <4>1. \A d \in DraftRows : drafts[d].of \in Nat
        BY <1>1 DEF ServerRows, Contents, Unused, Gone
      <4>2. Saving(page) => page.save.text.of \in Nat
        BY <1>1 DEF Pages, Saves, Contents, Saving
      <4> QED
        BY <1>1, <1>3, <1>4, <1>6, <2>4, <3>1, <4>1, <4>2 DEF FromInbox, Numbered, Saving
    <3> QED
      BY <3>3, <3>4, <3>5, <3>6 DEF FromInbox
  <2>5. Fit(page', drafts', doubtful', written')
    BY <1>1, <1>2, <1>3, <1>6, <2>1, <2>2, <2>3, <2>4 DEF Fit, Sound, Remembered
  <2>6. ComposerInvariant'
    BY <1>1, <1>2, <2>5, Ends
  <2> QED
    BY <1>2, <1>4, <1>6, <2>1, <2>6 DEF LetsGo, SendsApproved
<1> QED
  BY <1>9, <1>10

-----------------------------------------------------------------------------
(* The steps that save first.                                              *)

\* What the steps that touch neither rows nor numbers come to.
LEMMA PageStepFits ==
  ASSUME ComposerInvariant, host' = host, wanted' \in Ids, UNCHANGED <<written, serverVars, doubtful>>,
         Sound(page', drafts, doubtful, written), Remembered(page'),
         LetsGo(page, page', drafts)
  PROVE  ComposerInvariant' /\ LetsGo(page, page', drafts') /\ SendsApproved
<1>1. drafts' = drafts /\ locked' = locked /\ written' = written /\ doubtful' = doubtful
  BY DEF serverVars
<1>2. Fit(page', drafts', doubtful', written')
  BY <1>1, Before DEF Fit
<1>3. ComposerInvariant'
  BY <1>1, <1>2, Before, Ends
<1> QED
  BY <1>1, <1>3 DEF SendsApproved

\* A call of the page.
LEMMA CallFits ==
  ASSUME ComposerInvariant, host' = host, wanted' \in Ids, UNCHANGED <<written, serverVars, doubtful>>,
         NEW caller \in CallerNames, page' = Call(page, caller), page.open,
         host = "inbox" /\ (page.dialog = "send" \/ Sent(page)) => caller = "timer",
         host = "inbox" /\ caller \in {"send", "fresh"} => Meaningful(page)
  PROVE  ComposerInvariant' /\ LetsGo(page, page', drafts') /\ SendsApproved
<1>1. Sound(page, drafts, doubtful, written) /\ written \in Nat
  BY Before DEF Fit
<1>2. Sound(page', drafts, doubtful, written) /\ Remembered(page') /\ Keeps(page, page', drafts)
  BY <1>1, CallIsSound
<1>3. LetsGo(page, page', drafts)
  BY <1>1, <1>2, KeepingLetsGo
<1> QED
  BY <1>2, <1>3, PageStepFits

\* While a send is confirmed or goes out from the inbox, nothing else calls.
LEMMA Calm ==
  ASSUME ComposerInvariant, host = "inbox", page.open, ~page.sending, page.dialog = "none"
  PROVE  ~(page.dialog = "send" \/ Sent(page))
BY Before DEF Fit, Sound, FromInbox, SendShape

LEMMA PressFits ==
  ASSUME ComposerInvariant, NEW caller \in CallerNames, Press(caller), page.open,
         ~page.sending, page.dialog = "none",
         host = "inbox" /\ caller \in {"send", "fresh"} => Meaningful(page)
  PROVE  ComposerInvariant' /\ LetsGo(page, page', drafts') /\ SendsApproved
<1>1. /\ page' = Call(page, caller) /\ host' = host /\ UNCHANGED <<written, serverVars, doubtful>>
      /\ wanted' \in {wanted, 0}
  BY DEF Press
<1>2. wanted' \in Ids
  BY <1>1, Before, ComposerAssumption DEF Ids
<1>3. host = "inbox" /\ (page.dialog = "send" \/ Sent(page)) => caller = "timer"
  BY Calm
<1> QED
  BY <1>1, <1>2, <1>3, CallFits

LEMMA CloseFits ==
  ASSUME ComposerInvariant, Close
  PROVE  ComposerInvariant' /\ LetsGo(page, page', drafts') /\ SendsApproved
<1>1. "close" \in CallerNames
  BY DEF CallerNames
<1> QED
  BY <1>1, PressFits DEF Close, Reachable

LEMMA ResizeFits ==
  ASSUME ComposerInvariant, NEW size \in Sizes[host], Resize(size)
  PROVE  ComposerInvariant' /\ LetsGo(page, page', drafts') /\ SendsApproved
<1>1. size \in {"full", "popup", "minimized"}
  BY Before, ComposerAssumption
<1>2. size \in CallerNames /\ size \notin {"send", "fresh"}
  BY <1>1 DEF CallerNames
<1> QED
  BY <1>2, PressFits DEF Resize, Reachable

LEMMA NewMessageFits ==
  ASSUME ComposerInvariant, NewMessage
  PROVE  ComposerInvariant' /\ LetsGo(page, page', drafts') /\ SendsApproved
<1>1. page.open /\ ~page.sending /\ page.dialog = "none"
  BY DEF NewMessage, Reachable
<1>2. CASE Meaningful(page)
  <2>1. Press("fresh") /\ "fresh" \in CallerNames
    BY <1>2 DEF NewMessage, CallerNames
  <2> QED
    BY <1>1, <1>2, <2>1, PressFits
<1>3. CASE ~Meaningful(page)
  <2>1. Press("full") /\ "full" \in CallerNames
    BY <1>3 DEF NewMessage, CallerNames
  <2> QED
    BY <1>1, <2>1, PressFits
<1> QED
  BY <1>2, <1>3

LEMMA AskToSendFits ==
  ASSUME ComposerInvariant, AskToSend
  PROVE  ComposerInvariant' /\ LetsGo(page, page', drafts') /\ SendsApproved
<1>1. "send" \in CallerNames
  BY DEF CallerNames
<1> QED
  BY <1>1, PressFits DEF AskToSend, Writable

LEMMA TimerFiresFits ==
  ASSUME ComposerInvariant, TimerFires
  PROVE  ComposerInvariant' /\ LetsGo(page, page', drafts') /\ SendsApproved
<1>1. /\ page.timer /\ page' = Call(page, "timer") /\ host' = host /\ wanted' = wanted
      /\ UNCHANGED <<written, serverVars, doubtful>>
  BY DEF TimerFires
<1>2. page.open /\ wanted' \in Ids /\ "timer" \in CallerNames
  BY <1>1, Before DEF Fit, Sound, ClosedShape, CallerNames
<1> QED
  BY <1>1, <1>2, CallFits

\* A file is picked: for a page that has no draft yet one is forced.
LEMMA PickFileFits ==
  ASSUME ComposerInvariant, PickFile
  PROVE  ComposerInvariant' /\ LetsGo(page, page', drafts') /\ SendsApproved
<1> DEFINE q == [page EXCEPT !.uploading = TRUE, !.error = FALSE]
           o == Outdate(q)
           f == [o EXCEPT !.forced = TRUE]
           r == IF q.id = 0 THEN f ELSE q
<1>1. /\ page \in Pages /\ Sound(page, drafts, doubtful, written) /\ drafts \in ServerRows
      /\ written \in Nat /\ wanted \in Ids
  BY Before DEF Fit
<1>2. /\ page.open /\ ~Loading(page) /\ page.dialog = "none" /\ ~page.sending
      /\ page.status = "draft" /\ page' = Call(r, "file") /\ host' = host /\ wanted' = wanted
      /\ UNCHANGED <<written, serverVars, doubtful>>
  BY DEF PickFile, Writable
<1>3. /\ q \in Pages /\ Aside(page, q) /\ q.send = page.send /\ q.dialog = page.dialog
      /\ q.open = page.open /\ q.load = page.load /\ q.text = page.text /\ q.id = page.id
      /\ q.status = page.status /\ q.saved = page.saved
  <2>e. q = [page EXCEPT !.uploading = TRUE, !.error = FALSE]
    OBVIOUS
  <2> HIDE DEF q
  <2> QED
    BY <1>1, <2>e DEF Pages, Aside
<1>4. Sound(q, drafts, doubtful, written)
  BY <1>1, <1>3, AsideIsSound
<1> HIDE DEF q
<1>5. /\ o \in Pages /\ ~o.saved
      /\ o.open = q.open /\ o.id = q.id /\ o.text = q.text /\ o.file = q.file
      /\ o.status = q.status /\ o.forced = q.forced /\ o.failed = q.failed
      /\ o.sending = q.sending /\ o.dialog = q.dialog /\ o.load = q.load
      /\ o.send = q.send /\ o.discard = q.discard /\ o.upload = q.upload
      /\ Saving(o) <=> Saving(q)
      /\ Saving(o) =>
           /\ o.save.at = q.save.at /\ o.save.id = q.save.id
           /\ o.save.text = q.save.text /\ ~o.save.current
           /\ o.save.callers = q.save.callers /\ o.save.live = q.save.live
  BY <1>3, OutdateFields DEF Saving
<1> HIDE DEF o
<1>6. /\ f \in Pages /\ f.forced /\ f.saved = o.saved /\ f.save = o.save
      /\ f.open = o.open /\ f.id = o.id /\ f.text = o.text /\ f.file = o.file
      /\ f.status = o.status /\ f.failed = o.failed
      /\ f.sending = o.sending /\ f.dialog = o.dialog /\ f.load = o.load
      /\ f.send = o.send /\ f.discard = o.discard /\ f.upload = o.upload
  BY <1>5 DEF Pages
<1> HIDE DEF f
<1>7. q.id = 0 => Sound(f, drafts, doubtful, written)
  <2>1. ASSUME q.id = 0 PROVE Revised(q, f, drafts, doubtful, written, written)
    <3>1. host = "inbox" => ~Sent(q)
      BY <1>2, <1>3, Calm DEF Sent
    <3>2. /\ Saving(f) <=> Saving(q)
          /\ Sent(f) <=> Sent(q)
      BY <1>5, <1>6 DEF Saving, Sent
    <3>3. host = "inbox" => q.text.of <= written
      BY <1>4 DEF Sound, FromInbox, Numbered
    <3> QED
      BY <1>1, <1>2, <1>3, <1>5, <1>6, <2>1, <3>1, <3>2, <3>3 DEF Revised, Saving, Sent, Loading
  <2> QED
    BY <1>1, <1>4, <1>6, <2>1, RevisedIsSound
<1>8. /\ Sound(r, drafts, doubtful, written) /\ r.open /\ r.dialog = page.dialog
      /\ r.send = page.send /\ r.text = page.text /\ r.status = page.status
      /\ ~page.saved => ~r.saved
  BY <1>2, <1>3, <1>4, <1>5, <1>6, <1>7
<1> HIDE DEF r
<1>9. host = "inbox" => ~(r.dialog = "send" \/ Sent(r))
  BY <1>2, <1>8, Calm DEF Sent
<1>10. "file" \in CallerNames /\ "file" \notin {"send", "fresh"}
  BY DEF CallerNames
<1>11. Sound(page', drafts, doubtful, written) /\ Remembered(page') /\ Keeps(r, page', drafts)
  BY <1>1, <1>2, <1>8, <1>9, <1>10, CallIsSound
<1>12. LetsGo(page, page', drafts)
  BY <1>1, <1>8, <1>11, KeepingLetsGo DEF Keeps
<1> QED
  BY <1>1, <1>2, <1>11, <1>12, PageStepFits

-----------------------------------------------------------------------------
(* The steps that open a page and leave it.                                *)

\* A page that opens, with nothing done yet.
LEMMA OpenIsSound ==
  ASSUME NEW d \in Ids, NEW begun \in BOOLEAN, NEW D, NEW X, NEW w \in Nat, NEW p, Sound(p, D, X, w),
         host = "inbox" <=> d = 0
  PROVE  LET q == Open(d, begun)
         IN  Sound(q, D, X, w) /\ q.open /\ Loading(q)
<1> DEFINE l == [at |-> "load", id |-> d, begun |-> begun]
           q == Open(d, begun)
<1>1. l \in Loads /\ l # NoRequest /\ l.id = d
  BY ComposerAssumption DEF Loads, NoRequest, Ids
<1>2. q = [Blank EXCEPT !.load = l]
  BY DEF Open
<1> HIDE DEF l, q
<1>3. /\ q \in Pages /\ q.load = l
      /\ q.open = Blank.open /\ q.id = Blank.id /\ q.text = Blank.text /\ q.file = Blank.file
      /\ q.status = Blank.status /\ q.saved = Blank.saved /\ q.dirty = Blank.dirty
      /\ q.forced = Blank.forced /\ q.timer = Blank.timer /\ q.failed = Blank.failed
      /\ q.sending = Blank.sending /\ q.dialog = Blank.dialog /\ q.save = Blank.save
      /\ q.send = Blank.send /\ q.discard = Blank.discard /\ q.upload = Blank.upload
  BY <1>1, <1>2, BlankFields DEF Pages
<1>4. /\ q.open /\ q.id = 0 /\ q.text = Nothing /\ ~q.file /\ q.status = "draft" /\ ~q.saved
      /\ ~q.dirty /\ ~q.forced /\ ~q.timer /\ ~q.failed /\ ~q.sending /\ q.dialog = "none"
      /\ q.save = NoRequest /\ q.send = NoRequest /\ q.discard = NoRequest
      /\ q.upload = NoRequest
  BY <1>3, BlankFields
<1>5. ~Saving(q) /\ ~Sent(q) /\ Loading(q) /\ q.load.id = d
  BY <1>1, <1>3, <1>4 DEF Saving, Sent, Loading
<1>6. ClosedShape(q) /\ OpenShape(q) /\ LoadShape(q) /\ SaveShape(q)
  BY <1>4, <1>5 DEF ClosedShape, OpenShape, LoadShape, SaveShape
<1>7. InboxShape(q) /\ SendShape(q) /\ Backed(q, D)
  BY <1>4, <1>5 DEF InboxShape, SendShape, Backed, Nothing
<1>8. host = "inbox" => Single(q, D, X) /\ Numbered(q, D, w)
  BY <1>4, <1>5 DEF Sound, FromInbox, Single, Numbered, Sole, Nothing
<1> QED
  BY <1>3, <1>4, <1>5, <1>6, <1>7, <1>8 DEF Sound, FromInbox, q

LEMMA OpenNewFits ==
  ASSUME ComposerInvariant, OpenNew
  PROVE  ComposerInvariant' /\ LetsGo(page, page', drafts') /\ SendsApproved
<1>1. /\ host = "inbox" /\ ~page.open /\ host' = host /\ wanted' = wanted
      /\ UNCHANGED <<written, serverVars, doubtful>>
  BY DEF OpenNew
<1>2. PICK begun \in BOOLEAN : page' = Open(0, begun)
  BY DEF OpenNew
<1>3. /\ Sound(page, drafts, doubtful, written) /\ written \in Nat /\ wanted \in Ids /\ 0 \in Ids
  BY Before, ComposerAssumption DEF Fit, Ids
<1> DEFINE q == Open(0, begun)
<1>4. Sound(q, drafts, doubtful, written) /\ Loading(q)
  BY <1>1, <1>3, OpenIsSound
<1> HIDE DEF q
<1>5. page' = q
  BY <1>2 DEF q
<1>6. Remembered(page') /\ LetsGo(page, page', drafts)
  BY <1>1, <1>4, <1>5 DEF Remembered, LetsGo
<1> QED
  BY <1>1, <1>3, <1>4, <1>5, <1>6, PageStepFits

LEMMA OpenDraftFits ==
  ASSUME ComposerInvariant, NEW d \in DraftRows, OpenDraft(d)
  PROVE  ComposerInvariant' /\ LetsGo(page, page', drafts') /\ SendsApproved
<1>1. /\ host = "drafts" /\ host' = host /\ wanted' = d
      /\ UNCHANGED <<written, serverVars, doubtful>>
  BY DEF OpenDraft
<1>2. /\ Sound(page, drafts, doubtful, written) /\ written \in Nat /\ d \in Ids /\ d # 0
  BY Before, ComposerAssumption DEF Fit, Ids, DraftRows
<1>3. CASE page.open
  <2> DEFINE r == Reset([page EXCEPT !.size = "full"])
             l == [at |-> "load", id |-> d, begun |-> FALSE]
             q == [r EXCEPT !.load = l]
  <2>1. page' = IF Loading(page) THEN r ELSE q
    BY <1>3 DEF OpenDraft
  <2>2. "full" \in {"full", "popup", "minimized"} /\ host # "inbox"
    BY <1>1
  <2>3. /\ Sound(r, drafts, doubtful, written) /\ r.text = Nothing /\ r.open /\ r.load = page.load
    BY <1>2, <1>3, <2>2, ResetIsSound
  <2> HIDE DEF r
  <2>4. l \in Loads /\ l # NoRequest /\ l.id = d
    BY <1>2, ComposerAssumption DEF Loads, NoRequest, Ids
  <2> HIDE DEF l
  <2>5. /\ q \in Pages /\ q.load = l /\ q.open = r.open /\ q.text = r.text /\ q.saved = r.saved
        /\ q.status = r.status /\ q.file = r.file /\ q.id = r.id /\ q.sending = r.sending
        /\ q.save = r.save /\ q.send = r.send /\ q.discard = r.discard /\ q.upload = r.upload
    BY <2>3, <2>4 DEF Pages, Sound
  <2> HIDE DEF q
  <2>6. ClosedShape(q) /\ OpenShape(q) /\ LoadShape(q) /\ SaveShape(q)
    <3>1. ClosedShape(q) /\ OpenShape(q)
      BY <2>3, <2>5 DEF Sound, ClosedShape, OpenShape, Saving, Sent
    <3>2. LoadShape(q)
      BY <1>1, <1>2, <2>4, <2>5 DEF LoadShape
    <3>3. SaveShape(q)
      BY <2>3, <2>5 DEF Sound, SaveShape, Saving, Meaningful
    <3> QED
      BY <3>1, <3>2, <3>3
  <2>7. Sound(q, drafts, doubtful, written)
    BY <1>1, <2>5, <2>6 DEF Sound
  <2>8. Sound(page', drafts, doubtful, written) /\ page'.open /\ page'.text = Nothing
    BY <2>1, <2>3, <2>5, <2>7
  <2>9. Remembered(page') /\ LetsGo(page, page', drafts)
    BY <1>1, <2>8 DEF Remembered, LetsGo, Nothing
  <2> QED
    BY <1>1, <1>2, <2>8, <2>9, PageStepFits
<1>4. CASE ~page.open
  <2> DEFINE q == Open(d, FALSE)
  <2>1. page' = q
    BY <1>4 DEF OpenDraft
  <2>2. host = "inbox" <=> d = 0
    BY <1>1, <1>2
  <2>3. Sound(q, drafts, doubtful, written) /\ Loading(q)
    BY <1>2, <2>2, OpenIsSound
  <2> HIDE DEF q
  <2>4. Remembered(page') /\ LetsGo(page, page', drafts)
    BY <1>4, <2>1, <2>3 DEF Remembered, LetsGo
  <2> QED
    BY <1>1, <1>2, <2>1, <2>3, <2>4, PageStepFits
<1> QED
  BY <1>3, <1>4

LEMMA LoadFailsFits ==
  ASSUME ComposerInvariant, LoadFails
  PROVE  ComposerInvariant' /\ LetsGo(page, page', drafts') /\ SendsApproved
<1>1. /\ Sound(page, drafts, doubtful, written) /\ page \in Pages /\ wanted \in Ids
  BY Before DEF Fit
<1>2. /\ Loading(page) /\ page.load.id # 0 /\ host' = host /\ wanted' = wanted
      /\ page' = [page EXCEPT !.load = NoRequest, !.error = TRUE, !.failed = TRUE]
      /\ UNCHANGED <<written, serverVars, doubtful>>
  BY DEF LoadFails
<1>3. host # "inbox"
  BY <1>1, <1>2 DEF Sound, LoadShape
<1>4. /\ page' \in Pages /\ page'.load = NoRequest /\ page'.error
      /\ page'.open = page.open /\ page'.text = page.text /\ page'.saved = page.saved
      /\ page'.status = page.status /\ page'.file = page.file /\ page'.id = page.id
      /\ page'.sending = page.sending /\ page'.save = page.save /\ page'.send = page.send
      /\ page'.discard = page.discard /\ page'.upload = page.upload
      /\ page'.timer = page.timer /\ page'.dialog = page.dialog
  BY <1>1, <1>2 DEF Pages
<1> DEFINE q == page'
<1>5. ClosedShape(q) /\ OpenShape(q)
  BY <1>1, <1>4 DEF Sound, ClosedShape, OpenShape, Saving, Sent, Loading
<1>6. LoadShape(q)
  BY <1>4 DEF LoadShape, Loading
<1>7. SaveShape(q)
  BY <1>1, <1>4 DEF Sound, SaveShape, Saving, Meaningful
<1>8. Sound(q, drafts, doubtful, written)
  BY <1>3, <1>4, <1>5, <1>6, <1>7 DEF Sound
<1>9. page.open
  BY <1>1, <1>2 DEF Sound, ClosedShape
<1>10. Remembered(q) /\ LetsGo(page, q, drafts)
  BY <1>3, <1>4, <1>9 DEF Remembered, LetsGo
<1> QED
  BY <1>1, <1>2, <1>8, <1>10, PageStepFits

LEMMA RetryFits ==
  ASSUME ComposerInvariant, Retry
  PROVE  ComposerInvariant' /\ LetsGo(page, page', drafts') /\ SendsApproved
<1> DEFINE l == [at |-> "load", id |-> MaxDrafts + 1, begun |-> FALSE]
<1>1. /\ Sound(page, drafts, doubtful, written) /\ page \in Pages /\ wanted \in Ids
  BY Before DEF Fit
<1>2. /\ page.open /\ page.failed /\ host' = host /\ wanted' = wanted
      /\ page' = [page EXCEPT !.failed = FALSE, !.error = FALSE, !.load = l]
      /\ UNCHANGED <<written, serverVars, doubtful>>
  BY DEF Retry
<1>3. host # "inbox"
  BY <1>1, <1>2 DEF Sound, FromInbox, InboxShape
<1>4. l \in Loads /\ l # NoRequest /\ l.id # 0
  BY ComposerAssumption DEF Loads, NoRequest
<1> HIDE DEF l
<1>5. /\ page' \in Pages /\ page'.load = l
      /\ page'.open = page.open /\ page'.text = page.text /\ page'.saved = page.saved
      /\ page'.status = page.status /\ page'.file = page.file /\ page'.id = page.id
      /\ page'.sending = page.sending /\ page'.save = page.save /\ page'.send = page.send
      /\ page'.discard = page.discard /\ page'.upload = page.upload
      /\ page'.timer = page.timer /\ page'.dialog = page.dialog
  BY <1>1, <1>2, <1>4, ZenonT(60) DEF Pages
<1> DEFINE q == page'
<1>6. ClosedShape(q) /\ OpenShape(q)
  BY <1>1, <1>2, <1>5 DEF Sound, ClosedShape, OpenShape, Saving, Sent
<1>7. LoadShape(q)
  BY <1>3, <1>4, <1>5 DEF LoadShape
<1>8. SaveShape(q)
  BY <1>1, <1>5 DEF Sound, SaveShape, Saving, Meaningful
<1>9. Sound(q, drafts, doubtful, written)
  BY <1>3, <1>5, <1>6, <1>7, <1>8 DEF Sound
<1>10. Remembered(q) /\ LetsGo(page, q, drafts)
  BY <1>2, <1>3, <1>4, <1>5 DEF Remembered, LetsGo, Loading
<1> QED
  BY <1>1, <1>2, <1>9, <1>10, PageStepFits

\* A page with other contents is one.
LEMMA PageFilled ==
  ASSUME NEW c \in Pages, NEW t \in Contents, NEW file \in BOOLEAN, NEW s \in {"draft", "sending"}
  PROVE  [c EXCEPT !.text = t, !.file = file, !.saved = TRUE, !.status = s] \in Pages
  BY DEF Pages

\* An empty page is there, or one that a message fills; or a draft, as the rows hold it.
LEMMA LoadedFits ==
  ASSUME ComposerInvariant, Loaded
  PROVE  ComposerInvariant' /\ LetsGo(page, page', drafts') /\ SendsApproved
<1> DEFINE d == page.load.id
           q == [page EXCEPT !.load = NoRequest, !.id = d, !.error = FALSE, !.dirty = FALSE]
<1>1. /\ Sound(page, drafts, doubtful, written) /\ page \in Pages /\ wanted \in Ids
      /\ drafts \in ServerRows /\ doubtful \subseteq 0..MaxMessages /\ written \in Nat
      /\ written \in 0..MaxMessages /\ locked \subseteq DraftRows
      /\ host \in {"inbox", "drafts"}
  BY Before DEF Fit
<1>2. /\ Loading(page) /\ host' = host /\ wanted' = wanted /\ drafts' = drafts
      /\ locked' = locked /\ doubtful' = doubtful
  BY DEF Loaded, serverVars
<1>3. page.open /\ (host = "inbox" <=> d = 0)
  BY <1>1, <1>2 DEF Sound, ClosedShape, LoadShape
<1>4. \/ /\ d = 0
         /\ written' = IF page.load.begun THEN written + 1 ELSE written
         /\ written' <= MaxMessages
         /\ page' = IF page.load.begun
                    THEN Schedule([q EXCEPT !.text = [of |-> written', v |-> 1]])
                    ELSE q
      \/ /\ d \in DraftRows /\ Holds(d)
         /\ \E file \in BOOLEAN :
              page' = [q EXCEPT !.text = drafts[d], !.file = file, !.saved = TRUE,
                                !.status = IF d \in locked THEN "sending" ELSE "draft"]
         /\ written' = written
  BY DEF Loaded
<1>5. CASE d = 0
  <2>1. /\ page.text = Nothing /\ page.id = 0 /\ ~page.file /\ page.status = "draft"
        /\ ~page.timer /\ ~page.saved /\ ~page.forced /\ ~page.dirty /\ ~page.sending
        /\ page.dialog = "none" /\ ~page.failed /\ page.save = NoRequest
        /\ page.send = NoRequest /\ page.discard = NoRequest /\ page.upload = NoRequest
    BY <1>1, <1>2, <1>5 DEF Sound, LoadShape, Saving, Sent
  <2>2. 0 \notin DraftRows /\ 0 \in Ids
    BY ComposerAssumption DEF DraftRows, Ids
  <2>3. /\ written' = IF page.load.begun THEN written + 1 ELSE written
        /\ written' <= MaxMessages
        /\ page' = IF page.load.begun
                   THEN Schedule([q EXCEPT !.text = [of |-> written', v |-> 1]])
                   ELSE q
    BY <1>4, <1>5, <2>2
  <2>4. written' \in 0..MaxMessages /\ written <= written'
    BY <1>1, <2>3, ComposerAssumption
  <2>5. /\ q \in Pages /\ q.load = NoRequest /\ q.id = 0 /\ ~q.dirty
        /\ q.open = page.open /\ q.text = page.text /\ q.saved = page.saved
        /\ q.status = page.status /\ q.file = page.file /\ q.forced = page.forced
        /\ q.sending = page.sending /\ q.save = page.save /\ q.send = page.send
        /\ q.discard = page.discard /\ q.upload = page.upload /\ q.failed = page.failed
        /\ q.timer = page.timer /\ q.dialog = page.dialog
    <3>1. q = [page EXCEPT !.load = NoRequest, !.id = d, !.error = FALSE, !.dirty = FALSE]
      OBVIOUS
    <3> HIDE DEF q
    <3> QED
      BY <1>1, <1>5, <2>2, <3>1 DEF Pages
  <2> HIDE DEF q
  <2>6. page.text.v = 0 /\ page.text.of = 0
    BY <2>1 DEF Nothing
  <2>7. ASSUME NEW r \in Pages, r.open, ~r.saved, r.save = NoRequest, r.send = NoRequest,
               r.load = NoRequest, r.id = 0, ~r.forced, r.dialog = "none", ~r.failed, ~r.sending,
               r.discard = NoRequest, r.upload = NoRequest,
               r.text = Nothing \/ r.text.of = written + 1, r.text.of <= written',
               r.text.of = 0 => r.text.v = 0
        PROVE  Sound(r, drafts, doubtful, written')
    <3>1. ~Saving(r) /\ ~Sent(r) /\ ~Loading(r)
      BY <2>7 DEF Saving, Sent, Loading
    <3>2. ClosedShape(r) /\ OpenShape(r) /\ LoadShape(r) /\ SaveShape(r)
      BY <2>7, <3>1 DEF ClosedShape, OpenShape, LoadShape, SaveShape
    <3>3. InboxShape(r) /\ SendShape(r) /\ Backed(r, drafts)
      BY <2>7, <3>1 DEF InboxShape, SendShape, Backed
    <3>4. ASSUME host = "inbox" PROVE Single(r, drafts, doubtful) /\ Numbered(r, drafts, written')
      <4>1. /\ \A e \in DraftRows : drafts[e].of <= written
            /\ \A e \in DraftRows : drafts[e] \notin {Unused, Gone}
                 => Sole(drafts, e, drafts[e].of, doubtful)
        BY <1>1, <3>4 DEF Sound, FromInbox, Numbered, Single
      <4>2. \A e \in DraftRows : drafts[e].of \in Nat
        BY <1>1 DEF ServerRows, Contents, Unused, Gone
      <4>3. Sole(drafts, r.id, r.text.of, doubtful)
        BY <1>1, <2>7, <4>1, NextIsNew DEF Sole, Nothing
      <4> QED
        BY <1>1, <2>4, <2>7, <3>1, <4>1, <4>2, <4>3 DEF Single, Numbered
    <3> QED
      BY <2>7, <3>2, <3>3, <3>4 DEF Sound, FromInbox
  <2>8. Sound(page', drafts, doubtful, written') /\ Remembered(page') /\ page'.open
    <3>1. CASE ~page.load.begun
      <4>1. page' = q
        BY <2>3, <3>1
      <4>2. Sound(q, drafts, doubtful, written')
        <5>1. /\ q \in Pages /\ q.open /\ ~q.saved /\ q.save = NoRequest
              /\ q.send = NoRequest /\ q.load = NoRequest /\ q.id = 0 /\ ~q.forced
              /\ q.dialog = "none" /\ ~q.failed /\ ~q.sending
              /\ q.discard = NoRequest /\ q.upload = NoRequest /\ q.text = Nothing
          BY <1>3, <2>1, <2>5
        <5>2. q.text.of = 0 /\ q.text.v = 0 /\ q.text.of <= written'
          BY <2>4, <2>5, <2>6
        <5> QED
          BY <2>7, <5>1, <5>2
      <4>3. q.open /\ q.text.v = 0
        BY <1>3, <2>5, <2>6
      <4>4. Remembered(q)
        BY <4>3 DEF Remembered
      <4> QED
        BY <4>1, <4>2, <4>3, <4>4
    <3>2. CASE page.load.begun
      <4> DEFINE t == [of |-> written', v |-> 1]
                 r == [q EXCEPT !.text = t]
                 s == Schedule(r)
      <4>1. page' = s
        BY <2>3, <3>2
      <4>2. t \in Contents /\ t.v > 0 /\ t.of = written + 1 /\ t.of # 0 /\ t.of <= written'
        BY <1>1, <2>3, <2>4, <3>2, ComposerAssumption DEF Contents
      <4> HIDE DEF t
      <4>3. /\ r \in Pages /\ r.load = NoRequest /\ r.id = 0 /\ r.text = t
            /\ r.open = q.open /\ r.saved = q.saved
            /\ r.status = q.status /\ r.file = q.file /\ r.forced = q.forced
            /\ r.sending = q.sending /\ r.save = q.save /\ r.send = q.send
            /\ r.discard = q.discard /\ r.upload = q.upload /\ r.failed = q.failed
            /\ r.timer = q.timer /\ r.dialog = q.dialog
        BY <2>5, <4>2 DEF Pages
      <4> HIDE DEF r
      <4>4. ~((r.id = 0 /\ ~Meaningful(r)) \/ r.status # "draft")
        BY <2>1, <2>5, <4>2, <4>3 DEF Meaningful
      <4>5. /\ s \in Pages /\ s.timer /\ ~s.saved
            /\ s.open = r.open /\ s.id = r.id /\ s.text = r.text /\ s.file = r.file
            /\ s.status = r.status /\ s.forced = r.forced /\ s.failed = r.failed
            /\ s.sending = r.sending /\ s.dialog = r.dialog /\ s.load = r.load
            /\ s.send = r.send /\ s.discard = r.discard /\ s.upload = r.upload
            /\ Saving(s) <=> Saving(r)
        BY <4>3, <4>4, ScheduleFields
      <4> HIDE DEF s
      <4>6. s.save = NoRequest
        BY <2>1, <2>5, <4>3, <4>5 DEF Saving
      <4>7. Sound(s, drafts, doubtful, written')
        <5>1. /\ s \in Pages /\ s.open /\ ~s.saved /\ s.save = NoRequest
              /\ s.send = NoRequest /\ s.load = NoRequest /\ s.id = 0 /\ ~s.forced
              /\ s.dialog = "none" /\ ~s.failed /\ ~s.sending
              /\ s.discard = NoRequest /\ s.upload = NoRequest /\ s.text = t
          BY <1>3, <2>1, <2>5, <4>3, <4>5, <4>6
        <5>2. s.text.of = written + 1 /\ s.text.of # 0 /\ s.text.of <= written'
          BY <4>2, <5>1
        <5> QED
          BY <2>7, <5>1, <5>2
      <4> QED
        BY <1>3, <2>5, <4>1, <4>3, <4>5, <4>7 DEF Remembered
    <3> QED
      BY <3>1, <3>2
  <2>9. ComposerInvariant'
    BY <1>1, <1>2, <2>4, <2>8, Ends DEF Fit
  <2> QED
    BY <1>2, <2>6, <2>9 DEF LetsGo, SendsApproved
<1>6. CASE d # 0
  <2>1. /\ d \in DraftRows /\ Holds(d) /\ written' = written
        /\ \E file \in BOOLEAN :
             page' = [q EXCEPT !.text = drafts[d], !.file = file, !.saved = TRUE,
                               !.status = IF d \in locked THEN "sending" ELSE "draft"]
    BY <1>4, <1>6
  <2>2. drafts[d] \in Contents /\ d \in Ids
    BY <1>1, <2>1 DEF ServerRows, Holds, DraftRows, Ids
  <2> DEFINE s == IF d \in locked THEN "sending" ELSE "draft"
  <2>3. PICK file \in BOOLEAN :
          page' = [q EXCEPT !.text = drafts[d], !.file = file, !.saved = TRUE, !.status = s]
    BY <2>1
  <2>4. s \in {"draft", "sending"}
    OBVIOUS
  <2>5. /\ q \in Pages /\ q.load = NoRequest
        /\ q.open = page.open
        /\ q.sending = page.sending /\ q.save = page.save /\ q.send = page.send
        /\ q.discard = page.discard /\ q.upload = page.upload
    <3>1. q = [page EXCEPT !.load = NoRequest, !.id = d, !.error = FALSE, !.dirty = FALSE]
      OBVIOUS
    <3> HIDE DEF q, d
    <3> QED
      BY <1>1, <2>2, <3>1 DEF Pages
  <2> HIDE DEF q, s
  <2>6. /\ page' \in Pages /\ page'.load = NoRequest /\ page'.saved
        /\ page'.open = page.open
        /\ page'.sending = page.sending /\ page'.save = page.save /\ page'.send = page.send
        /\ page'.discard = page.discard /\ page'.upload = page.upload
    <3>1. page' \in Pages
      BY <2>2, <2>3, <2>4, <2>5, PageFilled
    <3> QED
      BY <2>3, <2>5, <3>1 DEF Pages
  <2>7. ClosedShape(page') /\ LoadShape(page') /\ SaveShape(page')
    BY <1>3, <2>6 DEF ClosedShape, LoadShape, SaveShape, Loading
  <2>8. OpenShape(page')
    BY <1>1, <2>6 DEF Sound, OpenShape, Saving, Sent
  <2>9. Sound(page', drafts, doubtful, written)
    BY <1>3, <1>6, <2>6, <2>7, <2>8 DEF Sound
  <2>10. Remembered(page') /\ LetsGo(page, page', drafts)
    BY <1>3, <1>6, <2>6 DEF Remembered, LetsGo
  <2> QED
    BY <1>1, <1>2, <2>1, <2>9, <2>10, PageStepFits DEF serverVars
<1> QED
  BY <1>5, <1>6

LEMMA LeaveFits ==
  ASSUME ComposerInvariant, Leave
  PROVE  ComposerInvariant' /\ LetsGo(page, page', drafts') /\ SendsApproved
<1>1. /\ Sound(page, drafts, doubtful, written) /\ page \in Pages /\ written \in Nat
  BY Before DEF Fit
<1>2. /\ page' = Drop(page, "leave") /\ wanted' = 0 /\ host' = host
      /\ UNCHANGED <<written, serverVars, doubtful>>
  BY DEF Leave
<1>3. Sound(page', drafts, doubtful, written) /\ ~page'.open /\ page'.left = "leave"
  BY <1>1, <1>2, DropIsSound, DropFields
<1>4. wanted' \in Ids
  BY <1>2, ComposerAssumption DEF Ids
<1>5. Remembered(page') /\ LetsGo(page, page', drafts)
  BY <1>3 DEF Remembered, LetsGo
<1> QED
  BY <1>2, <1>3, <1>4, <1>5, PageStepFits

\* The steps that change nothing of what is saved.
LEMMA AsideFits ==
  ASSUME ComposerInvariant, host' = host, wanted' = wanted, UNCHANGED <<written, serverVars, doubtful>>,
         page' \in Pages, Aside(page, page'), page'.timer = page.timer,
         page'.save = page.save, page'.sending = page.sending, page.error => page'.error \/ page.saved
  PROVE  ComposerInvariant' /\ LetsGo(page, page', drafts') /\ SendsApproved
<1>1. /\ Sound(page, drafts, doubtful, written) /\ Remembered(page) /\ wanted \in Ids
  BY Before DEF Fit
<1>2. Sound(page', drafts, doubtful, written)
  BY <1>1, AsideIsSound
<1>3. Remembered(page')
  BY <1>1 DEF Aside, Remembered, Saving, Loading
<1>4. LetsGo(page, page', drafts)
  <2>1. Keeps(page, page', drafts)
    BY DEF Keeps, Aside
  <2> QED
    BY <1>1, <2>1, KeepingLetsGo
<1> QED
  BY <1>1, <1>2, <1>3, <1>4, PageStepFits

LEMMA RemoveAttachmentFits ==
  ASSUME ComposerInvariant, RemoveAttachment
  PROVE  ComposerInvariant' /\ LetsGo(page, page', drafts') /\ SendsApproved
<1> DEFINE r == [at |-> "remove", id |-> page.id, live |-> TRUE]
<1>1. page \in Pages
  BY Before
<1>2. /\ page' = [page EXCEPT !.upload = r] /\ host' = host /\ wanted' = wanted
      /\ UNCHANGED <<written, serverVars, doubtful>> /\ page.open /\ ~Loading(page)
  BY DEF RemoveAttachment, Writable
<1>3. r \in FileRequests /\ r.live
  BY <1>1 DEF FileRequests, Pages
<1> HIDE DEF r
<1>4. /\ page' \in Pages /\ Aside(page, page') /\ page'.timer = page.timer
      /\ page'.save = page.save /\ page'.sending = page.sending /\ page'.error = page.error
  BY <1>1, <1>2, <1>3 DEF Pages, Aside
<1> QED
  BY <1>2, <1>4, AsideFits

LEMMA AskToDiscardFits ==
  ASSUME ComposerInvariant, AskToDiscard
  PROVE  ComposerInvariant' /\ LetsGo(page, page', drafts') /\ SendsApproved
<1>1. page \in Pages
  BY Before
<1>2. /\ page' = [page EXCEPT !.dialog = "discard"] /\ host' = host /\ wanted' = wanted
      /\ UNCHANGED <<written, serverVars, doubtful>> /\ page.open /\ ~Loading(page)
  BY DEF AskToDiscard, Writable
<1>3. /\ page' \in Pages /\ Aside(page, page') /\ page'.timer = page.timer
      /\ page'.save = page.save /\ page'.sending = page.sending /\ page'.error = page.error
  BY <1>1, <1>2 DEF Pages, Aside
<1> QED
  BY <1>2, <1>3, AsideFits

LEMMA CancelFits ==
  ASSUME ComposerInvariant, Cancel
  PROVE  ComposerInvariant' /\ LetsGo(page, page', drafts') /\ SendsApproved
<1>1. page \in Pages
  BY Before
<1>2. /\ page' = [page EXCEPT !.dialog = "none"] /\ host' = host /\ wanted' = wanted
      /\ UNCHANGED <<written, serverVars, doubtful>> /\ page.open
  BY DEF Cancel
<1>3. /\ page' \in Pages /\ Aside(page, page') /\ page'.timer = page.timer
      /\ page'.save = page.save /\ page'.sending = page.sending /\ page'.error = page.error
  BY <1>1, <1>2 DEF Pages, Aside
<1> QED
  BY <1>2, <1>3, AsideFits

-----------------------------------------------------------------------------
(* The answers of the server.                                              *)

\* The writer confirms: the draft is sent as it is shown, or deleted.
LEMMA ConfirmFits ==
  ASSUME ComposerInvariant, Confirm
  PROVE  ComposerInvariant' /\ LetsGo(page, page', drafts') /\ SendsApproved
<1>1. /\ Sound(page, drafts, doubtful, written) /\ page \in Pages /\ wanted \in Ids
      /\ Remembered(page)
  BY Before DEF Fit
<1>2. /\ page.open /\ host' = host /\ wanted' = wanted
      /\ UNCHANGED <<written, serverVars, doubtful>>
  BY DEF Confirm
<1> DEFINE s == [at |-> "send", id |-> page.id, live |-> TRUE, shown |-> page.text,
                 rewritten |-> FALSE]
           e == [at |-> "discard", id |-> page.id, live |-> TRUE]
<1>3. CASE page.dialog = "send" /\ CanSend(page)
           /\ page' = [page EXCEPT !.dialog = "none", !.sending = TRUE, !.error = FALSE, !.send = s]
  <2>1. page.id # 0 /\ ~Loading(page) /\ page.id \in DraftRows
    BY <1>1, <1>3, ComposerAssumption DEF CanSend, Pages, Ids, DraftRows
  <2>2. s \in SendRequests /\ s # NoRequest /\ s.id = page.id /\ s.live /\ s.shown = page.text
        /\ ~s.rewritten
    BY <1>1, <2>1 DEF SendRequests, NoRequest, Pages
  <2> HIDE DEF s
  <2>3. /\ page' \in Pages /\ page'.send = s /\ page'.sending /\ page'.dialog = "none"
        /\ page'.open = page.open /\ page'.id = page.id /\ page'.text = page.text
        /\ page'.file = page.file /\ page'.status = page.status /\ page'.saved = page.saved
        /\ page'.dirty = page.dirty /\ page'.forced = page.forced /\ page'.timer = page.timer
        /\ page'.failed = page.failed /\ page'.load = page.load /\ page'.save = page.save
        /\ page'.discard = page.discard /\ page'.upload = page.upload
    BY <1>1, <1>3, <2>2 DEF Pages
  <2> DEFINE q == page'
  <2>4. ClosedShape(q) /\ LoadShape(q)
    BY <1>2, <2>1, <2>3 DEF ClosedShape, LoadShape, Loading
  <2>5. OpenShape(q)
    BY <1>1, <2>2, <2>3 DEF Sound, OpenShape, Saving, Sent
  <2>6. SaveShape(q)
    BY <1>1, <2>3 DEF Sound, SaveShape, Saving, Meaningful
  <2>7. ASSUME host = "inbox" PROVE FromInbox(q, drafts, doubtful, written)
    <3>1. FromInbox(page, drafts, doubtful, written)
      BY <1>1, <2>7 DEF Sound
    <3>2. InboxShape(q)
      BY <1>3, <2>3, <3>1 DEF FromInbox, InboxShape, Saving
    <3>3. Saving(page) => page.save.at = "update" /\ page.save.id = page.id
                          /\ page.save.text = page.text
      BY <1>1, <1>2, <1>3, <2>1, <3>1 DEF FromInbox, InboxShape, Pages, Saves, Saving
    <3>4. SendShape(q)
      BY <1>2, <2>2, <2>1, <2>3, <3>3 DEF SendShape, Saving
    <3>5. Backed(q, drafts)
      BY <1>3, <2>2, <2>3, <3>1 DEF FromInbox, Backed, Meaningful
    <3>6. Single(q, drafts, doubtful) /\ Numbered(q, drafts, written)
      BY <2>3, <3>1 DEF FromInbox, Single, Numbered, Saving
    <3> QED
      BY <3>2, <3>4, <3>5, <3>6 DEF FromInbox
  <2>8. Sound(q, drafts, doubtful, written)
    BY <2>3, <2>4, <2>5, <2>6, <2>7 DEF Sound
  <2>9. Remembered(q) /\ LetsGo(page, q, drafts)
    BY <1>1, <1>2, <2>3, KeepingLetsGo DEF Remembered, Keeps
  <2> QED
    BY <1>1, <1>2, <2>8, <2>9, PageStepFits
<1>4. CASE page.dialog = "discard" /\ page.id # 0 /\ page' = [page EXCEPT !.discard = e]
  <2>1. e \in Discards /\ e.live
    BY <1>1 DEF Discards, Pages
  <2> HIDE DEF e
  <2>2. Loading(page) => page.load.id # 0
    BY <1>1, <1>4 DEF Sound, LoadShape
  <2>3. /\ page' \in Pages /\ Aside(page, page') /\ page'.timer = page.timer
        /\ page'.save = page.save /\ page'.sending = page.sending /\ page'.error = page.error
    BY <1>1, <1>2, <1>4, <2>1, <2>2 DEF Pages, Aside
  <2> QED
    BY <1>2, <2>3, AsideFits
<1> QED
  BY <1>3, <1>4 DEF Confirm

\* The answer to a file: the page has it, or not, or shows an error.
LEMMA FileAnsweredFits ==
  ASSUME ComposerInvariant, FileAnswered
  PROVE  ComposerInvariant' /\ LetsGo(page, page', drafts') /\ SendsApproved
<1> DEFINE q == [page EXCEPT !.upload = NoRequest, !.uploading = FALSE]
           c == (page.upload.at = "add")
           r == [q EXCEPT !.file = c]
           s == Schedule(r)
<1>1. /\ Sound(page, drafts, doubtful, written) /\ page \in Pages /\ wanted \in Ids
      /\ Remembered(page) /\ drafts \in ServerRows /\ written \in Nat
  BY Before DEF Fit
<1>2. /\ page.upload # NoRequest /\ host' = host /\ wanted' = wanted
      /\ UNCHANGED <<written, serverVars, doubtful>>
      /\ \/ ~page.upload.live /\ page' = [page EXCEPT !.upload = NoRequest]
         \/ page.upload.live /\ page' = Wrong(q)
         \/ page.upload.live /\ page' = s
  BY DEF FileAnswered, serverVars
<1>3. CASE ~page.upload.live /\ page' = [page EXCEPT !.upload = NoRequest]
  <2>1. /\ page' \in Pages /\ Aside(page, page') /\ page'.timer = page.timer
        /\ page'.save = page.save /\ page'.sending = page.sending /\ page'.error = page.error
        /\ page'.left = page.left
    BY <1>1, <1>3 DEF Pages, Aside
  <2> QED
    BY <1>2, <2>1, AsideFits
<1>4. CASE page.upload.live /\ page' = Wrong(q)
  <2>1. page' = [q EXCEPT !.error = ~q.saved]
    BY <1>4 DEF Wrong
  <2>2. /\ q \in Pages /\ Aside(page, q) /\ q.timer = page.timer /\ q.saved = page.saved
        /\ q.save = page.save /\ q.sending = page.sending
    <3>1. q = [page EXCEPT !.upload = NoRequest, !.uploading = FALSE]
      OBVIOUS
    <3> HIDE DEF q
    <3> QED
      BY <1>1, <3>1 DEF Pages, Aside
  <2> HIDE DEF q
  <2>3. /\ page' \in Pages /\ Aside(q, page') /\ page'.timer = q.timer
        /\ page'.save = q.save /\ page'.sending = q.sending /\ page'.error = ~q.saved
    BY <2>1, <2>2, ZenonT(60) DEF Pages, Aside
  <2>4. page.open
    BY <1>1, <1>2, <1>4 DEF Sound, ClosedShape
  <2>5. Sound(page', drafts, doubtful, written)
    BY <1>1, <2>2, <2>3, AsideIsSound
  <2>6. Remembered(page')
    BY <1>1, <2>2, <2>3 DEF Aside, Remembered
  <2>7. LetsGo(page, page', drafts)
    BY <1>1, <2>2, <2>3, <2>4, KeepingLetsGo DEF Keeps, Aside
  <2> QED
    BY <1>1, <1>2, <2>5, <2>6, <2>7, PageStepFits
<1>5. CASE page.upload.live /\ page' = s
  <2>1. /\ q \in Pages /\ q.upload = NoRequest /\ q.open = page.open /\ q.id = page.id
        /\ q.text = page.text /\ q.status = page.status /\ q.saved = page.saved
        /\ q.dirty = page.dirty /\ q.forced = page.forced /\ q.timer = page.timer
        /\ q.error = page.error /\ q.failed = page.failed /\ q.sending = page.sending
        /\ q.dialog = page.dialog /\ q.load = page.load /\ q.save = page.save
        /\ q.send = page.send /\ q.discard = page.discard
    <3>1. q = [page EXCEPT !.upload = NoRequest, !.uploading = FALSE]
      OBVIOUS
    <3> HIDE DEF q
    <3> QED
      BY <1>1, <3>1 DEF Pages
  <2> HIDE DEF q
  <2>2. c \in BOOLEAN
    OBVIOUS
  <2> HIDE DEF c
  <2>3. /\ r \in Pages /\ r.upload = q.upload /\ r.open = q.open /\ r.id = q.id
        /\ r.text = q.text /\ r.status = q.status /\ r.saved = q.saved
        /\ r.dirty = q.dirty /\ r.forced = q.forced /\ r.timer = q.timer
        /\ r.error = q.error /\ r.failed = q.failed /\ r.sending = q.sending
        /\ r.dialog = q.dialog /\ r.load = q.load /\ r.save = q.save
        /\ r.send = q.send /\ r.discard = q.discard
    BY <2>1, <2>2 DEF Pages
  <2> HIDE DEF r
  <2>4. page.open /\ (Loading(page) => page.load.id # 0)
    BY <1>1, <1>2, <1>5 DEF Sound, ClosedShape, LoadShape
  <2>5. CASE ~((r.id = 0 /\ ~Meaningful(r)) \/ r.status # "draft")
    <3>1. /\ s \in Pages /\ s.timer /\ ~s.saved
          /\ s.open = r.open /\ s.id = r.id /\ s.text = r.text /\ s.file = r.file
          /\ s.status = r.status /\ s.forced = r.forced /\ s.failed = r.failed
          /\ s.sending = r.sending /\ s.dialog = r.dialog /\ s.load = r.load
          /\ s.send = r.send /\ s.discard = r.discard /\ s.upload = r.upload
          /\ Saving(s) <=> Saving(r)
          /\ Saving(s) =>
               /\ s.save.at = r.save.at /\ s.save.id = r.save.id
               /\ s.save.text = r.save.text /\ ~s.save.current
               /\ s.save.callers = r.save.callers /\ s.save.live = r.save.live
      BY <2>3, <2>5, ScheduleFields
    <3> HIDE DEF s
    <3>2. host = "inbox" => page.text.of <= written
      BY <1>1 DEF Sound, FromInbox, Numbered
    <3>3. host = "inbox" /\ Sent(page) /\ ~page.send.rewritten => page.text = page.send.shown
      BY <1>1, <2>4 DEF Sound, FromInbox, SendShape
    <3>4. page.send.rewritten \in BOOLEAN \/ ~Sent(page)
      BY <1>1 DEF Pages, SendRequests, Sent
    <3>5. Revised(page, s, drafts, doubtful, written, written)
      BY <1>1, <2>1, <2>3, <2>4, <3>1, <3>2, <3>4 DEF Revised, Saving, Sent
    <3>6. Sound(s, drafts, doubtful, written)
      BY <1>1, <3>1, <3>5, RevisedIsSound
    <3>7. Remembered(s) /\ LetsGo(page, s, drafts)
      BY <1>1, <2>1, <2>3, <2>4, <3>1, KeepingLetsGo DEF Remembered, Keeps
    <3> QED
      BY <1>1, <1>2, <1>5, <3>6, <3>7, PageStepFits
  <2>6. CASE (r.id = 0 /\ ~Meaningful(r)) \/ r.status # "draft"
    <3>1. s = r
      BY <2>3, <2>6, ScheduleFields
    <3>2. ClosedShape(r) /\ OpenShape(r)
      BY <1>1, <2>1, <2>3, <2>4 DEF Sound, ClosedShape, OpenShape, Saving, Sent
    <3>3. LoadShape(r)
      BY <1>1, <2>1, <2>3, <2>4 DEF Sound, LoadShape, Loading
    <3>4. SaveShape(r)
      BY <2>6 DEF SaveShape
    <3>5. ASSUME host = "inbox" PROVE FromInbox(r, drafts, doubtful, written)
      <4>1. FromInbox(page, drafts, doubtful, written)
        BY <1>1, <3>5 DEF Sound
      <4>2. InboxShape(r)
        BY <2>1, <2>3, <4>1 DEF FromInbox, InboxShape, Saving, Sent
      <4>3. SendShape(r)
        BY <2>1, <2>3, <4>1 DEF FromInbox, SendShape, Saving, Sent
      <4>4. Backed(r, drafts)
        BY <2>1, <2>3, <2>6, <4>1, <4>2 DEF FromInbox, Backed, Sent, InboxShape
      <4>5. Single(r, drafts, doubtful) /\ Numbered(r, drafts, written)
        BY <2>1, <2>3, <4>1 DEF FromInbox, Single, Numbered, Saving
      <4> QED
        BY <4>2, <4>3, <4>4, <4>5 DEF FromInbox
    <3>6. Sound(r, drafts, doubtful, written)
      BY <2>3, <3>2, <3>3, <3>4, <3>5 DEF Sound
    <3>7. r.status = "draft" => r.text.v = 0
      <4>1. r.text.v \in 0..2
        BY <2>3, ComposerAssumption DEF Pages, Contents
      <4> QED
        BY <2>6, <4>1 DEF Meaningful
    <3>8. Remembered(r) /\ LetsGo(page, r, drafts)
      BY <1>1, <2>1, <2>3, <2>4, <3>7, KeepingLetsGo DEF Remembered, Keeps
    <3> QED
      BY <1>1, <1>2, <1>5, <3>1, <3>6, <3>8, PageStepFits
  <2> QED
    BY <2>5, <2>6
<1> QED
  BY <1>2, <1>3, <1>4, <1>5

\* A row less takes nothing away from what is true of the others.
LEMMA RowGoneIsSound ==
  ASSUME NEW p, NEW D \in ServerRows, NEW X, NEW w \in Nat, NEW d, Sound(p, D, X, w)
  PROVE  LET E == [D EXCEPT ![d] = Gone]
         IN  Sound(p, E, X, w) /\ E \in ServerRows
<1> DEFINE E == [D EXCEPT ![d] = Gone]
<1>1. E \in ServerRows /\ \A e \in DraftRows : E[e] \in {D[e], Gone}
  BY DEF ServerRows
<1>2. Gone.of = 0
  BY DEF Gone
<1> HIDE DEF E
<1>3. Backed(p, D) => Backed(p, E)
  BY <1>1 DEF Backed, Reads
<1>4. ASSUME NEW e, NEW m, Sole(D, e, m, X) PROVE Sole(E, e, m, X)
  BY <1>1, <1>4 DEF Sole
<1>5. Single(p, D, X) => Single(p, E, X)
  BY <1>1, <1>4 DEF Single
<1>6. Numbered(p, D, w) => Numbered(p, E, w)
  BY <1>1, <1>2 DEF Numbered
<1>7. Sound(p, E, X, w)
  BY <1>3, <1>5, <1>6 DEF Sound, FromInbox
<1> QED
  BY <1>1, <1>7 DEF E

\* The save that was refused, or answered to nobody.
LEMMA UnsavedIsAside ==
  ASSUME NEW p \in Pages
  PROVE  /\ LET q == [p EXCEPT !.save = NoRequest]
            IN  q \in Pages /\ Aside(p, q) /\ ~Saving(q) /\ q.send = p.send /\ q.open = p.open
         /\ LET q == [p EXCEPT !.save = NoRequest, !.error = TRUE]
            IN  q \in Pages /\ Aside(p, q) /\ ~Saving(q) /\ q.send = p.send
<1> DEFINE a == [p EXCEPT !.save = NoRequest]
           b == [p EXCEPT !.save = NoRequest, !.error = TRUE]
<1>1. a \in Pages /\ Aside(p, a) /\ ~Saving(a) /\ a.send = p.send /\ a.open = p.open
  <2>1. a = [p EXCEPT !.save = NoRequest]
    OBVIOUS
  <2> HIDE DEF a
  <2> QED
    BY <2>1 DEF Pages, Aside, Saving
<1>2. b \in Pages /\ Aside(p, b) /\ ~Saving(b) /\ b.send = p.send
  <2>1. b = [p EXCEPT !.save = NoRequest, !.error = TRUE]
    OBVIOUS
  <2> HIDE DEF b
  <2> QED
    BY <2>1 DEF Pages, Aside, Saving
<1> QED
  BY <1>1, <1>2

\* The save that the server has carried out, whether the page hears of it or not.
LEMMA SaveAnsweredFits ==
  ASSUME ComposerInvariant, SaveAnswered
  PROVE  ComposerInvariant' /\ LetsGo(page, page', drafts') /\ SendsApproved
<1>1. /\ Sound(page, drafts, doubtful, written) /\ page \in Pages /\ wanted \in Ids /\ 0 \in Ids
      /\ drafts \in ServerRows /\ doubtful \subseteq 0..MaxMessages /\ written \in Nat
      /\ written \in 0..MaxMessages /\ locked \subseteq DraftRows
      /\ host \in {"inbox", "drafts"}
  BY Before, ComposerAssumption DEF Fit, Ids
<1>2. /\ Saving(page) /\ host' = host /\ written' = written /\ locked' = locked
      /\ wanted' \in {wanted, 0}
  BY DEF SaveAnswered, Saving
<1>3. PICK d \in DraftRows, heard \in BOOLEAN :
        /\ Lands(d)
        /\ drafts' = [drafts EXCEPT ![d] = page.save.text]
        /\ page' = IF ~page.save.live THEN [page EXCEPT !.save = NoRequest]
                   ELSE IF heard THEN Succeeded(page, d) ELSE Failed(page)
        /\ doubtful' = IF heard \/ page.save.at = "update" \/ host = "drafts" THEN doubtful
                       ELSE doubtful \cup {page.save.text.of}
  BY DEF SaveAnswered
<1>4. page.save \in Saves /\ page.save.text \in Contents
  BY <1>1, <1>2 DEF Pages, Saves, Saving
<1>5. drafts' \in ServerRows /\ doubtful' \subseteq 0..MaxMessages /\ doubtful \subseteq doubtful'
  BY <1>1, <1>3, <1>4 DEF ServerRows, Contents
<1>6. LandsIn(page, d, drafts, drafts', doubtful, doubtful')
  BY <1>3, <1>5 DEF LandsIn, Lands
<1>7. page.open => page.save.live
  BY <1>1, <1>2 DEF Sound, OpenShape
<1>8. page.save.live => page.open
  BY <1>1, <1>2 DEF Sound, ClosedShape
<1>9. page.open => (Loading(page) => page.load.id # 0)
  BY <1>1, <1>2 DEF Sound, LoadShape
<1>10. host = "inbox" =>
         ~page.saved
         /\ (page.dialog = "send" \/ Sent(page) => page.save.callers \in Seq({"timer"}))
  BY <1>1, <1>2 DEF Sound, FromInbox, InboxShape
<1>11. /\ Sound(page', drafts', doubtful', written) /\ Remembered(page')
       /\ LetsGo(page, page', drafts') /\ (Sent(page) => Sent(page'))
  <2>1. CASE ~page.save.live
    <3> DEFINE q == [page EXCEPT !.save = NoRequest]
    <3>1. q \in Pages /\ Aside(page, q) /\ ~Saving(q) /\ q.send = page.send /\ q.open = page.open
      BY <1>1, UnsavedIsAside
    <3>2. page' = q
      BY <1>3, <2>1
    <3> HIDE DEF q
    <3>3. Sound(q, drafts', doubtful', written)
      BY <1>1, <1>2, <1>6, <1>7, <2>1, <3>1, LandedIsSound
    <3> QED
      BY <1>7, <2>1, <3>1, <3>2, <3>3 DEF Remembered, LetsGo, Sent
  <2>2. CASE page.save.live /\ heard
    <3>1. page' = Succeeded(page, d) /\ doubtful' = doubtful
      BY <1>3, <2>2
    <3> DEFINE q == Succeeded(page, d)
    <3>2. Sound(q, drafts', doubtful, written) /\ Remembered(q) /\ Keeps(page, q, drafts')
          /\ (Sent(page) => Sent(q))
      BY <1>1, <1>2, <1>6, <1>8, <2>2, <3>1, SucceededIsSound
    <3> HIDE DEF q
    <3>3. page' = q
      BY <3>1 DEF q
    <3> QED
      BY <1>1, <3>1, <3>2, <3>3, KeepingLetsGo
  <2>3. CASE page.save.live /\ ~heard
    <3>1. page' = Failed(page)
      BY <1>3, <2>3
    <3> DEFINE q == Failed(page)
               r == [page EXCEPT !.save = NoRequest, !.error = TRUE]
    <3>2. host = "inbox" /\ page.save.at = "create" => page.save.text.of \in doubtful'
      BY <1>3, <2>3
    <3>3. r \in Pages /\ Aside(page, r) /\ ~Saving(r)
      BY <1>1, UnsavedIsAside
    <3>4. Sound(r, drafts', doubtful', written)
      <4> HIDE DEF r
      <4> QED
        BY <1>1, <1>2, <1>6, <3>2, <3>3, LandedIsSound
    <3>5. Sound(q, drafts', doubtful', written) /\ Remembered(q) /\ Keeps(page, q, drafts')
          /\ (Sent(page) => Sent(q))
      BY <1>1, <1>2, <1>8, <1>9, <1>10, <2>3, <3>4, FailedIsSound
    <3> HIDE DEF q
    <3>6. page' = q
      BY <3>1 DEF q
    <3> QED
      BY <1>1, <3>5, <3>6, KeepingLetsGo
  <2> QED
    BY <2>1, <2>2, <2>3
<1>12. ComposerInvariant'
  <2>1. Fit(page', drafts', doubtful', written')
    BY <1>1, <1>2, <1>5, <1>11 DEF Fit
  <2> QED
    BY <1>1, <1>2, <2>1, Ends
<1> QED
  BY <1>11, <1>12 DEF SendsApproved, Sent

\* The save that the server has refused.
LEMMA SaveRefusedFits ==
  ASSUME ComposerInvariant, SaveRefused
  PROVE  ComposerInvariant' /\ LetsGo(page, page', drafts') /\ SendsApproved
<1>1. /\ Sound(page, drafts, doubtful, written) /\ page \in Pages /\ wanted \in Ids
      /\ written \in Nat
  BY Before DEF Fit
<1>2. /\ Saving(page) /\ host' = host /\ wanted' = wanted
      /\ page' = (IF page.save.live THEN Failed(page) ELSE [page EXCEPT !.save = NoRequest])
      /\ UNCHANGED <<written, serverVars, doubtful>>
  BY DEF SaveRefused, Saving
<1>3. CASE ~page.save.live
  <2> DEFINE q == [page EXCEPT !.save = NoRequest]
  <2>1. q \in Pages /\ Aside(page, q) /\ ~Saving(q) /\ q.open = page.open
    BY <1>1, UnsavedIsAside
  <2>2. page' = q
    BY <1>2, <1>3
  <2> HIDE DEF q
  <2>3. ~page.open
    BY <1>1, <1>2, <1>3 DEF Sound, OpenShape
  <2>4. Sound(q, drafts, doubtful, written) /\ Remembered(q) /\ LetsGo(page, q, drafts)
    BY <1>1, <2>1, <2>3, AsideIsSound DEF Remembered, LetsGo
  <2> QED
    BY <1>1, <1>2, <2>2, <2>4, PageStepFits
<1>4. CASE page.save.live
  <2> DEFINE q == Failed(page)
             r == [page EXCEPT !.save = NoRequest, !.error = TRUE]
  <2>1. page.open /\ (Loading(page) => page.load.id # 0)
    BY <1>1, <1>2, <1>4 DEF Sound, ClosedShape, LoadShape
  <2>2. host = "inbox" =>
          ~page.saved
          /\ (page.dialog = "send" \/ Sent(page) => page.save.callers \in Seq({"timer"}))
    BY <1>1, <1>2 DEF Sound, FromInbox, InboxShape
  <2>3. Sound(r, drafts, doubtful, written)
    <3>1. r \in Pages /\ Aside(page, r)
      BY <1>1, UnsavedIsAside
    <3> HIDE DEF r
    <3> QED
      BY <1>1, <3>1, AsideIsSound
  <2>4. Sound(q, drafts, doubtful, written) /\ Remembered(q) /\ Keeps(page, q, drafts)
    BY <1>1, <1>2, <2>1, <2>2, <2>3, FailedIsSound
  <2> HIDE DEF q
  <2>5. page' = q
    BY <1>2, <1>4 DEF q
  <2>6. LetsGo(page, q, drafts)
    BY <1>1, <2>4, KeepingLetsGo
  <2> QED
    BY <1>1, <1>2, <2>4, <2>5, <2>6, PageStepFits
<1> QED
  BY <1>3, <1>4

LEMMA DeleteFromListFits ==
  ASSUME ComposerInvariant, NEW d \in DraftRows, DeleteFromList(d)
  PROVE  ComposerInvariant' /\ LetsGo(page, page', drafts') /\ SendsApproved
<1>1. /\ Fit(page, drafts, doubtful, written) /\ wanted \in Ids
      /\ written \in Nat /\ locked \subseteq DraftRows /\ host \in {"inbox", "drafts"}
  BY Before
<1>2. /\ host = "drafts" /\ drafts' = [drafts EXCEPT ![d] = Gone]
      /\ UNCHANGED <<host, wanted, page, written, locked, doubtful>>
  BY DEF DeleteFromList
<1>3. Fit(page', drafts', doubtful', written')
  BY <1>1, <1>2, RowGoneIsSound DEF Fit
<1>4. ComposerInvariant'
  BY <1>1, <1>2, <1>3, Ends
<1> QED
  BY <1>2, <1>4 DEF LetsGo, SendsApproved

\* An answer that is an error changes nothing else.
LEMMA ErrorFields ==
  ASSUME NEW q \in Pages, NEW r, r = Wrong(q)
  PROVE  /\ r \in Pages /\ r.error = ~q.saved
         /\ r.open = q.open /\ r.id = q.id /\ r.text = q.text /\ r.file = q.file
         /\ r.status = q.status /\ r.saved = q.saved /\ r.dirty = q.dirty
         /\ r.forced = q.forced /\ r.timer = q.timer /\ r.failed = q.failed
         /\ r.sending = q.sending /\ r.dialog = q.dialog /\ r.load = q.load
         /\ r.save = q.save /\ r.send = q.send /\ r.discard = q.discard /\ r.upload = q.upload
<1> DEFINE b == ~q.saved
<1>1. b \in BOOLEAN /\ b = ~q.saved /\ r = [q EXCEPT !.error = b]
  BY DEF Wrong
<1> HIDE DEF b
<1> QED
  BY <1>1, ZenonT(60) DEF Pages

\* An answer that is an error: what is written can be written on.
LEMMA WrongFields ==
  ASSUME NEW q \in Pages, NEW r, r = Wrong([q EXCEPT !.sending = FALSE])
  PROVE  /\ r \in Pages /\ ~r.sending /\ r.send = q.send /\ r.error = ~q.saved
         /\ r.open = q.open /\ r.id = q.id /\ r.text = q.text /\ r.file = q.file
         /\ r.status = q.status /\ r.saved = q.saved /\ r.dirty = q.dirty
         /\ r.forced = q.forced /\ r.timer = q.timer /\ r.failed = q.failed
         /\ r.dialog = q.dialog /\ r.load = q.load
         /\ r.save = q.save /\ r.discard = q.discard /\ r.upload = q.upload
<1> DEFINE a == [q EXCEPT !.sending = FALSE]
<1>1. /\ a \in Pages /\ ~a.sending /\ a.send = q.send
      /\ a.open = q.open /\ a.id = q.id /\ a.text = q.text /\ a.file = q.file
      /\ a.status = q.status /\ a.saved = q.saved /\ a.dirty = q.dirty
      /\ a.forced = q.forced /\ a.timer = q.timer /\ a.failed = q.failed
      /\ a.dialog = q.dialog /\ a.load = q.load
      /\ a.save = q.save /\ a.discard = q.discard /\ a.upload = q.upload
  <2>1. a = [q EXCEPT !.sending = FALSE]
    OBVIOUS
  <2> HIDE DEF a
  <2> QED
    BY <2>1 DEF Pages
<1> HIDE DEF a
<1>2. r = Wrong(a)
  BY DEF a
<1>3. /\ r \in Pages /\ r.sending = a.sending /\ r.send = a.send /\ r.error = ~a.saved
      /\ r.open = a.open /\ r.id = a.id /\ r.text = a.text /\ r.file = a.file
      /\ r.status = a.status /\ r.saved = a.saved /\ r.dirty = a.dirty
      /\ r.forced = a.forced /\ r.timer = a.timer /\ r.failed = a.failed
      /\ r.dialog = a.dialog /\ r.load = a.load
      /\ r.save = a.save /\ r.discard = a.discard /\ r.upload = a.upload
  BY <1>1, <1>2, ErrorFields
<1> QED
  BY <1>1, <1>3

\* A page that is dropped, with one answer less to wait for.
LEMMA DroppedIsAside ==
  ASSUME NEW p \in Pages, NEW q \in Pages, NEW how \in {"close", "leave", "sent", "discard"},
         q.save = p.save, q.send \in {p.send, NoRequest},
         q.discard \in {p.discard, NoRequest}, q.upload = p.upload
  PROVE  LET r == Drop(q, how)
         IN  /\ r \in Pages /\ Aside(Drop(p, how), r) /\ ~r.open /\ r.left = how
             /\ r.send = Orphan(q.send)
<1> DEFINE u == Drop(p, how)
           r == Drop(q, how)
<1>1. /\ ~u.open /\ u.id = 0 /\ u.text = Nothing /\ ~u.file /\ u.status = "draft"
      /\ ~u.saved /\ ~u.dirty /\ ~u.forced /\ ~u.timer /\ ~u.failed /\ ~u.sending
      /\ u.dialog = "none" /\ u.load = NoRequest /\ u \in Pages
      /\ u.save = Orphan(p.save) /\ u.send = Orphan(p.send)
      /\ u.discard = Orphan(p.discard) /\ u.upload = Orphan(p.upload)
  BY DropFields
<1>2. /\ ~r.open /\ r.id = 0 /\ r.text = Nothing /\ ~r.file /\ r.status = "draft"
      /\ ~r.saved /\ ~r.dirty /\ ~r.forced /\ ~r.timer /\ ~r.failed /\ ~r.sending
      /\ r.dialog = "none" /\ r.left = how /\ r.load = NoRequest /\ r \in Pages
      /\ r.save = Orphan(q.save) /\ r.send = Orphan(q.send)
      /\ r.discard = Orphan(q.discard) /\ r.upload = Orphan(q.upload)
  BY DropFields
<1>3. Orphan(NoRequest) = NoRequest
  BY DEF Orphan
<1> HIDE DEF u, r
<1>4. /\ r.save = u.save /\ r.send \in {u.send, NoRequest}
      /\ r.discard \in {u.discard, NoRequest} /\ r.upload = u.upload
  BY <1>1, <1>2, <1>3
<1>5. /\ r.open = u.open /\ r.file = u.file /\ r.saved = u.saved /\ r.dirty = u.dirty
      /\ r.forced = u.forced /\ r.sending = u.sending
  BY <1>1, <1>2 DEF Pages
<1>6. Aside(u, r)
  BY <1>1, <1>2, <1>4, <1>5 DEF Aside
<1> QED
  BY <1>2, <1>6 DEF u, r

\* The server has the draft, or not any more, or keeps it locked: what the page makes
\* of the answer is sound.
LEMMA SendOverIsSound ==
  ASSUME ComposerInvariant, Sent(page)
  PROVE  LET q == [page EXCEPT !.send = NoRequest]
             wrong == IF q.open /\ page.send.live THEN Wrong([q EXCEPT !.sending = FALSE]) ELSE q
         IN  \A r \in {wrong, IF page.send.live THEN Drop(q, "sent") ELSE q,
                      IF page.send.live THEN [wrong EXCEPT !.status = "sending"] ELSE q} :
               /\ Sound(r, drafts, doubtful, written) /\ Remembered(r)
               /\ \A D : LetsGo(page, r, D)
<1> DEFINE q == [page EXCEPT !.send = NoRequest]
           wrong == IF q.open /\ page.send.live THEN Wrong([q EXCEPT !.sending = FALSE]) ELSE q
<1> SUFFICES ASSUME NEW r \in {wrong, IF page.send.live THEN Drop(q, "sent") ELSE q,
                              IF page.send.live THEN [wrong EXCEPT !.status = "sending"] ELSE q}
             PROVE  /\ Sound(r, drafts, doubtful, written) /\ Remembered(r)
                    /\ \A D : LetsGo(page, r, D)
  OBVIOUS
<1>0. /\ q = [page EXCEPT !.send = NoRequest]
      /\ wrong = IF q.open /\ page.send.live THEN Wrong([q EXCEPT !.sending = FALSE]) ELSE q
  OBVIOUS
<1> HIDE DEF q, wrong
<1>1. /\ Sound(page, drafts, doubtful, written) /\ page \in Pages /\ written \in Nat
  BY Before DEF Fit
<1>2. page.open <=> page.send.live
  BY <1>1 DEF Sound, ClosedShape, OpenShape
<1>3. /\ q \in Pages /\ q.send = NoRequest
      /\ q.open = page.open /\ q.id = page.id /\ q.text = page.text /\ q.file = page.file
      /\ q.status = page.status /\ q.saved = page.saved /\ q.dirty = page.dirty
      /\ q.forced = page.forced /\ q.timer = page.timer /\ q.failed = page.failed
      /\ q.sending = page.sending /\ q.dialog = page.dialog /\ q.load = page.load
      /\ q.save = page.save /\ q.discard = page.discard /\ q.upload = page.upload
  BY <1>0, <1>1 DEF Pages
<1>4. ASSUME ~page.open, r = q
      PROVE  Sound(r, drafts, doubtful, written) /\ Remembered(r) /\ \A D : LetsGo(page, r, D)
  <2>1. ~page.sending
    BY <1>1, <1>4 DEF Sound, ClosedShape
  <2>2. Aside(page, q)
    BY <1>3, <2>1 DEF Aside
  <2>3. Sound(q, drafts, doubtful, written)
    BY <1>1, <1>3, <2>2, AsideIsSound
  <2> QED
    BY <1>3, <1>4, <2>3 DEF Remembered, LetsGo
<1>5. ASSUME page.open, r \in {wrong, [wrong EXCEPT !.status = "sending"]}
      PROVE  Sound(r, drafts, doubtful, written) /\ Remembered(r) /\ \A D : LetsGo(page, r, D)
  <2>1. wrong = Wrong([q EXCEPT !.sending = FALSE])
    BY <1>0, <1>2, <1>3, <1>5
  <2>3. /\ wrong \in Pages /\ ~wrong.sending /\ wrong.send = q.send /\ wrong.error = ~q.saved
        /\ wrong.open = q.open /\ wrong.id = q.id /\ wrong.text = q.text /\ wrong.file = q.file
        /\ wrong.status = q.status /\ wrong.saved = q.saved /\ wrong.dirty = q.dirty
        /\ wrong.forced = q.forced /\ wrong.timer = q.timer /\ wrong.failed = q.failed
        /\ wrong.dialog = q.dialog /\ wrong.load = q.load
        /\ wrong.save = q.save /\ wrong.discard = q.discard /\ wrong.upload = q.upload
    <3>1. q \in Pages
      BY <1>3
    <3> QED
      BY <2>1, <3>1, WrongFields
  <2>4. Aside(page, wrong)
    BY <1>3, <2>1, <2>3 DEF Aside
  <2>5. Sound(wrong, drafts, doubtful, written)
    BY <1>1, <2>3, <2>4, AsideIsSound
  <2>6. Remembered(wrong)
    BY <2>1, <2>3 DEF Remembered
  <2>7. CASE r = wrong
    BY <1>5, <2>5, <2>6, <2>7, <2>4, <1>1, KeepingLetsGo DEF Keeps, Aside
  <2>8. CASE r = [wrong EXCEPT !.status = "sending"]
    <3>1. /\ r \in Pages /\ r.status = "sending" /\ r.send = wrong.send /\ r.sending = wrong.sending
          /\ r.open = wrong.open /\ r.id = wrong.id /\ r.text = wrong.text /\ r.file = wrong.file
          /\ r.saved = wrong.saved /\ r.dirty = wrong.dirty
          /\ r.forced = wrong.forced /\ r.timer = wrong.timer /\ r.failed = wrong.failed
          /\ r.dialog = wrong.dialog /\ r.load = wrong.load
          /\ r.save = wrong.save /\ r.discard = wrong.discard /\ r.upload = wrong.upload
      BY <2>3, <2>8 DEF Pages
    <3>2. ClosedShape(r) /\ OpenShape(r) /\ SaveShape(r)
      BY <2>5, <3>1 DEF Sound, ClosedShape, OpenShape, SaveShape, Saving, Sent, Loading
    <3>3. ~(Loading(page) /\ page.load.id = 0)
      BY <1>1 DEF Sound, LoadShape
    <3>4. LoadShape(r)
      BY <1>1, <1>3, <2>1, <2>3, <3>1, <3>3 DEF Sound, LoadShape, Loading
    <3>5. ASSUME host = "inbox" PROVE FromInbox(r, drafts, doubtful, written)
      <4>1. FromInbox(wrong, drafts, doubtful, written)
        BY <2>5, <3>5 DEF Sound
      <4>2. InboxShape(r) /\ SendShape(r)
        BY <3>1, <4>1 DEF FromInbox, InboxShape, SendShape, Saving, Sent
      <4>3. Backed(r, drafts)
        BY <3>1, <4>1 DEF FromInbox, Backed, Sent
      <4>4. Single(r, drafts, doubtful) /\ Numbered(r, drafts, written)
        BY <3>1, <4>1 DEF FromInbox, Single, Numbered, Saving
      <4> QED
        BY <4>2, <4>3, <4>4 DEF FromInbox
    <3>6. Sound(r, drafts, doubtful, written)
      BY <3>1, <3>2, <3>4, <3>5 DEF Sound
    <3>7. Remembered(r) /\ \A D : Keeps(page, r, D)
      BY <1>3, <1>5, <2>1, <2>3, <3>1 DEF Remembered, Keeps
    <3> QED
      BY <1>1, <3>6, <3>7, KeepingLetsGo
  <2> QED
    BY <1>5, <2>7, <2>8
<1>6. ASSUME page.open, r = Drop(q, "sent")
      PROVE  Sound(r, drafts, doubtful, written) /\ Remembered(r) /\ \A D : LetsGo(page, r, D)
  <2>1. Sound(Drop(page, "sent"), drafts, doubtful, written)
    BY <1>1, DropIsSound
  <2>2. /\ r \in Pages /\ Aside(Drop(page, "sent"), r) /\ ~r.open /\ r.left = "sent"
        /\ r.send = Orphan(q.send)
    BY <1>1, <1>3, <1>6, DroppedIsAside
  <2>3. Sound(r, drafts, doubtful, written)
    BY <1>1, <2>1, <2>2, AsideIsSound
  <2> QED
    BY <2>2, <2>3 DEF Remembered, LetsGo
<1>7. page.open => q.open
  BY <1>3
<1>8. ~page.open => wrong = q
  BY <1>0, <1>3
<1> QED
  BY <1>2, <1>4, <1>5, <1>6, <1>8

LEMMA SendAnsweredFits ==
  ASSUME ComposerInvariant, SendAnswered
  PROVE  ComposerInvariant' /\ LetsGo(page, page', drafts') /\ SendsApproved
<1> DEFINE d == page.send.id
           q == [page EXCEPT !.send = NoRequest]
           wrong == IF q.open /\ page.send.live THEN Wrong([q EXCEPT !.sending = FALSE]) ELSE q
           over == {wrong, IF page.send.live THEN Drop(q, "sent") ELSE q,
                    IF page.send.live THEN [wrong EXCEPT !.status = "sending"] ELSE q}
<1>1. /\ Sound(page, drafts, doubtful, written) /\ page \in Pages /\ wanted \in Ids /\ 0 \in Ids
      /\ drafts \in ServerRows /\ doubtful \subseteq 0..MaxMessages /\ written \in Nat
      /\ written \in 0..MaxMessages /\ locked \subseteq DraftRows
      /\ host \in {"inbox", "drafts"}
  BY Before, ComposerAssumption DEF Fit, Ids
<1>2. /\ Sent(page) /\ host' = host /\ wanted' \in {wanted, 0} /\ written' = written
      /\ doubtful' = doubtful
  BY DEF SendAnswered, Sent
<1>3. /\ page' \in over
      /\ \/ Holds(d) /\ drafts' = [drafts EXCEPT ![d] = Gone] /\ locked' = locked
         \/ Holds(d) /\ locked' = locked \cup {d} /\ drafts' = drafts
         \/ drafts' = drafts /\ locked' = locked
  BY DEF SendAnswered
<1>4. /\ Sound(page', drafts, doubtful, written) /\ Remembered(page')
      /\ \A D : LetsGo(page, page', D)
  BY <1>2, <1>3, SendOverIsSound
<1> HIDE DEF over
<1>5. Sound(page', drafts', doubtful, written) /\ drafts' \in ServerRows
  BY <1>1, <1>3, <1>4, RowGoneIsSound
<1>6. d \in DraftRows /\ page.send \in SendRequests
  BY <1>1, <1>2 DEF Pages, SendRequests, Sent
<1>7. ComposerInvariant'
  <2>1. Fit(page', drafts', doubtful', written')
    BY <1>1, <1>2, <1>4, <1>5 DEF Fit
  <2>2. wanted' \in Ids /\ locked' \subseteq DraftRows
    BY <1>1, <1>2, <1>3, <1>6
  <2> QED
    BY <1>1, <1>2, <2>1, <2>2, Ends
<1>8. SendsApproved
  <2> SUFFICES ASSUME host = "inbox", <<drafts, locked>>' # <<drafts, locked>>,
                      ~page.send.rewritten
               PROVE  drafts[d] = page.send.shown
    BY DEF SendsApproved
  <2>1. Holds(d)
    BY <1>3
  <2>2. Reads(drafts, d, page.send.shown)
    BY <1>1, <1>2 DEF Sound, FromInbox, Backed
  <2> QED
    BY <1>6, <2>1, <2>2 DEF Reads, Holds
<1> QED
  BY <1>4, <1>7, <1>8

LEMMA DiscardAnsweredFits ==
  ASSUME ComposerInvariant, DiscardAnswered
  PROVE  ComposerInvariant' /\ LetsGo(page, page', drafts') /\ SendsApproved
<1> DEFINE d == page.discard.id
           q == [page EXCEPT !.discard = NoRequest]
           wrong == IF page.discard.live THEN Wrong(q) ELSE q
<1>1. /\ Sound(page, drafts, doubtful, written) /\ page \in Pages /\ wanted \in Ids /\ 0 \in Ids
      /\ drafts \in ServerRows /\ doubtful \subseteq 0..MaxMessages /\ written \in Nat
      /\ written \in 0..MaxMessages /\ locked \subseteq DraftRows /\ Remembered(page)
      /\ host \in {"inbox", "drafts"}
  BY Before, ComposerAssumption DEF Fit, Ids
<1>2. /\ page.discard # NoRequest /\ host' = host /\ wanted' \in {wanted, 0}
      /\ written' = written /\ doubtful' = doubtful /\ locked' = locked
  BY DEF DiscardAnswered
<1>3. /\ page' \in {wrong, IF page.discard.live THEN Drop(q, "discard") ELSE q}
      /\ \/ drafts' = [drafts EXCEPT ![d] = Gone]
         \/ drafts' = drafts
  BY DEF DiscardAnswered
<1>4. page.open <=> page.discard.live
  BY <1>1, <1>2 DEF Sound, ClosedShape, OpenShape
<1>5. q = [page EXCEPT !.discard = NoRequest]
  OBVIOUS
<1>6. wrong = IF page.open THEN Wrong(q) ELSE q
  BY <1>4
<1> HIDE DEF q, wrong
<1>7. /\ q \in Pages /\ q.discard = NoRequest /\ q.error = page.error
      /\ q.open = page.open /\ q.id = page.id /\ q.text = page.text /\ q.file = page.file
      /\ q.status = page.status /\ q.saved = page.saved /\ q.dirty = page.dirty
      /\ q.forced = page.forced /\ q.timer = page.timer /\ q.failed = page.failed
      /\ q.sending = page.sending /\ q.dialog = page.dialog /\ q.load = page.load
      /\ q.save = page.save /\ q.send = page.send /\ q.upload = page.upload
  BY <1>1, <1>5 DEF Pages
<1>8. ASSUME page' = q, ~page.open \/ page.saved
      PROVE  /\ Sound(page', drafts, doubtful, written) /\ Remembered(page')
             /\ page'.send = page.send /\ \A D : LetsGo(page, page', D)
  <2>1. Aside(page, q)
    BY <1>7 DEF Aside
  <2>2. Sound(q, drafts, doubtful, written)
    BY <1>1, <1>7, <2>1, AsideIsSound
  <2> QED
    BY <1>1, <1>7, <1>8, <2>2 DEF Remembered, LetsGo
<1>9. ASSUME page.open, page' = Wrong(q)
      PROVE  /\ Sound(page', drafts, doubtful, written) /\ Remembered(page')
             /\ page'.send = page.send /\ \A D : LetsGo(page, page', D)
  <2> DEFINE r == page'
  <2>3. /\ r \in Pages /\ r.error = ~q.saved
        /\ r.open = q.open /\ r.id = q.id /\ r.text = q.text /\ r.file = q.file
        /\ r.status = q.status /\ r.saved = q.saved /\ r.dirty = q.dirty
        /\ r.forced = q.forced /\ r.timer = q.timer /\ r.failed = q.failed
        /\ r.sending = q.sending /\ r.dialog = q.dialog /\ r.load = q.load
        /\ r.save = q.save /\ r.send = q.send /\ r.discard = q.discard /\ r.upload = q.upload
    BY <1>7, <1>9, ErrorFields, ZenonT(60)
  <2>4. Aside(page, r)
    BY <1>7, <2>3 DEF Aside
  <2>5. Sound(r, drafts, doubtful, written)
    BY <1>1, <2>3, <2>4, AsideIsSound
  <2>6. Remembered(r)
    BY <2>3, <1>7 DEF Remembered
  <2>7. \A D : Keeps(page, r, D)
    BY <1>7, <1>9, <2>3 DEF Keeps
  <2> QED
    BY <1>1, <1>7, <2>3, <2>5, <2>6, <2>7, KeepingLetsGo
<1>10. ASSUME page.open, page' = Drop(q, "discard")
       PROVE  /\ Sound(page', drafts, doubtful, written) /\ Remembered(page')
              /\ (Sent(page) => Sent(page')) /\ \A D : LetsGo(page, page', D)
  <2>1. Sound(Drop(page, "discard"), drafts, doubtful, written)
    BY <1>1, DropIsSound
  <2>2. /\ page' \in Pages /\ Aside(Drop(page, "discard"), page') /\ ~page'.open
        /\ page'.left = "discard" /\ page'.send = Orphan(page.send)
    BY <1>1, <1>7, <1>10, DroppedIsAside
  <2>3. Sound(page', drafts, doubtful, written)
    BY <1>1, <2>1, <2>2, AsideIsSound
  <2>4. page.send \in {NoRequest} \cup SendRequests
    BY <1>1 DEF Pages
  <2>5. Sent(page) => Sent(page')
    BY <2>2, <2>4, OrphanFields DEF Sent
  <2> QED
    BY <2>2, <2>3, <2>5 DEF Remembered, LetsGo
<1>11. /\ Sound(page', drafts, doubtful, written) /\ Remembered(page')
       /\ (Sent(page) => Sent(page')) /\ \A D : LetsGo(page, page', D)
  <2>1. CASE page.open
    BY <1>3, <1>4, <1>6, <1>9, <1>10, <2>1 DEF Sent
  <2>2. CASE ~page.open
    BY <1>3, <1>4, <1>6, <1>8, <2>2 DEF Sent
  <2> QED
    BY <2>1, <2>2
<1>12. Sound(page', drafts', doubtful, written) /\ drafts' \in ServerRows
  BY <1>1, <1>3, <1>11, RowGoneIsSound
<1>13. ComposerInvariant'
  <2>1. Fit(page', drafts', doubtful', written')
    BY <1>1, <1>2, <1>11, <1>12 DEF Fit
  <2>2. wanted' \in Ids /\ locked' \subseteq DraftRows
    BY <1>1, <1>2
  <2> QED
    BY <1>1, <1>2, <2>1, <2>2, Ends
<1> QED
  BY <1>11, <1>13 DEF SendsApproved, Sent

-----------------------------------------------------------------------------
(* The theorems.                                                           *)

\* The composer starts closed, beside drafts that nobody shows.
LEMMA InitIsSound ==
  ASSUME ComposerInit
  PROVE  ComposerInvariant
<1>1. /\ page = Closed /\ page \in Pages
      /\ ~page.open /\ page.id = 0 /\ page.text = Nothing /\ ~page.file
      /\ page.status = "draft" /\ ~page.saved /\ ~page.dirty /\ ~page.forced
      /\ ~page.timer /\ ~page.failed /\ ~page.sending
      /\ page.dialog = "none" /\ page.load = NoRequest /\ page.save = NoRequest
      /\ page.send = NoRequest /\ page.discard = NoRequest /\ page.upload = NoRequest
  BY ClosedFields DEF ComposerInit
<1>2. /\ host \in {"inbox", "drafts"} /\ wanted = 0 /\ locked = {} /\ doubtful = {}
      /\ written = IF host = "drafts" THEN Stored ELSE 0
      /\ drafts = [d \in DraftRows |-> IF d <= written THEN [of |-> d, v |-> 1] ELSE Unused]
  BY DEF ComposerInit
<1>3. /\ written \in 0..MaxMessages /\ wanted \in Ids
      /\ \A d \in DraftRows : d <= written => d \in 0..MaxMessages
  BY <1>2, ComposerAssumption DEF Ids, DraftRows
<1>4. drafts \in ServerRows
  <2>1. \A d \in DraftRows : d <= written => [of |-> d, v |-> 1] \in Contents
    BY <1>3, ComposerAssumption DEF Contents
  <2> QED
    BY <1>2, <2>1 DEF ServerRows
<1>5. host = "inbox" => \A d \in DraftRows : drafts[d] = Unused
  BY <1>2, ComposerAssumption DEF DraftRows
<1>6. ClosedShape(page) /\ OpenShape(page) /\ LoadShape(page) /\ SaveShape(page)
  BY <1>1 DEF ClosedShape, OpenShape, LoadShape, SaveShape, Loading, Saving, Sent
<1>7. ASSUME host = "inbox" PROVE FromInbox(page, drafts, doubtful, written)
  <2>1. Nothing.of = 0 /\ Nothing.v = 0 /\ Unused.of = 0
    BY DEF Nothing, Unused
  <2>2. InboxShape(page) /\ SendShape(page)
    BY <1>1, <2>1 DEF InboxShape, SendShape, Saving, Sent
  <2>3. Backed(page, drafts) /\ Single(page, drafts, doubtful)
    BY <1>1, <1>5, <1>7 DEF Backed, Single, Sent, Saving
  <2>4. Numbered(page, drafts, written)
    BY <1>1, <1>3, <1>5, <1>7, <2>1 DEF Numbered, Saving
  <2> QED
    BY <2>2, <2>3, <2>4 DEF FromInbox
<1>8. Remembered(page)
  BY <1>1 DEF Remembered
<1>9. Sound(page, drafts, doubtful, written)
  BY <1>1, <1>6, <1>7 DEF Sound
<1>10. ComposerTypeOK
  BY <1>1, <1>2, <1>3, <1>4 DEF ComposerTypeOK
<1> QED
  BY <1>8, <1>9, <1>10 DEF ComposerInvariant

\* No step leaves the invariant, and none lets go of what is written or sends anything
\* that was not approved.
LEMMA ComposerStep ==
  ASSUME ComposerInvariant, [ComposerNext]_composerVars
  PROVE  ComposerInvariant' /\ (ComposerNext => LetsGo(page, page', drafts') /\ SendsApproved)
<1>1. CASE ComposerNext
  <2>1. CASE OpenNew
    BY <2>1, OpenNewFits
  <2>2. CASE Loaded
    BY <2>2, LoadedFits
  <2>3. CASE LoadFails
    BY <2>3, LoadFailsFits
  <2>4. CASE Retry
    BY <2>4, RetryFits
  <2>5. CASE Close
    BY <2>5, CloseFits
  <2>6. CASE NewMessage
    BY <2>6, NewMessageFits
  <2>7. CASE Leave
    BY <2>7, LeaveFits
  <2>8. CASE TimerFires
    BY <2>8, TimerFiresFits
  <2>9. CASE SaveAnswered
    BY <2>9, SaveAnsweredFits
  <2>10. CASE SaveRefused
    BY <2>10, SaveRefusedFits
  <2>11. CASE PickFile
    BY <2>11, PickFileFits
  <2>12. CASE RemoveAttachment
    BY <2>12, RemoveAttachmentFits
  <2>13. CASE FileAnswered
    BY <2>13, FileAnsweredFits
  <2>14. CASE AskToSend
    BY <2>14, AskToSendFits
  <2>15. CASE AskToDiscard
    BY <2>15, AskToDiscardFits
  <2>16. CASE Cancel
    BY <2>16, CancelFits
  <2>17. CASE Confirm
    BY <2>17, ConfirmFits
  <2>18. CASE SendAnswered
    BY <2>18, SendAnsweredFits
  <2>19. CASE DiscardAnswered
    BY <2>19, DiscardAnsweredFits
  <2>20. CASE \E v \in Versions : Write(v)
    BY <2>20, WriteFits
  <2>21. CASE \E size \in Sizes[host] : Resize(size)
    BY <2>21, ResizeFits
  <2>22. CASE \E d \in DraftRows : OpenDraft(d) \/ DeleteFromList(d)
    BY <2>22, OpenDraftFits, DeleteFromListFits
  <2> QED
    BY <1>1, <2>1, <2>2, <2>3, <2>4, <2>5, <2>6, <2>7, <2>8, <2>9, <2>10, <2>11, <2>12,
       <2>13, <2>14, <2>15, <2>16, <2>17, <2>18, <2>19, <2>20, <2>21, <2>22 DEF ComposerNext
<1>2. CASE UNCHANGED composerVars
  <2>1. /\ host \in {"inbox", "drafts"} /\ wanted \in Ids /\ locked \subseteq DraftRows
        /\ Fit(page, drafts, doubtful, written)
    BY Before
  <2>2. /\ host' = host /\ wanted' = wanted /\ locked' = locked /\ page' = page
        /\ drafts' = drafts /\ doubtful' = doubtful /\ written' = written
    BY <1>2 DEF composerVars
  <2>3. ComposerInvariant'
    BY <2>1, <2>2, Ends
  <2>4. LetsGo(page, page', drafts')
    BY <2>1, <2>2 DEF LetsGo, Fit, Sound, FromInbox, InboxShape
  <2> QED
    BY <2>2, <2>3, <2>4 DEF SendsApproved
<1> QED
  BY <1>1, <1>2

\* The invariant of the composer: a page has the shape its requests leave it, and from
\* the inbox a save that is under way, what counts as saved and what is confirmed are
\* what the drafts of the server hold.
THEOREM ComposerInvariantHolds == ComposerSpec => []ComposerInvariant
<1>1. ComposerInit => ComposerInvariant
  BY InitIsSound
<1>2. ComposerInvariant /\ [ComposerNext]_composerVars => ComposerInvariant'
  BY ComposerStep
<1> QED
  BY <1>1, <1>2, PTL DEF ComposerSpec

\* What is written and not saved has a timer, a save under way or an error that is shown,
\* however saves, files, sends and windows cross.
THEOREM ComposerForgetsNothing == ComposerSpec => []NothingForgotten
<1>1. ComposerInvariant => NothingForgotten
  BY DEF ComposerInvariant, Remembered, NothingForgotten, Saving
<1> QED
  BY <1>1, ComposerInvariantHolds, PTL

\* Two drafts never hold one message of the inbox, unless the answer to its creation was
\* lost: whatever waits for a creation goes on with the draft that it created.
THEOREM ComposerKeepsOneDraft == ComposerSpec => []OneDraftPerMessage
<1>1. ComposerInvariant => OneDraftPerMessage
  <2> SUFFICES ASSUME ComposerInvariant, host = "inbox", NEW d \in DraftRows, NEW e \in DraftRows,
                      d # e, Holds(d), Holds(e), drafts[d].of = drafts[e].of
               PROVE  drafts[d].of \in doubtful \cup {0}
    BY DEF OneDraftPerMessage
  <2>1. Sole(drafts, d, drafts[d].of, doubtful)
    BY DEF ComposerInvariant, Sound, FromInbox, Single, Holds
  <2> QED
    BY <2>1 DEF Sole, Holds
<1> QED
  BY <1>1, ComposerInvariantHolds, PTL

\* A page that its button closes, or that is cleared for another message, has what it
\* showed in a draft of the server by then.
THEOREM ComposerClosesSaved == ComposerSpec => ClosedIsSaved
<1>1. ComposerInvariant /\ [ComposerNext]_composerVars =>
        [ /\ page.open /\ page.status = "draft" /\ page.text.v > 0 /\ ~page.saved
          /\ \/ ~page'.open /\ page'.left = "close"
             \/ host = "inbox" /\ page'.open /\ page'.text.of = 0
          => \E d \in DraftRows : drafts'[d] = page.text ]_composerVars
  BY ComposerStep DEF LetsGo
<1> QED
  BY <1>1, ComposerInvariantHolds, PTL DEF ClosedIsSaved, ComposerSpec

\* What the server takes out of the drafts or locks for a send is what was confirmed, as
\* long as nobody wrote on meanwhile.
THEOREM ComposerSendsApproved == ComposerSpec => SentIsApproved
<1>1. ComposerInvariant /\ [ComposerNext]_composerVars =>
        [ host = "inbox" /\ page.send # NoRequest /\ page'.send = NoRequest
          /\ <<drafts, locked>>' # <<drafts, locked>>
          => page.send.rewritten \/ drafts[page.send.id] = page.send.shown ]_composerVars
  BY ComposerStep DEF SendsApproved
<1> QED
  BY <1>1, ComposerInvariantHolds, PTL DEF SentIsApproved, ComposerSpec
=============================================================================
