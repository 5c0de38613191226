---------------------------- MODULE OutgoingSend ----------------------------
(***************************************************************************)
(* Drafts and their sending: messages written in the composer              *)
(* (server/api/outgoing-drafts/) and replies (server/api/messages/[id]/    *)
(* draft.put.ts and send.post.ts).                                         *)
(*                                                                         *)
(* Every send, upload and deletion is a request whose awaits interleave    *)
(* with the others.  One D1 statement or batch is atomic; a request may be *)
(* told that a statement failed although it committed.  The mail service   *)
(* either accepts a message, or refuses it with a definite error, or gives *)
(* no answer from which one could tell.                                    *)
(*                                                                         *)
(* A save replaces recipients, subject and text at once, so the contents   *)
(* of a draft are the number of the save they come from.                   *)
(***************************************************************************)
EXTENDS Naturals, FiniteSets

CONSTANTS
  Composed,   \* messages written in the composer
  Replies,    \* successive drafts of a reply to one message
  Senders,    \* requests to send a draft
  Uploads,    \* requests to attach a file; also the name of that file
  MaxSaves,   \* bound: how often a draft is saved
  NoDraft,    \* a request that has not found its draft
  Mime        \* the copy of the message itself, beside those of its files

Drafts == Composed \cup Replies

ASSUME DraftsAssumption ==
  /\ Composed \cap Replies = {}
  /\ NoDraft \notin Drafts
  /\ Mime \notin Uploads
  /\ MaxSaves \in Nat

VARIABLES
  status,     \* status[d]: of the row of d, or "none" before and "gone" after it
  version,    \* version[d]: the save that d holds
  attached,   \* attached[d]: rows of outgoing_draft_attachments
  objects,    \* files whose object is in R2
  uploading,  \* uploading[f]: the await of the upload of f
  target,     \* target[f]: the draft that f is uploaded to
  listed,     \* listed[d]: files a deletion of d has read and not yet used
  doomed,     \* files whose row was deleted and whose object is to follow
  pc,         \* pc[i]: the await of the send i, or how it ended
  job,        \* job[i]: the draft that i sends
  subject,    \* subject[i]: the save from which i took the subject
  body,       \* body[i]: the save from which i took the text
  files,      \* files[i]: the attachments that i read
  copied,     \* copied[i]: what i has copied to R2 under messages/
  mails,      \* what the mail service accepted
  messages,   \* rows of sent messages
  access      \* the user may use the sending mailbox

draftVars == <<status, version, attached>>
fileVars == <<objects, uploading, target, listed, doomed>>
sendVars == <<pc, job, subject, body, files, copied>>
vars == <<draftVars, fileVars, sendVars, mails, messages, access>>

SendEnds == {"refused", "uncertain", "sent", "unarchived", "thrown", "crashed"}
SendSteps == SendEnds \cup
  {"read", "claim", "reread", "list", "fetch", "reset", "submit", "copy", "archive"}
UploadSteps == {"requested", "put", "insert", "delete", "attached", "failed", "crashed"}

\* What one send transmits, or archives.
Mail(i) == [by |-> i, draft |-> job[i], subject |-> subject[i], body |-> body[i],
            files |-> files[i]]

Init ==
  /\ status = [d \in Drafts |-> "none"]
  /\ version = [d \in Drafts |-> 0]
  /\ attached = [d \in Drafts |-> {}]
  /\ objects = {}
  /\ uploading = [f \in Uploads |-> "requested"]
  /\ target = [f \in Uploads |-> NoDraft]
  /\ listed = [d \in Drafts |-> {}]
  /\ doomed = {}
  /\ pc = [i \in Senders |-> "read"]
  /\ job = [i \in Senders |-> NoDraft]
  /\ subject = [i \in Senders |-> 0]
  /\ body = [i \in Senders |-> 0]
  /\ files = [i \in Senders |-> {}]
  /\ copied = [i \in Senders |-> {}]
  /\ mails = {}
  /\ messages = {}
  /\ access = TRUE

-----------------------------------------------------------------------------
(***************************************************************************)
(* Writing a draft.                                                        *)
(***************************************************************************)

\* A message has one draft of a reply at a time: the next save after it is gone
\* inserts another.
ReplyIsFree == \A e \in Replies : status[e] \in {"none", "gone"}

\* Access is checked by a query of its own, before the insert.
Create(d) ==
  /\ status[d] = "none"
  /\ d \in Replies => ReplyIsFree
  /\ status' = [status EXCEPT ![d] = "draft"]
  /\ UNCHANGED <<version, attached, fileVars, sendVars, mails, messages, access>>

\* Only a draft that is not being sent can be saved.  The save of a reply has
\* checked access before its statement, that of a composed message within it.
Save(d) ==
  /\ access \/ d \in Replies
  /\ status[d] = "draft"
  /\ version[d] < MaxSaves
  /\ version' = [version EXCEPT ![d] = @ + 1]
  /\ UNCHANGED <<status, attached, fileVars, sendVars, mails, messages, access>>

-----------------------------------------------------------------------------
(***************************************************************************)
(* Attachments of composed messages.                                       *)
(***************************************************************************)
UploadTo(f, step) == uploading' = [uploading EXCEPT ![f] = step]

RequestUpload(f) ==
  /\ uploading[f] = "requested"
  /\ \E d \in Composed :
       /\ access /\ status[d] = "draft"
       /\ target' = [target EXCEPT ![f] = d]
       /\ UploadTo(f, "put")
  /\ UNCHANGED <<objects, listed, doomed, draftVars, sendVars, mails, messages, access>>

PutFile(f) ==
  /\ uploading[f] = "put"
  /\ \/ UploadTo(f, "insert") /\ objects' = objects \cup {f}
     \/ UploadTo(f, "failed") /\ UNCHANGED objects
  /\ UNCHANGED <<target, listed, doomed, draftVars, sendVars, mails, messages, access>>

\* The row is inserted if the draft is still one and accessible; when the insert
\* fails, or seems to, the object is deleted.
InsertFile(f) ==
  /\ uploading[f] = "insert"
  /\ \/ /\ access /\ status[target[f]] = "draft"
        /\ attached' = [attached EXCEPT ![target[f]] = @ \cup {f}]
        /\ UploadTo(f, "attached") \/ UploadTo(f, "delete")
     \/ UploadTo(f, "delete") /\ UNCHANGED attached
  /\ UNCHANGED <<status, version, objects, target, listed, doomed, sendVars, mails, messages,
                 access>>

WithdrawFile(f) ==
  /\ uploading[f] = "delete"
  /\ objects' \in {objects \ {f}, objects}
  /\ UploadTo(f, "failed")
  /\ UNCHANGED <<target, listed, doomed, draftVars, sendVars, mails, messages, access>>

\* The row goes first, while the draft is one; the object follows.
RemoveFile(d, f) ==
  /\ access
  /\ status[d] = "draft"
  /\ f \in attached[d]
  /\ attached' = [attached EXCEPT ![d] = @ \ {f}]
  /\ doomed' = doomed \cup {f}
  /\ UNCHANGED <<status, version, objects, uploading, target, listed, sendVars,
                 mails, messages, access>>

\* A deletion of the draft first lists the files it has.
ListFiles(d) ==
  /\ access
  /\ status[d] = "draft" /\ d \in Composed
  /\ listed' = [listed EXCEPT ![d] = attached[d]]
  /\ UNCHANGED <<objects, uploading, target, doomed, draftVars, sendVars, mails,
                 messages, access>>

\* The row of the draft is deleted, with those of its files, and the objects of
\* the files that were listed follow.
DeleteDraft(d) ==
  /\ access
  /\ status[d] = "draft" /\ d \in Composed
  /\ status' = [status EXCEPT ![d] = "gone"]
  /\ attached' = [attached EXCEPT ![d] = {}]
  /\ doomed' = doomed \cup listed[d]
  /\ listed' = [listed EXCEPT ![d] = {}]
  /\ UNCHANGED <<version, objects, uploading, target, sendVars, mails, messages, access>>

DeleteObject(f) ==
  /\ f \in doomed
  /\ doomed' = doomed \ {f}
  /\ objects' = objects \ {f}
  /\ UNCHANGED <<uploading, target, listed, draftVars, sendVars, mails, messages, access>>

-----------------------------------------------------------------------------
(***************************************************************************)
(* Sending.                                                                *)
(***************************************************************************)
Goto(i, step) == pc' = [pc EXCEPT ![i] = step]

\* The draft is read and validated; the composer's subject comes from this read.
ReadDraft(i) ==
  /\ pc[i] = "read"
  /\ \/ \E d \in Drafts :
          /\ access /\ status[d] = "draft"
          /\ job' = [job EXCEPT ![i] = d]
          /\ subject' = [subject EXCEPT ![i] = version[d]]
          /\ Goto(i, "claim")
     \/ Goto(i, "refused") /\ UNCHANGED <<job, subject>>
  /\ UNCHANGED <<body, files, copied, draftVars, fileVars, mails, messages, access>>

Claim(i) ==
  /\ pc[i] = "claim"
  /\ \/ /\ access /\ status[job[i]] = "draft"
        /\ status' = [status EXCEPT ![job[i]] = "sending"]
        /\ Goto(i, "reread") \/ Goto(i, "thrown")
     \/ /\ ~(access /\ status[job[i]] = "draft")
        /\ Goto(i, "refused")
        /\ UNCHANGED status
     \/ Goto(i, "thrown") /\ UNCHANGED status
  /\ UNCHANGED <<version, attached, job, subject, body, files, copied, fileVars, mails,
                 messages, access>>

\* The claimed draft is read again; a reply takes its subject from this read too.
Reread(i) ==
  /\ pc[i] = "reread"
  /\ \/ /\ access
        /\ body' = [body EXCEPT ![i] = version[job[i]]]
        /\ \/ /\ job[i] \in Composed
              /\ Goto(i, "list")
              /\ UNCHANGED subject
           \/ /\ job[i] \in Replies
              /\ subject' = [subject EXCEPT ![i] = version[job[i]]]
              /\ Goto(i, "submit") \/ Goto(i, "reset")
     \/ /\ Goto(i, IF access THEN "thrown" ELSE "refused")
        /\ UNCHANGED <<subject, body>>
  /\ UNCHANGED <<job, files, copied, draftVars, fileVars, mails, messages, access>>

\* Without access the query finds no attachment and the send goes on.
ListAttachments(i) ==
  /\ pc[i] = "list"
  /\ \/ /\ files' = [files EXCEPT ![i] = IF access THEN attached[job[i]] ELSE {}]
        /\ Goto(i, "fetch") \/ Goto(i, "reset")
     \/ Goto(i, "thrown") /\ UNCHANGED files
  /\ UNCHANGED <<job, subject, body, copied, draftVars, fileVars, mails, messages, access>>

\* Every file must be there and complete, and the message valid and small enough.
FetchFiles(i) ==
  /\ pc[i] = "fetch"
  /\ \/ files[i] \subseteq objects /\ Goto(i, "submit")
     \/ Goto(i, "reset")
     \/ Goto(i, "thrown")
  /\ UNCHANGED <<job, subject, body, files, copied, draftVars, fileVars, mails, messages,
                 access>>

\* The draft is opened again after a problem found before sending, or a refusal.
ResetDraft(i) ==
  /\ pc[i] = "reset"
  /\ \/ /\ status' = IF access /\ status[job[i]] = "sending"
                     THEN [status EXCEPT ![job[i]] = "draft"] ELSE status
        /\ Goto(i, "refused") \/ Goto(i, "thrown")
     \/ Goto(i, "thrown") /\ UNCHANGED status
  /\ UNCHANGED <<version, attached, job, subject, body, files, copied, fileVars, mails,
                 messages, access>>

\* Mutant: every error of the mail service reopens the draft.
SubmitAndReset(i) ==
  /\ pc[i] = "submit"
  /\ \/ mails' = mails \cup {Mail(i)} /\ (Goto(i, "copy") \/ Goto(i, "reset"))
     \/ Goto(i, "reset") /\ UNCHANGED mails
  /\ UNCHANGED <<job, subject, body, files, copied, draftVars, fileVars, messages, access>>

\* Only a definite refusal reopens the draft.
Submit(i) ==
  /\ pc[i] = "submit"
  /\ \/ mails' = mails \cup {Mail(i)} /\ (Goto(i, "copy") \/ Goto(i, "uncertain"))
     \/ UNCHANGED mails /\ (Goto(i, "reset") \/ Goto(i, "uncertain"))
  /\ UNCHANGED <<job, subject, body, files, copied, draftVars, fileVars, messages, access>>

\* Mutant: a copy that cannot be put is passed over.
CopyWhatOneCan(i) ==
  /\ pc[i] = "copy"
  /\ \E some \in SUBSET ({Mime} \cup files[i]) :
       copied' = [copied EXCEPT ![i] = some]
  /\ Goto(i, "archive")
  /\ UNCHANGED <<job, subject, body, files, draftVars, fileVars, mails, messages, access>>

\* Copies of the message and its files are put to R2 under the id of the new row.
CopyMail(i) ==
  /\ pc[i] = "copy"
  /\ \/ /\ copied' = [copied EXCEPT ![i] = {Mime} \cup files[i]]
        /\ Goto(i, "archive")
     \/ \E some \in SUBSET ({Mime} \cup files[i]) :
          /\ copied' = [copied EXCEPT ![i] = some]
          /\ Goto(i, "unarchived")
  /\ UNCHANGED <<job, subject, body, files, draftVars, fileVars, mails, messages, access>>

\* Mutant: the draft is deleted in a statement of its own, before the insert.
DeleteThenArchive(i) ==
  /\ pc[i] = "archive"
  /\ status' = [status EXCEPT ![job[i]] = "gone"]
  /\ attached' = [attached EXCEPT ![job[i]] = {}]
  /\ \/ messages' = messages \cup {[Mail(i) EXCEPT !.subject = body[i]]} /\ Goto(i, "sent")
     \/ UNCHANGED messages /\ Goto(i, "unarchived")
  /\ UNCHANGED <<version, job, subject, body, files, copied, fileVars, mails, access>>

\* One batch inserts the message, with the subject of the second read, and deletes
\* the draft if it is still accessible.
Archive(i) ==
  /\ pc[i] = "archive"
  /\ \/ /\ messages' = messages \cup {[Mail(i) EXCEPT !.subject = body[i]]}
        /\ IF access
           THEN /\ status' = [status EXCEPT ![job[i]] = "gone"]
                /\ attached' = [attached EXCEPT ![job[i]] = {}]
           ELSE UNCHANGED <<status, attached>>
        /\ Goto(i, "sent") \/ Goto(i, "unarchived")
     \/ Goto(i, "unarchived") /\ UNCHANGED <<messages, status, attached>>
  /\ UNCHANGED <<version, job, subject, body, files, copied, fileVars, mails, access>>

-----------------------------------------------------------------------------
(***************************************************************************)
(* What the requests do not control.                                       *)
(***************************************************************************)

\* The runtime evicts the Worker.
CrashSend(i) ==
  /\ pc[i] \notin SendEnds \cup {"read"}
  /\ Goto(i, "crashed")
  /\ UNCHANGED <<job, subject, body, files, copied, draftVars, fileVars, mails, messages,
                 access>>

CrashUpload(f) ==
  /\ uploading[f] \in {"put", "insert", "delete"}
  /\ UploadTo(f, "crashed")
  /\ UNCHANGED <<objects, target, listed, doomed, draftVars, sendVars, mails,
                 messages, access>>

\* An administrator withdraws the user's access to the mailbox, or suspends or
\* archives it, and may undo this later.
ChangeAccess ==
  /\ access' = ~access
  /\ UNCHANGED <<draftVars, fileVars, sendVars, mails, messages>>

ProceedSend(i) ==
  \/ ReadDraft(i) \/ Claim(i) \/ Reread(i) \/ ListAttachments(i) \/ FetchFiles(i)
  \/ ResetDraft(i) \/ Submit(i) \/ CopyMail(i) \/ Archive(i)

Next ==
  \/ \E d \in Drafts : Create(d) \/ Save(d) \/ ListFiles(d) \/ DeleteDraft(d)
  \/ \E d \in Drafts, f \in Uploads : RemoveFile(d, f)
  \/ \E f \in Uploads :
       \/ RequestUpload(f) \/ PutFile(f) \/ InsertFile(f) \/ WithdrawFile(f)
       \/ DeleteObject(f) \/ CrashUpload(f)
  \/ \E i \in Senders : ProceedSend(i) \/ CrashSend(i)
  \/ ChangeAccess

Spec == Init /\ [][Next]_vars

-----------------------------------------------------------------------------
(***************************************************************************)
(* Properties.                                                             *)
(***************************************************************************)
MailType ==
  [by : Senders, draft : Drafts, subject : Nat, body : Nat, files : SUBSET Uploads]

\* Every variable keeps its type.
TypeOK ==
  /\ status \in [Drafts -> {"none", "draft", "sending", "gone"}]
  /\ version \in [Drafts -> 0..MaxSaves]
  /\ attached \in [Drafts -> SUBSET Uploads]
  /\ objects \subseteq Uploads
  /\ uploading \in [Uploads -> UploadSteps]
  /\ target \in [Uploads -> Composed \cup {NoDraft}]
  /\ listed \in [Drafts -> SUBSET Uploads]
  /\ doomed \subseteq Uploads
  /\ pc \in [Senders -> SendSteps]
  /\ job \in [Senders -> Drafts \cup {NoDraft}]
  /\ subject \in [Senders -> 0..MaxSaves]
  /\ body \in [Senders -> 0..MaxSaves]
  /\ files \in [Senders -> SUBSET Uploads]
  /\ copied \in [Senders -> SUBSET (Uploads \cup {Mime})]
  /\ mails \subseteq MailType
  /\ messages \subseteq MailType
  /\ access \in BOOLEAN

\* The mail service never accepts a draft twice: a second request, a retry after
\* an uncertain answer, or a draft reopened by a refusal cannot send it again.
SentOnce ==
  \A m, n \in mails : m.draft = n.draft => m = n

\* docs/EMAIL-SENDING.md: when acceptance is uncertain, or archiving fails after it,
\* the draft stays locked, so an accepted mail is either archived or still shown.
AcceptedIsRecorded ==
  \A m \in mails :
    \/ status[m.draft] = "sending"
    \/ \E a \in messages : a.by = m.by

\* Every archived message is one the mail service accepted, with the same text and
\* files, and its copies are all in R2.
ArchiveIsFaithful ==
  \A a \in messages :
    /\ \E m \in mails : m.by = a.by /\ m.draft = a.draft /\ m.body = a.body /\ m.files = a.files
    /\ {Mime} \cup a.files \subseteq copied[a.by]

=============================================================================
