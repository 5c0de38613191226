----------------------------- MODULE MCOutgoingSend -----------------------------
(***************************************************************************)
(* What goes out, one scene each: the handlers of the server, with two     *)
(* requests to send and an upload; the composer, with two messages from    *)
(* the inbox, where two operations wait for one save, or two drafts of the *)
(* list, with a window that leaves the list in reach; and the reply below  *)
(* a thread, where two messages can be answered.                           *)
(***************************************************************************)
EXTENDS OutgoingSend, OutgoingComposer, ReplyComposer, TLC

CONSTANTS c1, y1, s1, s2, u1

MCSizes == [inbox |-> {"full"}, drafts |-> {"full", "popup"}]
MCCallers == [inbox |-> 2, drafts |-> 1]

VARIABLE scene

\* The composer rests as it is opened from the inbox.
MCInit ==
    /\ scene \in {"handlers", "composer", "reply"} /\ Init /\ ComposerInit /\ ReplyInit
    /\ scene # "composer" => host = "inbox"

HandlersScene == scene = "handlers" /\ Next /\ UNCHANGED <<scene, composerVars, replyVars>>
ComposerScene == scene = "composer" /\ ComposerNext /\ UNCHANGED <<scene, vars, replyVars>>
ReplyScene == scene = "reply" /\ ReplyNext /\ UNCHANGED <<scene, vars, composerVars>>

MCNext == HandlersScene \/ ComposerScene \/ ReplyScene

MCSpec == MCInit /\ [][MCNext]_<<scene, vars, composerVars, replyVars>>

\* Requests of one kind are interchangeable, and so are the messages that can be answered,
\* which have the names of the requests to send.
Requests == Permutations(Senders) \cup Permutations(Uploads)
=============================================================================
