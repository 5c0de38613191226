------------------------------- MODULE MCPages -------------------------------
(***************************************************************************)
(* The pages, one scene each: the list of messages, with threads of one    *)
(* message each, and with one thread of which The Feed shows two editions; *)
(* the search; and what stands beside the messages.  The scene is chosen   *)
(* at the start and the other machines rest.                               *)
(***************************************************************************)
EXTENDS MailList, MailSearch, ThreadPanel, TLC

OwnThread == [m \in Messages |-> m]

\* The same list, where all messages are one thread.
Editions ==
    INSTANCE MailList WITH Threads <- {"both"}, ThreadOf <- [m \in Messages |-> "both"],
                           Boxes <- {"Imbox", "The Feed"}

VARIABLE scene

\* The machines that rest are in one state.
MCInit ==
    /\ scene \in {"list", "editions", "search", "panel"}
    /\ ListInit /\ SearchInit /\ PanelInit
    /\ scene # "search" => \A q \in Queries : found[q] = {}

ListScene ==
    /\ \/ scene = "list" /\ ListNext
       \/ scene = "editions" /\ Editions!ListNext
    /\ UNCHANGED <<scene, searchVars, panelVars>>

SearchScene == scene = "search" /\ SearchNext /\ UNCHANGED <<scene, listVars, panelVars>>

PanelScene ==
    scene = "panel" /\ PanelNext /\ UNCHANGED <<scene, listVars, searchVars>>

MCNext == ListScene \/ SearchScene \/ PanelScene

MCSpec == MCInit /\ [][MCNext]_<<scene, listVars, searchVars, panelVars>>

\* The conversations have the names of the messages.
Symmetry == Permutations(Messages)
=============================================================================
