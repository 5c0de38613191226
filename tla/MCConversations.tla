---------------------------- MODULE MCConversations ----------------------------
(***************************************************************************)
(* The conversations of a mailbox in four scenes, its Screener, and the    *)
(* archives it is exported to and restored from: the scene is chosen at    *)
(* the start and the other machines rest.                                  *)
(***************************************************************************)
EXTENDS Conversations, Screener, ZipArchive, RestoreScript, TLC

CONSTANTS a, b, c, d, e, u, s, t, own, n1, n2

VARIABLE scene

(* --------------------- the bounds of the instance ---------------------- *)

MCRefs == (a :> {}) @@ (b :> {u}) @@ (c :> {a, b}) @@ (d :> {a}) @@ (e :> {a})
MCSenderOf == (a :> s) @@ (b :> s) @@ (c :> t) @@ (d :> own) @@ (e :> t)
MCAuthorOf == (a :> s) @@ (b :> s)
MCNames == <<a, b, c>>
MCRowsOf == (n1 :> {a, b}) @@ (n2 :> {a, c})
MCObjectsOf == (n1 :> {a, b}) @@ (n2 :> {a})

\* The entries of an archive are named in one order.
Ordered == \A i \in DOMAIN given : given[i].name = MCNames[i]

(* ------------------------------- scenes -------------------------------- *)

ConvScenes == {"arrivals", "replies", "regroup", "groups"}
Scenes == ConvScenes \cup {"screener", "archive", "restore"}

ConvStart ==
    /\ ConvInit
    /\ folder[a] = "Imbox" /\ folder[c] = "absent"
    /\ rule[own] = "none" /\ rule[t] = "none" /\ rule[s] # "Imbox"
    /\ scene = "arrivals" => folder[e] = "absent"
    /\ scene = "replies" => folder[b] = "absent"
    /\ scene \in {"regroup", "groups"} => /\ folder[b] = "Imbox" /\ rule[s] = "none"
                                          /\ folder[e] = "Imbox" <=> scene = "regroup"

\* A machine that rests is in one state.
ConvRests ==
    /\ ConvInit
    /\ \A m \in Messages : folder[m] = "absent"
    /\ \A x \in Senders : rule[x] = "none"

MCInit ==
    /\ scene \in Scenes
    /\ IF scene \in ConvScenes THEN ConvStart ELSE ConvRests
    /\ ScreenerInit /\ RestoreInit
    /\ ZipInit /\ (IF scene = "archive" THEN Ordered ELSE given = <<>>)

ConvStep ==
    /\ \/ scene = "arrivals" /\ ArrivalNext
       \/ scene = "replies" /\ ReplyNext
       \/ scene = "regroup" /\ RegroupNext
       \/ scene = "groups" /\ GroupMoveNext
    /\ UNCHANGED <<scene, screenerVars, zipVars, restoreVars>>

ScreenerStep == scene = "screener" /\ ScreenerNext /\ UNCHANGED <<scene, convVars, zipVars, restoreVars>>
ArchiveStep == scene = "archive" /\ ZipNext /\ UNCHANGED <<scene, convVars, screenerVars, restoreVars>>
RestoreStep == scene = "restore" /\ RestoreNext /\ UNCHANGED <<scene, convVars, screenerVars, zipVars>>

MCNext == ConvStep \/ ScreenerStep \/ ArchiveStep \/ RestoreStep

MCSpec == MCInit /\ [][MCNext]_<<convVars, screenerVars, zipVars, restoreVars, scene>>

\* A behaviour is followed until its first explained step.
NothingOdd == misplaced = {} /\ (scene \in {"regroup", "groups"} => odd = {})
=============================================================================
