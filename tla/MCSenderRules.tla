---------------------------- MODULE MCSenderRules ----------------------------
(***************************************************************************)
(* What is kept of those who write, one scene each: the changes of the     *)
(* rule of one sender; and the contacts, as two editors, an import that an *)
(* editor crosses, and two photo requests for one contact.                 *)
(***************************************************************************)
EXTENDS SenderRules, Contacts, TLC

CONSTANTS m1, s1, c1, c2, c3, Feed, x, y, photoX, photoY, photoYX

OneSender == [m \in Messages |-> s1]
OneRule == [c \in Changes |-> s1]

\* Two cards with an address each, and a card that has both.
MCFiles ==
    {<<[addresses |-> <<x>>, photo |-> photoX], [addresses |-> <<y>>, photo |-> photoY]>>,
     <<[addresses |-> <<y, x>>, photo |-> photoYX]>>}

VARIABLE scene

\* The machine that rests is in one state.
MCInit ==
    /\ scene \in {"rules", "editors", "import", "photos"}
    /\ Init /\ ContactsInit
    /\ scene # "rules" => \A s \in Senders : rule[s].box = NoBox
    /\ scene \notin {"editors", "import"} => HolderOf(x) = {1}
    /\ photos = <<photoX>>

RulesScene == scene = "rules" /\ Next /\ UNCHANGED <<scene, contactVars>>

ContactsScene ==
    /\ UNCHANGED <<scene, vars>>
    /\ \/ scene = "editors" /\ SavesCards(Editors)
       \/ scene = "import" /\ SavesCards({CHOOSE e \in Editors : TRUE})
       \/ scene = "import" /\ (ImportsCards \/ TakesPhotos({ThePage}))
       \/ scene = "photos" /\ TakesPhotos(Photographers \ {ThePage})

MCNext == RulesScene \/ ContactsScene

MCSpec == MCInit /\ [][MCNext]_<<scene, vars, contactVars>>

\* Requests are interchangeable.
Requests == Permutations(Changes)
=============================================================================
