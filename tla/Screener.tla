------------------------------- MODULE Screener -------------------------------
(***************************************************************************)
(* The Screener and the blocked senders.  Whether a sender is blocked is   *)
(* kept twice: in the list of blocked senders, which refuses their mail,   *)
(* and on each message in the Screener, which shows it.  Every handler     *)
(* writes the two in one batch, but a message may be out of its reach:     *)
(* in the bin, in another box, or still being received.                    *)
(***************************************************************************)
EXTENDS Integers, FiniteSets

CONSTANTS
    Mails,          \* the messages
    Authors,        \* their senders
    AuthorOf,       \* the sender of a message
    Members,        \* the people of the workspace
    Admins          \* those of them who administer it

ASSUME ScreenerAssumption ==
    /\ AuthorOf \in [Mails -> Authors]
    /\ Admins \subseteq Members
    /\ "nobody" \notin Members \cup Authors

VARIABLES
    place,      \* of each message: "absent", "checked", "Screener" or "box"
    state,      \* what the Screener shows: "pending", "cleared" or "blocked"
    binned,     \* the messages in the bin
    blocker,    \* who blocked a sender, or "nobody"
    ruled,      \* the senders with a rule, whose mail does not stop here
    unblocking, \* whose right to unblock whom was checked
    missed      \* messages a block or its removal could not reach (history)

screenerVars == <<place, state, binned, blocker, ruled, unblocking, missed>>

Idle == [who |-> "nobody", author |-> "nobody"]
Blocked(s) == blocker[s] # "nobody"
By(s) == {m \in Mails : AuthorOf[m] = s}
Held == {m \in Mails : place[m] = "Screener"}
Marked(ms, value) == [m \in Mails |-> IF m \in ms THEN value ELSE state[m]]

ScreenerInit ==
    /\ place = [m \in Mails |-> "absent"]
    /\ state = [m \in Mails |-> "pending"]
    /\ binned = {} /\ ruled = {} /\ missed = {}
    /\ blocker = [s \in Authors |-> "nobody"]
    /\ unblocking = Idle

\* The mail of a blocked sender is refused before anything is stored.
Receive(m) ==
    /\ place[m] = "absent" /\ ~Blocked(AuthorOf[m])
    /\ place' = [place EXCEPT ![m] = "checked"]
    /\ UNCHANGED <<state, binned, blocker, ruled, unblocking, missed>>

\* It is stored as pending, though its sender may be blocked by now.
Keep(m) ==
    /\ place[m] = "checked"
    /\ place' = [place EXCEPT ![m] = IF AuthorOf[m] \in ruled THEN "box" ELSE "Screener"]
    /\ missed' = IF Blocked(AuthorOf[m]) THEN missed \cup {m} ELSE missed
    /\ UNCHANGED <<state, binned, blocker, ruled, unblocking>>

Stored(s) == {m \in By(s) : place[m] \in {"Screener", "box"}}

Block(u, s) ==
    LET reached == By(s) \cap (Held \ binned)
    IN  /\ Stored(s) # {}
        /\ blocker' = IF Blocked(s) THEN blocker ELSE [blocker EXCEPT ![s] = u]
        /\ state' = Marked(reached, "blocked")
        /\ missed' = (missed \ reached) \cup {m \in Stored(s) \ reached : state[m] # "blocked"}
        /\ UNCHANGED <<place, binned, ruled, unblocking>>

\* Who blocked a sender may unblock it; so may an administrator, and anybody
\* once there is nothing to remove.
MayUnblock(u, s) == blocker[s] \in {u, "nobody"} \/ u \in Admins

AskUnblock(u, s) ==
    /\ unblocking = Idle /\ Stored(s) # {} /\ MayUnblock(u, s)
    /\ unblocking' = [who |-> u, author |-> s]
    /\ UNCHANGED <<place, state, binned, blocker, ruled, missed>>

\* Mutant: the list forgets the sender and the messages keep their mark.
FreedInList(s, reached) ==
    /\ blocker' = [blocker EXCEPT ![s] = "nobody"]
    /\ missed' = missed
    /\ UNCHANGED state

Freed(s, reached) ==
    /\ blocker' = [blocker EXCEPT ![s] = "nobody"]
    /\ state' = Marked({m \in reached : state[m] = "blocked"}, "pending")
    /\ missed' = (missed \ reached) \cup {m \in By(s) \ reached : state[m] = "blocked"}

Unblock ==
    LET author == unblocking.author
    IN  /\ unblocking # Idle
        /\ Freed(author, By(author) \cap Held)
        /\ unblocking' = Idle
        /\ UNCHANGED <<place, binned, ruled>>

\* The page of the platform administrators leaves out the bin.
AdminUnblock(s) ==
    /\ Freed(s, By(s) \cap (Held \ binned))
    /\ UNCHANGED <<place, binned, ruled, unblocking>>

Clear ==
    /\ state' = Marked({m \in Held \ binned : state[m] = "pending"}, "cleared")
    /\ UNCHANGED <<place, binned, blocker, ruled, unblocking, missed>>

RestoreScreener(m) ==
    /\ m \in Held
    /\ state' = Marked({x \in By(AuthorOf[m]) \cap Held : state[x] = "cleared"}, "pending")
    /\ UNCHANGED <<place, binned, blocker, ruled, unblocking, missed>>

\* A pending message is filed or thrown away by itself.
FileOne(m) ==
    /\ m \in Held \ binned /\ state[m] = "pending"
    /\ place' = [place EXCEPT ![m] = "box"]
    /\ state' = Marked({m}, "cleared")
    /\ UNCHANGED <<binned, blocker, ruled, unblocking, missed>>

TrashPending(m) ==
    /\ m \in Held \ binned /\ state[m] = "pending"
    /\ binned' = binned \cup {m}
    /\ UNCHANGED <<place, state, blocker, ruled, unblocking, missed>>

RestoreTrash(m) ==
    /\ m \in binned
    /\ binned' = binned \ {m}
    /\ UNCHANGED <<place, state, blocker, ruled, unblocking, missed>>

\* A rule takes the mail of a sender out.  Undoing it puts each message back where the
\* change had found it, in the Screener or in a box, and those that came since where the
\* rule before sends them, if there was one; what is queued stays in its box.  The mark on
\* the messages is left as it is.
Classify(s) ==
    /\ Stored(s) # {}
    /\ place' = [m \in Mails |-> IF m \in Stored(s) \ binned THEN "box" ELSE place[m]]
    /\ ruled' = ruled \cup {s}
    /\ UNCHANGED <<state, binned, blocker, unblocking, missed>>

Unclassify(s) ==
    /\ s \in ruled
    /\ \E back \in SUBSET Stored(s) :
          place' = [m \in Mails |-> IF m \in back THEN "Screener"
                                    ELSE IF m \in Stored(s) THEN "box" ELSE place[m]]
    /\ ruled' \in {ruled, ruled \ {s}}
    /\ UNCHANGED <<state, binned, blocker, unblocking, missed>>

ScreenerNext ==
    \/ \E m \in Mails : Receive(m) \/ Keep(m) \/ RestoreScreener(m) \/ FileOne(m)
                          \/ TrashPending(m) \/ RestoreTrash(m)
    \/ \E s \in Authors : AdminUnblock(s) \/ Classify(s) \/ Unclassify(s)
    \/ \E u \in Members, s \in Authors : Block(u, s) \/ AskUnblock(u, s)
    \/ Unblock \/ Clear

ScreenerSpec == ScreenerInit /\ [][ScreenerNext]_screenerVars

\* What the Screener shows of a sender is what the list of blocked senders
\* says, except for a message the last block, or its removal, did not reach.
BlockIsShown ==
    \A m \in Held \ (binned \cup missed) : state[m] = "blocked" <=> Blocked(AuthorOf[m])
=============================================================================
