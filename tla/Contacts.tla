------------------------------ MODULE Contacts ------------------------------
(***************************************************************************)
(* The contacts of a workspace: the editor that saves a card               *)
(* (profile.put.ts) or makes a new one (index.post.ts), the import of the  *)
(* cards of a vCard file (contacts/index.vue and import.post.ts), and the  *)
(* photo of a contact (avatar.post.ts, avatar.delete.ts), whose object is  *)
(* kept in R2 and named by the row in D1.                                  *)
(*                                                                         *)
(* Each statement of D1, each batch and each access to R2 is a step.       *)
(* Names, companies, phones, postal addresses and notes are left out, and  *)
(* so is an import that goes on when its answer is lost.                   *)
(***************************************************************************)
EXTENDS Naturals, FiniteSets, SequencesExt

CONSTANTS
    Addresses,
    Accessible,     \* the addresses of the messages that the user may read
    Photos,
    NoPhoto,
    Files,          \* vCard files: sequences of cards with their addresses and photo
    Editors,        \* requests that save a card
    Photographers,  \* requests that set or remove a photo; ThePage is the import's own
    ThePage,
    MaxContacts,    \* bound: contacts the workspace ever has
    MaxPhotos       \* bound: photos ever stored

ASSUME ContactsAssumption ==
    /\ Accessible \subseteq Addresses
    /\ NoPhoto \notin Photos
    /\ ThePage \in Photographers
    /\ MaxContacts \in Nat /\ MaxPhotos \in Nat
    /\ Files \subseteq Seq([addresses : Seq(Addresses), photo : Photos \cup {NoPhoto}])

VARIABLES
    contacts,       \* the rows of contacts: each has its photo's key, and the card it came from
    rows,           \* contact_addresses
    objects,        \* the photos in R2: keys are numbers, `photos' says what was put
    photos,
    unsure,         \* keys set by an UPDATE whose answer was lost
    saving,         \* what each editor is doing
    taking,         \* what each photo request is doing
    page            \* the import panel and the import it has asked for

contactVars == <<contacts, rows, objects, photos, unsure, saving, taking, page>>

-----------------------------------------------------------------------------

NoKey == 0
Free == [step |-> "free"]
NoImport == [cards |-> <<>>, left |-> {}, checked |-> FALSE, used |-> {}, created |-> <<>>,
             photos |-> 0]

\* Cards that came from no file came from NoCard.
NoCard == [addresses |-> <<>>, photo |-> NoPhoto]

Row(a, c, first) == [address |-> a, contact |-> c, primary |-> first]
Held == {r.address : r \in rows}
HolderOf(a) == {r.contact : r \in {x \in rows : x.address = a}}
AddressesOf(c) == {r.address : r \in {x \in rows : x.contact = c}}

ContactsInit ==
    /\ contacts = <<[avatar |-> 1, from |-> NoCard]>>
    /\ \E a \in Addresses : rows = {Row(a, 1, TRUE)}
    /\ \E p \in Photos : photos = <<p>>
    /\ objects = {1}
    /\ unsure = {}
    /\ saving = [e \in Editors |-> Free]
    /\ taking = [u \in Photographers |-> Free]
    /\ page = [step |-> "idle", known |-> {}, preview |-> <<>>, chosen |-> {},
               import |-> NoImport, replaced |-> FALSE]

-----------------------------------------------------------------------------
\* Saving a card: profile.put.ts, and index.post.ts for one made by hand.

\* The editor shows the contact that holds the address it was opened with.
OpenEditor(e, source) ==
    /\ saving[e] = Free
    /\ \E primary \in Addresses, others \in SUBSET Addresses :
          /\ primary \notin others
          /\ saving' = [saving EXCEPT ![e] =
                [step |-> "sent", source |-> source, holder |-> HolderOf(source),
                 target |-> {}, primary |-> primary, others |-> others]]
    /\ UNCHANGED <<contacts, rows, objects, photos, unsure, taking, page>>

\* The contact of the source address; an editor that names another is refused.
LookUp(e) ==
    LET s == saving[e]
        bySource == HolderOf(s.source)
        refused == s.holder # {} /\ bySource # {} /\ bySource # s.holder
    IN  /\ s.step = "sent"
        /\ saving' = [saving EXCEPT ![e] =
              IF refused THEN Free
              ELSE [s EXCEPT !.step = "found",
                             !.target = IF s.holder # {} THEN s.holder ELSE bySource]]
        /\ UNCHANGED <<contacts, rows, objects, photos, unsure, taking, page>>

Wanted(s) == {s.primary} \cup s.others
TakenFrom(s) == \E r \in rows : r.address \in Wanted(s) /\ r.contact \notin s.target

\* The source must be the contact's still, a new one needs an accessible address,
\* and no address may be another's.
CheckCard(e) ==
    LET s == saving[e]
        refused == \/ s.holder # {} /\ s.source \notin UNION {AddressesOf(c) : c \in s.holder}
                   \/ s.target = {} /\ s.source \notin Accessible
                   \/ s.target = {} /\ Wanted(s) \cap Accessible = {}
                   \/ TakenFrom(s)
    IN  /\ s.step = "found"
        /\ saving' = [saving EXCEPT ![e] = IF refused THEN Free ELSE [s EXCEPT !.step = "checked"]]
        /\ UNCHANGED <<contacts, rows, objects, photos, unsure, taking, page>>

\* A contact made by hand: only the conflict is looked for.
CreateCard(e) ==
    /\ saving[e] = Free
    /\ \E primary \in Addresses, others \in SUBSET Addresses :
          /\ (primary \notin others) /\ ({primary} \cup others) \cap Held = {}
          /\ saving' = [saving EXCEPT ![e] =
                [step |-> "checked", source |-> primary, holder |-> {}, target |-> {},
                 primary |-> primary, others |-> others]]
    /\ UNCHANGED <<contacts, rows, objects, photos, unsure, taking, page>>

CardRows(addresses, first, c) == {Row(a, c, a = first) : a \in addresses}

\* Mutant: the statements are run one by one.
RunOneByOne(s, c) ==
    LET kept == {r \in rows : r.contact # c}
    IN  IF TakenFrom(s) THEN kept ELSE kept \cup CardRows(Wanted(s), s.primary, c)

\* What the statements of one save leave: all of them or none, for an address
\* has one row in the workspace.
SavedRows(s, c) ==
    LET kept == {r \in rows : r.contact # c}
    IN  IF TakenFrom(s) THEN rows ELSE kept \cup CardRows(Wanted(s), s.primary, c)

SaveCard(e) ==
    LET s == saving[e]
        new == Len(contacts) + 1
        c == IF s.target = {} THEN new ELSE CHOOSE x \in s.target : TRUE
    IN  /\ s.step = "checked"
        /\ s.target # {} \/ new <= MaxContacts
        /\ rows' = SavedRows(s, c)
        /\ contacts' = IF s.target = {} /\ ~TakenFrom(s)
                       THEN Append(contacts, [avatar |-> NoKey, from |-> NoCard]) ELSE contacts
        /\ saving' = [saving EXCEPT ![e] = Free]
        /\ UNCHANGED <<objects, photos, unsure, taking, page>>

-----------------------------------------------------------------------------
\* The photo of a contact.

PhotoRequest(step, c, photo, old, key) ==
    [step |-> step, of |-> c, photo |-> photo, old |-> old, key |-> key]

\* The photo named by the contact is read first, and freed last.
StartUpload(u, c, photo) ==
    /\ taking[u] = Free /\ c \in DOMAIN contacts
    /\ taking' = [taking EXCEPT ![u] = PhotoRequest("read", c, photo, contacts[c].avatar, NoKey)]

Upload(u, c, photo) ==
    /\ u # ThePage
    /\ StartUpload(u, c, photo)
    /\ UNCHANGED <<contacts, rows, objects, photos, unsure, saving, page>>

\* Mutant: the object of the last photo makes room for the new one at once.
PutInItsPlace(old, key) == (objects \ {old}) \cup {key}

Put(old, key) == objects \cup {key}

PutPhoto(u) ==
    LET t == taking[u]
        key == Len(photos) + 1
    IN  /\ t.step = "read" /\ t.photo # NoPhoto /\ key <= MaxPhotos
        /\ photos' = Append(photos, t.photo)
        /\ objects' = Put(t.old, key)
        /\ taking' = [taking EXCEPT ![u] = [t EXCEPT !.step = "put", !.key = key]]
        /\ UNCHANGED <<contacts, rows, unsure, saving, page>>

NamePhoto(u) ==
    LET t == taking[u]
    IN  /\ t.step = "put"
        /\ contacts' = [contacts EXCEPT ![t.of].avatar = t.key]
        /\ taking' = [taking EXCEPT ![u] = [t EXCEPT !.step = "named"]]
        /\ UNCHANGED <<rows, objects, photos, unsure, saving, page>>

\* The UPDATE throws, after it was done or without: the new object is deleted.
NamingFails(u) ==
    LET t == taking[u]
    IN  /\ t.step = "put"
        /\ \E done \in BOOLEAN :
              /\ contacts' = IF done THEN [contacts EXCEPT ![t.of].avatar = t.key] ELSE contacts
              /\ unsure' = IF done THEN unsure \cup {t.key} ELSE unsure
        /\ objects' = objects \ {t.key}
        /\ taking' = [taking EXCEPT ![u] = Free]
        /\ UNCHANGED <<rows, photos, saving, page>>

\* The object of the photo before it is deleted, or its deletion fails.
FreePhoto(u) ==
    LET t == taking[u]
    IN  /\ t.step = "named"
        /\ objects' \in {objects \ {t.old}, objects}
        /\ taking' = [taking EXCEPT ![u] = Free]
        /\ UNCHANGED <<contacts, rows, photos, unsure, saving, page>>

\* A contact without a photo has none to remove.
StartRemoval(u, c) ==
    /\ u # ThePage /\ taking[u] = Free
    /\ c \in DOMAIN contacts /\ contacts[c].avatar # NoKey
    /\ taking' = [taking EXCEPT ![u] = PhotoRequest("read", c, NoPhoto, contacts[c].avatar, NoKey)]
    /\ UNCHANGED <<contacts, rows, objects, photos, unsure, saving, page>>

RemovePhoto(u) ==
    LET t == taking[u]
    IN  /\ t.step = "read" /\ t.photo = NoPhoto
        /\ contacts' = [contacts EXCEPT ![t.of].avatar = NoKey]
        /\ taking' = [taking EXCEPT ![u] = [t EXCEPT !.step = "named"]]
        /\ UNCHANGED <<rows, objects, photos, unsure, saving, page>>

-----------------------------------------------------------------------------
\* The import of a vCard file.

AddressesIn(card) == ToSet(card.addresses)

\* The cards of a file that are a contact's already, as the page knows them, or
\* an earlier card's, cannot be chosen; the others are chosen at first.
Choosable(cards) ==
    {i \in DOMAIN cards :
        /\ cards[i].addresses # <<>>
        /\ AddressesIn(cards[i]) \cap page.known = {}
        /\ \A j \in 1..(i - 1) : AddressesIn(cards[i]) \cap AddressesIn(cards[j]) = {}}

LoadContacts ==
    /\ page.step = "idle"
    /\ page' = [page EXCEPT !.known = Held, !.preview = <<>>, !.chosen = {}]
    /\ UNCHANGED <<contacts, rows, objects, photos, unsure, saving, taking>>

CloseImport ==
    /\ page' = [page EXCEPT !.preview = <<>>, !.chosen = {}]
    /\ UNCHANGED <<contacts, rows, objects, photos, unsure, saving, taking>>

\* Nothing keeps a file from being read during an import.
ReadVcard(f) ==
    /\ page' = [page EXCEPT !.preview = f, !.chosen = Choosable(f),
                            !.replaced = @ \/ page.step # "idle"]
    /\ UNCHANGED <<contacts, rows, objects, photos, unsure, saving, taking>>

Toggle(i) ==
    /\ i \in Choosable(page.preview)
    /\ page' = [page EXCEPT !.chosen = IF i \in @ THEN @ \ {i} ELSE @ \cup {i}]
    /\ UNCHANGED <<contacts, rows, objects, photos, unsure, saving, taking>>

ImportSelected ==
    /\ page.step = "idle" /\ page.chosen # {}
    /\ page' = [page EXCEPT !.step = "importing", !.replaced = FALSE,
                            !.import = [NoImport EXCEPT !.cards = page.preview,
                                                        !.left = page.chosen]]
    /\ UNCHANGED <<contacts, rows, objects, photos, unsure, saving, taking>>

First(S) == {n \in S : \A m \in S : n <= m}

NextCard(i, n) == [i EXCEPT !.left = @ \ {n}, !.checked = FALSE,
                            !.used = @ \cup AddressesIn(i.cards[n])]

\* One card after the other: a conflict, with this import or with the contacts,
\* makes it a duplicate.
ImportCheck ==
    \E n \in First(page.import.left) :
        LET i == page.import
            conflict == AddressesIn(i.cards[n]) \cap (i.used \cup Held) # {}
        IN  /\ page.step = "importing" /\ ~i.checked
            /\ page' = [page EXCEPT !.import =
                  IF conflict THEN NextCard(i, n) ELSE [i EXCEPT !.checked = TRUE]]
            /\ UNCHANGED <<contacts, rows, objects, photos, unsure, saving, taking>>

\* The batch of the card; it fails when an address was taken since.
ImportCard ==
    \E n \in First(page.import.left) :
        LET i == page.import
            card == i.cards[n]
            c == Len(contacts) + 1
            fails == AddressesIn(card) \cap Held # {}
            first == Head(card.addresses)
        IN  /\ page.step = "importing" /\ i.checked
            /\ fails \/ c <= MaxContacts
            /\ contacts' = IF fails THEN contacts
                           ELSE Append(contacts, [avatar |-> NoKey, from |-> card])
            /\ rows' = IF fails THEN rows
                       ELSE rows \cup CardRows(AddressesIn(card), first, c)
            /\ page' = [page EXCEPT !.import =
                  [NextCard(i, n) EXCEPT
                      !.created = IF fails THEN @ ELSE Append(@, [id |-> c, primary |-> first])]]
            /\ UNCHANGED <<objects, photos, unsure, saving, taking>>

\* The answer comes, or is lost and shown as an error.
ImportAnswered ==
    /\ page.step = "importing" /\ page.import.left = {}
    /\ \E step \in {"photos", "idle"} :
          page' = [page EXCEPT !.step = step,
                     !.import = IF step = "idle" THEN NoImport ELSE [@ EXCEPT !.cards = <<>>]]
    /\ UNCHANGED <<contacts, rows, objects, photos, unsure, saving, taking>>

\* The photo of a contact that was made: the first card that is chosen now with
\* its primary address first.
PhotoFor(primary) ==
    LET with == {i \in page.chosen : Head(page.preview[i].addresses) = primary}
    IN  {page.preview[i].photo : i \in First(with)} \ {NoPhoto}

SendPhoto ==
    LET left == page.import.created
        photo == PhotoFor(Head(left).primary)
    IN  /\ page.step = "photos" /\ left # <<>> /\ taking[ThePage] = Free
        /\ \/ photo = {} /\ UNCHANGED taking
           \/ \E p \in photo : StartUpload(ThePage, Head(left).id, p)
        /\ page' = [page EXCEPT !.import.created = Tail(left), !.import.photos = @ + 1]
        /\ UNCHANGED <<contacts, rows, objects, photos, unsure, saving>>

\* The contacts are read again, and what was chosen is chosen no more.
ImportDone ==
    /\ page.step = "photos" /\ page.import.created = <<>> /\ taking[ThePage] = Free
    /\ page' = [page EXCEPT !.step = "idle", !.known = Held, !.import = NoImport,
                            !.chosen = IF page.import.photos > 0 THEN {} ELSE @]
    /\ UNCHANGED <<contacts, rows, objects, photos, unsure, saving, taking>>

-----------------------------------------------------------------------------

SavesCards(E) ==
    \E e \in E :
        \/ \E a \in Addresses : OpenEditor(e, a)
        \/ LookUp(e) \/ CheckCard(e) \/ CreateCard(e) \/ SaveCard(e)

TakesPhotos(U) ==
    \E u \in U :
        \/ \E c \in 1..MaxContacts : StartRemoval(u, c) \/ \E p \in Photos : Upload(u, c, p)
        \/ PutPhoto(u) \/ NamePhoto(u) \/ NamingFails(u) \/ FreePhoto(u) \/ RemovePhoto(u)

ImportsCards ==
    \/ LoadContacts \/ CloseImport \/ ImportSelected \/ ImportCheck \/ ImportCard
    \/ ImportAnswered \/ SendPhoto \/ ImportDone
    \/ \E f \in Files : ReadVcard(f)
    \/ \E i \in DOMAIN page.preview : Toggle(i)

ContactsNext == SavesCards(Editors) \/ TakesPhotos(Photographers) \/ ImportsCards

ContactsSpec == ContactsInit /\ [][ContactsNext]_contactVars

-----------------------------------------------------------------------------

\* However editors and imports cross, each contact has one primary address,
\* no address is two contacts', and none is left to a contact that is not there:
\* a save replaces the addresses in a batch (profile.put.ts:89-121).
CardIsWhole ==
    /\ \A c \in DOMAIN contacts : Cardinality({r \in rows : r.contact = c /\ r.primary}) = 1
    /\ \A r, s \in rows : r.address = s.address => r = s
    /\ \A r \in rows : r.contact \in DOMAIN contacts

\* The photo a contact names is in the store, whatever uploads and removals
\* cross or fail on the way, unless the answer to the UPDATE that named it was
\* lost and its object deleted for that (avatar.post.ts:36-39).
AvatarIsKept ==
    \A c \in DOMAIN contacts : contacts[c].avatar \in {NoKey} \cup objects \cup unsure
=============================================================================
