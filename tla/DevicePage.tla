----------------------------- MODULE DevicePage ------------------------------
(***************************************************************************)
(* The access side of the device page and the keys page                    *)
(* (DeviceDetailPage.tsx, KeysPage.tsx, device-danger-zone.tsx) over the   *)
(* store they observe: cards are scanned at the device, and the page       *)
(* offers to let the last one in, by the key it has or by a new key with   *)
(* the name the user types.  Rows made here are in the store at once and   *)
(* reach the backend later, in order; a row it refuses stays at the head.  *)
(* That two admins make keys of one card, or one access, at the same time  *)
(* is left to KeySync.                                                     *)
(***************************************************************************)
EXTENDS Naturals, Sequences, FiniteSets, SequencesExt

CONSTANTS
    Cards, Names,
    Keys,        \* bound: the ids of the keys that are made
    None

PageAssumption == None \notin Cards \cup Names \cup Keys

VARIABLES
    card, label, \* uidHash and label of the keys of the store
    access,      \* how many keyAccess rows of the device the store holds for each key
    selected,    \* keys page: the keys whose list of devices has the device chosen (selectedDevice)
    outbox,      \* rows that are not posted yet
    lastScan,    \* newest scan of the device: the card, and the key the backend knew it by
    there,       \* whether the store holds the device
    page,        \* "device", or another page
    name,        \* newKeyName
    typedFor,    \* history: the card the page showed when the name was typed
    meant,       \* history: that card, for the keys made here
    deleting     \* the danger zone: "closed", "asking", or the id is "typed"

storeVars == <<card, label, access, outbox, lastScan, there>>
formVars == <<name, typedFor, deleting, selected>>
vars == <<storeVars, page, formVars, meant>>

NoScan == [card |-> None, key |-> None]
Row == {"key", "access"} \X Keys

TypeOK ==
    /\ card \in [Keys -> Cards \cup {None}]
    /\ label \in [Keys -> Names \cup {None}]
    /\ \A k \in Keys : card[k] # None => label[k] \in Names
    /\ access \in [Keys -> Nat] /\ outbox \in Seq(Row)
    /\ lastScan \in [card : Cards \cup {None}, key : Keys \cup {None}]
    /\ there \in BOOLEAN /\ page \in {"device", "other"}
    /\ name \in Names \cup {None} /\ typedFor \in Cards \cup {None}
    /\ meant \in [Keys -> Cards \cup {None}]
    /\ deleting \in {"closed", "asking", "typed"} /\ selected \in SUBSET Keys

Init ==
    /\ card = [k \in Keys |-> None] /\ label = [k \in Keys |-> None]
    /\ access = [k \in Keys |-> 0] /\ outbox = <<>>
    /\ lastScan = NoScan /\ there = TRUE
    /\ page = "device" /\ name = None /\ typedFor = None /\ deleting = "closed" /\ selected = {}
    /\ meant = [k \in Keys |-> None]

-----------------------------------------------------------------------------
(* What the page derives from the store *)

KeysOf(c) == {k \in Keys : card[k] = c}

\* device.keys: rows of keys that are gone count for nothing.
Allowed == {k \in Keys : access[k] > 0 /\ card[k] # None}

\* scannedKey, as a set of at most one
ScannedKey ==
    IF lastScan = NoScan THEN {}
    ELSE IF lastScan.key # None /\ card[lastScan.key] # None THEN {lastScan.key}
    ELSE LET found == KeysOf(lastScan.card) IN
         IF found = {} THEN {} ELSE {CHOOSE k \in found : TRUE}

\* Seeded fault: what the device allows is not looked at.
UnauthAlways == lastScan # NoScan

\* lastUnauth: the callout is shown.
LastUnauth == lastScan # NoScan /\ ScannedKey \cap Allowed = {}

Posted(row) == ~Contains(outbox, row)

\* The backend has an access row of the key: not all of the store's are still to be posted.
Granted(k) ==
    access[k] > 0 /\ access[k] # Cardinality({i \in DOMAIN outbox : outbox[i] = <<"access", k>>})

OnPage == page = "device" /\ there

-----------------------------------------------------------------------------
(* The callout *)

\* The field is there for a card that has no key.
TypeName ==
    /\ OnPage /\ LastUnauth /\ ScannedKey = {}
    /\ name' \in Names \cup {None}
    /\ typedFor' = lastScan.card
    /\ UNCHANGED <<storeVars, page, deleting, selected, meant>>

CanAdd == name # None /\ LastUnauth

HandleAddKey ==
    /\ OnPage /\ CanAdd /\ ScannedKey = {}
    /\ \E k \in Keys :
          /\ card[k] = None /\ label[k] = None
          /\ card' = [card EXCEPT ![k] = lastScan.card]
          /\ label' = [label EXCEPT ![k] = name]
          /\ access' = [access EXCEPT ![k] = @ + 1]
          /\ outbox' = outbox \o << <<"key", k>>, <<"access", k>> >>
          /\ meant' = [meant EXCEPT ![k] = typedFor]
    /\ name' = None /\ typedFor' = None
    /\ UNCHANGED <<lastScan, there, page, deleting, selected>>

Grants(k) ==
    /\ access' = [access EXCEPT ![k] = @ + 1]
    /\ outbox' = Append(outbox, <<"access", k>>)
    /\ UNCHANGED <<card, label, lastScan, there, page, name, typedFor, deleting, meant>>

HandleGrantKey ==
    /\ OnPage /\ LastUnauth
    /\ \E k \in ScannedKey : Grants(k)
    /\ UNCHANGED selected

-----------------------------------------------------------------------------
(* The lists of keys *)

\* A DELETE finds the row the backend has; its batch takes that row out of the store.
HandleRemoveKey(k) ==
    /\ OnPage /\ k \in Allowed /\ Granted(k)
    /\ access' = [access EXCEPT ![k] = @ - 1]
    /\ UNCHANGED <<card, label, outbox, lastScan, there, page, formVars, meant>>

\* KeysPage: candidateDevices leaves out the devices the key opens already.
SelectDevice(k) ==
    /\ page = "other" /\ there /\ card[k] # None /\ k \notin Allowed
    /\ selected' = selected \cup {k}
    /\ UNCHANGED <<storeVars, page, name, typedFor, deleting, meant>>

\* What was chosen stays chosen; the list is not looked at again.
AttachDevice(k) ==
    /\ page = "other" /\ k \in selected
    /\ Grants(k)
    /\ selected' = selected \ {k}

\* The key and its list of devices are gone from the page.
Removes(k) ==
    /\ card[k] # None /\ Posted(<<"key", k>>)
    /\ card' = [card EXCEPT ![k] = None]
    /\ selected' = selected \ {k}
    /\ UNCHANGED <<label, access, outbox, lastScan, there, page, name, typedFor, deleting, meant>>

DeleteKey(k) == page = "other" /\ Removes(k)

-----------------------------------------------------------------------------
(* The danger zone, and coming and going *)

\* Shown, cancelled, and the id typed
Confirms ==
    /\ OnPage
    /\ \/ deleting = "closed" /\ deleting' = "asking"
       \/ deleting # "closed" /\ deleting' \in {"closed", "asking", "typed"}
    /\ UNCHANGED <<storeVars, page, name, typedFor, selected, meant>>

Closes == name' = None /\ typedFor' = None /\ deleting' = "closed"

\* Whatever the backend answers, the list of devices follows.
HandleDelete ==
    /\ OnPage /\ deleting = "typed"
    /\ there' \in {TRUE, FALSE}
    /\ page' = "other" /\ Closes
    /\ UNCHANGED <<card, label, access, outbox, lastScan, selected, meant>>

\* The device is gone from the store, or the user goes elsewhere.
Leave ==
    /\ page = "device" /\ page' = "other" /\ Closes
    /\ UNCHANGED <<storeVars, selected, meant>>

Open ==
    /\ page = "other" /\ there /\ page' = "device"
    /\ selected' = {}
    /\ UNCHANGED <<storeVars, name, typedFor, deleting, meant>>

-----------------------------------------------------------------------------
(* What comes from the backend *)

\* The unique index refuses a second access row of a key (migrate.ts:46-50).
OutboxPosted ==
    /\ outbox # <<>> /\ outbox' = Tail(outbox)
    /\ ~\E k \in Keys : Head(outbox) = <<"access", k>> /\ Granted(k)
    /\ UNCHANGED <<card, label, access, lastScan, there, page, formVars, meant>>

\* A scan at the device, with the key the backend has of the card
ScanArrives(c) ==
    LET known == {k \in KeysOf(c) : Posted(<<"key", k>>)} IN
    /\ there
    /\ lastScan' = [card |-> c, key |-> IF known = {} THEN None ELSE CHOOSE k \in known : TRUE]
    /\ UNCHANGED <<card, label, access, outbox, there, page, formVars, meant>>

\* Another admin makes a key of a card that has none, deletes one, or gives or takes access.
OtherAdds(k, c) ==
    /\ card[k] = None /\ label[k] = None /\ KeysOf(c) = {}
    /\ card' = [card EXCEPT ![k] = c]
    /\ \E n \in Names : label' = [label EXCEPT ![k] = n]
    /\ UNCHANGED <<access, outbox, lastScan, there, page, formVars, meant>>

OtherDeletes(k) == Removes(k)

OtherGrants(k) ==
    /\ card[k] # None /\ Posted(<<"key", k>>) /\ access[k] = 0
    /\ access' = [access EXCEPT ![k] = 1]
    /\ UNCHANGED <<card, label, outbox, lastScan, there, page, formVars, meant>>

OtherRevokes(k) ==
    /\ Granted(k)
    /\ access' = [access EXCEPT ![k] = @ - 1]
    /\ UNCHANGED <<card, label, outbox, lastScan, there, page, formVars, meant>>

DeviceDeleted ==
    /\ there /\ there' = FALSE
    /\ UNCHANGED <<card, label, access, outbox, lastScan, page, formVars, meant>>

Next ==
    \/ TypeName \/ HandleAddKey \/ HandleGrantKey
    \/ \E k \in Keys :
          \/ HandleRemoveKey(k) \/ SelectDevice(k) \/ AttachDevice(k) \/ DeleteKey(k)
          \/ OtherDeletes(k) \/ OtherGrants(k) \/ OtherRevokes(k)
          \/ \E c \in Cards : OtherAdds(k, c)
    \/ \E c \in Cards : ScanArrives(c)
    \/ Confirms \/ HandleDelete \/ Leave \/ Open
    \/ OutboxPosted \/ DeviceDeleted

Spec == Init /\ [][Next]_vars

-----------------------------------------------------------------------------
(* Properties *)

\* The page makes no second key of a card, though the scan it shows was recorded before the
\* card got its key, or names a key that is deleted by now (DeviceDetailPage.tsx:44-49).
OneKeyPerCard == \A k, l \in Keys : card[k] # None /\ card[k] = card[l] => k = l

\* No callout or list that is stale makes a second access row of a key, but one of a device that was
\* chosen on the keys page before: that one is attached all the same, and the backend refuses the row
\* from then on (DeviceDetailPage.tsx:49-52, KeysPage.tsx:58).
SecondOnlyIfChosen ==
    [][\A k \in Keys : access'[k] > access[k] /\ access[k] > 0 => k \in selected]_vars

\* The callout stays until the card scanned last may open the device, and no longer
\* (DeviceDetailPage.tsx:44-49).
CalloutTrue == LastUnauth <=> lastScan # NoScan /\ lastScan.card \notin {card[k] : k \in Allowed}

\* Keys and grants made from scans, whatever is stale (DeviceDetailPage.tsx:44-76,
\* KeysPage.tsx:58-80)
AccessIsRight == [](OneKeyPerCard /\ CalloutTrue) /\ SecondOnlyIfChosen

\* The name typed for a card is given to that card: "the test names it and clicks **Grant
\* access**" (teststand/README.md:46-48).
NamedIsGranted == \A k \in Keys : meant[k] # None /\ card[k] # None => meant[k] = card[k]
=============================================================================
