----------------------------- MODULE WebSession -----------------------------
(* The pages of the web dashboard and the session file they share.  A page  *)
(* loads the contacts and conversations from the daemon, changes its own    *)
(* copy as messages are typed, received, removed and expire, and sends the  *)
(* whole copy back a while after a change; the daemon overwrites the file   *)
(* with whatever arrives.  Several pages may be open, an account may be     *)
(* deleted and another one made while they are, and the daemon may stop.    *)
EXTENDS Integers, Sequences, SequencesExt, Filter

CONSTANTS
    Tab,            \* browser tabs
    Key,            \* spellings of the peers' handles and of group names
    Fold,           \* each spelling in lower case
    Entered,        \* the spellings the user enters
    Used,           \* the spellings the peers use of themselves
    None,           \* no active conversation
    Id,             \* message ids; each is drawn once
    MaxAccount,     \* accounts made one after the other
    MaxOpen,        \* pages opened in all tabs together
    MaxSave         \* saves sent by all pages, restarts of the daemon and
                    \* failing reads and writes of the file, all together

ASSUME WebSessionAssumption ==
    /\ None \notin Key
    /\ DOMAIN Fold = Key
    /\ Entered \subseteq Key /\ Used \subseteq Key
    /\ MaxAccount \in Nat /\ MaxOpen \in Nat /\ MaxSave \in Nat

VARIABLES
    account,    \* whose identity the daemon's file holds; 0: nobody's
    made,       \* accounts made so far
    daemon,     \* the running daemon, that is, its session token
    file,       \* web_session.json
    page,       \* the page of each tab
    opened,     \* pages opened so far
    flight,     \* saves sent by the pages of each tab and not yet handled
    saves,      \* saves sent so far
    expired,    \* messages whose lifespan is over
    faults,     \* restarts, failed reads and writes so far
    origin,     \* history: the account each message was for; 0: not drawn yet
    straggler   \* history: when the account was made, a page or a save of an
                \* earlier one was still about

vars == <<account, made, daemon, file, page, opened, flight, saves, expired,
          faults, origin, straggler>>

SameHandle(j, k) == Fold[j] = Fold[k]

\* The spellings of one handle.
Spellings(k) == {j \in Key : SameHandle(j, k)}

-----------------------------------------------------------------------------
(* What a page shows and the file stores: contacts, the latest first, and   *)
(* the messages filed under each spelling.                                  *)

Empty == [contacts |-> <<>>, conv |-> [k \in Key |-> {}]]

Held(data) == UNION {data.conv[k] : k \in Key}

Fresh(data) == [data EXCEPT !.conv = [k \in Key |-> @[k] \ expired]]

\* Mutated form: a contact is looked for under the spelling at hand.
TouchExactly(data, k) ==
    [data EXCEPT !.contacts = <<k>> \o Keep(@, Key \ {k})]

\* touchContact: a contact known under any spelling keeps its own.
Touch(data, k) ==
    LET known == Keep(data.contacts, Spellings(k))
        others == Keep(data.contacts, Key \ Spellings(k))
    IN [data EXCEPT !.contacts =
            <<IF known = <<>> THEN k ELSE Head(known)>> \o others]

\* A message is filed under the spelling it came with.
Push(data, k, id) == Touch([data EXCEPT !.conv[k] = @ \cup {id}], k)

First(data) == IF data.contacts = <<>> THEN None ELSE Head(data.contacts)

\* renderActiveConversation drops what has expired there, and saves nothing.
Render(data, k) ==
    IF k = None \/ data.contacts = <<>> THEN data
    ELSE [data EXCEPT !.conv[k] = @ \ expired]

\* Mutated form: the conversation is not only emptied.
DiscardKey(data, k) ==
    [contacts |-> Keep(data.contacts, Key \ Spellings(k)),
     conv |-> [j \in Key \ {k} |-> data.conv[j]]]

\* removeCorrespondence: contacts by folded spelling, messages by exact one.
Discard(data, k) ==
    [contacts |-> Keep(data.contacts, Key \ Spellings(k)),
     conv |-> [data.conv EXCEPT ![k] = {}]]

\* An absent file and one that does not parse both read as an empty session.
Blank == [data |-> Empty, version |-> 0]

\* The version of a session that was not read from the file.
Unread == -1

Closed == [mode |-> "closed", data |-> Empty, active |-> None, due |-> FALSE,
           pruner |-> FALSE, token |-> 0, base |-> Unread, listens |-> 0,
           leaving |-> FALSE]

Init ==
    /\ account = 0 /\ made = 0 /\ daemon = 0
    /\ file = Blank
    /\ page = [t \in Tab |-> Closed]
    /\ opened = 0
    /\ flight = [t \in Tab |-> {}]
    /\ saves = 0
    /\ expired = {}
    /\ faults = 0
    /\ origin = [id \in Id |-> 0]
    /\ straggler = FALSE

Fault == saves + faults < MaxSave /\ faults' = faults + 1

\* securityFirewall lets only pages of the running daemon through.
Accepted(t) == page[t].token = daemon

Ready(t) == page[t].mode = "ready"

-----------------------------------------------------------------------------
(* Opening a page.                                                          *)

\* initApp up to the answer of /api/identity.
Open(t) ==
    /\ page[t].mode = "closed"
    /\ opened < MaxOpen
    /\ opened' = opened + 1
    /\ page' = [page EXCEPT ![t] =
                  [Closed EXCEPT !.mode = IF account = 0 THEN "overlay" ELSE "loading",
                                 !.pruner = account # 0,
                                 !.token = daemon]]
    /\ UNCHANGED <<account, made, daemon, file, flight, saves, expired, faults,
                   origin, straggler>>

\* Mutated form: the session of the account before stays.
InitializeOnly ==
    IF account # 0 THEN UNCHANGED <<account, made, file, straggler>>
    ELSE /\ made < MaxAccount
         /\ made' = made + 1
         /\ account' = made + 1
         /\ UNCHANGED file
         /\ straggler' = \E u \in Tab : \/ page[u].mode \in {"loading", "ready"}
                                        \/ flight[u] # {}

\* handleInit: a device without an identity gets one, and an empty session.
Initialize ==
    IF account # 0 THEN UNCHANGED <<account, made, file, straggler>>
    ELSE /\ made < MaxAccount
         /\ made' = made + 1
         /\ account' = made + 1
         /\ file' = Blank
         /\ straggler' = \E u \in Tab : \/ page[u].mode \in {"loading", "ready"}
                                        \/ flight[u] # {}

\* handleInitSubmit: the overlay's page goes on as initApp does, but for the
\* pruner.
SubmitInit(t) ==
    /\ page[t].mode = "overlay"
    /\ Accepted(t)
    /\ Initialize
    /\ page' = [page EXCEPT ![t].mode = "loading"]
    /\ UNCHANGED <<daemon, opened, flight, saves, expired, faults, origin>>

\* submitChangeHandle of a page that is open: the same request, then a save.
ChangeHandle(t) ==
    /\ Ready(t) /\ Accepted(t)
    /\ Initialize
    /\ page' = [page EXCEPT ![t].due = TRUE]
    /\ UNCHANGED <<daemon, opened, flight, saves, expired, faults, origin>>

\* The page shows `read` and connects its stream: handleStream loads the
\* identity once, for good.  A stream that is refused is not opened again.
Show(t, read) ==
    LET first == First(read.data) IN
    page' = [page EXCEPT ![t] =
              [@ EXCEPT !.mode = "ready",
                        !.active = first,
                        !.data = Render(read.data, first),
                        !.base = read.version,
                        !.listens = IF Accepted(t) THEN account ELSE 0]]

\* loadServerSession.
Load(t) ==
    /\ page[t].mode = "loading"
    /\ Accepted(t)
    /\ Show(t, file)
    /\ UNCHANGED <<account, made, daemon, file, opened, flight, saves,
                   expired, faults, origin, straggler>>

\* The daemon has been restarted meanwhile and refuses the page, or cannot read
\* the file and answers an empty session: the page goes on without one.
LoadFails(t) ==
    /\ page[t].mode = "loading"
    /\ IF Accepted(t) THEN Fault ELSE UNCHANGED faults
    /\ Show(t, [data |-> Empty, version |-> Unread])
    /\ UNCHANGED <<account, made, daemon, file, opened, flight, saves,
                   expired, origin, straggler>>

-----------------------------------------------------------------------------
(* What changes a page's copy of the session.                               *)

\* The page shows `data`, conversation `k` is the active one, and
\* syncServerSession starts the timer of a save anew.
Change(t, data, k) ==
    page' = [page EXCEPT ![t].data = data, ![t].active = k, ![t].due = TRUE]

Draw(id, a) ==
    /\ origin[id] = 0
    /\ origin' = [origin EXCEPT ![id] = a]

\* onmessage: an event of the stream, decrypted by the daemon, which gives
\* every event an id of its own.  The first message opens its conversation.
Receive(t, k, id) ==
    LET p == page[t]
        data == Push(p.data, k, id)
    IN
    /\ p.listens # 0
    /\ Draw(id, p.listens)
    /\ IF p.active = None THEN Change(t, Render(data, k), k)
                          ELSE Change(t, data, p.active)
    /\ UNCHANGED <<account, made, daemon, file, opened, flight, saves,
                   expired, faults, straggler>>

\* handleSendMessage and handleFileSelected: the message is kept whether or not
\* it can be delivered.  With no account it is one for the account that was.
TypeMessage(t, id) ==
    LET p == page[t] IN
    /\ Ready(t)
    /\ p.active # None
    /\ Draw(id, IF account = 0 THEN made ELSE account)
    /\ Change(t, Push(p.data, p.active, id), p.active)
    /\ UNCHANGED <<account, made, daemon, file, opened, flight, saves,
                   expired, faults, straggler>>

\* startNewPeerFromModal, submitJoinGroup, submitCreateGroupModal.
AddContact(t, k) ==
    /\ Ready(t)
    /\ Change(t, Render(Touch(page[t].data, k), k), k)
    /\ UNCHANGED <<account, made, daemon, file, opened, flight, saves,
                   expired, faults, origin, straggler>>

\* selectContact, from the sidebar.
SelectContact(t, k) ==
    /\ Ready(t)
    /\ k \in ToSet(page[t].data.contacts)
    /\ page' = [page EXCEPT ![t].active = k, ![t].data = Render(@, k)]
    /\ UNCHANGED <<account, made, daemon, file, opened, flight, saves,
                   expired, faults, origin, straggler>>

\* Mutated form: no save is due afterwards.
RemoveUnsaved(t) ==
    LET p == page[t]
        data == Discard(p.data, p.active)
        first == First(data)
    IN
    /\ Ready(t)
    /\ p.active # None
    /\ page' = [page EXCEPT ![t].data = Render(data, first), ![t].active = first]
    /\ UNCHANGED <<account, made, daemon, file, opened, flight, saves,
                   expired, faults, origin, straggler>>

\* removeCorrespondence of the active conversation.
RemoveCorrespondence(t) ==
    LET p == page[t]
        data == Discard(p.data, p.active)
        first == First(data)
    IN
    /\ Ready(t)
    /\ p.active # None
    /\ Change(t, Render(data, first), first)
    /\ UNCHANGED <<account, made, daemon, file, opened, flight, saves,
                   expired, faults, origin, straggler>>

Expire(id) ==
    /\ origin[id] # 0
    /\ id \notin expired
    /\ expired' = expired \cup {id}
    /\ UNCHANGED <<account, made, daemon, file, page, opened, flight, saves,
                   faults, origin, straggler>>

\* startExpirationPruner, every second.
Prune(t) ==
    /\ Ready(t)
    /\ page[t].pruner
    /\ Held(page[t].data) \cap expired # {}
    /\ Change(t, Fresh(page[t].data), page[t].active)
    /\ UNCHANGED <<account, made, daemon, file, opened, flight, saves,
                   expired, faults, origin, straggler>>

-----------------------------------------------------------------------------
(* Saving.                                                                  *)

\* The timer of syncServerSession: the page as it is now is on its way.
SendSave(t) ==
    LET p == page[t] IN
    /\ p.due
    /\ saves + faults < MaxSave
    /\ saves' = saves + 1
    /\ flight' = [flight EXCEPT ![t] = @ \cup
                    {[data |-> p.data, version |-> saves + 1, token |-> p.token]}]
    /\ page' = [page EXCEPT ![t].due = FALSE, ![t].base = saves + 1]
    /\ UNCHANGED <<account, made, daemon, file, opened, expired, faults,
                   origin, straggler>>

Landed(t, s) == flight' = [flight EXCEPT ![t] = @ \ {s}]

\* POST /api/conversations, SaveWebSession.  Requests of one page may overtake
\* each other; one of a page the firewall refuses is ignored.
SaveArrives(t, s) ==
    /\ Landed(t, s)
    /\ file' = IF s.token = daemon THEN [data |-> s.data, version |-> s.version]
               ELSE file
    /\ UNCHANGED <<account, made, daemon, page, opened, saves, expired,
                   faults, origin, straggler>>

\* The file cannot be opened, or not written after it was truncated.
SaveFails(t, s) ==
    /\ Fault
    /\ Landed(t, s)
    /\ file' \in {file, Blank}
    /\ UNCHANGED <<account, made, daemon, page, opened, saves, expired,
                   origin, straggler>>

-----------------------------------------------------------------------------
(* Deleting the account, closing pages, restarting the daemon.              *)

\* confirmDeleteAccount and handleDeleteAccount, unless the firewall refuses the
\* page.  The page goes on until it has the answer and is loaded again.
DeleteAccount(t) ==
    /\ Ready(t)
    /\ ~page[t].leaving
    /\ page' = [page EXCEPT ![t].leaving = TRUE]
    /\ IF Accepted(t) THEN account' = 0 /\ file' = Blank
                      ELSE UNCHANGED <<account, file>>
    /\ UNCHANGED <<made, daemon, opened, flight, saves, expired, faults,
                   origin, straggler>>

\* The tab is closed or, always after a deletion, loaded again.  A save that was
\* sent may still arrive.
Close(t) ==
    /\ page[t].mode # "closed"
    /\ page' = [page EXCEPT ![t] = Closed]
    /\ UNCHANGED <<account, made, daemon, file, opened, flight, saves,
                   expired, faults, origin, straggler>>

\* The daemon stops, perhaps while it writes the file, and another one starts
\* with a token of its own.  The streams that try to connect again are refused.
Restart ==
    /\ Fault
    /\ daemon' = daemon + 1
    /\ \/ UNCHANGED file
       \/ /\ \E t \in Tab : \E s \in flight[t] : s.token = daemon
          /\ file' = Blank
    /\ flight' = [t \in Tab |-> {}]
    /\ page' = [t \in Tab |-> [page[t] EXCEPT !.listens = 0]]
    /\ UNCHANGED <<account, made, opened, saves, expired, origin, straggler>>

-----------------------------------------------------------------------------
Next ==
    \/ \E t \in Tab :
          \/ Open(t) \/ SubmitInit(t) \/ ChangeHandle(t)
          \/ Load(t) \/ LoadFails(t)
          \/ \E k \in Used, id \in Id : Receive(t, k, id)
          \/ \E k \in Entered : AddContact(t, k)
          \/ \E k \in Key : SelectContact(t, k)
          \/ \E id \in Id : TypeMessage(t, id)
          \/ RemoveCorrespondence(t) \/ Prune(t)
          \/ SendSave(t)
          \/ \E s \in flight[t] : SaveArrives(t, s) \/ SaveFails(t, s)
          \/ DeleteAccount(t) \/ Close(t)
    \/ \E id \in Id : Expire(id)
    \/ Restart

Spec == Init /\ [][Next]_vars

-----------------------------------------------------------------------------
Session == [contacts : Seq(Key), conv : [Key -> SUBSET Id]]

Page == [mode : {"closed", "overlay", "loading", "ready"}, data : Session,
         active : Key \cup {None}, due : BOOLEAN, pruner : BOOLEAN,
         token : 0 .. MaxSave, base : Unread .. MaxSave,
         listens : 0 .. MaxAccount,
         leaving : BOOLEAN]

Stored == [data : Session, version : 0 .. MaxSave]

\* Type invariant.
TypeOK ==
    /\ account \in 0 .. made /\ made \in 0 .. MaxAccount
    /\ daemon \in 0 .. MaxSave
    /\ file \in Stored
    /\ page \in [Tab -> Page]
    /\ flight \in [Tab -> SUBSET [data : Session, version : 1 .. MaxSave,
                                  token : 0 .. MaxSave]]
    /\ opened \in 0 .. MaxOpen /\ saves \in 0 .. MaxSave
    /\ expired \subseteq Id
    /\ faults \in 0 .. MaxSave
    /\ origin \in [Id -> 0 .. MaxAccount]
    /\ straggler \in BOOLEAN

\* A page that waits for nothing has been saved: if the file is what it read or
\* the last save it sent, the two agree on the contacts and on every message
\* that has not expired.  Every change must start the timer, the timer must send
\* the page as it is then, and what is sent must arrive whole.
IdlePageIsSaved ==
    \A t \in Tab :
        Ready(t) /\ ~page[t].due /\ page[t].base = file.version
        => Fresh(page[t].data) = Fresh(file.data)

\* A new account starts with nothing of a deleted one, in the file and on the
\* pages, unless a page or a save of that one was about when it was made.
DeletedStaysOut ==
    account # 0 /\ ~straggler =>
        \A id \in Held(file.data) \cup UNION {Held(page[t].data) : t \in Tab} :
            origin[id] = account

\* No handle is in the contacts under two spellings, on a page or in the file.
ContactsDistinct ==
    \A data \in {file.data} \cup {page[t].data : t \in Tab} :
        \A i, j \in DOMAIN data.contacts :
            SameHandle(data.contacts[i], data.contacts[j]) => i = j

=============================================================================
