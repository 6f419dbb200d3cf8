---------------------------- MODULE SendRouting ----------------------------
(* The way of a message from the handle a sender types to the recipient's   *)
(* screen: the lookup of a contact, the resolution of the recipients' keys  *)
(* (web daemon, chat session, terminal shell server), the fan-out of the    *)
(* client library over the spellings of the handle, that of the relay over  *)
(* the spellings of each request, and the recipient's stream.  Every HTTP   *)
(* request is a step: it is answered, refused, or takes effect and its      *)
(* answer is lost.  What the Redis commands behind one request do is the    *)
(* subject of module Inbox, and is one step here; queued messages are read  *)
(* before their lifetime ends.                                              *)
EXTENDS HandleSpelling, FiniteSets, SequencesExt, Filter

CONSTANTS
    Device,     \* devices that register and receive
    Own,        \* the handle each device registers under
    Send,       \* send operations
    Jobs,       \* what a send operation may be asked to do
    MaxKeys     \* bound: keypairs a device generates one after the other

Surface == {"web", "chat", "shell"}

\* Nobody registers under the empty handle, for which the relay draws a random
\* one, nor, while a device holds its handle, anybody else under that.
ASSUME OwnAssumption ==
    /\ Own \in [Device -> Spelling \ {NoSpelling}]
    /\ \A d, e \in Device : Own[d] = Own[e] => d = e

\* Members are not blank, and one who is not in a group is alone.
ASSUME JobsAssumption ==
    /\ Jobs \subseteq [surface : Surface, sender : Spelling, group : BOOLEAN,
                       members : Seq(Spelling \ {NoSpelling})]
    /\ \A j \in Jobs : ~j.group => Len(j.members) = 1

VARIABLES
    registered,  \* the keypair of each device the directory holds, 0 if none
    keypair,     \* the keypair each device has now
    box,         \* sends queued under each device's handle
    stream,      \* the stream of each device: off, flushed or on
    shown,       \* sends decrypted and shown by each device
    pc,          \* what each send operation does next
    job,         \* its request: surface, sender, group or not, members
    at,          \* the member and the spelling it has come to
    contact,     \* the key the web page's lookup showed
    keys,        \* the keys resolved so far
    to,          \* the handles to post to
    stored,      \* an id was answered for the current member
    result,      \* what the surface reports
    clean,       \* history: no HTTP request of this operation failed
    steady       \* history: no member's registration changed since it began

directory == <<registered, keypair>>
delivery == <<box, stream, shown>>
locals == <<pc, at, contact, keys, to, stored, result>>
history == <<clean, steady>>
routeVars == <<directory, delivery, locals, job, history>>

NoKey == [device |-> "none", pair |-> 0]

KeyOf(d) == [device |-> d, pair |-> keypair[d]]

RouteInit ==
    /\ registered = [d \in Device |-> 0]
    /\ keypair = [d \in Device |-> 1]
    /\ box = [d \in Device |-> {}]
    /\ stream = [d \in Device |-> "off"]
    /\ shown = [d \in Device |-> {}]
    /\ pc = [s \in Send |-> "idle"]
    /\ job \in [Send -> Jobs]
    /\ at = [s \in Send |-> [member |-> 1, spelling |-> 1]]
    /\ contact = [s \in Send |-> NoKey]
    /\ keys = [s \in Send |-> {}]
    /\ to = [s \in Send |-> <<>>]
    /\ stored = [s \in Send |-> FALSE]
    /\ result = [s \in Send |-> "none"]
    /\ clean = [s \in Send |-> TRUE]
    /\ steady = [s \in Send |-> TRUE]

-----------------------------------------------------------------------------
(* The directory, and the recipients' streams.                              *)

\* The members a request is for.  The web daemon drops the sender's handle,
\* and what equals it but for letter case, from groups, the shell server too,
\* and the chat session from every recipient list.
Members(j) ==
    IF j.group \/ j.surface = "chat"
    THEN Keep(j.members, {m \in Range(j.members) : ~EqualFold(m, j.sender)})
    ELSE j.members

Moved(d) ==
    steady' = [s \in Send |->
                 steady[s] /\ (pc[s] = "idle" \/ Own[d] \notin Range(Members(job[s])))]

Register(d) ==
    /\ registered[d] = 0
    /\ registered' = [registered EXCEPT ![d] = keypair[d]]
    /\ Moved(d)
    /\ UNCHANGED <<keypair, delivery, locals, job, clean>>

\* An account is deleted; the next one under the handle has a new keypair.
DeleteKey(d) ==
    /\ registered[d] # 0 /\ keypair[d] < MaxKeys
    /\ registered' = [registered EXCEPT ![d] = 0]
    /\ keypair' = [keypair EXCEPT ![d] = @ + 1]
    /\ stream' = [stream EXCEPT ![d] = "off"]
    /\ Moved(d)
    /\ UNCHANGED <<box, shown, locals, job, clean>>

Readable(d, S) == {s \in S : KeyOf(d) \in keys[s]}

\* A stream begins: what is queued under the device's handle is returned and
\* cleared.  Only what the device can decrypt is shown.
StreamFlush(d) ==
    /\ registered[d] # 0 /\ stream[d] = "off"
    /\ shown' = [shown EXCEPT ![d] = @ \cup Readable(d, box[d])]
    /\ box' = [box EXCEPT ![d] = {}]
    /\ stream' = [stream EXCEPT ![d] = "flushed"]
    /\ UNCHANGED <<directory, locals, job, history>>

Subscribe(d) ==
    /\ stream[d] = "flushed"
    /\ stream' = [stream EXCEPT ![d] = "on"]
    /\ UNCHANGED <<directory, box, shown, locals, job, history>>

\* The stream breaks; the client opens another one.
StreamEnds(d) ==
    /\ stream[d] # "off"
    /\ stream' = [stream EXCEPT ![d] = "off"]
    /\ UNCHANGED <<directory, box, shown, locals, job, history>>

-----------------------------------------------------------------------------
(* Looking up and resolving handles.                                        *)

\* GET /keys/{handle} on spelling h answers one of these keys, or none.
Found(h) == {[device |-> d, pair |-> registered[d]] :
             d \in {e \in Device : Own[e] = h /\ registered[e] # 0}}

Begin(s) ==
    /\ pc[s] = "idle"
    /\ result[s] = "none"
    /\ pc' = [pc EXCEPT ![s] = IF job[s].surface = "web" /\ ~job[s].group
                               THEN "lookup" ELSE "resolve"]
    /\ UNCHANGED <<directory, delivery, at, contact, keys, to, stored, result,
                   job, history>>

Fail(s) ==
    /\ pc' = [pc EXCEPT ![s] = "idle"]
    /\ result' = [result EXCEPT ![s] = "failed"]

\* The request for a spelling fails, or does not; failed ones are noted.
Noted(s, ok) == clean' = [clean EXCEPT ![s] = @ /\ ok]

MoveTo(s, m, k) == at' = [at EXCEPT ![s] = [member |-> m, spelling |-> k]]

\* The web page looks its contact up: the first spelling that answers a key.
LookupHit(s) ==
    LET h == Candidates(job[s].members[1])[at[s].spelling] IN
    /\ pc[s] = "lookup"
    /\ \E k \in Found(h) : contact' = [contact EXCEPT ![s] = k]
    /\ pc' = [pc EXCEPT ![s] = "resolve"]
    /\ MoveTo(s, 1, 1)
    /\ UNCHANGED <<directory, delivery, keys, to, stored, result, job, history>>

LookupMiss(s) ==
    LET C == Candidates(job[s].members[1])
        k == NextFresh(C, at[s].spelling)
    IN  /\ pc[s] = "lookup"
        /\ \/ Found(C[at[s].spelling]) = {} /\ Noted(s, TRUE)
           \/ Noted(s, FALSE)
        /\ MoveTo(s, 1, k)
        /\ IF k > Len(C) THEN Fail(s) ELSE UNCHANGED <<pc, result>>
        /\ UNCHANGED <<directory, delivery, contact, keys, to, stored, job, steady>>

\* The spellings a surface resolves a member under: the web daemon and the
\* chat session ask for the typed one alone.
Asked(s) ==
    LET m == Members(job[s])[at[s].member] IN
    IF job[s].surface = "shell" THEN Candidates(m) ELSE <<m>>

\* The handle to post to.  The relay's answer to a key lookup names no
\* handle, and the shell server uses the handle of the answer.
PostsTo(s) ==
    IF job[s].surface = "shell" THEN NoSpelling ELSE Members(job[s])[at[s].member]

\* After the last member the message is encrypted for the keys found.
AfterMember(s, found) ==
    IF at[s].member < Len(Members(job[s]))
    THEN MoveTo(s, at[s].member + 1, 1) /\ UNCHANGED <<pc, result>>
    ELSE /\ MoveTo(s, 1, 1)
         /\ IF found = {} THEN Fail(s)
            ELSE pc' = [pc EXCEPT ![s] = "post"] /\ UNCHANGED result

NoRecipient(s) ==
    /\ pc[s] = "resolve"
    /\ Members(job[s]) = <<>>
    /\ Fail(s)
    /\ UNCHANGED <<directory, delivery, at, contact, keys, to, stored, job, history>>

ResolveHit(s) ==
    /\ pc[s] = "resolve"
    /\ Members(job[s]) # <<>>
    /\ \E k \in Found(Asked(s)[at[s].spelling]) :
         /\ keys' = [keys EXCEPT ![s] = @ \cup {k}]
         /\ to' = [to EXCEPT ![s] = Append(@, PostsTo(s))]
         /\ AfterMember(s, keys[s] \cup {k})
    /\ UNCHANGED <<directory, delivery, contact, stored, job, history>>

\* The web daemon and the chat session give up on a member they cannot
\* resolve; the shell server tries its spellings and then, in a group, goes
\* on without the member.
ResolveMiss(s) ==
    LET k == NextFresh(Asked(s), at[s].spelling) IN
    /\ pc[s] = "resolve"
    /\ Members(job[s]) # <<>>
    /\ \/ Found(Asked(s)[at[s].spelling]) = {} /\ Noted(s, TRUE)
       \/ Noted(s, FALSE)
    /\ IF k <= Len(Asked(s))
       THEN MoveTo(s, at[s].member, k) /\ UNCHANGED <<pc, result>>
       ELSE IF job[s].surface = "shell" /\ job[s].group
       THEN AfterMember(s, keys[s])
       ELSE Fail(s) /\ UNCHANGED at
    /\ UNCHANGED <<directory, delivery, contact, keys, to, stored, job, steady>>

-----------------------------------------------------------------------------
(* PostChatMessageWithOptions, for each member of a group in turn.          *)

\* Mutated form: the copy under the handle in capitals is forgotten.
FanNoUpper(h) == {h, ToLower(h), AddPV(ToUpper(TrimPV(h)))}

\* The spellings the relay queues and publishes one request under.
Fan(h) == ToSet(Variants(h))

\* UploadPaste for spelling h: a copy in the inbox of each device whose handle
\* is among the spellings, and an event to each stream that listens to one.
Upload(s, h) ==
    LET hears(d) == stream[d] = "on" /\ Fan(h) \cap ToSet(Variants(Own[d])) # {} IN
    /\ box' = [d \in Device |-> IF Own[d] \in Fan(h) THEN box[d] \cup {s} ELSE box[d]]
    /\ shown' = [d \in Device |-> IF hears(d) THEN shown[d] \cup Readable(d, {s})
                                  ELSE shown[d]]
    /\ UNCHANGED stream

\* The index of the next spelling of v after i to post to, or one past the end.
\* The client leaves out repetitions and the empty string.
NextRequest(v, i) ==
    LET fresh == {k \in (i + 1)..Len(v) :
                    v[k] # NoSpelling /\ \A j \in 1..(k - 1) : v[j] # v[k]}
    IN  CHOOSE k \in fresh \cup {Len(v) + 1} : \A l \in fresh : k <= l

\* The spelling of the request to send.
Due(s) ==
    LET v == Variants(to[s][at[s].member])
        k == at[s].spelling
    IN  IF v[k] = NoSpelling THEN NextRequest(v, k) ELSE k

\* A message is on its way to a member.  PostGroupChatMessageWithOptions
\* passes over an empty handle.
Posting(s) ==
    /\ pc[s] = "post"
    /\ ~(job[s].group /\ to[s][at[s].member] = NoSpelling)

\* Go on to the next spelling, the next member, or the end.
Posted(s, ok) ==
    LET k == NextRequest(Variants(to[s][at[s].member]), Due(s))
        more == k <= Len(Variants(to[s][at[s].member]))
        last == at[s].member = Len(to[s])
    IN  /\ stored' = [stored EXCEPT ![s] = more /\ ok]
        /\ CASE more -> MoveTo(s, at[s].member, k) /\ UNCHANGED <<pc, result>>
             [] ~more /\ ~ok -> Fail(s) /\ UNCHANGED at
             [] ~more /\ ok /\ ~last ->
                  MoveTo(s, at[s].member + 1, 1) /\ UNCHANGED <<pc, result>>
             [] OTHER -> /\ pc' = [pc EXCEPT ![s] = "idle"]
                         /\ result' = [result EXCEPT ![s] = "sent"]
                         /\ UNCHANGED at

PostStored(s) ==
    /\ Posting(s)
    /\ Upload(s, Variants(to[s][at[s].member])[Due(s)])
    /\ Posted(s, TRUE)
    /\ UNCHANGED <<directory, contact, keys, to, job, history>>

\* A request that fails is passed over, with or without effect on the relay.
PostFails(s) ==
    /\ Posting(s)
    /\ \/ Upload(s, Variants(to[s][at[s].member])[Due(s)])
       \/ UNCHANGED <<box, shown, stream>>
    /\ Posted(s, stored[s])
    /\ Noted(s, FALSE)
    /\ UNCHANGED <<directory, contact, keys, to, job, steady>>

\* A member of a group without a handle to post to is passed over.
PassOver(s) ==
    /\ pc[s] = "post"
    /\ job[s].group /\ to[s][at[s].member] = NoSpelling
    /\ IF at[s].member < Len(to[s])
       THEN MoveTo(s, at[s].member + 1, 1) /\ UNCHANGED <<pc, result>>
       ELSE /\ pc' = [pc EXCEPT ![s] = "idle"]
            /\ result' = [result EXCEPT ![s] = "sent"]
            /\ UNCHANGED at
    /\ UNCHANGED <<directory, delivery, contact, keys, to, stored, job, history>>

-----------------------------------------------------------------------------
Receiving(d) ==
    \/ Register(d) \/ DeleteKey(d)
    \/ StreamFlush(d) \/ Subscribe(d) \/ StreamEnds(d)

Sending(s) ==
    \/ Begin(s) \/ LookupHit(s) \/ LookupMiss(s)
    \/ NoRecipient(s) \/ ResolveHit(s) \/ ResolveMiss(s)
    \/ PostStored(s) \/ PostFails(s) \/ PassOver(s)

RouteNext == (\E d \in Device : Receiving(d)) \/ (\E s \in Send : Sending(s))

RouteSpec == RouteInit /\ [][RouteNext]_routeVars

-----------------------------------------------------------------------------
(* Properties.                                                              *)

\* The message of s is where d's device will find it or has found it.
Reached(s, d) == s \in box[d] \cup shown[d]

\* The devices a message was typed for and encrypted to, that still have the
\* keypair it was encrypted to.
Recipients(s) ==
    {d \in Device : Own[d] \in Range(Members(job[s])) /\ KeyOf(d) \in keys[s]}

\* A handle in capitals, with one prefix at most, is in the fan-out of each of
\* its spellings.
InEveryFan(h) == h = ToUpper(h) /\ Len(h.pre) <= 1

\* A message the web daemon or the chat session reports as sent is queued for,
\* or was shown by, every recipient, however streams break meanwhile: a
\* recipient with a handle in capitals whatever requests of the fan-out
\* failed, any other one if none did.
SentIsQueued ==
    \A s \in Send :
        result[s] = "sent" /\ job[s].surface # "shell"
        => \A d \in Recipients(s) :
               clean[s] \/ InEveryFan(Own[d]) => Reached(s, d)

\* The key the web page showed for a contact is the one its message is then
\* encrypted to, unless a request failed or the contact's registration changed
\* between the lookup and the sending.
VerifiedIsUsed ==
    \A s \in Send :
        contact[s] # NoKey /\ keys[s] # {} /\ clean[s] /\ steady[s]
        => keys[s] = {contact[s]}

\* What the shell server's endpoint claims: what it reports as sent is queued
\* for the recipients it was encrypted to.
ShellReaches ==
    \A s \in Send :
        result[s] = "sent" /\ job[s].surface = "shell" /\ clean[s]
        => \A d \in Recipients(s) : Reached(s, d)
=============================================================================
