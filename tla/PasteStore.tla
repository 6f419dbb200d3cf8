----------------------------- MODULE PasteStore -----------------------------
(* The relay's pastes: POST /paste up to its SETNX (what follows it, the    *)
(* recipient's inbox, is module Inbox), GET /paste/{id} and /admin/clear,   *)
(* over the Redis strings pandora:paste:<id> and their remaining TTL.       *)
(* Requests run concurrently.  A Redis command is answered, or its answer   *)
(* is lost and go-redis sends the command again or gives up with an error,  *)
(* whether or not it took effect.                                           *)
EXTENDS TTLPolicy

CONSTANTS
    Text,       \* uploaded ciphertexts
    NoText,     \* an empty ciphertext, an absent string
    Random,     \* the random part of an id
    Request,    \* request goroutines of the relay
    AskedTTL    \* the ttl_seconds uploads ask for

ASSUME PasteAssumption ==
    /\ NoText \notin Text
    /\ Random # {}
    /\ AskedTTL \subseteq Int \cup {NoTTL}

\* idgen.New: the first character says whether reading burns the paste.
Id == [burn : BOOLEAN, random : Random]

IsBurnAfterReading(i) == i.burn

VARIABLES
    stored,     \* the string under each id
    ttl,        \* its remaining time to live
    pc, arg,    \* the command each request is about to issue, its arguments
    response,   \* its HTTP response
    age,        \* history: how long the paste of each id has existed
    secret,     \* history: its uploader asked for burn-after-reading
    reads,      \* history: 200 answers to reads of a secret since its SET
    confirmed   \* history: the text a 201 confirmed for an id that neither
                \* expired nor was burned or cleared since

vars == <<stored, ttl, pc, arg, response, age, secret, reads, confirmed>>

redis == <<stored, ttl>>
history == <<age, secret, reads, confirmed>>

Status == {"none", "created", "badRequest", "failed", "unavailable",
           "ok", "notFound", "cleared"}

Reply(s) == [status |-> s, text |-> NoText]

NoArg == [id |-> CHOOSE i \in Id : TRUE, text |-> NoText, burn |-> FALSE,
          ttl |-> DefaultTTL]

\* Redis serves no key whose TTL has run out.
Alive(i) == stored[i] # NoText

Init ==
    /\ stored = [i \in Id |-> NoText]
    /\ ttl = [i \in Id |-> 0]
    /\ pc = [r \in Request |-> "idle"]
    /\ arg = [r \in Request |-> NoArg]
    /\ response = [r \in Request |-> Reply("none")]
    /\ age = [i \in Id |-> 0]
    /\ secret = [i \in Id |-> FALSE]
    /\ reads = [i \in Id |-> 0]
    /\ confirmed = [i \in Id |-> NoText]

Answer(r, rep) ==
    /\ pc' = [pc EXCEPT ![r] = "idle"]
    /\ arg' = [arg EXCEPT ![r] = NoArg]
    /\ response' = [response EXCEPT ![r] = rep]

Arrive(r, command, a) ==
    /\ pc[r] = "idle"
    /\ pc' = [pc EXCEPT ![r] = command]
    /\ arg' = [arg EXCEPT ![r] = a]
    /\ response' = [response EXCEPT ![r] = Reply("none")]
    /\ UNCHANGED <<redis, history>>

-----------------------------------------------------------------------------
(* POST /paste                                                              *)

\* Mutated form: the first character of the id ignores the request's flag.
NewIdAlwaysPersists(burn, n) == [burn |-> FALSE, random |-> n]

NewId(burn, n) == [burn |-> burn, random |-> n]

PostPaste(r, x, burn, asked, n) ==
    Arrive(r, "setnx", [id |-> NewId(burn, n), text |-> x, burn |-> burn,
                        ttl |-> Resolve(asked)])

\* The ciphertext is empty, not base64 or too long; or idgen fails.
RejectPaste(r) ==
    /\ pc[r] = "idle"
    /\ \E s \in {"badRequest", "failed"} : Answer(r, Reply(s))
    /\ UNCHANGED <<redis, history>>

Write(a) ==
    /\ stored' = [stored EXCEPT ![a.id] = a.text]
    /\ ttl' = [ttl EXCEPT ![a.id] = a.ttl]
    /\ age' = [age EXCEPT ![a.id] = 0]
    /\ secret' = [secret EXCEPT ![a.id] = a.burn]
    /\ reads' = [reads EXCEPT ![a.id] = 0]

\* Mutated form: SET without NX.
SetAlways(r) == Write(arg[r])

SetNX(r) == ~Alive(arg[r].id) /\ Write(arg[r])

\* History: the text of a 201 is remembered unless one is confirmed already.
Confirm(a) ==
    confirmed' = [confirmed EXCEPT ![a.id] = IF @ = NoText THEN a.text ELSE @]

PutPaste(r) ==
    /\ pc[r] = "setnx"
    /\ SetNX(r)
    /\ Confirm(arg[r])
    /\ Answer(r, Reply("created"))

PutCollision(r) ==
    /\ pc[r] = "setnx"
    /\ Alive(arg[r].id)
    /\ Answer(r, Reply("unavailable"))
    /\ UNCHANGED <<redis, history>>

PutError(r) ==
    /\ pc[r] = "setnx"
    /\ Answer(r, Reply("unavailable"))
    /\ UNCHANGED <<redis, history>>

-----------------------------------------------------------------------------
(* GET /paste/{id}: GETDEL for a burn id, GET for another.                  *)

FetchRequest(r, i) == Arrive(r, "get", [NoArg EXCEPT !.id = i])

Remove(S) ==
    /\ stored' = [i \in Id |-> IF i \in S THEN NoText ELSE stored[i]]
    /\ ttl' = [i \in Id |-> IF i \in S THEN 0 ELSE ttl[i]]
    /\ confirmed' = [i \in Id |-> IF i \in S THEN NoText ELSE confirmed[i]]

\* Mutated form: GET for every id, the deletion left to expiry.
GetOnly(i) == UNCHANGED <<redis, confirmed>>

Read(i) ==
    IF IsBurnAfterReading(i) THEN Remove({i}) ELSE UNCHANGED <<redis, confirmed>>

FetchFound(r) ==
    LET i == arg[r].id IN
    /\ pc[r] = "get"
    /\ Alive(i)
    /\ Read(i)
    /\ reads' = IF secret[i] THEN [reads EXCEPT ![i] = @ + 1] ELSE reads
    /\ Answer(r, [status |-> "ok", text |-> stored[i]])
    /\ UNCHANGED <<age, secret>>

FetchMissing(r) ==
    /\ pc[r] = "get"
    /\ ~Alive(arg[r].id)
    /\ Answer(r, Reply("notFound"))
    /\ UNCHANGED <<redis, history>>

FetchError(r) ==
    /\ pc[r] = "get"
    /\ Answer(r, Reply("unavailable"))
    /\ UNCHANGED <<redis, history>>

-----------------------------------------------------------------------------
ClearRequest(r) == Arrive(r, "flushdb", NoArg)

Clear(r) ==
    /\ pc[r] = "flushdb"
    /\ Remove(Id)
    /\ Answer(r, Reply("cleared"))
    /\ UNCHANGED <<age, secret, reads>>

ClearError(r) ==
    /\ pc[r] = "flushdb"
    /\ Answer(r, Reply("unavailable"))
    /\ UNCHANGED <<redis, history>>

\* A command takes effect and its answer is lost.  The request still waits at
\* the command: a retried upload collides with itself, and a retried GETDEL
\* misses the paste it burned.
AnswerLost(r) ==
    /\ \/ /\ pc[r] = "setnx"
          /\ SetNX(r)
          /\ UNCHANGED confirmed
       \/ /\ pc[r] = "get" /\ Alive(arg[r].id)
          /\ Read(arg[r].id)
          /\ UNCHANGED <<age, secret, reads>>
       \/ /\ pc[r] = "flushdb"
          /\ Remove(Id)
          /\ UNCHANGED <<age, secret, reads>>
    /\ UNCHANGED <<pc, arg, response>>

\* One second passes in Redis.
Tick ==
    /\ \E i \in Id : Alive(i)
    /\ LET last == {i \in Id : ttl[i] <= Second} IN
       /\ stored' = [i \in Id |-> IF i \in last THEN NoText ELSE stored[i]]
       /\ confirmed' = [i \in Id |-> IF i \in last THEN NoText ELSE confirmed[i]]
       /\ ttl' = [i \in Id |-> IF i \in last THEN 0 ELSE ttl[i] - Second]
       /\ age' = [i \in Id |-> IF i \in last THEN 0 ELSE age[i] + Second]
    /\ UNCHANGED <<pc, arg, response, secret, reads>>

\* The relay is killed and restarted: requests in flight get no response.
RelayRestart ==
    /\ \E r \in Request : pc[r] # "idle"
    /\ pc' = [r \in Request |-> "idle"]
    /\ arg' = [r \in Request |-> NoArg]
    /\ UNCHANGED <<redis, response, history>>

-----------------------------------------------------------------------------
Arrival(r) ==
    \/ \E x \in Text, burn \in BOOLEAN, asked \in AskedTTL, n \in Random :
          PostPaste(r, x, burn, asked, n)
    \/ RejectPaste(r)
    \/ \E i \in Id : FetchRequest(r, i)
    \/ ClearRequest(r)

Command(r) ==
    \/ PutPaste(r) \/ PutCollision(r) \/ PutError(r)
    \/ FetchFound(r) \/ FetchMissing(r) \/ FetchError(r)
    \/ Clear(r) \/ ClearError(r)
    \/ AnswerLost(r)

Next == (\E r \in Request : Arrival(r) \/ Command(r)) \/ Tick \/ RelayRestart

Spec == Init /\ [][Next]_vars

-----------------------------------------------------------------------------
(* Properties.                                                              *)

Args == [id : Id, text : Text \cup {NoText}, burn : BOOLEAN,
         ttl : 1 .. Half - 1]

\* Type invariant.
TypeOK ==
    /\ stored \in [Id -> Text \cup {NoText}]
    /\ ttl \in [Id -> 0 .. Half - 1]
    /\ pc \in [Request -> {"idle", "setnx", "get", "flushdb"}]
    /\ arg \in [Request -> Args]
    /\ response \in [Request -> [status : Status, text : Text \cup {NoText}]]
    /\ age \in [Id -> Nat]
    /\ secret \in [Id -> BOOLEAN]
    /\ reads \in [Id -> Nat]
    /\ confirmed \in [Id -> Text \cup {NoText}]

\* Whatever readers race for it, and whichever commands fail, the relay hands
\* a text uploaded with burn_after_reading to one reader at most.
BurnReadOnce == \A i \in Id : secret[i] => reads[i] <= 1

\* A confirmed upload stays readable until it expires, is burned by a read or
\* is cleared: no other upload takes its id over.
ConfirmedKept ==
    \A i \in Id : confirmed[i] # NoText => stored[i] = confirmed[i]

\* With an ordered policy, the life of a paste, past and to come, lies within
\* the policy's bounds, however often the paste is read.
LifetimeBounded ==
    MinTTL <= DefaultTTL /\ DefaultTTL <= MaxTTL
    => \A i \in Id : Alive(i) => age[i] + ttl[i] \in MinTTL .. MaxTTL

\* The store implements the abstract vault: readers hold what they were
\* answered, and a burn id's text is gone once handed out.
Vault == INSTANCE PasteVault WITH
    vault <- stored,
    out <- [r \in Request |-> response[r].text],
    Reader <- Request,
    BurnId <- {i \in Id : IsBurnAfterReading(i)}

VaultSpec == Vault!Spec
=============================================================================
