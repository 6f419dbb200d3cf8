---------------------------- MODULE KeyRegistry ----------------------------
(* The relay's key directory: the handlers of POST, GET and DELETE /keys    *)
(* and of /admin/clear, over the Redis hash pandora:key:<handle> with its   *)
(* two fields.  A request runs in a goroutine of its own, so between any    *)
(* two Redis commands of one request every other request may run.  A Redis  *)
(* command is answered, or its answer is lost: go-redis, which New leaves   *)
(* with its default of three retries, sends it again or gives up with an    *)
(* error, whether or not the command took effect.                           *)
CONSTANTS
    Handle,     \* handles a device may ask for
    Key,        \* device public keys
    NoKey,      \* an empty public_key, an absent hash field
    Request     \* request goroutines of the relay

ASSUME NoKeyAssumption == NoKey \notin Key

VARIABLES
    publicKey,    \* hash field public_key of every handle
    fingerprint,  \* hash field fingerprint of every handle
    pc,           \* the command each request is about to issue
    arg,          \* the handle and key of each request
    response,     \* the HTTP response of each request
    owner,        \* history: the key last confirmed (201) for a handle and
                  \* not deleted since
    current,      \* history: no deletion of the handle since this request's
                  \* HSETNX won
    deleted       \* history: the handle was deleted at some time

vars == <<publicKey, fingerprint, pc, arg, response, owner, current, deleted>>

redis == <<publicKey, fingerprint>>
history == <<owner, current, deleted>>

Optional == Key \cup {NoKey}

Status == {"none", "created", "conflict", "unavailable", "badRequest",
           "found", "notFound", "deleted", "failed", "cleared"}

\* Mutated form: the digest is returned without its formatting.
ComputeUnformatted(k) == <<k>>

\* fingerprint.Compute: the first 8 hex digits of SHA-256 of the key.  Two
\* keys of the model have distinct fingerprints, so a fingerprint is
\* represented by the key it was computed from.
Compute(k) == k

Reply(s) == [status |-> s, publicKey |-> NoKey, fingerprint |-> NoKey]

Init ==
    /\ publicKey = [h \in Handle |-> NoKey]
    /\ fingerprint = [h \in Handle |-> NoKey]
    /\ pc = [r \in Request |-> "idle"]
    /\ arg \in [Request -> [handle : Handle, key : {NoKey}]]
    /\ response = [r \in Request |-> Reply("none")]
    /\ owner = [h \in Handle |-> NoKey]
    /\ current = [r \in Request |-> FALSE]
    /\ deleted = [h \in Handle |-> FALSE]

-----------------------------------------------------------------------------
(* Arrivals.  A finished request's goroutine is reused for the next one.    *)

Arrive(r, h, k, command) ==
    /\ pc[r] = "idle"
    /\ pc' = [pc EXCEPT ![r] = command]
    /\ arg' = [arg EXCEPT ![r] = [handle |-> h, key |-> k]]
    /\ response' = [response EXCEPT ![r] = Reply("none")]
    /\ UNCHANGED <<redis, history>>

PostKey(r, h, k) == k # NoKey /\ Arrive(r, h, k, "hsetnx")

PostEmptyKey(r) ==
    /\ pc[r] = "idle"
    /\ response' = [response EXCEPT ![r] = Reply("badRequest")]
    /\ UNCHANGED <<redis, history, pc, arg>>

GetKey(r, h) == Arrive(r, h, NoKey, "hgetall")

DeleteRequest(r, h) == Arrive(r, h, NoKey, "del")

ClearRequest(r) == Arrive(r, arg[r].handle, NoKey, "flushdb")

Answer(r, rep) ==
    /\ pc' = [pc EXCEPT ![r] = "idle"]
    /\ response' = [response EXCEPT ![r] = rep]

-----------------------------------------------------------------------------
(* Store.RegisterKey: HSETNX public_key, and when it won HSET fingerprint.  *)

HSetNXWins(r) ==
    LET h == arg[r].handle IN
    /\ publicKey[h] = NoKey
    /\ publicKey' = [publicKey EXCEPT ![h] = arg[r].key]
    /\ UNCHANGED fingerprint

\* Mutated form: a plain HSET in place of HSETNX.
HSetOverwrites(r) ==
    /\ publicKey' = [publicKey EXCEPT ![arg[r].handle] = arg[r].key]
    /\ UNCHANGED fingerprint

\* Mutated form: both fields written with the fingerprint field first tested.
HSetNXOnFingerprint(r) ==
    LET h == arg[r].handle IN
    /\ fingerprint[h] = NoKey
    /\ publicKey' = [publicKey EXCEPT ![h] = arg[r].key]
    /\ UNCHANGED fingerprint

HSetNX(r) == HSetNXWins(r)

RegisterWon(r) ==
    /\ pc[r] = "hsetnx"
    /\ HSetNX(r)
    /\ pc' = [pc EXCEPT ![r] = "hset"]
    /\ current' = [current EXCEPT ![r] = TRUE]
    /\ UNCHANGED <<arg, response, owner, deleted>>

RegisterTaken(r) ==
    /\ pc[r] = "hsetnx"
    /\ publicKey[arg[r].handle] # NoKey
    /\ Answer(r, Reply("conflict"))
    /\ UNCHANGED <<redis, arg, history>>

RegisterError(r) ==
    /\ pc[r] = "hsetnx"
    /\ Answer(r, Reply("unavailable"))
    /\ UNCHANGED <<redis, arg, history>>

WriteFingerprint(r) ==
    /\ fingerprint' = [fingerprint EXCEPT ![arg[r].handle] = Compute(arg[r].key)]
    /\ UNCHANGED publicKey

\* Mutated form: the second write of the registration is forgotten.
WriteNoFingerprint(r) == UNCHANGED redis

HSet(r) == WriteFingerprint(r)

\* The 201 answer.  The owner it names is remembered unless the handle was
\* deleted while the request ran.
RegisterDone(r) ==
    /\ pc[r] = "hset"
    /\ HSet(r)
    /\ Answer(r, [status |-> "created", publicKey |-> NoKey,
                  fingerprint |-> Compute(arg[r].key)])
    /\ owner' = IF current[r] THEN [owner EXCEPT ![arg[r].handle] = arg[r].key]
                ELSE owner
    /\ UNCHANGED <<arg, current, deleted>>

FingerprintError(r) ==
    /\ pc[r] = "hset"
    /\ Answer(r, Reply("unavailable"))
    /\ UNCHANGED <<redis, arg, history>>

-----------------------------------------------------------------------------
(* Store.LookupKey: one HGETALL, which sees both fields at once.            *)

Lookup(r) ==
    LET h == arg[r].handle IN
    /\ pc[r] = "hgetall"
    /\ Answer(r, IF publicKey[h] = NoKey /\ fingerprint[h] = NoKey
                 THEN Reply("notFound")
                 ELSE [status |-> "found", publicKey |-> publicKey[h],
                       fingerprint |-> fingerprint[h]])
    /\ UNCHANGED <<redis, arg, history>>

LookupError(r) ==
    /\ pc[r] = "hgetall"
    /\ Answer(r, Reply("unavailable"))
    /\ UNCHANGED <<redis, arg, history>>

-----------------------------------------------------------------------------
(* Store.DeleteKey and Store.FlushDB remove whole hashes at once.           *)

Erase(S) ==
    /\ publicKey' = [h \in Handle |-> IF h \in S THEN NoKey ELSE publicKey[h]]
    /\ fingerprint' = [h \in Handle |-> IF h \in S THEN NoKey ELSE fingerprint[h]]
    /\ owner' = [h \in Handle |-> IF h \in S THEN NoKey ELSE owner[h]]
    /\ current' = [r \in Request |-> current[r] /\ arg[r].handle \notin S]
    /\ deleted' = [h \in Handle |-> deleted[h] \/ h \in S]

Delete(r) ==
    /\ pc[r] = "del"
    /\ Erase({arg[r].handle})
    /\ Answer(r, Reply("deleted"))
    /\ UNCHANGED arg

DeleteError(r) ==
    /\ pc[r] = "del"
    /\ Answer(r, Reply("failed"))
    /\ UNCHANGED <<redis, arg, history>>

Clear(r) ==
    /\ pc[r] = "flushdb"
    /\ Erase(Handle)
    /\ Answer(r, Reply("cleared"))
    /\ UNCHANGED arg

ClearError(r) ==
    /\ pc[r] = "flushdb"
    /\ Answer(r, Reply("unavailable"))
    /\ UNCHANGED <<redis, arg, history>>

\* A command takes effect and its answer is lost.  The request still waits at
\* the command: the retry may find its own write, as a registration that loses
\* to itself does, or fail.
AnswerLost(r) ==
    /\ \/ pc[r] = "hsetnx" /\ HSetNX(r) /\ UNCHANGED history
       \/ pc[r] = "hset" /\ HSet(r) /\ UNCHANGED history
       \/ pc[r] = "del" /\ Erase({arg[r].handle})
       \/ pc[r] = "flushdb" /\ Erase(Handle)
    /\ UNCHANGED <<pc, arg, response>>

\* The relay process dies and is restarted (restart: unless-stopped): every
\* request in flight ends with no response, and the Redis data stay.
RelayRestart ==
    /\ \E r \in Request : pc[r] # "idle"
    /\ pc' = [r \in Request |-> "idle"]
    /\ UNCHANGED <<redis, arg, response, history>>

-----------------------------------------------------------------------------
Arrival(r) ==
    \/ \E h \in Handle, k \in Key : PostKey(r, h, k)
    \/ PostEmptyKey(r)
    \/ \E h \in Handle : GetKey(r, h) \/ DeleteRequest(r, h)
    \/ ClearRequest(r)

Command(r) ==
    \/ RegisterWon(r) \/ RegisterTaken(r) \/ RegisterError(r)
    \/ RegisterDone(r) \/ FingerprintError(r)
    \/ Lookup(r) \/ LookupError(r)
    \/ Delete(r) \/ DeleteError(r)
    \/ Clear(r) \/ ClearError(r)
    \/ AnswerLost(r)

Next == (\E r \in Request : Arrival(r) \/ Command(r)) \/ RelayRestart

Spec == Init /\ [][Next]_vars

-----------------------------------------------------------------------------
(* Properties.                                                              *)

Responses == [status : Status, publicKey : Optional, fingerprint : Optional]

\* Type invariant.
TypeOK ==
    /\ publicKey \in [Handle -> Optional]
    /\ fingerprint \in [Handle -> Optional]
    /\ pc \in [Request -> {"idle", "hsetnx", "hset", "hgetall", "del", "flushdb"}]
    /\ arg \in [Request -> [handle : Handle, key : Optional]]
    /\ response \in [Request -> Responses]
    /\ owner \in [Handle -> Optional]
    /\ current \in [Request -> BOOLEAN]
    /\ deleted \in [Handle -> BOOLEAN]

\* A registration confirmed with 201 stands: until somebody deletes the handle
\* (or clears the relay) its public_key is the confirmed one, whatever other
\* registrations, failures and restarts happen meanwhile.
OwnerStands ==
    \A h \in Handle : owner[h] # NoKey => publicKey[h] = owner[h]

\* Of two confirmed registrations of one handle with different keys, a
\* deletion must lie between: HSETNX lets only one racer through.
OneConfirmation ==
    \A r, s \in Request :
        /\ response[r].status = "created" /\ pc[r] = "idle"
        /\ response[s].status = "created" /\ pc[s] = "idle"
        /\ arg[r].handle = arg[s].handle
        /\ arg[r].key # arg[s].key
        => deleted[arg[r].handle]

\* A confirmed registration of a handle nobody ever deleted has its own
\* fingerprint in the record, although the two fields are written by two
\* commands and losing racers run in between.
ConfirmedRecord ==
    \A h \in Handle :
        owner[h] # NoKey /\ ~deleted[h] => fingerprint[h] = Compute(owner[h])

\* A lookup of a handle nobody ever deleted answers a public key, and with it
\* the fingerprint of that key or none yet, never that of another racer.
LookupNeverMixes ==
    \A r \in Request :
        response[r].status = "found" /\ ~deleted[arg[r].handle]
        => /\ response[r].publicKey # NoKey
           /\ response[r].fingerprint \in {NoKey, Compute(response[r].publicKey)}

\* The directory implements the abstract ledger: the public_key field is the
\* holder and the last unrevoked 201 the promise.
Ledger == INSTANCE KeyLedger WITH holder <- publicKey, promised <- owner

LedgerSpec == Ledger!Spec
=============================================================================
