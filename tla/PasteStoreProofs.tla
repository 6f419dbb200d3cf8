-------------------------- MODULE PasteStoreProofs --------------------------
(* Proofs about the paste store, for any number of ids, texts and requests. *)
EXTENDS PasteStore, TLAPS

Ordered == MinTTL <= DefaultTTL /\ DefaultTTL <= MaxTTL

\* Whatever an upload asks for, even an amount that overflows, its lifetime
\* is a positive duration, and within the bounds when the policy is ordered.
LEMMA ResolveBounds ==
  ASSUME NEW q \in Int \cup {NoTTL}
  PROVE  /\ Resolve(q) \in 1 .. Half - 1
         /\ Ordered => Resolve(q) \in MinTTL .. MaxTTL
  <1>1. CASE q = NoTTL
    BY <1>1, TTLAssumption DEF Resolve, Ordered
  <1>2. CASE q # NoTTL
    <2>1. q * Second \in Int
      BY <1>2, TTLAssumption
    <2>2. ASSUME NEW n \in Int PROVE Wrap(n) \in Int
      BY TTLAssumption DEF Wrap
    <2>3. ASSUME NEW d \in Int
          PROVE  /\ Clamp(d) \in 1 .. Half - 1
                 /\ Ordered => Clamp(d) \in MinTTL .. MaxTTL
      BY TTLAssumption DEF Clamp, Ordered
    <2> HIDE DEF Ordered
    <2> QED BY <1>2, <2>1, <2>2, <2>3 DEF Resolve
  <1> QED BY <1>1, <1>2

LEMMA NoArgType ==
  /\ NoArg \in Args
  /\ \A i \in Id : [NoArg EXCEPT !.id = i] \in Args
  <1>1. PICK n \in Random : TRUE
    BY PasteAssumption
  <1>2. [burn |-> TRUE, random |-> n] \in Id
    BY DEF Id
  <1>3. (CHOOSE i \in Id : TRUE) \in Id
    BY <1>2
  <1> QED BY <1>3, TTLAssumption DEF NoArg, Args

-----------------------------------------------------------------------------
\* A string has a TTL exactly while it exists.
TTLMatches == \A i \in Id : stored[i] # NoText <=> ttl[i] > 0

\* A running request has no text to show yet.
NoTextYet == \A r \in Request : pc[r] # "idle" => response[r].text = NoText

\* What idgen put in the id and what the uploader asked for agree, from the
\* upload to the end of the paste.
SecretsBurn ==
    /\ \A r \in Request :
          pc[r] = "setnx" => /\ arg[r].burn = IsBurnAfterReading(arg[r].id)
                             /\ arg[r].text \in Text
                             /\ Ordered => arg[r].ttl \in MinTTL .. MaxTTL
    /\ \A i \in Id : secret[i] => IsBurnAfterReading(i)

\* A secret that is still stored was not handed out: the strengthening that
\* makes BurnReadOnce inductive.
UnreadWhileStored == \A i \in Id : secret[i] /\ Alive(i) => reads[i] = 0

IInv ==
    /\ TypeOK
    /\ TTLMatches
    /\ NoTextYet
    /\ SecretsBurn
    /\ UnreadWhileStored
    /\ BurnReadOnce
    /\ ConfirmedKept
    /\ LifetimeBounded

LEMMA InitIInv == Init => IInv
  <1> SUFFICES ASSUME Init PROVE IInv
    OBVIOUS
  <1>1. TypeOK
    BY NoArgType, TTLAssumption DEF Init, TypeOK, Reply, Status
  <1>2. TTLMatches /\ UnreadWhileStored /\ BurnReadOnce
    BY DEF Init, TTLMatches, UnreadWhileStored, BurnReadOnce, Alive
  <1>3. SecretsBurn /\ NoTextYet
    BY DEF Init, SecretsBurn, NoTextYet
  <1>4. ConfirmedKept /\ LifetimeBounded
    BY DEF Init, ConfirmedKept, LifetimeBounded, Alive
  <1> QED BY <1>1, <1>2, <1>3, <1>4 DEF IInv

\* The part of the invariant that speaks of requests, and the part that
\* speaks of Redis and the histories: a step changes them separately.
RequestType ==
    /\ pc \in [Request -> {"idle", "setnx", "get", "flushdb"}]
    /\ arg \in [Request -> Args]
    /\ response \in [Request -> [status : Status, text : Text \cup {NoText}]]

RequestInv ==
    /\ NoTextYet
    /\ \A r \in Request :
        pc[r] = "setnx" => /\ arg[r].burn = IsBurnAfterReading(arg[r].id)
                           /\ arg[r].text \in Text
                           /\ Ordered => arg[r].ttl \in MinTTL .. MaxTTL

StoreInv ==
    /\ stored \in [Id -> Text \cup {NoText}]
    /\ ttl \in [Id -> 0 .. Half - 1]
    /\ age \in [Id -> Nat]
    /\ secret \in [Id -> BOOLEAN]
    /\ reads \in [Id -> Nat]
    /\ confirmed \in [Id -> Text \cup {NoText}]
    /\ TTLMatches
    /\ \A i \in Id : secret[i] => IsBurnAfterReading(i)
    /\ UnreadWhileStored
    /\ BurnReadOnce
    /\ ConfirmedKept
    /\ LifetimeBounded

LEMMA Split == IInv <=> RequestType /\ RequestInv /\ StoreInv
  BY DEF IInv, TypeOK, RequestType, RequestInv, StoreInv, SecretsBurn

LEMMA StoreUnchanged == StoreInv /\ UNCHANGED <<redis, history>> => StoreInv'
  BY DEF StoreInv, redis, history, TTLMatches, UnreadWhileStored, BurnReadOnce,
         ConfirmedKept, LifetimeBounded, Alive

LEMMA AnswerRequests ==
  ASSUME RequestType, RequestInv, NEW r \in Request,
         NEW rep \in [status : Status, text : Text \cup {NoText}], Answer(r, rep)
  PROVE  (RequestType /\ RequestInv)'
  BY NoArgType DEF RequestType, RequestInv, NoTextYet, Answer

LEMMA ArriveRequests ==
  ASSUME RequestType, RequestInv, NEW r \in Request, NEW a \in Args,
         NEW c \in {"setnx", "get", "flushdb"}, Arrive(r, c, a),
         c = "setnx" => /\ a.burn = IsBurnAfterReading(a.id)
                        /\ a.text \in Text
                        /\ Ordered => a.ttl \in MinTTL .. MaxTTL
  PROVE  (RequestType /\ RequestInv)'
  BY DEF RequestType, RequestInv, NoTextYet, Arrive, Reply, Status

\* DEL, GETDEL, FLUSHDB: the removed ids keep what was read of them.
LEMMA RemoveStore ==
  ASSUME StoreInv, NEW S \in SUBSET Id, Remove(S), UNCHANGED <<age, secret, reads>>
  PROVE  StoreInv'
  <1> USE DEF StoreInv, Remove
  <1>1. (/\ stored \in [Id -> Text \cup {NoText}]
         /\ ttl \in [Id -> 0 .. Half - 1]
         /\ confirmed \in [Id -> Text \cup {NoText}])'
    BY TTLAssumption
  <1>2. (TTLMatches /\ ConfirmedKept)'
    BY DEF TTLMatches, ConfirmedKept
  <1>3. (UnreadWhileStored /\ BurnReadOnce /\ LifetimeBounded)'
    BY DEF UnreadWhileStored, BurnReadOnce, LifetimeBounded, Alive
  <1> QED BY <1>1, <1>2, <1>3

\* SETNX, with or without the confirmation that follows it.
LEMMA SetNXStore ==
  ASSUME StoreInv, RequestType, RequestInv, NEW r \in Request, pc[r] = "setnx",
         SetNX(r), Confirm(arg[r]) \/ UNCHANGED confirmed
  PROVE  StoreInv'
  <1> DEFINE a == arg[r]
  <1>1. a \in Args /\ a.text \in Text /\ a.burn = IsBurnAfterReading(a.id)
        /\ (Ordered => a.ttl \in MinTTL .. MaxTTL)
    BY DEF RequestType, RequestInv
  <1>2. a.id \in Id /\ a.burn \in BOOLEAN /\ a.ttl \in 1 .. Half - 1
    BY <1>1 DEF Args
  <1>0. confirmed[a.id] = NoText
    BY <1>2 DEF StoreInv, ConfirmedKept, SetNX, Alive
  <1> USE <1>0 DEF StoreInv, SetNX, Write, Confirm
  <1>3. (/\ stored \in [Id -> Text \cup {NoText}]
         /\ ttl \in [Id -> 0 .. Half - 1]
         /\ age \in [Id -> Nat]
         /\ secret \in [Id -> BOOLEAN]
         /\ reads \in [Id -> Nat]
         /\ confirmed \in [Id -> Text \cup {NoText}])'
    BY <1>1, <1>2, TTLAssumption
  <1>4. TTLMatches'
    BY <1>1, <1>2, PasteAssumption DEF TTLMatches
  <1>5. (\A i \in Id : secret[i] => IsBurnAfterReading(i))'
    BY <1>1, <1>2
  <1>6. (UnreadWhileStored /\ BurnReadOnce)'
    BY <1>1, <1>2 DEF UnreadWhileStored, BurnReadOnce, Alive
  <1>7. ConfirmedKept'
    BY <1>1, <1>2 DEF ConfirmedKept
  <1>8. LifetimeBounded'
    <2> SUFFICES ASSUME Ordered, NEW i \in Id, Alive(i)'
                 PROVE  age'[i] + ttl'[i] \in MinTTL .. MaxTTL
      BY DEF LifetimeBounded, Ordered
    <2>1. CASE i = a.id
      BY <1>1, <1>2, <2>1, TTLAssumption DEF Ordered
    <2>2. CASE i # a.id
      BY <1>2, <2>2 DEF LifetimeBounded, Ordered, Alive
    <2> QED BY <2>1, <2>2
  <1> QED BY <1>3, <1>4, <1>5, <1>6, <1>7, <1>8

\* A read that was answered: GETDEL removes a secret, so its count of answers
\* becomes one exactly when nothing is left to read.
LEMMA FoundStore ==
  ASSUME StoreInv, RequestType, NEW r \in Request, FetchFound(r)
  PROVE  StoreInv'
  <1> DEFINE i == arg[r].id
  <1>1. i \in Id
    BY DEF RequestType, Args
  <1>2. UNCHANGED <<age, secret>>
    BY DEF FetchFound
  <1>3. CASE IsBurnAfterReading(i)
    <2> USE <1>1, <1>2, <1>3 DEF StoreInv, FetchFound, Read, Remove
    <2>1. (/\ stored \in [Id -> Text \cup {NoText}]
           /\ ttl \in [Id -> 0 .. Half - 1]
           /\ reads \in [Id -> Nat]
           /\ confirmed \in [Id -> Text \cup {NoText}])'
      BY TTLAssumption
    <2>2. (TTLMatches /\ ConfirmedKept)'
      BY DEF TTLMatches, ConfirmedKept
    <2>3. (UnreadWhileStored /\ BurnReadOnce)'
      BY DEF UnreadWhileStored, BurnReadOnce, Alive
    <2>4. LifetimeBounded'
      BY DEF LifetimeBounded, Alive
    <2> QED BY <2>1, <2>2, <2>3, <2>4
  <1>4. CASE ~IsBurnAfterReading(i)
    <2>1. ~secret[i]
      BY <1>1, <1>4 DEF StoreInv
    <2>2. UNCHANGED <<redis, history>>
      BY <1>2, <1>4, <2>1 DEF FetchFound, Read, history
    <2> QED BY <2>2, StoreUnchanged
  <1> QED BY <1>3, <1>4

LEMMA TickStore ==
  ASSUME StoreInv, Tick
  PROVE  StoreInv'
  <1> USE DEF StoreInv, Tick
  <1>1. (/\ stored \in [Id -> Text \cup {NoText}]
         /\ ttl \in [Id -> 0 .. Half - 1]
         /\ age \in [Id -> Nat]
         /\ confirmed \in [Id -> Text \cup {NoText}])'
    BY TTLAssumption
  <1>2. (TTLMatches /\ ConfirmedKept)'
    BY TTLAssumption DEF TTLMatches, ConfirmedKept
  <1>3. (UnreadWhileStored /\ BurnReadOnce)'
    BY DEF UnreadWhileStored, BurnReadOnce, Alive
  <1>4. LifetimeBounded'
    <2> SUFFICES ASSUME Ordered, NEW i \in Id, Alive(i)'
                 PROVE  age'[i] + ttl'[i] \in MinTTL .. MaxTTL
      BY DEF LifetimeBounded, Ordered
    <2>1. ~(ttl[i] <= Second) /\ Alive(i)
      BY DEF Alive
    <2>2. age'[i] = age[i] + Second /\ ttl'[i] = ttl[i] - Second
      BY <2>1
    <2>3. age[i] + ttl[i] \in MinTTL .. MaxTTL
      BY <2>1 DEF LifetimeBounded, Ordered
    <2> QED BY <2>2, <2>3, TTLAssumption
  <1> QED BY <1>1, <1>2, <1>3, <1>4

-----------------------------------------------------------------------------
LEMMA ArrivalStep ==
  ASSUME IInv, NEW r \in Request, Arrival(r)
  PROVE  IInv'
  <1>0. RequestType /\ RequestInv /\ StoreInv
    BY Split
  <1>1. CASE \E x \in Text, burn \in BOOLEAN, asked \in AskedTTL, n \in Random :
                PostPaste(r, x, burn, asked, n)
    <2>1. PICK x \in Text, burn \in BOOLEAN, asked \in AskedTTL, n \in Random :
             PostPaste(r, x, burn, asked, n)
      BY <1>1
    <2>2. asked \in Int \cup {NoTTL}
      BY PasteAssumption
    <2> DEFINE a == [id |-> NewId(burn, n), text |-> x, burn |-> burn,
                     ttl |-> Resolve(asked)]
    <2>3. /\ a \in Args
          /\ a.burn = IsBurnAfterReading(a.id)
          /\ a.text \in Text
          /\ Ordered => a.ttl \in MinTTL .. MaxTTL
      <3>1. NewId(burn, n) \in Id /\ IsBurnAfterReading(NewId(burn, n)) = burn
        BY DEF NewId, Id, IsBurnAfterReading
      <3> QED BY <2>2, <3>1, ResolveBounds DEF Args
    <2>4. Arrive(r, "setnx", a)
      BY <2>1 DEF PostPaste
    <2> HIDE DEF a
    <2>5. (RequestType /\ RequestInv)'
      BY <1>0, <2>3, <2>4, ArriveRequests
    <2>6. StoreInv'
      BY <1>0, <2>4, StoreUnchanged DEF Arrive
    <2> QED BY <2>5, <2>6, Split, PTL
  <1>2. CASE RejectPaste(r)
    <2>1. PICK s \in {"badRequest", "failed"} : Answer(r, Reply(s))
      BY <1>2 DEF RejectPaste
    <2>2. Reply(s) \in [status : Status, text : Text \cup {NoText}]
      BY DEF Reply, Status
    <2>3. (RequestType /\ RequestInv)'
      BY <1>0, <2>1, <2>2, AnswerRequests
    <2>4. StoreInv'
      BY <1>0, <1>2, StoreUnchanged DEF RejectPaste
    <2> QED BY <2>3, <2>4, Split, PTL
  <1>3. CASE (\E i \in Id : FetchRequest(r, i)) \/ ClearRequest(r)
    <2>1. PICK a \in Args, c \in {"get", "flushdb"} : Arrive(r, c, a)
      BY <1>3, NoArgType DEF FetchRequest, ClearRequest
    <2>2. (RequestType /\ RequestInv)'
      BY <1>0, <2>1, ArriveRequests
    <2>3. StoreInv'
      BY <1>0, <2>1, StoreUnchanged DEF Arrive
    <2> QED BY <2>2, <2>3, Split, PTL
  <1> QED BY <1>1, <1>2, <1>3 DEF Arrival

\* Every command ends its request with an answer of the right type.
LEMMA CommandRequests ==
  ASSUME RequestType, RequestInv, StoreInv, NEW r \in Request, Command(r)
  PROVE  (RequestType /\ RequestInv)'
  <1>1. ASSUME NEW s \in Status, Answer(r, Reply(s))
        PROVE  (RequestType /\ RequestInv)'
    <2>1. Reply(s) \in [status : Status, text : Text \cup {NoText}]
      BY DEF Reply
    <2> QED BY <1>1, <2>1, AnswerRequests
  <1>2. CASE FetchFound(r)
    <2>1. arg[r].id \in Id
      BY DEF RequestType, Args
    <2>2. [status |-> "ok", text |-> stored[arg[r].id]]
             \in [status : Status, text : Text \cup {NoText}]
      BY <2>1 DEF StoreInv, Status
    <2> QED BY <1>2, <2>2, AnswerRequests DEF FetchFound
  <1>3. CASE AnswerLost(r)
    BY <1>3 DEF AnswerLost, RequestType, RequestInv, NoTextYet
  <1> QED BY <1>1, <1>2, <1>3 DEF Command, PutPaste, PutCollision, PutError,
         FetchMissing, FetchError, Clear, ClearError, Status

LEMMA CommandStore ==
  ASSUME RequestType, RequestInv, StoreInv, NEW r \in Request, Command(r)
  PROVE  StoreInv'
  <1>1. arg[r].id \in Id
    BY DEF RequestType, Args
  <1>2. CASE PutPaste(r) \/ PutCollision(r) \/ PutError(r)
    BY <1>2, SetNXStore, StoreUnchanged DEF PutPaste, PutCollision, PutError
  <1>3. ASSUME Read(arg[r].id), UNCHANGED <<age, secret, reads>> PROVE StoreInv'
    BY <1>1, <1>3, RemoveStore, StoreUnchanged DEF Read, history
  <1>4. CASE FetchFound(r) \/ FetchMissing(r) \/ FetchError(r)
    BY <1>4, FoundStore, StoreUnchanged DEF FetchMissing, FetchError
  <1>5. CASE Clear(r) \/ ClearError(r)
    BY <1>5, RemoveStore, StoreUnchanged DEF Clear, ClearError
  <1>6. CASE AnswerLost(r)
    BY <1>3, <1>6, SetNXStore, RemoveStore DEF AnswerLost
  <1> QED BY <1>2, <1>4, <1>5, <1>6 DEF Command

\* The strengthened invariant holds in every reachable state.
THEOREM Inductive == Spec => []IInv
  <1>1. Init => IInv
    BY InitIInv
  <1>2. IInv /\ [Next]_vars => IInv'
    <2> SUFFICES ASSUME IInv, [Next]_vars PROVE IInv'
      OBVIOUS
    <2>1. RequestType /\ RequestInv /\ StoreInv
      BY Split
    <2>2. CASE UNCHANGED vars
      <3>1. StoreInv'
        BY <2>1, <2>2, StoreUnchanged DEF vars, redis, history
      <3>2. (RequestType /\ RequestInv)'
        BY <2>1, <2>2 DEF vars, RequestType, RequestInv, NoTextYet
      <3> QED BY <3>1, <3>2, Split, PTL
    <2>3. ASSUME NEW r \in Request, Command(r) PROVE IInv'
      <3>1. (RequestType /\ RequestInv)' /\ StoreInv'
        BY <2>1, <2>3, CommandRequests, CommandStore
      <3> QED BY <3>1, Split, PTL
    <2>4. CASE Tick
      <3>1. StoreInv'
        BY <2>1, <2>4, TickStore
      <3>2. (RequestType /\ RequestInv)'
        BY <2>1, <2>4 DEF Tick, RequestType, RequestInv, NoTextYet
      <3> QED BY <3>1, <3>2, Split, PTL
    <2>5. CASE RelayRestart
      <3>1. StoreInv'
        BY <2>1, <2>5, StoreUnchanged DEF RelayRestart
      <3>2. (RequestType /\ RequestInv)'
        BY <2>1, <2>5, NoArgType DEF RelayRestart, RequestType, RequestInv, NoTextYet
      <3> QED BY <3>1, <3>2, Split, PTL
    <2> QED BY <2>2, <2>3, <2>4, <2>5, ArrivalStep DEF Next
  <1> QED BY <1>1, <1>2, PTL DEF Spec

\* Every variable of the store keeps its type.
THEOREM TypeCorrect == Spec => []TypeOK
  BY Inductive, PTL DEF IInv

\* A burn-after-reading text is answered to one reader at most, for any number
\* of concurrent readers, failures and restarts of the relay.
THEOREM BurnReadOnceAlways == Spec => []BurnReadOnce
  BY Inductive, PTL DEF IInv

\* A confirmed upload is not overwritten while it lives.
THEOREM ConfirmedKeptAlways == Spec => []ConfirmedKept
  BY Inductive, PTL DEF IInv

\* Whatever lifetime an upload asks for, its paste lives within the policy.
THEOREM LifetimeBoundedAlways == Spec => []LifetimeBounded
  BY Inductive, PTL DEF IInv

-----------------------------------------------------------------------------
\* The store implements the abstract vault.
THEOREM ImplementsVault == Spec => VaultSpec
  <1> DEFINE out == [r \in Request |-> response[r].text]
             Hidden(S) == [i \in Id |-> IF i \in S THEN NoText ELSE stored[i]]
  <1>1. Init => Vault!Init
    BY DEF Init, Reply, Vault!Init
  <1>2. IInv /\ [Next]_vars => [Vault!Next]_(Vault!vars)
    <2> SUFFICES ASSUME IInv, [Next]_vars PROVE [Vault!Next]_(Vault!vars)
      OBVIOUS
    <2>0. /\ stored \in [Id -> Text \cup {NoText}]
          /\ arg \in [Request -> Args]
          /\ response \in [Request -> [status : Status, text : Text \cup {NoText}]]
          /\ \A r \in Request : pc[r] # "idle" => response[r].text = NoText
          /\ \A r \in Request : pc[r] = "setnx" => arg[r].text \in Text
      BY DEF IInv, TypeOK, NoTextYet, SecretsBurn
    <2>1. ASSUME NEW S \in SUBSET Id, stored' = Hidden(S), out' = out
          PROVE  Vault!Next
      BY <2>1 DEF Vault!Next, Vault!Vanish, Vault!Without
    <2>2. ASSUME UNCHANGED stored, out' = out
          PROVE  [Vault!Next]_(Vault!vars)
      BY <2>2 DEF Vault!vars
    <2>3. CASE UNCHANGED vars \/ RelayRestart
      BY <2>2, <2>3 DEF vars, RelayRestart, redis
    <2>4. CASE Tick
      <3>1. stored' = Hidden({i \in Id : ttl[i] <= Second})
        BY <2>4 DEF Tick
      <3>2. out' = out
        BY <2>4 DEF Tick
      <3> QED BY <2>1, <3>1, <3>2
    <2>5. ASSUME NEW r \in Request, Arrival(r)
          PROVE  [Vault!Next]_(Vault!vars)
      <3>1. UNCHANGED stored
        BY <2>5 DEF Arrival, PostPaste, RejectPaste, FetchRequest, ClearRequest,
           Arrive, redis
      <3>2. PICK s \in Status : response' = [response EXCEPT ![r] = Reply(s)]
        BY <2>5 DEF Arrival, PostPaste, RejectPaste, FetchRequest, ClearRequest,
           Arrive, Answer, Status
      <3>3. out' = [out EXCEPT ![r] = NoText]
        BY <2>0, <3>2 DEF Reply
      <3> QED BY <3>1, <3>3 DEF Vault!Next, Vault!Forget
    <2>6. ASSUME NEW r \in Request, Command(r)
          PROVE  [Vault!Next]_(Vault!vars)
      <3>1. pc[r] # "idle" /\ arg[r].id \in Id /\ response[r].text = NoText
        <4>1. pc[r] # "idle"
          BY <2>6 DEF Command, PutPaste, PutCollision, PutError, FetchFound,
             FetchMissing, FetchError, Clear, ClearError, AnswerLost
        <4> QED BY <2>0, <4>1 DEF Args
      <3>2. ASSUME NEW s \in Status, Answer(r, Reply(s)) PROVE out' = out
        BY <2>0, <3>1, <3>2 DEF Answer, Reply
      <3>3. ASSUME pc[r] = "setnx", SetNX(r), out' = out PROVE Vault!Next
        <4>1. stored[arg[r].id] = NoText
          BY <3>3 DEF SetNX, Alive
        <4>2. stored' = [stored EXCEPT ![arg[r].id] = arg[r].text]
          BY <3>3 DEF SetNX, Write
        <4>3. arg[r].text \in Text
          BY <2>0, <3>3
        <4> QED BY <3>1, <3>3, <4>1, <4>2, <4>3 DEF Vault!Next, Vault!Deposit
      <3>4. CASE PutPaste(r) \/ PutCollision(r) \/ PutError(r)
        BY <2>2, <3>2, <3>3, <3>4
           DEF PutPaste, PutCollision, PutError, redis, Status
      <3>5. ASSUME Remove({arg[r].id}) \/ Remove(Id), out' = out
            PROVE  Vault!Next
        BY <2>1, <3>1, <3>5 DEF Remove
      <3>6. CASE FetchFound(r)
        <4>1. PICK i \in Id : i = arg[r].id
          BY <3>1
        <4>2. out' = [out EXCEPT ![r] = stored[i]]
          BY <2>0, <3>6, <4>1 DEF FetchFound, Answer
        <4>3. stored[i] # NoText
          BY <3>6, <4>1 DEF FetchFound, Alive
        <4>4. stored' = IF IsBurnAfterReading(i) THEN Hidden({i}) ELSE stored
          BY <3>6, <4>1 DEF FetchFound, Read, Remove, redis
        <4>5. Vault!HandOut(r, i)
          BY <4>1, <4>2, <4>3, <4>4 DEF Vault!HandOut, Vault!Without
        <4> QED BY <4>5 DEF Vault!Next
      <3>7. CASE FetchMissing(r) \/ FetchError(r)
        BY <2>2, <3>2, <3>7 DEF FetchMissing, FetchError, redis, Status
      <3>8. CASE Clear(r) \/ ClearError(r)
        BY <2>2, <3>2, <3>5, <3>8 DEF Clear, ClearError, redis, Status
      <3>9. CASE AnswerLost(r)
        <4>1. out' = out
          BY <3>9 DEF AnswerLost
        <4> QED BY <2>2, <3>3, <3>5, <3>9, <4>1 DEF AnswerLost, Read, redis
      <3> QED BY <2>6, <3>4, <3>6, <3>7, <3>8, <3>9 DEF Command
    <2> QED BY <2>3, <2>4, <2>5, <2>6 DEF Next
  <1> QED BY <1>1, <1>2, Inductive, PTL DEF Spec, VaultSpec, Vault!Spec
=============================================================================
