------------------------- MODULE KeyRegistryProofs -------------------------
(* Proofs about the key directory, for any number of handles, keys and      *)
(* concurrent requests.                                                     *)
EXTENDS KeyRegistry, TLAPS

\* What makes the safety properties inductive: a request that won HSETNX, and
\* whose handle was not deleted since, still holds the handle.
WinnerHolds ==
    \A r \in Request :
        pc[r] = "hset" /\ current[r]
        => publicKey[arg[r].handle] = arg[r].key

\* Only a deletion makes a winner stale.
StaleOnlyByDeletion ==
    \A r \in Request : pc[r] = "hset" /\ ~deleted[arg[r].handle] => current[r]

\* A registration that is running carries a key.
WritersHaveKeys ==
    \A r \in Request : pc[r] \in {"hsetnx", "hset"} => arg[r].key \in Key

\* The fingerprint of a handle never deleted is that of its key, or absent.
OwnFingerprint ==
    \A h \in Handle :
        ~deleted[h] => fingerprint[h] \in {NoKey, Compute(publicKey[h])}

\* A running request has not answered yet.
AnswerEndsRequest ==
    \A r \in Request : pc[r] # "idle" => response[r].status = "none"

\* A 201 names the owner as long as nobody deleted the handle.
CreatedIsOwner ==
    \A r \in Request :
        response[r].status = "created" /\ ~deleted[arg[r].handle]
        => owner[arg[r].handle] = arg[r].key /\ arg[r].key \in Key

IInv ==
    /\ TypeOK
    /\ WinnerHolds
    /\ StaleOnlyByDeletion
    /\ WritersHaveKeys
    /\ OwnFingerprint
    /\ AnswerEndsRequest
    /\ CreatedIsOwner
    /\ OwnerStands
    /\ ConfirmedRecord
    /\ LookupNeverMixes

-----------------------------------------------------------------------------
LEMMA InitIInv == Init => IInv
  <1> SUFFICES ASSUME Init PROVE IInv
    OBVIOUS
  <1>1. TypeOK
    BY DEF Init, TypeOK, Reply, Responses, Status, Optional
  <1>2. OwnerStands /\ ConfirmedRecord /\ OwnFingerprint
    BY DEF Init, OwnerStands, ConfirmedRecord, OwnFingerprint
  <1>3. WinnerHolds /\ StaleOnlyByDeletion /\ WritersHaveKeys
    BY DEF Init, WinnerHolds, StaleOnlyByDeletion, WritersHaveKeys
  <1>4. AnswerEndsRequest /\ CreatedIsOwner /\ LookupNeverMixes
    BY DEF Init, Reply, AnswerEndsRequest, CreatedIsOwner, LookupNeverMixes
  <1> QED BY <1>1, <1>2, <1>3, <1>4 DEF IInv

-----------------------------------------------------------------------------
(* One lemma per kind of step.  Each unfolds the conjuncts of IInv once.    *)

LEMMA ArrivalStep ==
  ASSUME IInv, NEW r \in Request, Arrival(r)
  PROVE  IInv'
  <1> USE DEF IInv
  <1>1. ASSUME NEW h \in Handle, NEW k \in Optional,
               NEW c \in {"hsetnx", "hgetall", "del", "flushdb"},
               c = "hsetnx" => k \in Key,
               Arrive(r, h, k, c)
        PROVE  IInv'
    <2> USE <1>1 DEF Arrive, redis, history, Reply
    <2>1. TypeOK'
      BY DEF TypeOK, Responses, Status, Optional
    <2>2. (OwnerStands /\ ConfirmedRecord /\ OwnFingerprint)'
      BY DEF OwnerStands, ConfirmedRecord, OwnFingerprint
    <2>3. (WinnerHolds /\ StaleOnlyByDeletion /\ WritersHaveKeys)'
      BY DEF TypeOK, WinnerHolds, StaleOnlyByDeletion, WritersHaveKeys
    <2>4. (AnswerEndsRequest /\ CreatedIsOwner /\ LookupNeverMixes)'
      BY DEF TypeOK, AnswerEndsRequest, CreatedIsOwner, LookupNeverMixes
    <2> QED BY <2>1, <2>2, <2>3, <2>4
  <1>2. CASE \E h \in Handle, k \in Key : PostKey(r, h, k)
    BY <1>1, <1>2 DEF PostKey, Optional
  <1>3. CASE PostEmptyKey(r)
    <2> USE <1>3 DEF PostEmptyKey, redis, history, Reply
    <2>1. TypeOK'
      BY DEF TypeOK, Responses, Status, Optional
    <2>2. (OwnerStands /\ ConfirmedRecord /\ OwnFingerprint)'
      BY DEF OwnerStands, ConfirmedRecord, OwnFingerprint
    <2>3. (WinnerHolds /\ StaleOnlyByDeletion /\ WritersHaveKeys)'
      BY DEF WinnerHolds, StaleOnlyByDeletion, WritersHaveKeys
    <2>4. (AnswerEndsRequest /\ CreatedIsOwner /\ LookupNeverMixes)'
      BY DEF TypeOK, AnswerEndsRequest, CreatedIsOwner, LookupNeverMixes
    <2> QED BY <2>1, <2>2, <2>3, <2>4
  <1>4. CASE \E h \in Handle : GetKey(r, h) \/ DeleteRequest(r, h)
    BY <1>1, <1>4 DEF GetKey, DeleteRequest, Optional
  <1>5. CASE ClearRequest(r)
    <2>1. arg[r].handle \in Handle
      BY DEF TypeOK
    <2> QED BY <1>1, <1>5, <2>1 DEF ClearRequest, Optional
  <1> QED BY <1>2, <1>3, <1>4, <1>5 DEF Arrival

LEMMA RegisterWonStep ==
  ASSUME IInv, NEW r \in Request, RegisterWon(r)
  PROVE  IInv'
  <1> USE DEF IInv, RegisterWon, HSetNX, HSetNXWins
  <1>1. arg[r] \in [handle : Handle, key : Optional] /\ arg[r].key \in Key
    BY DEF TypeOK, WritersHaveKeys
  <1>2. TypeOK'
    BY <1>1 DEF TypeOK, Optional
  <1>3. (OwnerStands /\ ConfirmedRecord)'
    BY <1>1 DEF TypeOK, OwnerStands, ConfirmedRecord
  <1>4. OwnFingerprint'
    BY <1>1 DEF TypeOK, OwnFingerprint, Compute
  <1>5. (WinnerHolds /\ StaleOnlyByDeletion /\ WritersHaveKeys)'
    <2>1. ASSUME NEW s \in Request, pc'[s] = "hset", current'[s]
          PROVE  publicKey'[arg'[s].handle] = arg'[s].key
      <3>1. CASE s = r
        BY <1>1, <2>1, <3>1 DEF TypeOK
      <3>2. CASE s # r
        <4>1. pc[s] = "hset" /\ current[s]
          BY <2>1, <3>2 DEF TypeOK
        <4>2. publicKey[arg[s].handle] = arg[s].key /\ arg[s].key \in Key
          BY <4>1 DEF WinnerHolds, WritersHaveKeys
        <4>3. arg[s].handle # arg[r].handle
          BY <4>2, NoKeyAssumption
        <4> QED BY <4>2, <4>3, <1>1 DEF TypeOK
      <3> QED BY <3>1, <3>2
    <2> QED BY <2>1, <1>1
        DEF TypeOK, WinnerHolds, StaleOnlyByDeletion, WritersHaveKeys
  <1>6. (AnswerEndsRequest /\ CreatedIsOwner /\ LookupNeverMixes)'
    BY DEF TypeOK, AnswerEndsRequest, CreatedIsOwner, LookupNeverMixes
  <1> QED BY <1>2, <1>3, <1>4, <1>5, <1>6

\* Steps that leave both fields alone and answer with no key: 409, 503, 404,
\* and the lookup's 503.
LEMMA PlainAnswerStep ==
  ASSUME IInv, NEW r \in Request, NEW s \in Status \ {"created", "found"},
         pc[r] # "idle", Answer(r, Reply(s)), UNCHANGED <<redis, arg, history>>
  PROVE  IInv'
  <1> USE DEF IInv, Answer, Reply, redis, history
  <1>1. TypeOK'
    BY DEF TypeOK, Responses, Optional
  <1>2. (OwnerStands /\ ConfirmedRecord /\ OwnFingerprint)'
    BY DEF OwnerStands, ConfirmedRecord, OwnFingerprint
  <1>3. (WinnerHolds /\ StaleOnlyByDeletion /\ WritersHaveKeys)'
    BY DEF TypeOK, WinnerHolds, StaleOnlyByDeletion, WritersHaveKeys
  <1>4. (AnswerEndsRequest /\ CreatedIsOwner /\ LookupNeverMixes)'
    BY DEF TypeOK, AnswerEndsRequest, CreatedIsOwner, LookupNeverMixes
  <1> QED BY <1>1, <1>2, <1>3, <1>4

\* HSETNX took effect but its answer was lost: a record without a
\* fingerprint, owned by nobody who was told so.
LEMMA HSetNXLostStep ==
  ASSUME IInv, NEW r \in Request, pc[r] = "hsetnx", HSetNX(r),
         UNCHANGED <<history, pc, arg, response>>
  PROVE  IInv'
  <1> USE DEF IInv, HSetNX, HSetNXWins, history
  <1>1. arg[r] \in [handle : Handle, key : Optional] /\ arg[r].key \in Key
    BY DEF TypeOK, WritersHaveKeys
  <1>2. TypeOK'
    BY <1>1 DEF TypeOK, Optional
  <1>3. (OwnerStands /\ ConfirmedRecord)'
    BY <1>1 DEF TypeOK, OwnerStands, ConfirmedRecord
  <1>4. OwnFingerprint'
    BY <1>1 DEF TypeOK, OwnFingerprint, Compute
  <1>5. WinnerHolds'
    <2> SUFFICES ASSUME NEW s \in Request, pc[s] = "hset", current[s]
                 PROVE  publicKey'[arg[s].handle] = arg[s].key
      BY DEF WinnerHolds
    <2>1. publicKey[arg[s].handle] = arg[s].key /\ arg[s].key \in Key
      BY DEF WinnerHolds, WritersHaveKeys
    <2>2. arg[s].handle # arg[r].handle
      BY <2>1, NoKeyAssumption
    <2> QED BY <2>1, <2>2, <1>1 DEF TypeOK
  <1>6. (StaleOnlyByDeletion /\ WritersHaveKeys)'
    BY DEF StaleOnlyByDeletion, WritersHaveKeys
  <1>7. (AnswerEndsRequest /\ CreatedIsOwner /\ LookupNeverMixes)'
    BY DEF AnswerEndsRequest, CreatedIsOwner, LookupNeverMixes
  <1> QED BY <1>2, <1>3, <1>4, <1>5, <1>6, <1>7

\* The second command of a registration, confirmed or failed.  A request whose
\* handle was never deleted still holds it, so it writes its own fingerprint.
LEMMA HSetStep ==
  ASSUME IInv, NEW r \in Request, pc[r] = "hset", HSet(r)
  PROVE  /\ fingerprint' \in [Handle -> Optional]
         /\ \A h \in Handle :
              ~deleted[h] => /\ fingerprint'[h] \in {NoKey, Compute(publicKey[h])}
                             /\ owner[h] # NoKey => fingerprint'[h] = Compute(owner[h])
         /\ ~deleted[arg[r].handle]
              => /\ current[r]
                 /\ fingerprint'[arg[r].handle] = Compute(arg[r].key)
  <1> USE DEF IInv, HSet, WriteFingerprint, Compute
  <1>1. arg[r] \in [handle : Handle, key : Optional] /\ arg[r].key \in Key
    BY DEF TypeOK, WritersHaveKeys
  <1>2. ~deleted[arg[r].handle]
        => current[r] /\ publicKey[arg[r].handle] = arg[r].key
    BY DEF WinnerHolds, StaleOnlyByDeletion
  <1>3. fingerprint' \in [Handle -> Optional]
    BY <1>1 DEF TypeOK, Optional
  <1>4. ASSUME NEW h \in Handle, ~deleted[h]
        PROVE  /\ fingerprint'[h] \in {NoKey, publicKey[h]}
               /\ owner[h] # NoKey => fingerprint'[h] = owner[h]
    <2>1. CASE h = arg[r].handle
      BY <1>1, <1>2, <1>4, <2>1 DEF TypeOK, OwnerStands
    <2>2. CASE h # arg[r].handle
      BY <1>4, <2>2 DEF TypeOK, OwnFingerprint, ConfirmedRecord
    <2> QED BY <2>1, <2>2
  <1> QED BY <1>1, <1>2, <1>3, <1>4 DEF TypeOK

LEMMA HSetLostStep ==
  ASSUME IInv, NEW r \in Request, pc[r] = "hset", HSet(r),
         UNCHANGED <<history, pc, arg, response>>
  PROVE  IInv'
  <1> USE DEF IInv, history
  <1>1. UNCHANGED publicKey
    BY DEF HSet, WriteFingerprint
  <1>2. TypeOK'
    BY <1>1, HSetStep DEF TypeOK
  <1>3. (OwnerStands /\ ConfirmedRecord /\ OwnFingerprint)'
    BY <1>1, HSetStep DEF OwnerStands, ConfirmedRecord, OwnFingerprint, Compute
  <1>4. (WinnerHolds /\ StaleOnlyByDeletion /\ WritersHaveKeys)'
    BY <1>1 DEF WinnerHolds, StaleOnlyByDeletion, WritersHaveKeys
  <1>5. (AnswerEndsRequest /\ CreatedIsOwner /\ LookupNeverMixes)'
    BY DEF AnswerEndsRequest, CreatedIsOwner, LookupNeverMixes
  <1> QED BY <1>2, <1>3, <1>4, <1>5

LEMMA RegisterDoneStep ==
  ASSUME IInv, NEW r \in Request, RegisterDone(r)
  PROVE  IInv'
  <1> USE DEF IInv, RegisterDone, Answer
  <1>1. arg[r] \in [handle : Handle, key : Optional] /\ arg[r].key \in Key
    BY DEF TypeOK, WritersHaveKeys
  <1>2. UNCHANGED publicKey
    BY DEF HSet, WriteFingerprint
  <1>3. TypeOK'
    BY <1>1, <1>2, HSetStep DEF TypeOK, Responses, Status, Optional, Compute
  <1>4. OwnerStands'
    BY <1>1, <1>2 DEF TypeOK, OwnerStands, WinnerHolds
  <1>5. ConfirmedRecord'
    BY <1>1, <1>2, HSetStep DEF TypeOK, ConfirmedRecord, Compute
  <1>6. OwnFingerprint'
    BY <1>2, HSetStep DEF OwnFingerprint, Compute
  <1>7. (WinnerHolds /\ StaleOnlyByDeletion /\ WritersHaveKeys)'
    BY <1>2 DEF TypeOK, WinnerHolds, StaleOnlyByDeletion, WritersHaveKeys
  <1>8. CreatedIsOwner'
    <2> SUFFICES ASSUME NEW s \in Request,
                        response'[s].status = "created", ~deleted'[arg'[s].handle]
                 PROVE  owner'[arg'[s].handle] = arg'[s].key /\ arg'[s].key \in Key
      BY DEF CreatedIsOwner
    <2>1. CASE s = r
      BY <1>1, <2>1, HSetStep DEF TypeOK
    <2>2. CASE s # r
      <3>1. owner[arg[s].handle] = arg[s].key /\ arg[s].key \in Key
        BY <2>2 DEF TypeOK, CreatedIsOwner
      <3>2. arg[s].handle = arg[r].handle => current[r]
        BY HSetStep
      <3>3. arg[s].handle = arg[r].handle => arg[r].key = arg[s].key
        BY <1>1, <3>1, <3>2, NoKeyAssumption DEF TypeOK, OwnerStands, WinnerHolds
      <3> QED BY <1>1, <3>1, <3>3 DEF TypeOK
    <2> QED BY <2>1, <2>2
  <1>9. (AnswerEndsRequest /\ LookupNeverMixes)'
    BY DEF TypeOK, AnswerEndsRequest, LookupNeverMixes
  <1> QED BY <1>3, <1>4, <1>5, <1>6, <1>7, <1>8, <1>9

LEMMA LookupStep ==
  ASSUME IInv, NEW r \in Request, Lookup(r)
  PROVE  IInv'
  <1> USE DEF IInv, Lookup, Answer, Reply, redis, history
  <1>1. arg[r].handle \in Handle
    BY DEF TypeOK
  <1>2. TypeOK'
    BY <1>1 DEF TypeOK, Responses, Status, Optional
  <1>3. (OwnerStands /\ ConfirmedRecord /\ OwnFingerprint)'
    BY DEF OwnerStands, ConfirmedRecord, OwnFingerprint
  <1>4. (WinnerHolds /\ StaleOnlyByDeletion /\ WritersHaveKeys)'
    BY DEF TypeOK, WinnerHolds, StaleOnlyByDeletion, WritersHaveKeys
  <1>5. (AnswerEndsRequest /\ CreatedIsOwner)'
    BY DEF TypeOK, AnswerEndsRequest, CreatedIsOwner
  <1>6. LookupNeverMixes'
    BY <1>1 DEF TypeOK, LookupNeverMixes, OwnFingerprint, Compute
  <1> QED BY <1>2, <1>3, <1>4, <1>5, <1>6

\* DEL and FLUSHDB: the erased handles keep no owner and every running
\* registration of them becomes stale.
LEMMA EraseStep ==
  ASSUME IInv, NEW r \in Request, NEW S \in SUBSET Handle, Erase(S), UNCHANGED arg,
         NEW s \in Status \ {"created", "found"},
         \/ pc[r] # "idle" /\ Answer(r, Reply(s))
         \/ UNCHANGED <<pc, response>>
  PROVE  IInv'
  <1> USE DEF IInv, Erase
  <1>1. \/ pc' = [pc EXCEPT ![r] = "idle"] /\ response' = [response EXCEPT ![r] = Reply(s)]
        \/ UNCHANGED <<pc, response>>
    BY DEF Answer
  <1>2. TypeOK'
    <2>1. response' \in [Request -> Responses] /\ pc' \in
             [Request -> {"idle", "hsetnx", "hset", "hgetall", "del", "flushdb"}]
      <3>1. CASE UNCHANGED <<pc, response>>
        BY <3>1 DEF TypeOK
      <3>2. CASE /\ pc' = [pc EXCEPT ![r] = "idle"]
                 /\ response' = [response EXCEPT ![r] = Reply(s)]
        BY <3>2 DEF TypeOK, Responses, Optional, Reply
      <3> QED BY <1>1, <3>1, <3>2
    <2> QED BY <2>1 DEF TypeOK, Optional
  <1>3. (OwnerStands /\ ConfirmedRecord /\ OwnFingerprint)'
    BY DEF TypeOK, OwnerStands, ConfirmedRecord, OwnFingerprint, Compute
  <1>4. \A t \in Request : pc'[t] # "idle" => pc'[t] = pc[t] /\ response'[t] = response[t]
    BY <1>1 DEF TypeOK
  <1>5. (WinnerHolds /\ StaleOnlyByDeletion /\ WritersHaveKeys)'
    BY <1>4 DEF TypeOK, WinnerHolds, StaleOnlyByDeletion, WritersHaveKeys
  <1>6. \A t \in Request : response'[t].status \in {"created", "found"}
                            => response'[t] = response[t]
    BY <1>1 DEF TypeOK, Reply
  <1>7. (AnswerEndsRequest /\ CreatedIsOwner /\ LookupNeverMixes)'
    BY <1>4, <1>6 DEF TypeOK, AnswerEndsRequest, CreatedIsOwner, LookupNeverMixes
  <1> QED BY <1>2, <1>3, <1>5, <1>7

LEMMA CommandStep ==
  ASSUME IInv, NEW r \in Request, Command(r)
  PROVE  IInv'
  <1>1. arg[r].handle \in Handle
    BY DEF IInv, TypeOK
  <1>2. CASE RegisterTaken(r)
    BY <1>2, PlainAnswerStep DEF RegisterTaken, Status
  <1>3. CASE LookupError(r)
    BY <1>3, PlainAnswerStep DEF LookupError, Status
  <1>4. CASE Delete(r)
    BY <1>1, <1>4, EraseStep DEF Delete, Status
  <1>5. CASE DeleteError(r)
    BY <1>5, PlainAnswerStep DEF DeleteError, Status
  <1>6. CASE Clear(r)
    BY <1>6, EraseStep DEF Clear, Status
  <1>7. CASE ClearError(r)
    BY <1>7, PlainAnswerStep DEF ClearError, Status
  <1>8. CASE RegisterError(r) \/ FingerprintError(r)
    BY <1>8, PlainAnswerStep DEF RegisterError, FingerprintError, Status
  <1>9. CASE AnswerLost(r)
    BY <1>1, <1>9, HSetNXLostStep, HSetLostStep, EraseStep DEF AnswerLost, Status
  <1> QED BY <1>2, <1>3, <1>4, <1>5, <1>6, <1>7, <1>8, <1>9, RegisterWonStep,
             RegisterDoneStep, LookupStep DEF Command

LEMMA RestartStep ==
  ASSUME IInv, RelayRestart
  PROVE  IInv'
  <1> USE DEF IInv, RelayRestart, redis, history
  <1>1. TypeOK'
    BY DEF TypeOK
  <1>2. (OwnerStands /\ ConfirmedRecord /\ OwnFingerprint)'
    BY DEF OwnerStands, ConfirmedRecord, OwnFingerprint
  <1>3. (WinnerHolds /\ StaleOnlyByDeletion /\ WritersHaveKeys)'
    BY DEF WinnerHolds, StaleOnlyByDeletion, WritersHaveKeys
  <1>4. (AnswerEndsRequest /\ CreatedIsOwner /\ LookupNeverMixes)'
    BY DEF AnswerEndsRequest, CreatedIsOwner, LookupNeverMixes
  <1> QED BY <1>1, <1>2, <1>3, <1>4

-----------------------------------------------------------------------------
\* The strengthened invariant holds in every reachable state.
THEOREM Inductive == Spec => []IInv
  <1>1. Init => IInv
    BY InitIInv
  <1>2. IInv /\ [Next]_vars => IInv'
    <2> SUFFICES ASSUME IInv, [Next]_vars PROVE IInv'
      OBVIOUS
    <2>1. CASE UNCHANGED vars
      BY <2>1 DEF vars, IInv, TypeOK, WinnerHolds, StaleOnlyByDeletion,
         WritersHaveKeys, OwnFingerprint, AnswerEndsRequest, CreatedIsOwner,
         OwnerStands, ConfirmedRecord, LookupNeverMixes
    <2>2. CASE Next
      BY <2>2, ArrivalStep, CommandStep, RestartStep DEF Next
    <2> QED BY <2>1, <2>2
  <1> QED BY <1>1, <1>2, PTL DEF Spec

\* Every variable of the directory keeps its type.
THEOREM TypeCorrect == Spec => []TypeOK
  BY Inductive, PTL DEF IInv

\* A registration answered with 201 names the holder of the handle until the
\* handle is deleted, for any number of racing requests.
THEOREM OwnerStandsAlways == Spec => []OwnerStands
  BY Inductive, PTL DEF IInv

\* A confirmed record of a handle never deleted carries its own fingerprint.
THEOREM ConfirmedRecordAlways == Spec => []ConfirmedRecord
  BY Inductive, PTL DEF IInv

\* A lookup of a handle never deleted does not mix two registrations.
THEOREM LookupNeverMixesAlways == Spec => []LookupNeverMixes
  BY Inductive, PTL DEF IInv

\* Two keys are both told 201 for a handle only if it was deleted.
THEOREM OneConfirmationAlways == Spec => []OneConfirmation
  <1>1. IInv => OneConfirmation
    BY DEF IInv, CreatedIsOwner, OneConfirmation
  <1> QED BY <1>1, Inductive, PTL

-----------------------------------------------------------------------------
\* The directory implements the abstract ledger of handles.
THEOREM ImplementsLedger == Spec => LedgerSpec
  <1> USE DEF Ledger!Init, Ledger!Next, Ledger!vars, Ledger!Claim,
              Ledger!Confirm, Ledger!Release
  <1>1. Init => Ledger!Init
    BY DEF Init
  <1>2. IInv /\ [Next]_vars => [Ledger!Next]_(Ledger!vars)
    <2> SUFFICES ASSUME IInv, [Next]_vars PROVE [Ledger!Next]_(Ledger!vars)
      OBVIOUS
    <2> USE DEF redis, history
    <2>1. CASE UNCHANGED vars
      BY <2>1 DEF vars
    <2>2. CASE RelayRestart
      BY <2>2 DEF RelayRestart
    <2>3. ASSUME NEW r \in Request, Arrival(r)
          PROVE  UNCHANGED Ledger!vars
      BY <2>3 DEF Arrival, PostKey, PostEmptyKey, GetKey, DeleteRequest,
         ClearRequest, Arrive
    <2>4. ASSUME NEW r \in Request, Command(r)
          PROVE  [Ledger!Next]_(Ledger!vars)
      <3>1. /\ arg[r].handle \in Handle
            /\ pc[r] \in {"hsetnx", "hset"} => arg[r].key \in Key
        BY DEF IInv, TypeOK, WritersHaveKeys
      <3>2. ASSUME pc[r] = "hsetnx", HSetNX(r), UNCHANGED owner
            PROVE  Ledger!Next
        BY <3>1, <3>2 DEF HSetNX, HSetNXWins
      <3>3. CASE RegisterWon(r) \/ RegisterTaken(r) \/ RegisterError(r)
        BY <3>2, <3>3 DEF RegisterWon, RegisterTaken, RegisterError
      <3>4. CASE RegisterDone(r)
        <4>1. UNCHANGED publicKey
          BY <3>4 DEF RegisterDone, HSet, WriteFingerprint
        <4>2. CASE current[r]
          <5>1. publicKey[arg[r].handle] = arg[r].key /\ arg[r].key # NoKey
            BY <3>1, <3>4, <4>2, NoKeyAssumption DEF RegisterDone, IInv, WinnerHolds
          <5> QED BY <3>1, <3>4, <4>1, <4>2, <5>1 DEF RegisterDone
        <4>3. CASE ~current[r]
          BY <3>4, <4>1, <4>3 DEF RegisterDone
        <4> QED BY <4>2, <4>3
      <3>5. CASE FingerprintError(r)
        BY <3>5 DEF FingerprintError
      <3>6. CASE Lookup(r) \/ LookupError(r)
        BY <3>6 DEF Lookup, LookupError
      <3>7. ASSUME NEW S \in SUBSET Handle, Erase(S)
            PROVE  Ledger!Next
        BY <3>7 DEF Erase
      <3>8. CASE Delete(r) \/ DeleteError(r)
        BY <3>1, <3>7, <3>8 DEF Delete, DeleteError
      <3>9. CASE Clear(r) \/ ClearError(r)
        BY <3>7, <3>9 DEF Clear, ClearError
      <3>10. CASE AnswerLost(r)
        BY <3>1, <3>2, <3>7, <3>10 DEF AnswerLost, HSet, WriteFingerprint
      <3> QED BY <2>4, <3>3, <3>4, <3>5, <3>6, <3>8, <3>9, <3>10 DEF Command
    <2> QED BY <2>1, <2>2, <2>3, <2>4 DEF Next
  <1> QED BY <1>1, <1>2, Inductive, PTL DEF Spec, LedgerSpec, Ledger!Spec
=============================================================================
