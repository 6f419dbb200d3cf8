-------------------------- MODULE DeviceInitProofs --------------------------
(* Proofs about the identity of devices, for any number of devices, handles *)
(* and operations that run at the same time, whatever keypairs are drawn.   *)
EXTENDS DeviceInit, TLAPS

OpType == [pc : {"idle", "load", "getkey", "register", "save",
                 "write", "unregister", "remove"},
           kind : Kind \cup {"none"}, device : Device \cup {"none"},
           asked : Handle \cup {NoHandle}, id : Identity,
           again : BOOLEAN, calm : BOOLEAN]

-----------------------------------------------------------------------------
(* The inductive invariant.                                                 *)

\* A keypair of device d.
KeyOf(k, d) == k \in Key /\ k.device = d

\* What an identity file may hold.
FileInv ==
    /\ generated \in [Device -> Nat]
    /\ \A d \in Device : Readable(d) => file[d].handle \in Handle /\ KeyOf(file[d].key, d)

\* What the program counter of an operation says of its locals.
OpInv(p) ==
    /\ p.pc = "idle" => p = Idle
    /\ p.pc # "idle" => p.device \in Device /\ p.kind \in Kind
    /\ p.pc = "load" => p.id = NoFile /\ ~p.again
    /\ p.pc = "load" /\ p.kind \in {"web", "shell"} => p.asked # NoHandle
    /\ p.pc \in {"getkey", "register", "save", "write", "unregister"} => KeyOf(p.id.key, p.device)
    /\ p.pc \in {"getkey", "save", "write", "unregister"} => p.id.handle \in Handle
    /\ p.pc = "register" /\ p.again => p.id.handle \in Handle
    /\ p.pc = "getkey" => p.kind = "init" /\ p.again
    /\ p.pc = "register" => p.kind # "delete"
    /\ p.pc \in {"save", "write"} => p.kind \in {"init", "force", "web", "shell"}
    /\ p.pc \in {"unregister", "remove"} => p.kind = "delete"

\* A plain init is about to register the handle of the identity it found.
Repeats(p) ==
    /\ p.pc = "register" /\ p.kind = "init"
    /\ p.again /\ p.asked = NoHandle

\* An operation with record p that nothing has interfered with works on what the
\* file holds, saves what it has registered and registers what is not.
Knows(p) ==
    /\ p.pc = "getkey" => file[p.device] = p.id
    /\ p.pc \in {"save", "write"} /\ p.kind \in {"init", "force"}
          => directory[p.id.handle] = p.id.key
    /\ Repeats(p) => directory[p.id.handle] # p.id.key

\* Such an operation is alone on its device.
CalmInv(o) ==
    op[o].pc # "idle" /\ op[o].calm => Busy(op[o].device) = {o} /\ Knows(op[o])

\* Nothing is vouched for while the file is being written.
WriteInv == \A o \in Op : op[o].pc = "write" => vouched[op[o].device] = NoFile

\* An operation holds the keypair of the file.
FromFile(p) ==
    \/ p.pc \in {"getkey", "unregister"}
    \/ p.pc = "register" /\ p.again

\* What the only operation on a careful device d, with record p, has to keep: it
\* generates a keypair only when none is registered, and saves the one it took
\* from the file or generated for want of one.
CarefulOp(p, d) ==
    /\ p.kind \in {"init", "web", "delete"}
    /\ FromFile(p) => Readable(d) /\ p.id.key = file[d].key
    /\ p.pc = "register" /\ ~p.again
          => ~Readable(d) /\ \A h \in Handle : directory[h].device # d
    /\ p.pc = "save" => ~Readable(d) \/ p.id.key = file[d].key
    /\ p.pc = "write" <=> file[d] = Torn

CarefulInv(d) ==
    careful[d] =>
        /\ \A o \in Busy(d) : Busy(d) = {o} /\ CarefulOp(op[o], d)
        /\ file[d] = Torn => Busy(d) # {}

IInv ==
    /\ TypeOK /\ FileInv /\ WriteInv
    /\ \A o \in Op : OpInv(op[o]) /\ CalmInv(o)
    /\ \A d \in Device : CarefulInv(d)
    /\ ReportStands /\ NoOrphan

-----------------------------------------------------------------------------
(* Keypairs and files.                                                      *)

LEMMA KeyFacts ==
  /\ NoKey \notin Key
  /\ \A k \in Key : k.device \in Device
  /\ \A d \in Device, n \in Nat \ {0} : n <= MaxKeys[d] => KeyOf([device |-> d, n |-> n], d)
  <1>1. \A k \in Key : k.device \in Device
    BY DEF Key
  <1>2. NoKey \notin Key
    BY <1>1, DeviceAssumption DEF NoKey
  <1>3. ASSUME NEW d \in Device, NEW n \in Nat \ {0}, n <= MaxKeys[d]
        PROVE  KeyOf([device |-> d, n |-> n], d)
    <2>1. n \in 1 .. MaxKeys[d]
      BY <1>3, MaxKeysAssumption
    <2> QED BY <2>1 DEF KeyOf, Key
  <1> QED BY <1>1, <1>2, <1>3

LEMMA FileFacts ==
  /\ Torn \notin Identity /\ NoFile \in Identity /\ NoFile # Torn
  /\ \A d \in Device : ~KeyOf(NoFile.key, d) /\ ~KeyOf(Torn.key, d)
  /\ \A d \in Device : NoFile.key.device # d /\ Torn.key.device # d
  /\ NoKey.device \notin Device
  <1>1. "none" \notin Device /\ "torn" \notin Device
    BY DeviceAssumption
  <1>2. Torn.key # NoKey
    BY DEF Torn, NoKey
  <1>3. Torn \notin Identity
    BY <1>1, <1>2, KeyFacts DEF Torn, Identity
  <1>4. NoFile \in Identity
    BY DEF NoFile, Identity
  <1> QED BY <1>1, <1>3, <1>4 DEF KeyOf, NoFile, NoKey, Torn

LEMMA IdleFacts == Idle \in OpType /\ [Idle EXCEPT !.calm = FALSE] = Idle
  <1>1. Idle \in OpType /\ Idle.calm = FALSE
    BY FileFacts DEF OpType, Idle
  <1>2. \A x \in OpType : x.calm = FALSE => [x EXCEPT !.calm = FALSE] = x
    BY DEF OpType
  <1> QED BY <1>1, <1>2

LEMMA InitIInv == Init => IInv
  <1> SUFFICES ASSUME Init PROVE IInv
    OBVIOUS
  <1>1. Idle \in OpType
    BY FileFacts DEF OpType, Idle
  <1>2. TypeOK
    BY <1>1, FileFacts, MaxKeysAssumption DEF Init, TypeOK, OpType
  <1>3. FileInv /\ WriteInv
    BY DEF Init, FileInv, WriteInv, Readable, Idle
  <1>4. \A o \in Op : OpInv(op[o]) /\ CalmInv(o)
    BY DEF Init, OpInv, CalmInv, Idle
  <1>5. \A d \in Device : CarefulInv(d)
    BY FileFacts DEF Init, CarefulInv, Busy, Idle
  <1>6. ReportStands /\ NoOrphan
    BY FileFacts DEF Init, ReportStands, NoOrphan
  <1> QED BY <1>2, <1>3, <1>4, <1>5, <1>6 DEF IInv

-----------------------------------------------------------------------------
(* What a step of an operation has to show.                                 *)

\* Operation o of device d goes on with record r, or ends.  Others may lose their
\* calm.  A handle is registered for a key of d when nobody had it, and forgotten
\* only if what is vouched for and the calm operations do not need it.
LEMMA StepInv ==
  ASSUME IInv, NEW o \in Op, NEW d \in Device, op[o].pc # "idle", op[o].device = d,
         NEW r \in OpType, op' \in [Op -> OpType], op'[o] = r,
         \A p \in Op \ {o} : op'[p] \in {op[p], [op[p] EXCEPT !.calm = FALSE]},
         r = Idle \/ (r.pc # "idle" /\ r.device = d /\ (r.calm => op[o].calm)),
         OpInv(r), TypeOK', FileInv',
         \A e \in Device \ {d} : file'[e] = file[e] /\ careful'[e] = careful[e],
         careful'[d] => careful[d],
         \A h \in Handle :
            \/ directory'[h] = directory[h]
            \/ /\ directory'[h] = NoKey
               /\ \A p \in Op \ {o} : op'[p].calm => op[p].id.handle # h
               /\ \A e \in Device : vouched'[e] = NoFile \/ vouched'[e].handle # h
            \/ directory[h] = NoKey /\ KeyOf(directory'[h], d),
         \A e \in Device \ {d} : vouched'[e] \in {vouched[e], NoFile},
         \/ vouched'[d] = NoFile
         \/ vouched'[d] = vouched[d] /\ file'[d] = file[d]
         \/ /\ file'[d] = vouched'[d] /\ op[o].calm
            /\ directory'[vouched'[d].handle] = vouched'[d].key,
         r.pc # "idle" /\ r.calm => Knows(r)',
         r.pc = "write" => vouched'[d] = NoFile,
         careful'[d] =>
            /\ r.pc # "idle" => CarefulOp(r, d)'
            /\ r.pc = "idle" => file'[d] # Torn
            /\ \A h \in Handle : directory'[h].device = d =>
                  \/ file'[d].key = directory'[h]
                  \/ r.pc # "idle" /\ r.id.key = directory'[h]
  PROVE  IInv'
  <1>1. op \in [Op -> OpType] /\ directory \in [Handle -> Key \cup {NoKey}]
        /\ directory' \in [Handle -> Key \cup {NoKey}]
    BY DEF IInv, TypeOK, OpType
  <1>2. \A p \in Op \ {o} :
          /\ op'[p].pc = op[p].pc /\ op'[p].kind = op[p].kind /\ op'[p].device = op[p].device
          /\ op'[p].asked = op[p].asked /\ op'[p].id = op[p].id /\ op'[p].again = op[p].again
          /\ op'[p].calm => op[p].calm
    BY <1>1 DEF OpType
  <1>3. o \in Busy(d)
    BY DEF Busy
  <1>4. /\ \A e \in Device \ {d} : Busy(e)' = Busy(e)
        /\ Busy(d)' = IF r.pc = "idle" THEN Busy(d) \ {o} ELSE Busy(d)
    BY <1>2 DEF Busy, Idle
  <1>5. ASSUME NEW p \in Op PROVE OpInv(op[p])'
    <2>1. CASE p # o
      <3>1. OpInv(op[p]) /\ op[p] \in OpType
        BY <1>1 DEF IInv
      <3>2. op[p] = Idle => op'[p] = Idle
        BY <2>1 DEF Idle
      <3> QED BY <1>2, <2>1, <3>1, <3>2 DEF OpInv
    <2> QED BY <2>1
  <1>6. ASSUME NEW p \in Op PROVE CalmInv(p)'
    <2>1. CASE p = o
      <3>1. op[o].calm => Busy(d) = {o}
        BY DEF IInv, CalmInv
      <3> QED BY <1>4, <2>1, <3>1 DEF CalmInv, Knows, Repeats, Idle
    <2>2. CASE p # o
      <3> SUFFICES ASSUME op'[p].pc # "idle", op'[p].calm
                   PROVE  Busy(op[p].device)' = {p} /\ Knows(op[p])'
        BY DEF CalmInv
      <3> DEFINE e == op[p].device
                 h == op[p].id.handle
      <3>1. Busy(e) = {p} /\ Knows(op[p]) /\ OpInv(op[p]) /\ op[p].pc # "idle"
        BY <1>2, <2>2 DEF IInv, CalmInv
      <3>2. e \in Device \ {d}
        BY <1>3, <2>2, <3>1 DEF OpInv
      <3>3. op'[p].device = e /\ Busy(e)' = {p}
        BY <1>2, <1>4, <2>2, <3>1, <3>2
      <3>4. /\ KeyOf(op[p].id.key, e) \/ op[p].pc \notin {"register", "save", "write"}
            /\ h \in Handle \/ ~(Repeats(op[p]) \/ op[p].pc \in {"save", "write"})
        BY <3>1 DEF OpInv, Repeats
      <3>5. op[p].pc = "getkey" => file'[e] = op[p].id
        BY <3>1, <3>2 DEF Knows
      <3>6. \/ h \notin Handle
            \/ directory'[h] = directory[h]
            \/ directory[h] = NoKey /\ KeyOf(directory'[h], d)
        BY <2>2
      <3>7. op[p].pc \in {"save", "write"} /\ op[p].kind \in {"init", "force"}
               => directory'[h] = op[p].id.key
        BY <3>1, <3>4, <3>6, KeyFacts DEF Knows, KeyOf
      <3>8. Repeats(op[p]) => directory'[h] # op[p].id.key
        BY <3>1, <3>2, <3>4, <3>6 DEF Knows, KeyOf, Repeats
      <3> QED BY <1>2, <2>2, <3>3, <3>5, <3>7, <3>8 DEF Knows, Repeats
    <2> QED BY <2>1, <2>2
  <1>7. WriteInv'
    <2> SUFFICES ASSUME NEW p \in Op, op'[p].pc = "write"
                 PROVE  vouched'[op'[p].device] = NoFile
      BY DEF WriteInv
    <2>1. CASE p = o
      BY <2>1 DEF Idle
    <2>2. CASE p # o
      <3>1. op[p].pc = "write" /\ op'[p].device = op[p].device
        BY <1>2, <2>2
      <3>2. op[p].device \in Device /\ vouched[op[p].device] = NoFile
        BY <3>1 DEF IInv, OpInv, WriteInv
      <3>3. op[p].device = d => ~op[o].calm
        <4>1. op[p].device = d => p \in Busy(d)
          BY <3>1 DEF Busy
        <4>2. op[o].calm => Busy(d) = {o}
          BY DEF IInv, CalmInv
        <4> QED BY <2>2, <4>1, <4>2
      <3> QED BY <3>1, <3>2, <3>3
    <2> QED BY <2>1, <2>2
  <1>8. ASSUME NEW e \in Device, e # d PROVE CarefulInv(e)'
    <2>1. /\ CarefulInv(e) /\ Busy(e)' = Busy(e) /\ file'[e] = file[e]
          /\ careful'[e] = careful[e] /\ o \notin Busy(e)
      BY <1>4, <1>8 DEF IInv, Busy
    <2>2. \A h \in Handle : directory[h].device # e => directory'[h].device # e
      BY <1>8, FileFacts DEF KeyOf
    <2>3. ASSUME NEW q \in Busy(e), CarefulOp(op[q], e) PROVE CarefulOp(op[q], e)'
      <3>1. q \in Op \ {o}
        BY <2>1 DEF Busy
      <3> QED BY <1>2, <2>1, <2>2, <2>3, <3>1 DEF CarefulOp, FromFile, Readable
    <2> QED BY <2>1, <2>3 DEF CarefulInv
  <1>9. CarefulInv(d)'
    <2> SUFFICES ASSUME careful'[d]
                 PROVE  /\ \A q \in Busy(d)' : Busy(d)' = {q} /\ CarefulOp(op[q], d)'
                        /\ file'[d] = Torn => Busy(d)' # {}
      BY DEF CarefulInv
    <2>1. Busy(d) = {o}
      BY <1>3 DEF IInv, CarefulInv
    <2>2. CASE r.pc = "idle"
      BY <1>4, <2>1, <2>2
    <2>3. CASE r.pc # "idle"
      <3>1. Busy(d)' = {o}
        BY <1>4, <2>1, <2>3
      <3>2. CarefulOp(op[o], d)'
        BY <2>3 DEF CarefulOp, FromFile
      <3> QED BY <3>1, <3>2
    <2> QED BY <2>2, <2>3
  <1>10. ReportStands'
    <2> SUFFICES ASSUME NEW e \in Device, vouched'[e] # NoFile
                 PROVE  directory'[vouched'[e].handle] = vouched'[e].key /\ file'[e] = vouched'[e]
      BY DEF ReportStands
    <2>1. CASE vouched'[e] = vouched[e] /\ file'[e] = file[e]
      <3>1. directory[vouched[e].handle] = vouched[e].key /\ file[e] = vouched[e]
        BY <2>1 DEF IInv, ReportStands
      <3>2. vouched[e] \in Identity
        BY DEF IInv, TypeOK
      <3>3. vouched[e].handle \in Handle /\ vouched[e].key # NoKey
        BY <2>1, <3>1, <3>2, FileFacts, KeyFacts DEF IInv, FileInv, Readable, KeyOf
      <3> QED BY <2>1, <3>1, <3>3
    <2> QED BY <2>1
  <1>11. NoOrphan'
    <2> SUFFICES ASSUME NEW e \in Device, NEW h \in Handle, careful'[e], directory'[h].device = e
                 PROVE  \/ file'[e].key = directory'[h]
                        \/ \E q \in Busy(e)' : op'[q].id.key = directory'[h]
      BY DEF NoOrphan
    <2>1. CASE e = d
      <3>1. r.pc # "idle" => o \in Busy(d)'
        BY <1>3, <1>4
      <3> QED BY <2>1, <3>1
    <2>2. CASE e # d
      <3>1. directory'[h] = directory[h] /\ careful[e] /\ file'[e] = file[e]
        BY <2>2, FileFacts DEF KeyOf
      <3>2. \A q \in Busy(e) : q \in Op \ {o}
        BY <2>2 DEF Busy
      <3> QED BY <1>2, <1>4, <2>2, <3>1, <3>2 DEF IInv, NoOrphan
    <2> QED BY <2>1, <2>2
  <1> QED BY <1>5, <1>6, <1>7, <1>8, <1>9, <1>10, <1>11 DEF IInv

\* What holds of the operation that takes a step.
LEMMA Runner ==
  ASSUME IInv, NEW o \in Op, op[o].pc # "idle"
  PROVE  /\ op \in [Op -> OpType] /\ op[o] \in OpType /\ op[o].device \in Device
         /\ OpInv(op[o]) /\ op[o].kind \in Kind /\ (op[o].calm => Knows(op[o]))
         /\ directory \in [Handle -> Key \cup {NoKey}]
         /\ file \in [Device -> Identity \cup {Torn}]
         /\ generated \in [Device -> Nat]
         /\ careful \in [Device -> BOOLEAN] /\ vouched \in [Device -> Identity]
         /\ Idle \in OpType /\ OpInv(Idle) /\ Idle.pc = "idle"
         /\ Readable(op[o].device) =>
               /\ file[op[o].device] \in Identity
               /\ file[op[o].device].handle \in Handle
               /\ KeyOf(file[op[o].device].key, op[o].device)
         /\ careful[op[o].device] =>
               /\ CarefulOp(op[o], op[o].device)
               /\ \A h \in Handle : directory[h].device = op[o].device =>
                     \/ file[op[o].device].key = directory[h]
                     \/ op[o].id.key = directory[h]
  <1>1. op \in [Op -> OpType] /\ op[o] \in OpType /\ OpInv(op[o])
    BY DEF IInv, TypeOK, OpType
  <1>2. op[o].device \in Device /\ op[o].kind \in Kind /\ o \in Busy(op[o].device)
    BY <1>1 DEF OpInv, Busy
  <1>3. op[o].calm => Knows(op[o])
    BY DEF IInv, CalmInv
  <1>4. Idle \in OpType /\ OpInv(Idle) /\ Idle.pc = "idle"
    BY FileFacts DEF OpType, Idle, OpInv
  <1>5. /\ directory \in [Handle -> Key \cup {NoKey}]
        /\ file \in [Device -> Identity \cup {Torn}] /\ generated \in [Device -> Nat]
        /\ careful \in [Device -> BOOLEAN] /\ vouched \in [Device -> Identity]
    BY DEF IInv, TypeOK, FileInv
  <1>6. Readable(op[o].device) =>
               /\ file[op[o].device] \in Identity
               /\ file[op[o].device].handle \in Handle
               /\ KeyOf(file[op[o].device].key, op[o].device)
    BY <1>2, <1>5 DEF IInv, FileInv, Readable
  <1>7. ASSUME careful[op[o].device]
        PROVE  /\ CarefulOp(op[o], op[o].device)
               /\ \A h \in Handle : directory[h].device = op[o].device =>
                     \/ file[op[o].device].key = directory[h]
                     \/ op[o].id.key = directory[h]
    <2>1. Busy(op[o].device) = {o} /\ CarefulOp(op[o], op[o].device)
      BY <1>2, <1>7 DEF IInv, CarefulInv
    <2> QED BY <1>2, <1>7, <2>1 DEF IInv, NoOrphan
  <1> QED BY <1>1, <1>2, <1>3, <1>4, <1>5, <1>6, <1>7

\* Operation o goes on with record r, and the directory and the files stay.
LEMMA QuietStep ==
  ASSUME IInv, NEW o \in Op, NEW d \in Device, op[o].pc # "idle", op[o].device = d,
         NEW r \in OpType, op' = [op EXCEPT ![o] = r],
         r = Idle \/ (r.pc # "idle" /\ r.device = d /\ (r.calm => op[o].calm)),
         OpInv(r), UNCHANGED <<directory, file, vouched>>,
         generated' \in [Device -> Nat], \A e \in Device : generated'[e] <= MaxKeys[e],
         careful' \in {careful, [careful EXCEPT ![d] = FALSE]},
         r.pc # "idle" /\ r.calm => Knows(r), r.pc # "write",
         careful'[d] =>
            /\ r.pc # "idle" => CarefulOp(r, d)
            /\ r.pc = "idle" => file[d] # Torn
            /\ \A h \in Handle : directory[h].device = d =>
                  \/ file[d].key = directory[h]
                  \/ r.pc # "idle" /\ r.id.key = directory[h]
  PROVE  IInv'
  <1>1. /\ op \in [Op -> OpType] /\ op' \in [Op -> OpType] /\ op'[o] = r
        /\ \A p \in Op \ {o} : op'[p] \in {op[p], [op[p] EXCEPT !.calm = FALSE]}
        /\ careful \in [Device -> BOOLEAN]
    BY DEF IInv, TypeOK, OpType
  <1>2. /\ \A e \in Device \ {d} : careful'[e] = careful[e]
        /\ careful'[d] => careful[d]
        /\ careful' \in [Device -> BOOLEAN]
    <2>1. CASE careful' = careful
      BY <1>1, <2>1
    <2>2. CASE careful' = [careful EXCEPT ![d] = FALSE]
      BY <1>1, <2>2
    <2> QED BY <2>1, <2>2
  <1>3. TypeOK'
    <2>1. \A e \in Device : generated'[e] \in 0 .. MaxKeys[e]
      BY MaxKeysAssumption
    <2> QED BY <1>1, <1>2, <2>1 DEF IInv, TypeOK, OpType
  <1>4. FileInv'
    BY DEF IInv, FileInv, Readable
  <1>5. /\ Knows(r)' = Knows(r) /\ CarefulOp(r, d)' = CarefulOp(r, d)
    BY DEF Knows, CarefulOp, Readable
  <1> QED BY <1>1, <1>2, <1>3, <1>4, <1>5, StepInv

-----------------------------------------------------------------------------
(* The steps that change an operation only.                                 *)

LEMMA GenerateStep ==
  ASSUME IInv, NEW o \in Op, Generate(o)
  PROVE  IInv'
  <1> DEFINE p == op[o]
             d == p.device
             new == [device |-> d, n |-> generated[d] + 1]
             r == [p EXCEPT !.pc = IF p.kind = "shell" THEN "save" ELSE "register",
                            !.asked = NoHandle, !.id = [handle |-> p.asked, key |-> new]]
  <1>1. p.pc = "load" /\ p.pc # "idle" /\ UNCHANGED <<directory, file, vouched, careful>>
    BY DEF Generate, history
  <1>2. /\ op \in [Op -> OpType] /\ p \in OpType /\ d \in Device /\ OpInv(p)
        /\ generated \in [Device -> Nat] /\ generated[d] < MaxKeys[d]
        /\ p.kind \in {"force", "shell", "init", "web"}
        /\ generated' = [generated EXCEPT ![d] = @ + 1]
    BY <1>1, Runner DEF Generate, WithNewKey
  <1>3. op' = [op EXCEPT ![o] = r]
    BY <1>2 DEF Generate, WithNewKey, OpType
  <1>4. KeyOf(new, d)
    <2>1. generated[d] \in Nat /\ MaxKeys[d] \in Nat
      BY <1>2, MaxKeysAssumption
    <2>2. generated[d] + 1 \in Nat \ {0} /\ generated[d] + 1 <= MaxKeys[d]
      BY <1>2, <2>1
    <2> QED BY <1>2, <2>2, KeyFacts
  <1>5. /\ generated' \in [Device -> Nat]
        /\ \A e \in Device : generated'[e] <= MaxKeys[e]
    <2>1. \A e \in Device : generated[e] \in 0 .. MaxKeys[e] /\ MaxKeys[e] \in Nat
      BY MaxKeysAssumption DEF IInv, TypeOK
    <2> HIDE DEF d
    <2> QED BY <1>2, <2>1
  <1>6. [handle |-> p.asked, key |-> new] \in Identity
    BY <1>2, <1>4 DEF OpType, Identity, KeyOf
  <1>7. r \in OpType
    BY <1>2, <1>6 DEF OpType
  <1>8. /\ r.pc = (IF p.kind = "shell" THEN "save" ELSE "register") /\ r.kind = p.kind
        /\ r.device = d /\ r.again = p.again /\ r.calm = p.calm
        /\ r.id.handle = p.asked /\ r.id.key = new
    BY <1>2 DEF OpType
  <1> HIDE DEF r, new
  <1>9. p.asked \in Handle \cup {NoHandle} /\ ~p.again
    BY <1>1, <1>2 DEF OpType, OpInv
  <1>10. OpInv(r)
    BY <1>1, <1>2, <1>4, <1>8, <1>9 DEF OpInv, Kind
  <1>11. Knows(r)
    BY <1>8, <1>9 DEF Knows, Repeats
  <1>12. ASSUME careful[d]
         PROVE  CarefulOp(r, d) /\ \A h \in Handle : directory[h].device # d
    <2>1. CarefulOp(p, d) /\ p.id = NoFile
      BY <1>1, <1>2, <1>12, Runner DEF OpInv
    <2>2. p.kind \in {"init", "web"} /\ ~Readable(d) /\ file[d] # Torn
      BY <1>1, <1>2, <2>1 DEF Generate, CarefulOp, Keeps
    <2>3. \A h \in Handle : directory[h].device # d
      BY <1>1, <1>2, <1>12, <2>1, <2>2, Runner, FileFacts DEF Readable
    <2> QED BY <1>8, <1>9, <2>2, <2>3 DEF CarefulOp, FromFile
  <1> HIDE DEF d, p
  <1> QED BY <1>1, <1>2, <1>3, <1>5, <1>7, <1>8, <1>10, <1>11, <1>12, QuietStep DEF d, p

LEMMA LoadStep ==
  ASSUME IInv, NEW o \in Op, Load(o)
  PROVE  IInv'
  <1> DEFINE p == op[o]
             d == p.device
             r(c, h, again) == [p EXCEPT !.pc = c, !.again = again,
                                         !.id = [handle |-> h, key |-> file[d].key],
                                         !.asked = IF p.kind = "init" THEN @ ELSE NoHandle]
  <1>1. /\ p.pc = "load" /\ p.pc # "idle" /\ Readable(d)
        /\ UNCHANGED <<directory, file, generated, vouched, careful>>
    BY DEF Load, history
  <1>2. /\ op \in [Op -> OpType] /\ p \in OpType /\ d \in Device /\ OpInv(p)
        /\ file[d] \in Identity /\ file[d].handle \in Handle /\ KeyOf(file[d].key, d)
    BY <1>1, Runner
  <1>3. generated' \in [Device -> Nat] /\ \A e \in Device : generated'[e] <= MaxKeys[e]
    BY <1>1, MaxKeysAssumption DEF IInv, TypeOK, FileInv
  <1>4. \E c \in {"getkey", "register", "unregister"}, h \in Handle, again \in BOOLEAN :
          /\ op' = [op EXCEPT ![o] = r(c, h, again)]
          /\ \/ p.kind = "init" /\ c = "getkey" /\ again /\ h = file[d].handle
             \/ p.kind = "web" /\ c = "register" /\ again
             \/ p.kind = "refresh" /\ c = "register" /\ ~again
             \/ p.kind = "delete" /\ c = "unregister" /\ ~again
    <2>1. p.kind = "web" => p.asked \in Handle
      BY <1>1, <1>2 DEF OpInv, OpType
    <2>3. ASSUME p.kind = "init"
          PROVE  op' = [op EXCEPT ![o] = r("getkey", file[d].handle, TRUE)]
      <3>1. op' = [op EXCEPT ![o].pc = "getkey", ![o].again = TRUE,
                             ![o].id = [handle |-> file[d].handle, key |-> file[d].key],
                             ![o].asked = IF p.kind = "init" THEN @ ELSE NoHandle]
        BY <2>3 DEF Load
      <3> QED BY <1>2, <3>1 DEF OpType
    <2>4. ASSUME p.kind = "web"
          PROVE  op' = [op EXCEPT ![o] = r("register", p.asked, TRUE)]
      <3>1. op' = [op EXCEPT ![o].pc = "register", ![o].again = TRUE,
                             ![o].id = [handle |-> p.asked, key |-> file[d].key],
                             ![o].asked = IF p.kind = "init" THEN @ ELSE NoHandle]
        BY <2>4 DEF Load
      <3> QED BY <1>2, <3>1 DEF OpType
    <2>5. ASSUME p.kind = "refresh"
          PROVE  op' = [op EXCEPT ![o] = r("register", file[d].handle, FALSE)]
      <3>1. op' = [op EXCEPT ![o].pc = "register", ![o].again = FALSE,
                             ![o].id = [handle |-> file[d].handle, key |-> file[d].key],
                             ![o].asked = IF p.kind = "init" THEN @ ELSE NoHandle]
        BY <2>5 DEF Load
      <3> QED BY <1>2, <3>1 DEF OpType
    <2>6. ASSUME p.kind = "delete"
          PROVE  op' = [op EXCEPT ![o] = r("unregister", file[d].handle, FALSE)]
      <3>1. op' = [op EXCEPT ![o].pc = "unregister", ![o].again = FALSE,
                             ![o].id = [handle |-> file[d].handle, key |-> file[d].key],
                             ![o].asked = IF p.kind = "init" THEN @ ELSE NoHandle]
        BY <2>6 DEF Load
      <3> QED BY <1>2, <3>1 DEF OpType
    <2>7. p.kind \in {"init", "web", "refresh", "delete"}
      BY DEF Load
    <2> HIDE DEF r, p, d
    <2>8. CASE p.kind = "init"
      BY <1>2, <2>3, <2>8
    <2>9. CASE p.kind = "web"
      BY <2>1, <2>4, <2>9
    <2>10. CASE p.kind = "refresh"
      BY <1>2, <2>5, <2>10
    <2>11. CASE p.kind = "delete"
      BY <1>2, <2>6, <2>11
    <2> QED BY <2>7, <2>8, <2>9, <2>10, <2>11
  <1> SUFFICES
        ASSUME NEW c \in {"getkey", "register", "unregister"}, NEW h \in Handle,
               NEW again \in BOOLEAN, op' = [op EXCEPT ![o] = r(c, h, again)],
               \/ p.kind = "init" /\ c = "getkey" /\ again /\ h = file[d].handle
               \/ p.kind = "web" /\ c = "register" /\ again
               \/ p.kind = "refresh" /\ c = "register" /\ ~again
               \/ p.kind = "delete" /\ c = "unregister" /\ ~again
        PROVE  IInv'
    BY <1>4
  <1> DEFINE q == r(c, h, again)
  <1>5. [handle |-> h, key |-> file[d].key] \in Identity
    BY <1>2 DEF Identity, KeyOf
  <1>6. q \in OpType
    BY <1>2, <1>5 DEF OpType
  <1>7. /\ q.pc = c /\ q.kind = p.kind /\ q.device = d /\ q.again = again /\ q.calm = p.calm
        /\ q.id = [handle |-> h, key |-> file[d].key]
    BY <1>2 DEF OpType
  <1>8. op' = [op EXCEPT ![o] = q]
    OBVIOUS
  <1> HIDE DEF q, r
  <1>9. OpInv(q)
    BY <1>2, <1>7 DEF OpInv, Kind
  <1>10. Knows(q)
    <2>1. c = "getkey" => file[d] = q.id
      BY <1>2, <1>7 DEF Identity
    <2> QED BY <1>7, <2>1 DEF Knows, Repeats
  <1>11. ASSUME careful[d]
         PROVE  /\ CarefulOp(q, d)
                /\ \A x \in Handle : directory[x].device = d => file[d].key = directory[x]
    <2>1. CarefulOp(p, d) /\ p.id = NoFile
      BY <1>1, <1>2, <1>11, Runner DEF OpInv
    <2>2. \A x \in Handle : directory[x].device = d => file[d].key = directory[x]
      BY <1>1, <1>2, <1>11, <2>1, Runner, FileFacts
    <2> QED BY <1>1, <1>7, <2>1, <2>2 DEF CarefulOp, FromFile, Readable
  <1>12. /\ q.pc # "write" /\ q.pc # "idle" /\ careful' = careful
         /\ q.device = d /\ (q.calm => op[o].calm) /\ (q.pc # "idle" /\ q.calm => Knows(q))
    BY <1>1, <1>7, <1>10
  <1>13. careful'[d] =>
            /\ q.pc # "idle" => CarefulOp(q, d)
            /\ q.pc = "idle" => file[d] # Torn
            /\ \A x \in Handle : directory[x].device = d =>
                  \/ file[d].key = directory[x]
                  \/ q.pc # "idle" /\ q.id.key = directory[x]
    BY <1>11, <1>12
  <1> QED BY <1>1, <1>2, <1>3, <1>6, <1>7, <1>8, <1>9, <1>12, <1>13, QuietStep

\* An operation ends without a trace: its keypair is in the file or registered
\* nowhere, or the device is careful no more.
LEMMA EndStep ==
  ASSUME IInv, NEW o \in Op, op[o].pc # "idle", End(o),
         UNCHANGED <<directory, file, vouched, generated>>,
         \/ Careless(op[o].device)
         \/ /\ careful' = careful
            /\ careful[op[o].device] =>
                  /\ file[op[o].device] # Torn
                  /\ \A h \in Handle : directory[h].device = op[o].device =>
                        file[op[o].device].key = directory[h]
  PROVE  IInv'
  <1> DEFINE d == op[o].device
             r == Idle
  <1>1. d \in Device /\ Idle \in OpType /\ OpInv(Idle) /\ Idle.pc = "idle"
        /\ careful \in [Device -> BOOLEAN]
    BY Runner
  <1>2. generated' \in [Device -> Nat] /\ \A e \in Device : generated'[e] <= MaxKeys[e]
    BY MaxKeysAssumption DEF IInv, TypeOK, FileInv
  <1>3. op' = [op EXCEPT ![o] = Idle] /\ Idle.pc # "write"
    BY DEF End, Idle
  <1>4. careful' \in {careful, [careful EXCEPT ![d] = FALSE]} /\ (Careless(d) => ~careful'[d])
    BY <1>1 DEF Careless
  <1>5. r \in OpType /\ r = Idle /\ OpInv(r) /\ op' = [op EXCEPT ![o] = r]
        /\ r.pc = "idle" /\ r.pc # "write"
    BY <1>1, <1>3
  <1> HIDE DEF r
  <1>6. careful'[d] =>
            /\ r.pc # "idle" => CarefulOp(r, d)
            /\ r.pc = "idle" => file[d] # Torn
            /\ \A h \in Handle : directory[h].device = d =>
                  \/ file[d].key = directory[h]
                  \/ r.pc # "idle" /\ r.id.key = directory[h]
    BY <1>1, <1>4, <1>5
  <1>7. UNCHANGED <<directory, file, vouched>>
    OBVIOUS
  <1> QED BY <1>1, <1>2, <1>4, <1>5, <1>6, <1>7, QuietStep

LEMMA LoadNothingStep ==
  ASSUME IInv, NEW o \in Op, LoadNothing(o)
  PROVE  IInv'
  <1> DEFINE p == op[o]
             d == p.device
             r == [p EXCEPT !.pc = "remove"]
  <1>1. /\ p.pc = "load" /\ ~Readable(d) /\ UNCHANGED <<directory, file, generated, vouched, careful>>
        /\ p \in OpType /\ d \in Device /\ OpInv(p)
    BY Runner DEF LoadNothing, history
  <1>2. CASE p.kind = "refresh"
    <2>1. End(o)
      BY <1>2 DEF LoadNothing
    <2>2. ~careful[d]
      BY <1>1, <1>2, Runner DEF CarefulOp
    <2> QED BY <1>1, <2>1, <2>2, EndStep
  <1>3. CASE p.kind = "delete"
    <2>1. op' = [op EXCEPT ![o] = r] /\ r \in OpType
      BY <1>1, <1>3, Runner DEF LoadNothing, Go, OpType
    <2>2. /\ r.pc = "remove" /\ r.kind = "delete" /\ r.device = d /\ r.calm = p.calm
          /\ r.id = p.id
      BY <1>1, <1>3 DEF OpType
    <2>3. generated' \in [Device -> Nat] /\ \A e \in Device : generated'[e] <= MaxKeys[e]
      BY <1>1, MaxKeysAssumption DEF IInv, TypeOK, FileInv
    <2> HIDE DEF r
    <2>4. OpInv(r) /\ Knows(r)
      BY <1>1, <2>2 DEF OpInv, Knows, Repeats, Kind
    <2>5. careful'[d] =>
            /\ r.pc # "idle" => CarefulOp(r, d)
            /\ r.pc = "idle" => file[d] # Torn
            /\ \A h \in Handle : directory[h].device = d =>
                  \/ file[d].key = directory[h]
                  \/ r.pc # "idle" /\ r.id.key = directory[h]
      BY <1>1, <2>2, Runner DEF CarefulOp, FromFile
    <2> QED BY <1>1, <2>1, <2>2, <2>3, <2>4, <2>5, QuietStep
  <1> QED BY <1>2, <1>3 DEF LoadNothing

\* GET /keys says that another key is registered, or fails.
LEMMA ReregisterStep ==
  ASSUME IInv, NEW o \in Op, NotRegistered(o) \/ GetKeyFails(o)
  PROVE  IInv'
  <1> DEFINE p == op[o]
             d == p.device
  <1>1. /\ p.pc = "getkey" /\ UNCHANGED <<directory, file, generated, vouched, careful>>
        /\ p \in OpType /\ d \in Device /\ OpInv(p) /\ op \in [Op -> OpType]
    BY Runner DEF NotRegistered, GetKeyFails, history
  <1>2. PICK c \in BOOLEAN : Reregister(o, c) /\ (c => IsUnknown(o))
    BY DEF NotRegistered, GetKeyFails
  <1>3. p.kind = "init" /\ p.again /\ p.id.handle \in Handle /\ KeyOf(p.id.key, d)
    BY <1>1 DEF OpInv
  <1>4. \E h \in Handle :
           /\ p.asked = NoHandle => h = p.id.handle
           /\ op' = [op EXCEPT ![o] =
                       [p EXCEPT !.pc = "register", !.calm = p.calm /\ c,
                                 !.id = [handle |-> h, key |-> p.id.key]]]
    <2> DEFINE h == IF p.asked = NoHandle THEN p.id.handle ELSE p.asked
    <2>1. h \in Handle /\ p.id \in Identity
      BY <1>1, <1>3 DEF OpType
    <2>2. [p.id EXCEPT !.handle = h] = [handle |-> h, key |-> p.id.key]
      <3> HIDE DEF h
      <3> QED BY <2>1 DEF Identity
    <2>3. op' = [op EXCEPT ![o] = [p EXCEPT !.pc = "register", !.calm = @ /\ c,
                                            !.id = [p.id EXCEPT !.handle = h]]]
      BY <1>1, <1>2, <2>1 DEF Reregister, OpType
    <2> HIDE DEF h
    <2>4. p.asked = NoHandle => h = p.id.handle
      BY DEF h
    <2> QED BY <2>1, <2>2, <2>3, <2>4
  <1> SUFFICES
        ASSUME NEW h \in Handle, p.asked = NoHandle => h = p.id.handle,
               op' = [op EXCEPT ![o] =
                              [p EXCEPT !.pc = "register", !.calm = p.calm /\ c,
                                        !.id = [handle |-> h, key |-> p.id.key]]]
        PROVE  IInv'
    BY <1>4
  <1> DEFINE r == [p EXCEPT !.pc = "register", !.calm = p.calm /\ c,
                            !.id = [handle |-> h, key |-> p.id.key]]
  <1>5. [handle |-> h, key |-> p.id.key] \in Identity
    BY <1>3 DEF Identity, KeyOf
  <1>6. r \in OpType
    BY <1>1, <1>5 DEF OpType
  <1>7. /\ r.pc = "register" /\ r.kind = "init" /\ r.device = d /\ r.calm = (p.calm /\ c)
        /\ r.again /\ r.asked = p.asked /\ r.id.handle = h /\ r.id.key = p.id.key
    BY <1>1, <1>3 DEF OpType
  <1>8. generated' \in [Device -> Nat] /\ \A e \in Device : generated'[e] <= MaxKeys[e]
    BY <1>1, MaxKeysAssumption DEF IInv, TypeOK, FileInv
  <1>9. op' = [op EXCEPT ![o] = r]
    OBVIOUS
  <1> HIDE DEF r
  <1>10. OpInv(r)
    BY <1>1, <1>3, <1>7 DEF OpInv, Kind
  <1>11. r.calm => Knows(r)
    BY <1>2, <1>7 DEF Knows, Repeats, IsUnknown
  <1>12. careful'[d] =>
            /\ r.pc # "idle" => CarefulOp(r, d)
            /\ r.pc = "idle" => file[d] # Torn
            /\ \A x \in Handle : directory[x].device = d =>
                  \/ file[d].key = directory[x]
                  \/ r.pc # "idle" /\ r.id.key = directory[x]
    BY <1>1, <1>7, Runner DEF CarefulOp, FromFile
  <1>13. r.pc # "write" /\ r.pc # "idle" /\ careful' = careful /\ (r.calm => op[o].calm)
         /\ p.pc # "idle"
    BY <1>1, <1>7
  <1> QED BY <1>1, <1>6, <1>7, <1>8, <1>9, <1>10, <1>11, <1>12, <1>13, QuietStep

LEMMA UnregisterFailsStep ==
  ASSUME IInv, NEW o \in Op, UnregisterFails(o)
  PROVE  IInv'
  <1> DEFINE p == op[o]
             d == p.device
             r == [p EXCEPT !.pc = "remove", !.calm = FALSE]
  <1>1. /\ p.pc = "unregister" /\ UNCHANGED <<directory, file, generated, vouched, careful>>
        /\ p \in OpType /\ d \in Device /\ OpInv(p) /\ op \in [Op -> OpType]
    BY Runner DEF UnregisterFails, history
  <1>2. op' = [op EXCEPT ![o] = r] /\ r \in OpType
    BY <1>1 DEF UnregisterFails, OpType
  <1>3. /\ r.pc = "remove" /\ r.kind = "delete" /\ r.device = d /\ ~r.calm /\ r.id = p.id
    BY <1>1 DEF OpType, OpInv
  <1>4. generated' \in [Device -> Nat] /\ \A e \in Device : generated'[e] <= MaxKeys[e]
    BY <1>1, MaxKeysAssumption DEF IInv, TypeOK, FileInv
  <1> HIDE DEF r
  <1>5. OpInv(r)
    BY <1>1, <1>3 DEF OpInv, Kind
  <1>6. careful'[d] =>
            /\ r.pc # "idle" => CarefulOp(r, d)
            /\ r.pc = "idle" => file[d] # Torn
            /\ \A x \in Handle : directory[x].device = d =>
                  \/ file[d].key = directory[x]
                  \/ r.pc # "idle" /\ r.id.key = directory[x]
    BY <1>1, <1>3, Runner DEF CarefulOp, FromFile
  <1> QED BY <1>1, <1>2, <1>3, <1>4, <1>5, <1>6, QuietStep

LEMMA StopStep ==
  ASSUME IInv, NEW o \in Op, SaveFails(o) \/ Kill(o)
  PROVE  IInv'
  BY EndStep DEF SaveFails, Kill

-----------------------------------------------------------------------------
(* POST /keys.                                                              *)

\* The operation goes on to save its identity under handle h: a record of what
\* that does, whatever the answer.
Saving(p, h, calm) ==
    [p EXCEPT !.pc = "save", !.asked = NoHandle, !.calm = calm,
              !.id = [handle |-> h, key |-> p.id.key]]

LEMMA SavingFacts ==
  ASSUME IInv, NEW o \in Op, op[o].pc = "register", NEW h \in Handle, NEW a \in BOOLEAN,
         op[o].kind \in {"web", "init", "force"}
  PROVE  /\ Saving(op[o], h, a) \in OpType /\ OpInv(Saving(op[o], h, a))
         /\ Saving(op[o], h, a).pc = "save" /\ Saving(op[o], h, a).kind = op[o].kind
         /\ Saving(op[o], h, a).device = op[o].device /\ Saving(op[o], h, a).calm = a
         /\ Saving(op[o], h, a).id = [handle |-> h, key |-> op[o].id.key]
  <1>1. op[o] \in OpType /\ OpInv(op[o]) /\ op[o].device \in Device
    BY Runner
  <1>2. KeyOf(op[o].id.key, op[o].device)
    BY <1>1 DEF OpInv
  <1>3. [handle |-> h, key |-> op[o].id.key] \in Identity
    BY <1>2 DEF Identity, KeyOf
  <1> DEFINE r == Saving(op[o], h, a)
  <1>4. r \in OpType
    BY <1>1, <1>3 DEF OpType, Saving
  <1>5. /\ r.pc = "save" /\ r.kind = op[o].kind /\ r.device = op[o].device /\ r.calm = a
        /\ r.id = [handle |-> h, key |-> op[o].id.key]
    BY <1>1 DEF OpType, Saving
  <1> HIDE DEF r
  <1>6. OpInv(r)
    BY <1>1, <1>2, <1>5 DEF OpInv, Kind
  <1> QED BY <1>4, <1>5, <1>6 DEF r

\* What a careful operation that registers knows of the directory and the file.
LEMMA CarefulRegister ==
  ASSUME IInv, NEW o \in Op, op[o].pc = "register", careful[op[o].device]
  PROVE  /\ op[o].kind \in {"init", "web"} /\ file[op[o].device] # Torn
         /\ \/ ~Readable(op[o].device)
            \/ op[o].id.key = file[op[o].device].key
         /\ op[o].again => op[o].id.key = file[op[o].device].key
         /\ \A h \in Handle : directory[h].device = op[o].device
               => op[o].again /\ directory[h] = op[o].id.key
  <1>1. CarefulOp(op[o], op[o].device) /\ OpInv(op[o])
    BY Runner
  <1>2. op[o].kind \in {"init", "web"}
    BY <1>1 DEF CarefulOp, OpInv
  <1> QED BY <1>1, <1>2, Runner DEF CarefulOp, FromFile

\* The relay answers, or not; h is registered for the key of the operation, or
\* nothing changes; the operation saves, or ends.
LEMMA AnswerStep ==
  ASSUME IInv, NEW o \in Op, op[o].pc = "register", NEW d \in Device, op[o].device = d,
         NEW h \in Handle,
         \/ directory' = directory
         \/ directory[h] = NoKey /\ directory' = [directory EXCEPT ![h] = op[o].id.key],
         UNCHANGED <<file, generated, vouched>>,
         careful' \in {careful, [careful EXCEPT ![d] = FALSE]},
         NEW a \in BOOLEAN, a => op[o].calm,
         \/ /\ op' = [op EXCEPT ![o] = Saving(op[o], h, a)]
            /\ op[o].kind \in {"web", "init", "force"}
            /\ a /\ op[o].kind \in {"init", "force"} => directory'[h] = op[o].id.key
         \/ /\ op' = [op EXCEPT ![o] = Idle]
            /\ careful'[d] /\ directory' # directory => op[o].again
  PROVE  IInv'
  <1> DEFINE p == op[o]
  <1>1. /\ p \in OpType /\ p.device = d /\ OpInv(p) /\ op \in [Op -> OpType]
        /\ directory \in [Handle -> Key \cup {NoKey}] /\ careful \in [Device -> BOOLEAN]
    BY Runner
  <1>2. KeyOf(p.id.key, d)
    BY <1>1 DEF OpInv
  <1>3. \A x \in Handle :
           \/ directory'[x] = directory[x]
           \/ directory[x] = NoKey /\ KeyOf(directory'[x], d) /\ directory'[x] = p.id.key
    BY <1>1, <1>2
  <1>4. /\ directory' \in [Handle -> Key \cup {NoKey}]
        /\ careful' \in [Device -> BOOLEAN] /\ (careful'[d] => careful[d])
        /\ \A e \in Device \ {d} : careful'[e] = careful[e] /\ file'[e] = file[e]
    BY <1>1, <1>2 DEF KeyOf
  <1>5. FileInv'
    BY DEF IInv, FileInv, Readable
  <1>6. ASSUME careful'[d]
        PROVE  /\ p.kind \in {"init", "web"} /\ file[d] # Torn
               /\ ~Readable(d) \/ p.id.key = file[d].key
               /\ p.again => p.id.key = file[d].key
               /\ \A x \in Handle : directory[x].device = d => p.again /\ directory[x] = p.id.key
    BY <1>4, <1>6, CarefulRegister
  <1>7. CASE /\ op' = [op EXCEPT ![o] = Saving(p, h, a)]
             /\ p.kind \in {"web", "init", "force"}
             /\ a /\ p.kind \in {"init", "force"} => directory'[h] = p.id.key
    <2> SUFFICES ASSUME NEW r, r = Saving(p, h, a) PROVE IInv'
      OBVIOUS
    <2>1. /\ r \in OpType /\ OpInv(r) /\ r.pc = "save" /\ r.kind = p.kind
          /\ r.device = d /\ r.calm = a /\ r.id = [handle |-> h, key |-> p.id.key]
      BY <1>7, SavingFacts
    <2>2. op' = [op EXCEPT ![o] = r]
      BY <1>7
    <2>3. /\ op' \in [Op -> OpType] /\ op'[o] = r
          /\ \A q \in Op \ {o} : op'[q] \in {op[q], [op[q] EXCEPT !.calm = FALSE]}
      BY <1>1, <2>1, <2>2
    <2>4. TypeOK'
      BY <1>4, <2>3 DEF IInv, TypeOK, OpType
    <2>5. r.pc # "idle" /\ r.calm => Knows(r)'
      BY <1>7, <2>1 DEF Knows, Repeats
    <2>6. careful'[d] =>
            /\ r.pc # "idle" => CarefulOp(r, d)'
            /\ r.pc = "idle" => file'[d] # Torn
            /\ \A x \in Handle : directory'[x].device = d =>
                  \/ file'[d].key = directory'[x]
                  \/ r.pc # "idle" /\ r.id.key = directory'[x]
      <3> SUFFICES ASSUME careful'[d]
                   PROVE  /\ CarefulOp(r, d)'
                          /\ \A x \in Handle : directory'[x].device = d => r.id.key = directory'[x]
        BY <2>1
      <3>1. CarefulOp(r, d)'
        BY <1>6, <2>1 DEF CarefulOp, FromFile, Readable
      <3> QED BY <1>3, <1>6, <2>1, <3>1
    <2>7. \/ vouched'[d] = NoFile
          \/ vouched'[d] = vouched[d] /\ file'[d] = file[d]
      OBVIOUS
    <2>8. /\ \A e \in Device \ {d} : vouched'[e] \in {vouched[e], NoFile}
          /\ op[o].pc # "idle" /\ r.pc # "write" /\ r.pc # "idle" /\ (r.calm => op[o].calm)
      BY <2>1
    <2> QED BY <1>1, <1>3, <1>4, <1>5, <2>1, <2>3, <2>4, <2>5, <2>6, <2>7, <2>8, StepInv
  <1>8. CASE /\ op' = [op EXCEPT ![o] = Idle]
             /\ careful'[d] /\ directory' # directory => p.again
    <2> SUFFICES ASSUME NEW r, r = Idle PROVE IInv'
      OBVIOUS
    <2>1. r \in OpType /\ r = Idle /\ OpInv(r) /\ r.pc = "idle" /\ op' = [op EXCEPT ![o] = r]
      BY <1>8, Runner
    <2>3. /\ op' \in [Op -> OpType] /\ op'[o] = r
          /\ \A q \in Op \ {o} : op'[q] \in {op[q], [op[q] EXCEPT !.calm = FALSE]}
      BY <1>1, <2>1
    <2>4. TypeOK'
      BY <1>4, <2>3 DEF IInv, TypeOK, OpType
    <2>6. careful'[d] =>
            /\ r.pc # "idle" => CarefulOp(r, d)'
            /\ r.pc = "idle" => file'[d] # Torn
            /\ \A x \in Handle : directory'[x].device = d =>
                  \/ file'[d].key = directory'[x]
                  \/ r.pc # "idle" /\ r.id.key = directory'[x]
      <3> SUFFICES ASSUME careful'[d]
                   PROVE  /\ file'[d] # Torn
                          /\ \A x \in Handle : directory'[x].device = d => file'[d].key = directory'[x]
        BY <2>1
      <3> QED BY <1>3, <1>6, <1>8
    <2>7. \/ vouched'[d] = NoFile
          \/ vouched'[d] = vouched[d] /\ file'[d] = file[d]
      OBVIOUS
    <2>8. /\ \A e \in Device \ {d} : vouched'[e] \in {vouched[e], NoFile}
          /\ op[o].pc # "idle" /\ r.pc # "write"
      BY <2>1
    <2> QED BY <1>1, <1>3, <1>4, <1>5, <2>1, <2>3, <2>4, <2>6, <2>7, <2>8, StepInv
  <1> QED BY <1>7, <1>8

\* Both ways an answer goes on.
LEMMA AfterRegisterEffect ==
  ASSUME IInv, NEW o \in Op, op[o].pc = "register", NEW h \in Handle,
         NEW answer \in {"created", "conflict", "failed"}, AfterRegister(o, h, answer)
  PROVE  \/ /\ op' = [op EXCEPT ![o] = Saving(op[o], h, op[o].calm /\ answer # "failed")]
            /\ op[o].kind = "web" \/ answer = "created"
            /\ op[o].kind \in {"web", "init", "force"}
         \/ /\ op' = [op EXCEPT ![o] = Idle]
            /\ op[o].kind # "web"
            /\ op[o].kind \in {"init", "force"} => answer # "created"
  <1>1. op[o] \in OpType /\ op \in [Op -> OpType]
    BY Runner
  <1>2. op[o].id \in Identity
    BY <1>1 DEF OpType
  <1>3. [op[o].id EXCEPT !.handle = h] = [handle |-> h, key |-> op[o].id.key]
    BY <1>2 DEF Identity
  <1>4. CASE \/ op[o].kind = "web"
             \/ op[o].kind \in {"init", "force"} /\ answer = "created"
    <2>1. op' = [op EXCEPT ![o] = [op[o] EXCEPT !.pc = "save", !.asked = NoHandle,
                                     !.id = [op[o].id EXCEPT !.handle = h],
                                     !.calm = op[o].calm /\ answer # "failed"]]
      BY <1>1, <1>2, <1>4 DEF AfterRegister, OpType
    <2>2. op' = [op EXCEPT ![o] = Saving(op[o], h, op[o].calm /\ answer # "failed")]
      BY <1>1, <1>3, <2>1 DEF Saving, OpType
    <2> QED BY <1>4, <2>2
  <1>5. CASE ~ \/ op[o].kind = "web"
               \/ op[o].kind \in {"init", "force"} /\ answer = "created"
    BY <1>5 DEF AfterRegister, End
  <1> QED BY <1>4, <1>5

LEMMA WantedType ==
  ASSUME IInv, NEW o \in Op, op[o].pc = "register"
  PROVE  Wanted(o) \subseteq Handle
  <1>1. op[o].id.handle \in Handle \cup {NoHandle}
    BY Runner DEF OpType, Identity
  <1> QED BY <1>1 DEF Wanted

LEMMA RegisterStep ==
  ASSUME IInv, NEW o \in Op,
         RegisterCreated(o) \/ RegisterConflict(o) \/ RegisterFails(o)
  PROVE  IInv'
  <1>1. op[o].pc = "register" /\ UNCHANGED <<file, generated, vouched>>
    BY DEF RegisterCreated, RegisterConflict, RegisterFails, history
  <1>2. Wanted(o) \subseteq Handle /\ op[o].calm \in BOOLEAN
    BY <1>1, WantedType, Runner DEF OpType
  <1> SUFFICES ASSUME NEW d \in Device, op[o].device = d PROVE IInv'
    BY <1>1, Runner
  <1>3. CASE RegisterCreated(o)
    <2>1. PICK h \in Wanted(o) : /\ directory[h] = NoKey
                                 /\ directory' = [directory EXCEPT ![h] = op[o].id.key]
                                 /\ AfterRegister(o, h, "created")
      BY <1>3 DEF RegisterCreated
    <2>2. directory'[h] = op[o].id.key /\ careful' = careful
      BY <1>2, <1>3, <2>1, Runner, <1>1 DEF RegisterCreated, history
    <2>3. careful[d] => op[o].kind \in {"init", "web"}
      BY <1>1, CarefulRegister
    <2>4. \/ /\ op' = [op EXCEPT ![o] = Saving(op[o], h, op[o].calm)]
             /\ op[o].kind \in {"web", "init", "force"}
          \/ op' = [op EXCEPT ![o] = Idle] /\ op[o].kind \notin {"web", "init", "force"}
      BY <1>1, <1>2, <2>1, AfterRegisterEffect
    <2>5. \/ /\ op' = [op EXCEPT ![o] = Saving(op[o], h, op[o].calm)]
             /\ op[o].kind \in {"web", "init", "force"}
             /\ op[o].calm /\ op[o].kind \in {"init", "force"} => directory'[h] = op[o].id.key
          \/ /\ op' = [op EXCEPT ![o] = Idle]
             /\ careful'[d] /\ directory' # directory => op[o].again
      BY <2>2, <2>3, <2>4
    <2>6. h \in Handle /\ careful' \in {careful, [careful EXCEPT ![d] = FALSE]}
      BY <1>2, <2>2
    <2>7. /\ op[o].pc = "register" /\ UNCHANGED <<file, generated, vouched>>
          /\ directory[h] = NoKey /\ directory' = [directory EXCEPT ![h] = op[o].id.key]
          /\ op[o].calm \in BOOLEAN
      BY <1>1, <1>2, <2>1
    <2>8. CASE /\ op' = [op EXCEPT ![o] = Saving(op[o], h, op[o].calm)]
               /\ op[o].kind \in {"web", "init", "force"}
               /\ op[o].calm /\ op[o].kind \in {"init", "force"} => directory'[h] = op[o].id.key
      BY <2>6, <2>7, <2>8, AnswerStep
    <2>9. CASE /\ op' = [op EXCEPT ![o] = Idle]
               /\ careful'[d] /\ directory' # directory => op[o].again
      BY <2>6, <2>7, <2>9, AnswerStep
    <2> QED BY <2>5, <2>8, <2>9
  <1>4. CASE RegisterConflict(o)
    <2>1. PICK h \in Wanted(o) : AfterRegister(o, h, "conflict")
      BY <1>4 DEF RegisterConflict
    <2>2. directory' = directory /\ careful' = careful
      BY <1>4 DEF RegisterConflict, history
    <2>3. \/ op' = [op EXCEPT ![o] = Saving(op[o], h, op[o].calm)] /\ op[o].kind = "web"
          \/ op' = [op EXCEPT ![o] = Idle]
      BY <1>1, <1>2, <2>1, AfterRegisterEffect
    <2>4. \/ /\ op' = [op EXCEPT ![o] = Saving(op[o], h, op[o].calm)]
             /\ op[o].kind \in {"web", "init", "force"}
             /\ op[o].calm /\ op[o].kind \in {"init", "force"} => directory'[h] = op[o].id.key
          \/ /\ op' = [op EXCEPT ![o] = Idle]
             /\ careful'[d] /\ directory' # directory => op[o].again
      BY <2>2, <2>3
    <2>5. h \in Handle /\ careful' \in {careful, [careful EXCEPT ![d] = FALSE]}
      BY <1>2, <2>2
    <2> QED BY <1>1, <1>2, <2>2, <2>4, <2>5, AnswerStep
  <1>5. CASE RegisterFails(o)
    <2>1. PICK h \in Wanted(o) :
            /\ \/ UNCHANGED directory
               \/ /\ directory[h] = NoKey
                  /\ directory' = [directory EXCEPT ![h] = op[o].id.key]
            /\ AfterRegister(o, h, "failed")
      BY <1>5 DEF RegisterFails
    <2>2. /\ careful' \in {careful, [careful EXCEPT ![d] = FALSE]}
          /\ op[o].kind \in {"init", "force"} /\ ~op[o].again => ~careful'[d]
      BY <1>1, <1>5, Runner DEF RegisterFails, Careless
    <2>3. \/ op' = [op EXCEPT ![o] = Saving(op[o], h, FALSE)] /\ op[o].kind = "web"
          \/ op' = [op EXCEPT ![o] = Idle] /\ op[o].kind # "web"
      BY <1>1, <1>2, <2>1, AfterRegisterEffect
    <2>4. careful'[d] => op[o].kind \in {"init", "web"}
      BY <1>1, <2>2, CarefulRegister, Runner
    <2>5. op[o].kind # "web" /\ careful'[d] => op[o].again
      BY <1>1, <2>2, <2>4, Runner DEF OpType
    <2>6. \/ /\ op' = [op EXCEPT ![o] = Saving(op[o], h, FALSE)]
             /\ op[o].kind \in {"web", "init", "force"}
             /\ FALSE /\ op[o].kind \in {"init", "force"} => directory'[h] = op[o].id.key
          \/ /\ op' = [op EXCEPT ![o] = Idle]
             /\ careful'[d] /\ directory' # directory => op[o].again
      BY <2>3, <2>5
    <2>7. \/ directory' = directory
          \/ directory[h] = NoKey /\ directory' = [directory EXCEPT ![h] = op[o].id.key]
      BY <2>1
    <2>8. h \in Handle
      BY <1>2
    <2> QED BY <1>1, <2>2, <2>6, <2>7, <2>8, AnswerStep
  <1> QED BY <1>3, <1>4, <1>5

-----------------------------------------------------------------------------
(* The report, the identity file and the end of an account.                 *)

\* Operation o of device d goes on with record r, or ends, registers nothing and
\* leaves f in the file and v vouched for.
FileEffect(o, d, r, f, v) ==
    /\ op[o].pc # "idle" /\ op[o].device = d /\ op' = [op EXCEPT ![o] = r]
    /\ r = Idle \/ (r.pc # "idle" /\ r.device = d /\ (r.calm => op[o].calm))
    /\ OpInv(r) /\ UNCHANGED <<directory, generated>>
    /\ file' = [file EXCEPT ![d] = f] /\ vouched' = [vouched EXCEPT ![d] = v]
    /\ f \in {NoFile, Torn} \/ (f.handle \in Handle /\ KeyOf(f.key, d))
    /\ careful' \in {careful, [careful EXCEPT ![d] = FALSE]}
    /\ \/ v = NoFile
       \/ v = vouched[d] /\ f = file[d]
       \/ f = v /\ op[o].calm /\ directory[v.handle] = v.key
    /\ r.pc # "idle" => ~r.calm \/ Knows(r)'
    /\ r.pc = "write" => v = NoFile
    /\ careful'[d] =>
          /\ r.pc # "idle" => CarefulOp(r, d)'
          /\ r.pc = "idle" => f # Torn
          /\ \A h \in Handle : directory[h].device = d =>
                \/ f.key = directory[h]
                \/ r.pc # "idle" /\ r.id.key = directory[h]

LEMMA FileStep ==
  ASSUME IInv, NEW o \in Op, NEW d \in Device, NEW r \in OpType,
         NEW f \in Identity \cup {Torn}, NEW v \in Identity, FileEffect(o, d, r, f, v)
  PROVE  IInv'
  <1>1. /\ op[o].pc # "idle" /\ op[o].device = d /\ op' = [op EXCEPT ![o] = r]
        /\ r = Idle \/ (r.pc # "idle" /\ r.device = d /\ (r.calm => op[o].calm))
        /\ OpInv(r) /\ UNCHANGED <<directory, generated>>
        /\ file' = [file EXCEPT ![d] = f] /\ vouched' = [vouched EXCEPT ![d] = v]
        /\ f \in {NoFile, Torn} \/ (f.handle \in Handle /\ KeyOf(f.key, d))
        /\ careful' \in {careful, [careful EXCEPT ![d] = FALSE]}
    BY DEF FileEffect
  <1>2. /\ \/ v = NoFile
           \/ v = vouched[d] /\ f = file[d]
           \/ f = v /\ op[o].calm /\ directory[v.handle] = v.key
        /\ r.pc # "idle" => ~r.calm \/ Knows(r)'
        /\ r.pc = "write" => v = NoFile
    BY DEF FileEffect
  <1>3. careful'[d] =>
            /\ r.pc # "idle" => CarefulOp(r, d)'
            /\ r.pc = "idle" => f # Torn
            /\ \A h \in Handle : directory[h].device = d =>
                  \/ f.key = directory[h]
                  \/ r.pc # "idle" /\ r.id.key = directory[h]
    BY DEF FileEffect
  <1>4. /\ op \in [Op -> OpType] /\ op' \in [Op -> OpType] /\ op'[o] = r
        /\ \A p \in Op \ {o} : op'[p] \in {op[p], [op[p] EXCEPT !.calm = FALSE]}
        /\ careful \in [Device -> BOOLEAN] /\ file \in [Device -> Identity \cup {Torn}]
        /\ vouched \in [Device -> Identity]
    BY <1>1 DEF IInv, TypeOK, OpType
  <1>5. /\ \A e \in Device \ {d} : careful'[e] = careful[e]
        /\ careful'[d] => careful[d]
        /\ careful' \in [Device -> BOOLEAN]
    <2>1. CASE careful' = careful
      BY <2>1, <1>4
    <2>2. CASE careful' = [careful EXCEPT ![d] = FALSE]
      BY <1>4, <2>2
    <2> QED BY <1>1, <2>1, <2>2
  <1>6. /\ file' \in [Device -> Identity \cup {Torn}] /\ vouched' \in [Device -> Identity]
        /\ file'[d] = f /\ vouched'[d] = v
        /\ \A e \in Device \ {d} : file'[e] = file[e] /\ vouched'[e] = vouched[e]
    BY <1>1, <1>4
  <1>7. TypeOK'
    BY <1>1, <1>4, <1>5, <1>6 DEF IInv, TypeOK, OpType
  <1>8. FileInv'
    <2>1. ASSUME NEW e \in Device, file'[e] \notin {NoFile, Torn}
          PROVE  file'[e].handle \in Handle /\ KeyOf(file'[e].key, e)
      BY <1>1, <1>6, <2>1 DEF IInv, FileInv, Readable
    <2> QED BY <1>1, <2>1 DEF IInv, FileInv, Readable
  <1>9. /\ \A e \in Device \ {d} : file'[e] = file[e] /\ careful'[e] = careful[e]
        /\ \A e \in Device \ {d} : vouched'[e] \in {vouched[e], NoFile}
        /\ \A h \in Handle : directory'[h] = directory[h]
    BY <1>1, <1>5, <1>6
  <1>10. /\ \/ vouched'[d] = NoFile
            \/ vouched'[d] = vouched[d] /\ file'[d] = file[d]
            \/ /\ file'[d] = vouched'[d] /\ op[o].calm
               /\ directory'[vouched'[d].handle] = vouched'[d].key
         /\ r.pc # "idle" /\ r.calm => Knows(r)'
         /\ r.pc = "write" => vouched'[d] = NoFile
    BY <1>1, <1>2, <1>6
  <1>11. careful'[d] =>
            /\ r.pc # "idle" => CarefulOp(r, d)'
            /\ r.pc = "idle" => file'[d] # Torn
            /\ \A h \in Handle : directory'[h].device = d =>
                  \/ file'[d].key = directory'[h]
                  \/ r.pc # "idle" /\ r.id.key = directory'[h]
    BY <1>1, <1>3, <1>6
  <1>12. /\ op[o].pc # "idle" /\ op[o].device = d /\ OpInv(r) /\ (careful'[d] => careful[d])
         /\ r = Idle \/ (r.pc # "idle" /\ r.device = d /\ (r.calm => op[o].calm))
    BY <1>1, <1>5
  <1>13. \A h \in Handle :
            \/ directory'[h] = directory[h]
            \/ /\ directory'[h] = NoKey
               /\ \A p \in Op \ {o} : op'[p].calm => op[p].id.handle # h
               /\ \A e \in Device : vouched'[e] = NoFile \/ vouched'[e].handle # h
            \/ directory[h] = NoKey /\ KeyOf(directory'[h], d)
    BY <1>9
  <1> QED BY <1>4, <1>7, <1>8, <1>9, <1>10, <1>11, <1>12, <1>13, StepInv

LEMMA AlreadyRegisteredStep ==
  ASSUME IInv, NEW o \in Op, AlreadyRegistered(o)
  PROVE  IInv'
  <1> SUFFICES ASSUME NEW d \in Device, op[o].device = d PROVE IInv'
    BY Runner DEF AlreadyRegistered
  <1> DEFINE p == op[o]
  <1>1. /\ p.pc = "getkey" /\ directory[p.id.handle] = p.id.key
        /\ UNCHANGED <<directory, file, generated, careful>>
        /\ vouched' = (IF p.calm THEN [vouched EXCEPT ![d] = p.id] ELSE vouched)
    BY DEF AlreadyRegistered, Vouch
  <1>2. /\ p \in OpType /\ OpInv(p) /\ (p.calm => Knows(p))
        /\ file \in [Device -> Identity \cup {Torn}] /\ vouched \in [Device -> Identity]
    BY <1>1, Runner
  <1>3. p.calm => file[d] = p.id
    BY <1>1, <1>2 DEF Knows
  <1> SUFFICES ASSUME NEW r, r = Idle PROVE IInv'
    OBVIOUS
  <1>4. /\ r \in OpType /\ OpInv(r) /\ r.pc = "idle" /\ op' = [op EXCEPT ![o] = r]
    BY <1>1, Runner DEF AlreadyRegistered, End
  <1> SUFFICES ASSUME NEW f, f = file[d], NEW v, v = IF p.calm THEN p.id ELSE vouched[d]
               PROVE  IInv'
    OBVIOUS
  <1>5. /\ file' = [file EXCEPT ![d] = f] /\ f \in Identity \cup {Torn}
        /\ f \in {NoFile, Torn} \/ (f.handle \in Handle /\ KeyOf(f.key, d))
    BY <1>1, <1>2, Runner DEF Readable
  <1>6. vouched' = [vouched EXCEPT ![d] = v] /\ v \in Identity
    BY <1>1, <1>2 DEF OpType
  <1>7. \/ v = vouched[d] /\ f = file[d]
        \/ f = v /\ p.calm /\ directory[v.handle] = v.key
    BY <1>1, <1>3
  <1>8. careful'[d] =>
            /\ f # Torn
            /\ \A h \in Handle : directory[h].device = d => f.key = directory[h]
    BY <1>1, Runner DEF CarefulOp, FromFile, Readable
  <1>9. careful' \in {careful, [careful EXCEPT ![d] = FALSE]} /\ op[o].pc # "idle"
    BY <1>1
  <1>10. \/ v = NoFile
         \/ v = vouched[d] /\ f = file[d]
         \/ f = v /\ op[o].calm /\ directory[v.handle] = v.key
    BY <1>7
  <1>11. r = Idle \/ (r.pc # "idle" /\ r.device = d /\ (r.calm => op[o].calm))
    OBVIOUS
  <1>12. /\ r.pc # "idle" => ~r.calm \/ Knows(r)'
         /\ r.pc = "write" => v = NoFile
    BY <1>4
  <1>13. careful'[d] =>
            /\ r.pc # "idle" => CarefulOp(r, d)'
            /\ r.pc = "idle" => f # Torn
            /\ \A h \in Handle : directory[h].device = d =>
                  \/ f.key = directory[h]
                  \/ r.pc # "idle" /\ r.id.key = directory[h]
    BY <1>4, <1>8
  <1>14. UNCHANGED <<directory, generated>>
    BY <1>1
  <1>15. FileEffect(o, d, r, f, v)
    BY <1>4, <1>5, <1>6, <1>9, <1>10, <1>11, <1>12, <1>13, <1>14 DEF FileEffect
  <1> QED BY <1>4, <1>5, <1>6, <1>15, FileStep

LEMMA TruncateStep ==
  ASSUME IInv, NEW o \in Op, Truncate(o)
  PROVE  IInv'
  <1> SUFFICES ASSUME NEW d \in Device, op[o].device = d PROVE IInv'
    BY Runner DEF Truncate
  <1> DEFINE p == op[o]
  <1>1. /\ p.pc = "save" /\ file' = [file EXCEPT ![d] = Torn]
        /\ vouched' = [vouched EXCEPT ![d] = NoFile]
        /\ UNCHANGED <<directory, generated, careful>>
    BY DEF Truncate, Rewritten
  <1>2. p \in OpType /\ OpInv(p) /\ (p.calm => Knows(p)) /\ op \in [Op -> OpType]
        /\ file \in [Device -> Identity \cup {Torn}]
    BY <1>1, Runner
  <1> SUFFICES ASSUME NEW r, r = [p EXCEPT !.pc = "write"] PROVE IInv'
    OBVIOUS
  <1>3. r \in OpType /\ op' = [op EXCEPT ![o] = r]
    BY <1>2 DEF Truncate, Go, OpType
  <1>4. /\ r.pc = "write" /\ r.kind = p.kind /\ r.device = d /\ r.calm = p.calm
        /\ r.id = p.id
    BY <1>2 DEF OpType
  <1>5. OpInv(r)
    BY <1>1, <1>2, <1>4 DEF OpInv
  <1>6. r.calm => Knows(r)'
    BY <1>1, <1>2, <1>4 DEF Knows, Repeats
  <1>7. careful'[d] =>
            /\ CarefulOp(r, d)'
            /\ \A h \in Handle : directory[h].device = d => r.id.key = directory[h]
    <2> SUFFICES ASSUME careful[d]
                 PROVE  /\ CarefulOp(r, d)'
                        /\ \A h \in Handle : directory[h].device = d => r.id.key = directory[h]
      BY <1>1
    <2>1. CarefulOp(p, d) /\ file'[d] = Torn
      BY <1>1, <1>2, Runner
    <2>2. CarefulOp(r, d)'
      BY <1>1, <1>4, <2>1 DEF CarefulOp, FromFile
    <2>3. \A h \in Handle : directory[h].device = d =>
             file[d].key = directory[h] \/ p.id.key = directory[h]
      BY <1>1, Runner
    <2>4. ~Readable(d) => file[d].key.device # d
      BY FileFacts DEF Readable
    <2>5. ~Readable(d) \/ p.id.key = file[d].key
      BY <1>1, <2>1 DEF CarefulOp
    <2> QED BY <1>4, <2>2, <2>3, <2>4, <2>5
  <1>8. /\ careful' \in {careful, [careful EXCEPT ![d] = FALSE]} /\ op[o].pc # "idle"
        /\ r = Idle \/ (r.pc # "idle" /\ r.device = d /\ (r.calm => op[o].calm))
        /\ UNCHANGED <<directory, generated>>
    BY <1>1, <1>4
  <1> SUFFICES ASSUME NEW f, f = Torn, NEW v, v = NoFile PROVE IInv'
    OBVIOUS
  <1>9. /\ f \in Identity \cup {Torn} /\ v \in Identity
        /\ file' = [file EXCEPT ![d] = f] /\ vouched' = [vouched EXCEPT ![d] = v]
        /\ f \in {NoFile, Torn} \/ (f.handle \in Handle /\ KeyOf(f.key, d))
    BY <1>1, FileFacts
  <1>10. \/ v = NoFile
         \/ v = vouched[d] /\ f = file[d]
         \/ f = v /\ op[o].calm /\ directory[v.handle] = v.key
    OBVIOUS
  <1>11. /\ r.pc # "idle" => ~r.calm \/ Knows(r)'
         /\ r.pc = "write" => v = NoFile
    BY <1>6
  <1>12. careful'[d] =>
            /\ r.pc # "idle" => CarefulOp(r, d)'
            /\ r.pc = "idle" => f # Torn
            /\ \A h \in Handle : directory[h].device = d =>
                  \/ f.key = directory[h]
                  \/ r.pc # "idle" /\ r.id.key = directory[h]
    BY <1>4, <1>7
  <1>13. FileEffect(o, d, r, f, v)
    BY <1>3, <1>5, <1>8, <1>9, <1>10, <1>11, <1>12 DEF FileEffect
  <1> QED BY <1>3, <1>9, <1>13, FileStep

LEMMA WriteStep ==
  ASSUME IInv, NEW o \in Op, Write(o)
  PROVE  IInv'
  <1> SUFFICES ASSUME NEW d \in Device, op[o].device = d PROVE IInv'
    BY Runner DEF Write
  <1> DEFINE p == op[o]
  <1>1. /\ p.pc = "write" /\ UNCHANGED <<directory, generated, careful>>
        /\ file' = [file EXCEPT ![d] = p.id]
    BY DEF Write
  <1>2. p \in OpType /\ OpInv(p) /\ (p.calm => Knows(p)) /\ op \in [Op -> OpType]
        /\ vouched \in [Device -> Identity] /\ vouched[d] = NoFile
    BY <1>1, Runner DEF IInv, WriteInv
  <1>3. /\ p.id \in Identity /\ p.id.handle \in Handle /\ KeyOf(p.id.key, d)
        /\ p.kind \in {"init", "force", "web", "shell"}
    BY <1>1, <1>2 DEF OpInv, OpType
  <1>4. careful[d] => /\ p.kind \in {"init", "web"} /\ p.id # Torn
                      /\ \A h \in Handle : directory[h].device = d => p.id.key = directory[h]
    <2> SUFFICES ASSUME careful[d]
                 PROVE  /\ p.kind \in {"init", "web"}
                        /\ \A h \in Handle : directory[h].device = d => p.id.key = directory[h]
      BY <1>3, FileFacts
    <2>1. CarefulOp(p, d)
      BY <1>1, Runner
    <2>2. p.kind \in {"init", "web"} /\ file[d] = Torn
      BY <1>1, <1>3, <2>1 DEF CarefulOp
    <2> QED BY <1>1, <2>2, Runner, FileFacts
  <1>5. careful' \in {careful, [careful EXCEPT ![d] = FALSE]} /\ p.pc # "idle"
    BY <1>1
  <1>6. CASE p.kind # "shell"
    <2> SUFFICES ASSUME NEW r, r = Idle, NEW f, f = p.id,
                        NEW v, v = IF p.calm /\ p.kind # "web" THEN p.id ELSE NoFile
                 PROVE  IInv'
      OBVIOUS
    <2>1. /\ r \in OpType /\ OpInv(r) /\ r.pc = "idle" /\ op' = [op EXCEPT ![o] = r]
      BY <1>1, <1>3, <1>6, Runner DEF Write, End
    <2>2. vouched' = [vouched EXCEPT ![d] = v]
      BY <1>2, <1>3, <1>6 DEF Write, Vouch
    <2>3. /\ f \in Identity \cup {Torn} /\ f.handle \in Handle /\ KeyOf(f.key, d)
          /\ v \in Identity
      BY <1>3, FileFacts
    <2>4. \/ v = NoFile
          \/ f = v /\ p.calm /\ directory[v.handle] = v.key
      BY <1>1, <1>2, <1>3, <1>6 DEF Knows
    <2>5. careful'[d] =>
            /\ r.pc # "idle" => CarefulOp(r, d)'
            /\ r.pc = "idle" => f # Torn
            /\ \A h \in Handle : directory[h].device = d =>
                  \/ f.key = directory[h]
                  \/ r.pc # "idle" /\ r.id.key = directory[h]
      BY <1>1, <1>4, <2>1
    <2>6. FileEffect(o, d, r, f, v)
      BY <1>1, <1>5, <2>1, <2>2, <2>3, <2>4, <2>5 DEF FileEffect
    <2> QED BY <2>1, <2>3, <2>6, FileStep
  <1>7. CASE p.kind = "shell"
    <2> SUFFICES ASSUME NEW r, r = [p EXCEPT !.pc = "register"], NEW f, f = p.id
                 PROVE  IInv'
      OBVIOUS
    <2>1. op' = [op EXCEPT ![o] = r] /\ r \in OpType
      BY <1>2, <1>7 DEF Write, Go, OpType
    <2>2. /\ r.pc = "register" /\ r.kind = "shell" /\ r.device = d /\ r.calm = p.calm
          /\ r.id = p.id
      BY <1>2, <1>7 DEF OpType
    <2>3. OpInv(r) /\ Knows(r)'
      BY <1>1, <1>2, <1>3, <2>2 DEF OpInv, Knows, Repeats, Kind
    <2>4. vouched' = [vouched EXCEPT ![d] = NoFile]
      BY <1>2, <1>7 DEF Write
    <2>5. /\ f \in Identity \cup {Torn} /\ f.handle \in Handle /\ KeyOf(f.key, d)
          /\ NoFile \in Identity
      BY <1>3, FileFacts
    <2>6. ~careful'[d]
      BY <1>1, <1>4, <1>7
    <2> SUFFICES ASSUME NEW v, v = NoFile PROVE IInv'
      OBVIOUS
    <2>7. FileEffect(o, d, r, f, v)
      BY <1>1, <1>5, <2>1, <2>2, <2>3, <2>4, <2>5, <2>6 DEF FileEffect
    <2> QED BY <2>1, <2>5, <2>7, FileStep
  <1> QED BY <1>6, <1>7

LEMMA RemoveStep ==
  ASSUME IInv, NEW o \in Op, Remove(o)
  PROVE  IInv'
  <1> SUFFICES ASSUME NEW d \in Device, op[o].device = d PROVE IInv'
    BY Runner DEF Remove
  <1> SUFFICES ASSUME NEW r, r = Idle PROVE IInv'
    OBVIOUS
  <1>1. /\ op[o].pc = "remove" /\ op[o].pc # "idle" /\ file' = [file EXCEPT ![d] = NoFile]
        /\ vouched' = [vouched EXCEPT ![d] = NoFile]
        /\ careful' = [careful EXCEPT ![d] = FALSE]
        /\ UNCHANGED <<directory, generated>>
    BY DEF Remove, Rewritten, Careless
  <1>2. r \in OpType /\ OpInv(r) /\ r.pc = "idle" /\ op' = [op EXCEPT ![o] = r]
    BY <1>1, Runner DEF Remove, End
  <1>3. ~careful'[d] /\ NoFile \in Identity /\ NoFile \in Identity \cup {Torn}
        /\ NoFile \in {NoFile, Torn}
    BY <1>1, Runner, FileFacts
  <1>4. FileEffect(o, d, r, NoFile, NoFile)
    BY <1>1, <1>2, <1>3 DEF FileEffect
  <1> QED BY <1>2, <1>3, <1>4, FileStep

\* Operation o of device d goes on with record r, and every other operation that
\* works on a handle forgotten by the relay loses its calm.
ForgetEffect(o, d, r) ==
    /\ op[o].pc # "idle" /\ op[o].device = d /\ op' \in [Op -> OpType] /\ op'[o] = r
    /\ \A p \in Op \ {o} : op'[p] \in {op[p], [op[p] EXCEPT !.calm = FALSE]}
    /\ r.pc = "remove" /\ r.kind = "delete" /\ r.device = d /\ r.calm = op[o].calm
    /\ OpInv(r) /\ UNCHANGED <<file, generated, careful>>
    /\ \A e \in Device : vouched'[e] \in {vouched[e], NoFile}
    /\ \A h \in Handle :
          \/ directory'[h] = directory[h]
          \/ /\ directory'[h] = NoKey
             /\ \A p \in Op \ {o} : op'[p].calm => op[p].id.handle # h
             /\ \A e \in Device : vouched'[e] = NoFile \/ vouched'[e].handle # h
    /\ careful'[d] =>
          /\ CarefulOp(r, d)'
          /\ \A h \in Handle : directory'[h].device = d =>
                file[d].key = directory'[h] \/ r.id.key = directory'[h]

LEMMA ForgetStep ==
  ASSUME IInv, NEW o \in Op, NEW d \in Device, NEW r \in OpType, ForgetEffect(o, d, r),
         TypeOK', FileInv'
  PROVE  IInv'
  <1>1. /\ op[o].pc # "idle" /\ op[o].device = d /\ op' \in [Op -> OpType] /\ op'[o] = r
        /\ \A p \in Op \ {o} : op'[p] \in {op[p], [op[p] EXCEPT !.calm = FALSE]}
        /\ r = Idle \/ (r.pc # "idle" /\ r.device = d /\ (r.calm => op[o].calm))
        /\ OpInv(r) /\ (careful'[d] => careful[d])
    BY DEF ForgetEffect
  <1>2. /\ \A e \in Device \ {d} : file'[e] = file[e] /\ careful'[e] = careful[e]
        /\ \A e \in Device \ {d} : vouched'[e] \in {vouched[e], NoFile}
    BY DEF ForgetEffect
  <1>3. \A h \in Handle :
           \/ directory'[h] = directory[h]
           \/ /\ directory'[h] = NoKey
              /\ \A p \in Op \ {o} : op'[p].calm => op[p].id.handle # h
              /\ \A e \in Device : vouched'[e] = NoFile \/ vouched'[e].handle # h
           \/ directory[h] = NoKey /\ KeyOf(directory'[h], d)
    BY DEF ForgetEffect
  <1>4. \/ vouched'[d] = NoFile
        \/ vouched'[d] = vouched[d] /\ file'[d] = file[d]
        \/ /\ file'[d] = vouched'[d] /\ op[o].calm
           /\ directory'[vouched'[d].handle] = vouched'[d].key
    BY DEF ForgetEffect
  <1>5. /\ r.pc # "idle" /\ r.calm => Knows(r)'
        /\ r.pc = "write" => vouched'[d] = NoFile
    BY DEF ForgetEffect, Knows, Repeats
  <1>6. careful'[d] =>
            /\ r.pc # "idle" => CarefulOp(r, d)'
            /\ r.pc = "idle" => file'[d] # Torn
            /\ \A h \in Handle : directory'[h].device = d =>
                  \/ file'[d].key = directory'[h]
                  \/ r.pc # "idle" /\ r.id.key = directory'[h]
    BY DEF ForgetEffect
  <1> QED BY <1>1, <1>2, <1>3, <1>4, <1>5, <1>6, StepInv

LEMMA UnregisterStep ==
  ASSUME IInv, NEW o \in Op, Unregister(o)
  PROVE  IInv'
  <1> SUFFICES ASSUME NEW d \in Device, op[o].device = d PROVE IInv'
    BY Runner DEF Unregister
  <1> DEFINE p == op[o]
             h == p.id.handle
  <1>1. /\ p.pc = "unregister" /\ UNCHANGED <<file, generated, careful>>
        /\ directory' = [x \in Handle |-> IF x = h THEN NoKey ELSE directory[x]]
        /\ vouched' = [e \in Device |-> IF vouched[e].handle = h THEN NoFile ELSE vouched[e]]
    BY DEF Unregister, Forget
  <1>2. /\ p \in OpType /\ OpInv(p) /\ op \in [Op -> OpType]
        /\ directory \in [Handle -> Key \cup {NoKey}] /\ vouched \in [Device -> Identity]
    BY <1>1, Runner
  <1>3. h \in Handle /\ p.kind = "delete"
    BY <1>1, <1>2 DEF OpInv
  <1> SUFFICES ASSUME NEW r, r = [p EXCEPT !.pc = "remove"] PROVE IInv'
    OBVIOUS
  <1>4. r \in OpType /\ op' = [Disturbed({h}) EXCEPT ![o] = r]
    BY <1>2 DEF Unregister, OpType
  <1>5. /\ r.pc = "remove" /\ r.kind = "delete" /\ r.device = d /\ r.calm = p.calm
        /\ r.id = p.id
    BY <1>2, <1>3 DEF OpType
  <1>6. /\ op'[o] = r
        /\ \A q \in Op \ {o} : op'[q] = [op[q] EXCEPT !.calm = @ /\ op[q].id.handle # h]
    BY <1>4 DEF Disturbed
  <1>7. \A q \in Op \ {o} : /\ op'[q] \in {op[q], [op[q] EXCEPT !.calm = FALSE]}
                            /\ op'[q] \in OpType
                            /\ op'[q].calm => op[q].id.handle # h
    <2> SUFFICES ASSUME NEW q \in Op \ {o}
                 PROVE  /\ op'[q] \in {op[q], [op[q] EXCEPT !.calm = FALSE]}
                        /\ op'[q] \in OpType
                        /\ op'[q].calm => op[q].id.handle # h
      OBVIOUS
    <2>1. op[q] \in OpType /\ op'[q] = [op[q] EXCEPT !.calm = op[q].calm /\ op[q].id.handle # h]
      BY <1>2, <1>6
    <2>2. CASE op[q].calm /\ op[q].id.handle # h
      BY <2>1, <2>2 DEF OpType
    <2>3. CASE ~(op[q].calm /\ op[q].id.handle # h)
      BY <2>1, <2>3 DEF OpType
    <2> QED BY <2>2, <2>3
  <1>8. op' \in [Op -> OpType]
    <2>1. DOMAIN op' = Op /\ op' = [q \in Op |-> op'[q]]
      BY <1>4 DEF Disturbed
    <2> QED BY <1>4, <1>6, <1>7, <2>1
  <1>9. OpInv(r)
    BY <1>2, <1>5 DEF OpInv, OpType
  <1>10. TypeOK' /\ FileInv'
    <2>1. directory' \in [Handle -> Key \cup {NoKey}] /\ vouched' \in [Device -> Identity]
      BY <1>1, <1>2, FileFacts
    <2> QED BY <1>1, <1>8, <2>1 DEF IInv, TypeOK, FileInv, Readable, OpType
  <1>11. \A x \in Handle :
            \/ directory'[x] = directory[x]
            \/ /\ directory'[x] = NoKey
               /\ \A q \in Op \ {o} : op'[q].calm => op[q].id.handle # x
               /\ \A e \in Device : vouched'[e] = NoFile \/ vouched'[e].handle # x
            \/ directory[x] = NoKey /\ KeyOf(directory'[x], d)
    BY <1>1, <1>2, <1>7
  <1>12. careful'[d] =>
            /\ CarefulOp(r, d)'
            /\ \A x \in Handle : directory'[x].device = d =>
                  file[d].key = directory'[x] \/ r.id.key = directory'[x]
    <2> SUFFICES ASSUME careful[d]
                 PROVE  /\ CarefulOp(r, d)'
                        /\ \A x \in Handle : directory'[x].device = d =>
                              file[d].key = directory'[x] \/ r.id.key = directory'[x]
      BY <1>1
    <2>1. CarefulOp(p, d)
      BY <1>1, Runner
    <2>2. CarefulOp(r, d)'
      BY <1>1, <1>5, <2>1 DEF CarefulOp, FromFile
    <2>3. \A x \in Handle : directory[x].device = d =>
             file[d].key = directory[x] \/ p.id.key = directory[x]
      BY <1>1, Runner
    <2> QED BY <1>1, <1>5, <2>2, <2>3, FileFacts
  <1>13. ForgetEffect(o, d, r)
    <2>1. \A e \in Device : vouched'[e] \in {vouched[e], NoFile}
      BY <1>1
    <2>2. \A x \in Handle :
            \/ directory'[x] = directory[x]
            \/ /\ directory'[x] = NoKey
               /\ \A q \in Op \ {o} : op'[q].calm => op[q].id.handle # x
               /\ \A e \in Device : vouched'[e] = NoFile \/ vouched'[e].handle # x
      BY <1>1, <1>2, <1>3, <1>7, <1>11
    <2> QED BY <1>1, <1>5, <1>6, <1>7, <1>8, <1>9, <1>12, <2>1, <2>2 DEF ForgetEffect
  <1> QED BY <1>4, <1>10, <1>13, ForgetStep

\* When the relay loses its data, nothing is vouched for, and an operation that
\* has named a handle is no longer calm.
LEMMA RelayForgetsStep ==
  ASSUME IInv, RelayForgets
  PROVE  IInv'
  <1>1. /\ UNCHANGED <<file, generated, careful>>
        /\ directory' = [h \in Handle |-> NoKey]
        /\ vouched' = [e \in Device |-> IF vouched[e].handle \in Handle THEN NoFile ELSE vouched[e]]
        /\ op' = [p \in Op |-> [op[p] EXCEPT !.calm = @ /\ op[p].id.handle \notin Handle]]
    BY DEF RelayForgets, Forget, Disturbed
  <1>2. op \in [Op -> OpType] /\ vouched \in [Device -> Identity]
    BY DEF IInv, TypeOK, OpType
  <1>3. ASSUME NEW p \in Op
        PROVE  /\ op'[p] \in OpType
               /\ op'[p].pc = op[p].pc /\ op'[p].kind = op[p].kind
               /\ op'[p].device = op[p].device /\ op'[p].asked = op[p].asked
               /\ op'[p].id = op[p].id /\ op'[p].again = op[p].again
               /\ op'[p].calm => op[p].calm /\ op[p].id.handle \notin Handle
               /\ op[p] = Idle => op'[p] = Idle
    <2>1. op[p] \in OpType
          /\ op'[p] = [op[p] EXCEPT !.calm = op[p].calm /\ op[p].id.handle \notin Handle]
      BY <1>1, <1>2
    <2>2. CASE op[p].calm /\ op[p].id.handle \notin Handle
      BY <2>1, <2>2 DEF OpType
    <2>3. CASE ~(op[p].calm /\ op[p].id.handle \notin Handle)
      <3>1. op'[p] = [op[p] EXCEPT !.calm = FALSE]
        BY <2>1, <2>3
      <3>2. [Idle EXCEPT !.calm = FALSE] = Idle
        BY IdleFacts
      <3> QED BY <2>1, <3>1, <3>2 DEF OpType
    <2> QED BY <2>2, <2>3
  <1>4. op' \in [Op -> OpType]
    BY <1>1, <1>3
  <1>5. TypeOK'
    <2>1. directory' \in [Handle -> Key \cup {NoKey}] /\ vouched' \in [Device -> Identity]
      BY <1>1, <1>2, FileFacts
    <2> QED BY <1>1, <1>4, <2>1 DEF IInv, TypeOK, OpType
  <1>6. FileInv'
    BY <1>1 DEF IInv, FileInv, Readable
  <1>7. \A e \in Device : vouched'[e] = NoFile
    <2> SUFFICES ASSUME NEW e \in Device, vouched[e] # NoFile PROVE vouched[e].handle \in Handle
      BY <1>1
    <2>1. file[e] = vouched[e] /\ vouched[e] \in Identity
      BY <1>2 DEF IInv, ReportStands
    <2> QED BY <2>1, FileFacts DEF IInv, FileInv, Readable
  <1>8. \A e \in Device : Busy(e)' = Busy(e)
    BY <1>3 DEF Busy
  <1>9. ASSUME NEW p \in Op PROVE OpInv(op[p])'
    BY <1>3 DEF IInv, OpInv
  <1>10. ASSUME NEW p \in Op PROVE CalmInv(p)'
    <2> SUFFICES ASSUME op'[p].pc # "idle", op'[p].calm
                 PROVE  Busy(op[p].device)' = {p} /\ Knows(op[p])'
      BY DEF CalmInv
    <2>1. Busy(op[p].device) = {p} /\ Knows(op[p]) /\ OpInv(op[p])
      BY <1>3 DEF IInv, CalmInv
    <2>2. op[p].device \in Device
      BY <1>3, <2>1 DEF OpInv
    <2>3. Busy(op[p].device)' = {p}
      BY <1>3, <2>1 DEF Busy
    <2>4. op[p].pc \notin {"getkey", "save", "write"} /\ ~Repeats(op[p])
      BY <1>3, <2>1 DEF OpInv, Repeats
    <2>5. Knows(op[p])'
      BY <1>3, <2>4 DEF Knows, Repeats
    <2> QED BY <2>3, <2>5
  <1>11. WriteInv'
    <2>1. \A p \in Op : op[p].pc = "write" => op'[p].device \in Device
      BY <1>3 DEF IInv, OpInv
    <2> QED BY <1>3, <1>7, <2>1 DEF WriteInv
  <1>12. ASSUME NEW e \in Device PROVE CarefulInv(e)'
    <2>1. CarefulInv(e) /\ Busy(e)' = Busy(e) /\ file'[e] = file[e] /\ careful'[e] = careful[e]
      BY <1>1, <1>8 DEF IInv
    <2>2. \A h \in Handle : directory'[h].device # e
      BY <1>1, FileFacts
    <2>3. ASSUME NEW q \in Busy(e), CarefulOp(op[q], e) PROVE CarefulOp(op[q], e)'
      <3>1. q \in Op
        BY DEF Busy
      <3> QED BY <1>3, <2>1, <2>2, <2>3, <3>1 DEF CarefulOp, FromFile, Readable
    <2> QED BY <2>1, <2>3 DEF CarefulInv
  <1>13. ReportStands'
    BY <1>7 DEF ReportStands
  <1>14. NoOrphan'
    BY <1>1, FileFacts DEF NoOrphan
  <1> QED BY <1>5, <1>6, <1>9, <1>10, <1>11, <1>12, <1>13, <1>14 DEF IInv

\* Beginning an operation on device d: the others on d are no longer calm.
LEMMA StartStep ==
  ASSUME IInv, NEW o \in Op, NEW d \in Device, NEW asked \in Handle \cup {NoHandle},
         NEW kind \in Runs[d], Start(o, d, kind, asked)
  PROVE  IInv'
  <1>1. /\ op[o].pc = "idle" /\ UNCHANGED <<directory, file, generated, vouched>>
        /\ kind \in {"web", "shell"} => asked # NoHandle
        /\ careful' = [careful EXCEPT ![d] =
                         careful[d] /\ kind \in {"init", "web", "delete"} /\ Busy(d) = {}]
    BY DEF Start
  <1>2. /\ op \in [Op -> OpType] /\ careful \in [Device -> BOOLEAN]
        /\ kind \in Kind
    BY RunsAssumption DEF IInv, TypeOK, OpType
  <1> SUFFICES ASSUME NEW new, new = [pc |-> "load", kind |-> kind, device |-> d, asked |-> asked,
                                     id |-> NoFile, again |-> FALSE, calm |-> Busy(d) = {}]
               PROVE  IInv'
    OBVIOUS
  <1>3. op' = [p \in Op |-> IF p = o THEN new
                            ELSE [op[p] EXCEPT !.calm = @ /\ p \notin Busy(d)]]
    BY DEF Start
  <1>4. /\ new \in OpType /\ new.pc = "load" /\ new.kind = kind /\ new.device = d
        /\ new.asked = asked /\ new.id = NoFile /\ new.again = FALSE
        /\ new.calm => Busy(d) = {}
    BY <1>2, FileFacts DEF OpType
  <1>5. op'[o] = new
    BY <1>3
  <1>6. ASSUME NEW p \in Op \ {o}
        PROVE  /\ op'[p] \in OpType
               /\ op'[p].pc = op[p].pc /\ op'[p].kind = op[p].kind
               /\ op'[p].device = op[p].device /\ op'[p].asked = op[p].asked
               /\ op'[p].id = op[p].id /\ op'[p].again = op[p].again
               /\ op'[p].calm => op[p].calm /\ p \notin Busy(d)
               /\ op[p] = Idle => op'[p] = Idle
    <2>1. op[p] \in OpType /\ op'[p] = [op[p] EXCEPT !.calm = op[p].calm /\ p \notin Busy(d)]
      BY <1>2, <1>3
    <2>2. CASE op[p].calm /\ p \notin Busy(d)
      BY <2>1, <2>2 DEF OpType
    <2>3. CASE ~(op[p].calm /\ p \notin Busy(d))
      <3>1. op'[p] = [op[p] EXCEPT !.calm = FALSE]
        BY <2>1, <2>3
      <3>2. [Idle EXCEPT !.calm = FALSE] = Idle
        BY IdleFacts
      <3> QED BY <2>1, <3>1, <3>2 DEF OpType
    <2> QED BY <2>2, <2>3
  <1>7. op' \in [Op -> OpType]
    BY <1>3, <1>4, <1>5, <1>6
  <1>8. /\ o \notin Busy(d) /\ Busy(d)' = Busy(d) \cup {o}
        /\ \A e \in Device \ {d} : Busy(e)' = Busy(e)
    BY <1>1, <1>4, <1>5, <1>6 DEF Busy
  <1>9. TypeOK'
    <2>1. careful' \in [Device -> BOOLEAN]
      BY <1>1, <1>2
    <2> QED BY <1>1, <1>7, <2>1 DEF IInv, TypeOK, OpType
  <1>10. FileInv'
    BY <1>1 DEF IInv, FileInv, Readable
  <1>11. ASSUME NEW p \in Op PROVE OpInv(op[p])'
    <2>1. CASE p = o
      BY <1>1, <1>2, <1>4, <1>5, <2>1 DEF OpInv
    <2>2. CASE p # o
      <3>1. OpInv(op[p])
        BY DEF IInv
      <3> QED BY <1>6, <2>2, <3>1 DEF OpInv
    <2> QED BY <2>1, <2>2
  <1>12. ASSUME NEW p \in Op PROVE CalmInv(p)'
    <2> SUFFICES ASSUME op'[p].pc # "idle", op'[p].calm
                 PROVE  Busy(op[p].device)' = {p} /\ Knows(op[p])'
      BY DEF CalmInv
    <2>1. CASE p = o
      <3>1. Busy(op[p].device)' = {p}
        BY <1>4, <1>5, <1>8, <2>1
      <3>2. Knows(op[p])'
        BY <1>4, <1>5, <2>1 DEF Knows, Repeats
      <3> QED BY <3>1, <3>2
    <2>2. CASE p # o
      <3>1. Busy(op[p].device) = {p} /\ Knows(op[p]) /\ OpInv(op[p]) /\ p \notin Busy(d)
        BY <1>6, <2>2 DEF IInv, CalmInv
      <3>2. op[p].device \in Device /\ op[p].device # d
        BY <1>6, <2>2, <3>1 DEF OpInv, Busy
      <3>3. Busy(op[p].device)' = {p}
        BY <1>1, <1>4, <1>5, <1>6, <2>2, <3>1, <3>2 DEF Busy
      <3>4. Knows(op[p])'
        BY <1>1, <1>6, <2>2, <3>1 DEF Knows, Repeats
      <3> QED BY <3>3, <3>4
    <2> QED BY <2>1, <2>2
  <1>13. WriteInv'
    BY <1>1, <1>4, <1>5, <1>6 DEF IInv, WriteInv
  <1>14. ASSUME NEW e \in Device PROVE CarefulInv(e)'
    <2>1. CarefulInv(e)
      BY DEF IInv
    <2>2. CASE e = d
      <3> SUFFICES ASSUME careful'[d]
                   PROVE  /\ \A q \in Busy(d)' : Busy(d)' = {q} /\ CarefulOp(op[q], d)'
                          /\ file'[d] = Torn => Busy(d)' # {}
        BY <2>2 DEF CarefulInv
      <3>1. careful[d] /\ kind \in {"init", "web", "delete"} /\ Busy(d) = {}
        BY <1>1, <1>2
      <3>2. Busy(d)' = {o} /\ file[d] # Torn /\ file'[d] = file[d]
        BY <1>1, <1>8, <2>1, <2>2, <3>1 DEF CarefulInv
      <3>3. CarefulOp(op[o], d)'
        BY <1>4, <1>5, <3>1, <3>2 DEF CarefulOp, FromFile
      <3> QED BY <3>2, <3>3
    <2>3. CASE e # d
      <3>1. /\ Busy(e)' = Busy(e) /\ file'[e] = file[e] /\ careful'[e] = careful[e]
            /\ directory' = directory
        BY <1>1, <1>2, <1>8, <2>3
      <3>2. ASSUME NEW q \in Busy(e), CarefulOp(op[q], e) PROVE CarefulOp(op[q], e)'
        <4>1. q \in Op \ {o}
          BY <1>1 DEF Busy
        <4> QED BY <1>6, <3>1, <3>2, <4>1 DEF CarefulOp, FromFile, Readable
      <3> QED BY <2>1, <3>1, <3>2 DEF CarefulInv
    <2> QED BY <2>2, <2>3
  <1>15. ReportStands'
    BY <1>1 DEF IInv, ReportStands
  <1>16. NoOrphan'
    <2> SUFFICES ASSUME NEW e \in Device, NEW h \in Handle, careful'[e], directory[h].device = e
                 PROVE  \/ file[e].key = directory[h]
                        \/ \E q \in Busy(e)' : op'[q].id.key = directory[h]
      BY <1>1 DEF NoOrphan
    <2>1. careful[e]
      BY <1>1, <1>2
    <2>2. \A q \in Busy(e) : q \in Op \ {o} /\ q \in Busy(e)'
      BY <1>1, <1>8 DEF Busy
    <2> QED BY <1>6, <2>1, <2>2 DEF IInv, NoOrphan
  <1> QED
    BY <1>9, <1>10, <1>11, <1>12, <1>13, <1>14, <1>15, <1>16 DEF IInv

-----------------------------------------------------------------------------
(* The theorems.                                                            *)

LEMMA StutterStep ==
  ASSUME IInv, UNCHANGED vars
  PROVE  IInv'
  <1>1. UNCHANGED <<directory, file, generated, op, vouched, careful>>
    BY DEF vars
  <1> QED BY <1>1 DEF IInv, TypeOK, FileInv, WriteInv, OpInv, CalmInv, Busy, Knows, Repeats,
                      CarefulInv, CarefulOp, FromFile, Readable, ReportStands, NoOrphan

LEMMA NextIInv == IInv /\ [Next]_vars => IInv'
  <1> SUFFICES ASSUME IInv, [Next]_vars PROVE IInv'
    OBVIOUS
  <1>1. ASSUME NEW o \in Op, Step(o) PROVE IInv'
    BY <1>1, GenerateStep, LoadStep, LoadNothingStep, AlreadyRegisteredStep, ReregisterStep,
       RegisterStep, TruncateStep, WriteStep, StopStep, UnregisterStep, UnregisterFailsStep,
       RemoveStep
    DEF Step
  <1>2. ASSUME NEW o \in Op, NEW d \in Device, NEW h \in Handle \cup {NoHandle},
               NEW k \in Runs[d], Start(o, d, k, h)
        PROVE  IInv'
    BY <1>2, StartStep
  <1>3. CASE RelayForgets
    BY <1>3, RelayForgetsStep
  <1>4. CASE UNCHANGED vars
    BY <1>4, StutterStep
  <1> QED BY <1>1, <1>2, <1>3, <1>4 DEF Next

LEMMA SpecIInv == Spec => []IInv
  BY InitIInv, NextIInv, PTL DEF Spec

\* Every variable keeps its type whatever operations run at the same time: an
\* identity file is absent, torn or whole, and a device never generates more
\* keypairs than its bound.
THEOREM TypeCorrect == Spec => []TypeOK
  <1>1. IInv => TypeOK
    BY DEF IInv
  <1> QED BY <1>1, SpecIInv, PTL

\* ReportStands for every set of devices, handles and operations: what "pandora
\* init" reports as registered is what the relay and the identity file hold,
\* until the file is rewritten or the handle deleted.
THEOREM ReportsStand == Spec => []ReportStands
  <1>1. IInv => ReportStands
    BY DEF IInv
  <1> QED BY <1>1, SpecIInv, PTL

\* NoOrphan for every set of devices, handles and operations: inits of a device
\* one after the other never leave a registration whose private key is gone.
THEOREM NoRegistrationIsOrphaned == Spec => []NoOrphan
  <1>1. IInv => NoOrphan
    BY DEF IInv
  <1> QED BY <1>1, SpecIInv, PTL

\* RefusalIsAnothers for every set of devices, handles and operations: an init
\* that repeats a registration undisturbed is refused on another's account only.
THEOREM RefusalsAreAnothers == Spec => []RefusalIsAnothers
  <1>1. IInv => RefusalIsAnothers
    BY DEF IInv, CalmInv, Knows, Repeats, RefusalIsAnothers
  <1> QED BY <1>1, SpecIInv, PTL
=============================================================================
