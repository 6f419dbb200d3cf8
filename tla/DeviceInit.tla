---------------------------- MODULE DeviceInit ----------------------------
(* How a device gets its identity: "pandora init" with and without --force, *)
(* the init and delete-account endpoints of the web daemon, and the init    *)
(* and identity endpoints of the terminal shell server.  Each reads and     *)
(* writes the one identity file of the device and talks to the relay's key  *)
(* directory, in an order of its own, and any of them may run at the same   *)
(* time.  os.WriteFile truncates the file before it writes it.  An HTTP     *)
(* request is answered, fails, or takes effect and its answer is lost.      *)
EXTENDS Naturals

CONSTANTS
    Device,
    Handle,
    NoHandle,   \* the flag --handle is absent
    Runs,       \* the kinds of operation each device may begin
    Op,         \* commands and endpoint calls in progress
    MaxKeys     \* bound: keypairs each device generates

ASSUME NoHandleAssumption == NoHandle \notin Handle

ASSUME MaxKeysAssumption == MaxKeys \in [Device -> Nat]

\* "none" and "torn" stand for the absence of a device.
ASSUME DeviceAssumption == {"none", "torn"} \cap Device = {}

VARIABLES
    directory,  \* the relay's key for every handle
    file,       \* the identity file of every device
    generated,  \* number of keypairs each device has generated
    op,         \* the operations in progress
    vouched,    \* history: what "pandora init" last reported as registered,
                \* until the file is rewritten or the handle deleted
    careful     \* history: the device's operations were plain inits and web
                \* inits since its beginning, one after the other, no process
                \* was stopped and no command lost a key it had registered

vars == <<directory, file, generated, op, vouched, careful>>
history == <<vouched, careful>>

NoKey == [device |-> "none", n |-> 0]
NoFile == [handle |-> NoHandle, key |-> NoKey]
Torn == [handle |-> NoHandle, key |-> [device |-> "torn", n |-> 0]]

Key == UNION {[device : {d}, n : 1..MaxKeys[d]] : d \in Device}
Identity == [handle : Handle \cup {NoHandle}, key : Key \cup {NoKey}]

Kind == {"init", "force", "web", "shell", "delete", "refresh"}

ASSUME RunsAssumption == Runs \in [Device -> SUBSET Kind]

\* An operation that has ended, and one that begins.
Idle == [pc |-> "idle", kind |-> "none", device |-> "none", asked |-> NoHandle,
         id |-> NoFile, again |-> FALSE, calm |-> FALSE]

Init ==
    /\ directory = [h \in Handle |-> NoKey]
    /\ file = [d \in Device |-> NoFile]
    /\ generated = [d \in Device |-> 0]
    /\ op = [o \in Op |-> Idle]
    /\ vouched = [d \in Device |-> NoFile]
    /\ careful = [d \in Device |-> TRUE]

-----------------------------------------------------------------------------
(* Helpers.  An operation is calm while no other one runs on its device,    *)
(* none of its requests fails and nobody deletes the handle it works on.    *)

Busy(d) == {o \in Op : op[o].pc # "idle" /\ op[o].device = d}

\* Mutated form: a file that does not parse is used.
Exists(d) == file[d] # NoFile

Readable(d) == file[d] \notin {NoFile, Torn}

Go(o, c) == op' = [op EXCEPT ![o].pc = c]

End(o) == op' = [op EXCEPT ![o] = Idle]

\* GenerateIdentity: a new keypair, known to o alone until o saves it.
WithNewKey(o, h, c) ==
    LET d == op[o].device IN
    /\ generated[d] < MaxKeys[d]
    /\ generated' = [generated EXCEPT ![d] = @ + 1]
    /\ op' = [op EXCEPT ![o].pc = c, ![o].asked = NoHandle,
                        ![o].id = [handle |-> h,
                                   key |-> [device |-> d, n |-> generated[d] + 1]]]

Careless(d) == careful' = [careful EXCEPT ![d] = FALSE]

\* The file of d is about to change: what was vouched for is history.
Rewritten(d) == vouched' = [vouched EXCEPT ![d] = NoFile]

-----------------------------------------------------------------------------
(* Beginnings.                                                              *)

Start(o, d, kind, asked) ==
    /\ op[o].pc = "idle"
    /\ kind \in {"web", "shell"} => asked # NoHandle
    /\ kind \in {"delete", "refresh"} => asked = NoHandle
    /\ op' = [p \in Op |->
                IF p = o
                THEN [pc |-> "load", kind |-> kind, device |-> d, asked |-> asked,
                      id |-> NoFile, again |-> FALSE, calm |-> Busy(d) = {}]
                ELSE [op[p] EXCEPT !.calm = @ /\ p \notin Busy(d)]]
    /\ careful' = [careful EXCEPT ![d] =
                     @ /\ kind \in {"init", "web", "delete"} /\ Busy(d) = {}]
    /\ UNCHANGED <<directory, file, generated, vouched>>

\* Mutated form: the web daemon's init does not look for a keypair to keep.
KeepsKeypair(k) == k = "init"

\* The operations that go on with the keypair they find.
Keeps(k) == k \in {"init", "web"}

\* A new keypair, when there is no identity file, when it does not parse, or
\* whatever it holds.
Generate(o) ==
    LET k == op[o].kind IN
    /\ op[o].pc = "load"
    /\ \/ k \in {"force", "shell"}
       \/ k \in {"init", "web"} /\ ~(Keeps(k) /\ Readable(op[o].device))
    /\ WithNewKey(o, op[o].asked, IF k = "shell" THEN "save" ELSE "register")
    /\ UNCHANGED <<directory, file, history>>

\* LoadIdentity: what the file holds is used.
Load(o) ==
    LET d == op[o].device
        k == op[o].kind
        found(c, h, again) ==
            op' = [op EXCEPT ![o].pc = c, ![o].again = again,
                             ![o].id = [handle |-> h, key |-> file[d].key],
                             ![o].asked = IF k = "init" THEN @ ELSE NoHandle]
    IN  /\ op[o].pc = "load" /\ Readable(d)
        /\ \/ k = "init" /\ Keeps(k) /\ found("getkey", file[d].handle, TRUE)
           \/ k = "web" /\ Keeps(k) /\ found("register", op[o].asked, TRUE)
           \/ k = "refresh" /\ found("register", file[d].handle, FALSE)
           \/ k = "delete" /\ found("unregister", file[d].handle, FALSE)
        /\ UNCHANGED <<directory, file, generated, history>>

\* Nothing to register again, or to unregister.
LoadNothing(o) ==
    /\ op[o].pc = "load" /\ ~Readable(op[o].device)
    /\ \/ op[o].kind = "delete" /\ Go(o, "remove")
       \/ op[o].kind = "refresh" /\ End(o)
    /\ UNCHANGED <<directory, file, generated, history>>

-----------------------------------------------------------------------------
(* "pandora init" on an existing identity asks the relay first.             *)

\* What is vouched for holds from the report on.
Vouch(o) ==
    LET d == op[o].device IN
    vouched' = IF op[o].calm THEN [vouched EXCEPT ![d] = op[o].id] ELSE vouched

AlreadyRegistered(o) ==
    /\ op[o].pc = "getkey"
    /\ directory[op[o].id.handle] = op[o].id.key
    /\ End(o)
    /\ Vouch(o)
    /\ UNCHANGED <<directory, file, generated, careful>>

\* Mutated form: the relay's key is not compared with the device's.
IsAnything(o) == TRUE

\* The relay knows the handle under no key or another one.
IsUnknown(o) == directory[op[o].id.handle] # op[o].id.key

Reregister(o, calm) ==
    op' = [op EXCEPT ![o].pc = "register", ![o].calm = @ /\ calm,
                     ![o].id.handle = IF op[o].asked = NoHandle THEN @
                                      ELSE op[o].asked]

NotRegistered(o) ==
    /\ op[o].pc = "getkey"
    /\ IsUnknown(o)
    /\ Reregister(o, TRUE)
    /\ UNCHANGED <<directory, file, generated, history>>

\* A failed question is taken for a "no".
GetKeyFails(o) ==
    /\ op[o].pc = "getkey"
    /\ Reregister(o, FALSE)
    /\ UNCHANGED <<directory, file, generated, history>>

-----------------------------------------------------------------------------
(* POST /keys.                                                              *)

\* The handle registered: without one asked for, the relay draws one that is
\* not taken.
Wanted(o) ==
    IF op[o].id.handle # NoHandle THEN {op[o].id.handle}
    ELSE {h \in Handle : directory[h] = NoKey}

\* Mutated form: the commands do not look at the answer either.
SaveAnyway(o, h, answer) ==
    IF op[o].kind \in {"web", "init", "force"}
    THEN op' = [op EXCEPT ![o].pc = "save", ![o].asked = NoHandle, ![o].id.handle = h,
                          ![o].calm = @ /\ answer # "failed"]
    ELSE End(o)

\* What follows an answer: the commands stop unless it was 201, the web daemon
\* and the shell server do not look at it.
AfterRegister(o, h, answer) ==
    IF \/ op[o].kind = "web"
       \/ op[o].kind \in {"init", "force"} /\ answer = "created"
    THEN op' = [op EXCEPT ![o].pc = "save", ![o].asked = NoHandle, ![o].id.handle = h,
                          ![o].calm = @ /\ answer # "failed"]
    ELSE End(o)

RegisterCreated(o) ==
    /\ op[o].pc = "register"
    /\ \E h \in Wanted(o) :
         /\ directory[h] = NoKey
         /\ directory' = [directory EXCEPT ![h] = op[o].id.key]
         /\ AfterRegister(o, h, "created")
    /\ UNCHANGED <<file, generated, history>>

RegisterConflict(o) ==
    /\ op[o].pc = "register"
    /\ \E h \in Wanted(o) :
         directory[h] # NoKey /\ AfterRegister(o, h, "conflict")
    /\ UNCHANGED <<directory, file, generated, history>>

\* The request fails; it may have taken effect.  A command that generated the
\* key then drops it.
RegisterFails(o) ==
    /\ op[o].pc = "register"
    /\ \E h \in Wanted(o) :
         /\ \/ UNCHANGED directory
            \/ /\ directory[h] = NoKey
               /\ directory' = [directory EXCEPT ![h] = op[o].id.key]
         /\ AfterRegister(o, h, "failed")
    /\ IF op[o].kind \in {"init", "force"} /\ ~op[o].again
       THEN Careless(op[o].device) ELSE UNCHANGED careful
    /\ UNCHANGED <<file, generated, vouched>>

-----------------------------------------------------------------------------
(* SaveIdentity: the file is truncated, then written.                       *)

Truncate(o) ==
    /\ op[o].pc = "save"
    /\ file' = [file EXCEPT ![op[o].device] = Torn]
    /\ Rewritten(op[o].device)
    /\ Go(o, "write")
    /\ UNCHANGED <<directory, generated, careful>>

Write(o) ==
    /\ op[o].pc = "write"
    /\ file' = [file EXCEPT ![op[o].device] = op[o].id]
    /\ CASE op[o].kind \in {"init", "force"} -> End(o) /\ Vouch(o)
         [] op[o].kind = "web" -> End(o) /\ UNCHANGED vouched
         [] op[o].kind = "shell" -> Go(o, "register") /\ UNCHANGED vouched
    /\ UNCHANGED <<directory, generated, careful>>

\* The file cannot be opened, or not be written.  The operation ends, and
\* a re-registration reports success all the same.
SaveFails(o) ==
    /\ op[o].pc \in {"save", "write"}
    /\ End(o)
    /\ Careless(op[o].device)
    /\ UNCHANGED <<directory, file, generated, vouched>>

-----------------------------------------------------------------------------
(* Deleting an account, and what happens to the relay and the processes.    *)

\* Handles S are deleted from the directory.
Forget(S) ==
    /\ directory' = [h \in Handle |-> IF h \in S THEN NoKey ELSE directory[h]]
    /\ vouched' = [d \in Device |-> IF vouched[d].handle \in S THEN NoFile
                                    ELSE vouched[d]]

Disturbed(S) ==
    [p \in Op |-> [op[p] EXCEPT !.calm = @ /\ op[p].id.handle \notin S]]

\* DELETE /keys/{handle} of the handle in the file, whoever holds it; its
\* result is not looked at.
Unregister(o) ==
    LET h == op[o].id.handle IN
    /\ op[o].pc = "unregister"
    /\ Forget({h})
    /\ op' = [Disturbed({h}) EXCEPT ![o] = [op[o] EXCEPT !.pc = "remove"]]
    /\ UNCHANGED <<file, generated, careful>>

UnregisterFails(o) ==
    /\ op[o].pc = "unregister"
    /\ op' = [op EXCEPT ![o].pc = "remove", ![o].calm = FALSE]
    /\ UNCHANGED <<directory, file, generated, history>>

Remove(o) ==
    /\ op[o].pc = "remove"
    /\ file' = [file EXCEPT ![op[o].device] = NoFile]
    /\ Rewritten(op[o].device)
    /\ Careless(op[o].device)
    /\ End(o)
    /\ UNCHANGED <<directory, generated>>

\* A command or a daemon is stopped at any point.
Kill(o) ==
    /\ op[o].pc # "idle"
    /\ End(o)
    /\ Careless(op[o].device)
    /\ UNCHANGED <<directory, file, generated, vouched>>

\* The operator clears the relay, or it loses its data.
RelayForgets ==
    /\ Forget(Handle)
    /\ op' = Disturbed(Handle)
    /\ UNCHANGED <<file, generated, careful>>

-----------------------------------------------------------------------------
Step(o) ==
    \/ Generate(o) \/ Load(o) \/ LoadNothing(o)
    \/ AlreadyRegistered(o) \/ NotRegistered(o) \/ GetKeyFails(o)
    \/ RegisterCreated(o) \/ RegisterConflict(o) \/ RegisterFails(o)
    \/ Truncate(o) \/ Write(o) \/ SaveFails(o)
    \/ Unregister(o) \/ UnregisterFails(o) \/ Remove(o) \/ Kill(o)

Next ==
    \/ \E o \in Op, d \in Device, h \in Handle \cup {NoHandle} :
         \E k \in Runs[d] : Start(o, d, k, h)
    \/ \E o \in Op : Step(o)
    \/ RelayForgets

Spec == Init /\ [][Next]_vars

-----------------------------------------------------------------------------
(* Properties.                                                              *)

\* Type invariant.
TypeOK ==
    /\ directory \in [Handle -> Key \cup {NoKey}]
    /\ file \in [Device -> Identity \cup {Torn}]
    /\ \A d \in Device : generated[d] \in 0..MaxKeys[d]
    /\ op \in [Op -> [pc : {"idle", "load", "getkey", "register", "save",
                            "write", "unregister", "remove"},
                      kind : Kind \cup {"none"}, device : Device \cup {"none"},
                      asked : Handle \cup {NoHandle}, id : Identity,
                      again : BOOLEAN, calm : BOOLEAN]]
    /\ vouched \in [Device -> Identity]
    /\ careful \in [Device -> BOOLEAN]

\* What "pandora init" reports as registered, when nothing interfered, is
\* registered, under the keypair in the identity file, and stays so until the
\* file is rewritten or the handle deleted, whatever other devices do.
ReportStands ==
    \A d \in Device :
        vouched[d] # NoFile
        => /\ directory[vouched[d].handle] = vouched[d].key
           /\ file[d] = vouched[d]

\* Plain inits and web inits of one device, one after the other, never leave
\* a registration behind whose private key is gone: it is in the identity
\* file or in the hands of the init in progress, even when requests of the
\* web daemon fail.
NoOrphan ==
    \A d \in Device, h \in Handle :
        careful[d] /\ directory[h].device = d
        => \/ file[d].key = directory[h]
           \/ \E o \in Busy(d) : op[o].id.key = directory[h]

\* A plain "pandora init" on an existing identity that nothing interferes
\* with registers its handle only when the relay does not have it under the
\* same keypair: if it is refused, the handle is registered with another one.
RefusalIsAnothers ==
    \A o \in Op :
        /\ op[o].pc = "register" /\ op[o].kind = "init"
        /\ op[o].again /\ op[o].asked = NoHandle /\ op[o].calm
        => directory[op[o].id.handle] # op[o].id.key

\* What the web page asks the user to confirm: deleting the account
\* unregisters the device from the relay.
DeletedIsGone ==
    [][\A o \in Op : Remove(o) /\ op[o].calm /\ careful[op[o].device]
                     => \A h \in Handle : directory[h].device # op[o].device]_vars
=============================================================================
