--------------------------- MODULE SecretCommands ---------------------------
(* A secret's way from one device to another: the command send, or the web  *)
(* daemon's deposit, looks a handle up, has the fingerprint confirmed,      *)
(* encrypts and uploads; the command read fetches the secret by its id and  *)
(* decrypts it.  Between any two requests devices register, delete handles  *)
(* and generate keypairs.  The relay is coarse: one action per request, but *)
(* for a registration, whose two writes a lookup can see apart.             *)
EXTENDS Naturals, FiniteSets

CONSTANTS
    Handle, Device, Key, NoKey,
    Job,            \* runs of send and of the deposit
    Reader,         \* runs of read
    MaxFaults       \* requests that fail, files that cannot be written

ASSUME SecretCommandsAssumption ==
    /\ Handle # {} /\ Job # {}
    /\ NoKey \notin Key
    /\ MaxFaults \in Nat

VARIABLES
    record,     \* the relay's directory: key and fingerprint of each handle
    writing,    \* registrations whose fingerprint is still to be written
    file,       \* the keypair in each device's identity file
    generated,  \* keypairs that exist
    job,        \* the runs that send
    paste,      \* the secret of each job at the relay
    read,       \* the runs that read
    faults,
    deleted     \* history: handles that were deleted

directory == <<record, writing, deleted>>
devices == <<file, generated>>
vars == <<directory, devices, job, paste, read, faults>>

NoRecord == [key |-> NoKey, print |-> NoKey]

NoPaste == [state |-> "none", key |-> NoKey, burn |-> FALSE]

Init ==
    /\ record = [h \in Handle |-> NoRecord]
    /\ writing = {} /\ deleted = {}
    /\ file = [d \in Device |-> NoKey] /\ generated = {}
    /\ job = [j \in Job |-> [pc |-> "idle", command |-> "send", burn |-> FALSE,
                             handle |-> CHOOSE h \in Handle : TRUE,
                             key |-> NoKey, print |-> NoKey, vacated |-> FALSE]]
    /\ paste = [j \in Job |-> NoPaste]
    /\ read = [r \in Reader |-> [pc |-> "idle", of |-> CHOOSE j \in Job : TRUE,
                                 key |-> NoKey]]
    /\ faults = 0

Fault == faults < MaxFaults /\ faults' = faults + 1

-----------------------------------------------------------------------------
(* The devices and the directory.                                           *)

\* init, with or without --force: a device has one keypair at a time.
Generate(d) ==
    /\ \E k \in Key \ generated :
          /\ file' = [file EXCEPT ![d] = k]
          /\ generated' = generated \cup {k}
    /\ UNCHANGED <<directory, job, paste, read, faults>>

\* The first write of a registration, which only a free handle takes.
Claim(d, h) ==
    /\ file[d] # NoKey /\ record[h].key = NoKey
    /\ record' = [record EXCEPT ![h].key = file[d]]
    /\ writing' = writing \cup {<<h, file[d]>>}
    /\ UNCHANGED <<deleted, devices, job, paste, read, faults>>

\* The second one, which asks nothing.
Stamp(h, k) ==
    /\ <<h, k>> \in writing
    /\ record' = [record EXCEPT ![h].print = k]
    /\ writing' = writing \ {<<h, k>>}
    /\ UNCHANGED <<deleted, devices, job, paste, read, faults>>

Delete(h) ==
    /\ record[h] # NoRecord
    /\ record' = [record EXCEPT ![h] = NoRecord]
    /\ deleted' = deleted \cup {h}
    /\ UNCHANGED <<writing, devices, job, paste, read, faults>>

-----------------------------------------------------------------------------
(* Sending.                                                                 *)

\* Mutated form: an absent fingerprint is shown as it is.
PrintAsIs(rec) == rec.print

\* The relay's fingerprint, or, when it has none, that of the key.
ShownPrint(rec) == IF rec.print = NoKey THEN rec.key ELSE rec.print

\* Health and GetKey; a handle without a record, or an error, ends the command.  The
\* deposit needs an identity of its own, asks nobody to confirm anything, and its
\* secrets always burn.
SendLookup(j, h, command, burn) ==
    /\ job[j].pc = "idle"
    /\ record[h] # NoRecord
    /\ command = "deposit" => burn /\ \E d \in Device : file[d] # NoKey
    /\ job' = [job EXCEPT ![j] =
                 [pc |-> IF command = "send" THEN "confirm" ELSE "upload",
                  command |-> command, burn |-> burn, handle |-> h,
                  key |-> record[h].key, print |-> ShownPrint(record[h]),
                  vacated |-> h \in deleted]]
    /\ UNCHANGED <<directory, devices, paste, read, faults>>

\* The recipient is given by a public key: nobody is asked for another.
SendToKey(j, k, burn) ==
    /\ job[j].pc = "idle" /\ k \in generated
    /\ job' = [job EXCEPT ![j] = [@ EXCEPT !.pc = "confirm", !.burn = burn,
                                          !.key = k, !.print = k]]
    /\ UNCHANGED <<directory, devices, paste, read, faults>>

\* The user compares the fingerprint with the recipient's; a no, or a secret that
\* cannot be read or is empty, ends the command.
Confirm(j, yes) ==
    /\ job[j].pc = "confirm"
    /\ job' = [job EXCEPT ![j].pc = IF yes THEN "upload" ELSE "ended"]
    /\ UNCHANGED <<directory, devices, paste, read, faults>>

\* Mutated form: the key is looked up once more after the question.
LookedUpAgain(j) == record[job[j].handle].key

\* The key of the lookup, whatever has become of the handle.
Recipient(j) == job[j].key

Secret(j) == [state |-> "stored", key |-> Recipient(j), burn |-> job[j].burn]

\* The record had a fingerprint and no key, which cannot be parsed.
EncryptionFails(j) ==
    /\ job[j].pc = "upload" /\ Recipient(j) = NoKey
    /\ job' = [job EXCEPT ![j].pc = "ended"]
    /\ UNCHANGED <<directory, devices, paste, read, faults>>

\* PostPaste: the sender is told the id, and passes it on.
Upload(j) ==
    /\ job[j].pc = "upload" /\ Recipient(j) # NoKey
    /\ paste' = [paste EXCEPT ![j] = Secret(j)]
    /\ job' = [job EXCEPT ![j].pc = "told"]
    /\ UNCHANGED <<directory, devices, read, faults>>

\* The sender is told it failed; the secret may be stored, under an id nobody has.
UploadFails(j) ==
    /\ job[j].pc = "upload" /\ Recipient(j) # NoKey
    /\ Fault
    /\ paste' \in {paste, [paste EXCEPT ![j] = Secret(j)]}
    /\ job' = [job EXCEPT ![j].pc = "ended"]
    /\ UNCHANGED <<directory, devices, read>>

Expire(j) ==
    /\ paste[j].state = "stored"
    /\ paste' = [paste EXCEPT ![j].state = "expired"]
    /\ UNCHANGED <<directory, devices, job, read, faults>>

-----------------------------------------------------------------------------
(* Reading.                                                                 *)

\* Mutated form: the identity is loaded when it is needed.
AnyDevice(d) == TRUE

\* The identity is loaded and its key parsed before the relay is asked.
HasIdentity(d) == file[d] # NoKey

ReadStart(r, d, j) ==
    /\ read[r].pc = "idle"
    /\ job[j].pc = "told"
    /\ HasIdentity(d)
    /\ read' = [read EXCEPT ![r] = [pc |-> "fetch", of |-> j, key |-> file[d]]]
    /\ UNCHANGED <<directory, devices, job, paste, faults>>

\* The relay hands the secret out, and destroys it if it burns.
Taken(j) == IF paste[j].burn THEN [paste EXCEPT ![j].state = "gone"] ELSE paste

ReadFetch(r) ==
    LET j == read[r].of IN
    /\ read[r].pc = "fetch"
    /\ IF paste[j].state = "stored"
       THEN paste' = Taken(j) /\ read' = [read EXCEPT ![r].pc = "open"]
       ELSE UNCHANGED paste /\ read' = [read EXCEPT ![r].pc = "missed"]
    /\ UNCHANGED <<directory, devices, job, faults>>

\* No answer, or an error; the relay may have handed the secret out.
ReadFetchFails(r) ==
    LET j == read[r].of IN
    /\ read[r].pc = "fetch"
    /\ Fault
    /\ \/ UNCHANGED paste /\ read' = [read EXCEPT ![r].pc = "missed"]
       \/ /\ paste[j].state = "stored"
          /\ paste' = Taken(j) /\ read' = [read EXCEPT ![r].pc = "lost"]
    /\ UNCHANGED <<directory, devices, job>>

\* Decryption with the key loaded before, and output.
ReadOpen(r) ==
    /\ read[r].pc = "open"
    /\ read' = [read EXCEPT ![r].pc =
                  IF read[r].key = paste[read[r].of].key THEN "shown" ELSE "denied"]
    /\ UNCHANGED <<directory, devices, job, paste, faults>>

\* The file cannot be written, and what was fetched is nowhere.
ReadUnsaved(r) ==
    /\ read[r].pc = "open" /\ read[r].key = paste[read[r].of].key
    /\ Fault
    /\ read' = [read EXCEPT ![r].pc = "lost"]
    /\ UNCHANGED <<directory, devices, job, paste>>

-----------------------------------------------------------------------------
Next ==
    \/ \E d \in Device : Generate(d) \/ \E h \in Handle : Claim(d, h)
    \/ \E h \in Handle : Delete(h) \/ \E k \in Key : Stamp(h, k)
    \/ \E j \in Job :
          \/ \E h \in Handle, command \in {"send", "deposit"}, burn \in BOOLEAN :
                SendLookup(j, h, command, burn)
          \/ \E k \in Key, burn \in BOOLEAN : SendToKey(j, k, burn)
          \/ \E yes \in BOOLEAN : Confirm(j, yes)
          \/ EncryptionFails(j) \/ Upload(j) \/ UploadFails(j) \/ Expire(j)
          \/ \E r \in Reader, d \in Device : ReadStart(r, d, j)
    \/ \E r \in Reader :
          ReadFetch(r) \/ ReadFetchFails(r) \/ ReadOpen(r) \/ ReadUnsaved(r)

Spec == Init /\ [][Next]_vars

-----------------------------------------------------------------------------
\* Type invariant: what the user is asked about is a fingerprint.
TypeOK ==
    /\ record \in [Handle -> [key : Key \cup {NoKey}, print : Key \cup {NoKey}]]
    /\ writing \subseteq Handle \X Key /\ deleted \subseteq Handle
    /\ file \in [Device -> Key \cup {NoKey}] /\ generated \subseteq Key
    /\ \A j \in Job :
          /\ job[j].pc \in {"idle", "confirm", "upload", "told", "ended"}
          /\ job[j].handle \in Handle
          /\ job[j].key \in Key \cup {NoKey}
          /\ job[j].pc # "idle" => job[j].print \in Key
    /\ paste \in [Job -> [state : {"none", "stored", "expired", "gone"},
                          key : Key \cup {NoKey}, burn : BOOLEAN]]
    /\ read \in [Reader -> [pc : {"idle", "fetch", "open", "missed", "lost",
                                  "shown", "denied"},
                            of : Job, key : Key \cup {NoKey}]]
    /\ faults \in 0..MaxFaults

\* A secret is encrypted to the key whose fingerprint the user was shown, also
\* when the handle changes hands while the question is on the screen, unless the
\* handle had been deleted before the lookup: then the relay's fingerprint may be
\* that of the device before (send.go:67-71, 121-124; redis.go:94-103).
ConfirmedIsUsed ==
    \A j \in Job :
        paste[j].state # "none" /\ ~job[j].vacated => paste[j].key = job[j].print

\* A secret that burns is fetched once.  What became of it then: it was shown, or
\* the reading device has another keypair than it was encrypted to, or a fault
\* took the answer or the file.  A device without an identity destroys nothing.
\* (read.go:69-80, 93-110, 127-130)
FetchedOnce ==
    \A j \in Job :
        LET had == {r \in Reader : /\ read[r].of = j
                                   /\ read[r].pc \in {"open", "shown", "denied", "lost"}} IN
        paste[j].burn =>
            /\ Cardinality(had) = (IF paste[j].state = "gone" THEN 1 ELSE 0)
            /\ \A r \in had :
                  /\ read[r].key # NoKey
                  /\ read[r].pc = "shown" => read[r].key = paste[j].key
                  /\ read[r].pc = "denied" => read[r].key # paste[j].key
                  /\ read[r].pc = "lost" => faults > 0
=============================================================================
