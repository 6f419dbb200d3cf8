------------------------ MODULE SecretCommandsProofs ------------------------
(* Proofs about the way of a secret, for any number of handles, devices,    *)
(* keypairs, runs of send, deposit and read, and faults.                    *)
EXTENDS SecretCommands, FiniteSetTheorems, TLAPS

JobType ==
    [pc : {"idle", "confirm", "upload", "told", "ended"},
     command : {"send", "deposit"}, burn : BOOLEAN, handle : Handle,
     key : Key \cup {NoKey}, print : Key \cup {NoKey}, vacated : BOOLEAN]

\* The types, with those of the locals of a run that TypeOK does not mention.
Types ==
    /\ TypeOK
    /\ job \in [Job -> JobType]

\* Of a handle that was never deleted the two writes of a registration agree:
\* nobody else has taken it, so a fingerprint, written or still to be written,
\* is that of the key.
PrintIsOfKey ==
    \A h \in Handle \ deleted :
        /\ record[h].print \in {NoKey, record[h].key}
        /\ \A k \in Key : <<h, k>> \in writing => record[h].key = k

\* What a run was shown is the key it encrypts to, unless the handle had been
\* deleted before.
ShownIsKey ==
    \A j \in Job : job[j].pc # "idle" /\ ~job[j].vacated => job[j].print = job[j].key

\* What is stored of a run is encrypted to its key, and nothing is before its
\* upload.  Only a secret that burns is gone.
PasteOfJob ==
    \A j \in Job :
        /\ paste[j].state # "none" => job[j].pc \in {"told", "ended"}
                                      /\ paste[j].key = job[j].key
        /\ paste[j].state = "none" => paste[j] = NoPaste
        /\ paste[j].state = "gone" => paste[j].burn

\* A reader has the id from a sender that was told it, and has loaded a key.
ReaderKnows ==
    \A r \in Reader :
        read[r].pc # "idle" => job[read[r].of].pc = "told" /\ read[r].key # NoKey

\* The readers the relay handed the secret of j out to.
Had(j) == {r \in Reader : /\ read[r].of = j
                          /\ read[r].pc \in {"open", "shown", "denied", "lost"}}

\* A secret that burns is in the hands of one reader once it is gone, and of
\* nobody before.
HandedOutOnce ==
    \A j \in Job :
        paste[j].burn => IF paste[j].state = "gone" THEN \E r \in Reader : Had(j) = {r}
                         ELSE Had(j) = {}

\* What became of a reader.
Outcome ==
    \A r \in Reader :
        /\ read[r].pc = "shown" => read[r].key = paste[read[r].of].key
        /\ read[r].pc = "denied" => read[r].key # paste[read[r].of].key
        /\ read[r].pc = "lost" => faults > 0

IInv ==
    /\ Types
    /\ PrintIsOfKey /\ ShownIsKey
    /\ PasteOfJob /\ ReaderKnows /\ HandedOutOnce /\ Outcome

-----------------------------------------------------------------------------
LEMMA InitIInv == Init => IInv
  <1> SUFFICES ASSUME Init PROVE IInv
    OBVIOUS
  <1> USE SecretCommandsAssumption
  <1>1. (CHOOSE h \in Handle : TRUE) \in Handle /\ (CHOOSE j \in Job : TRUE) \in Job
    OBVIOUS
  <1>2. Types
    BY <1>1 DEF Init, Types, TypeOK, JobType, NoRecord, NoPaste
  <1>3. PrintIsOfKey /\ ShownIsKey /\ PasteOfJob /\ ReaderKnows /\ Outcome
    BY DEF Init, PrintIsOfKey, ShownIsKey, PasteOfJob, ReaderKnows, Outcome,
           NoRecord, NoPaste
  <1>4. HandedOutOnce
    BY DEF Init, HandedOutOnce, NoPaste
  <1> QED BY <1>2, <1>3, <1>4 DEF IInv

-----------------------------------------------------------------------------
(* The steps of the devices and of the directory leave jobs and readers     *)
(* alone.                                                                   *)

LEMMA RunsUnchanged ==
  ASSUME UNCHANGED <<job, paste, read, faults>>,
         ShownIsKey, PasteOfJob, ReaderKnows, HandedOutOnce, Outcome
  PROVE  (ShownIsKey /\ PasteOfJob /\ ReaderKnows /\ HandedOutOnce /\ Outcome)'
  BY DEF ShownIsKey, PasteOfJob, ReaderKnows, HandedOutOnce, Had, Outcome

LEMMA DirectorySteps ==
  ASSUME IInv, NEW h \in Handle,
         \/ \E d \in Device : Generate(d) \/ Claim(d, h)
         \/ Delete(h)
         \/ \E k \in Key : Stamp(h, k)
  PROVE  IInv'
  <1> USE SecretCommandsAssumption DEF IInv, Types, TypeOK, directory, devices
  <1>1. ASSUME NEW d \in Device, Generate(d) PROVE IInv'
    <2>1. Types' /\ PrintIsOfKey'
      BY <1>1 DEF Generate, PrintIsOfKey
    <2> QED BY <1>1, <2>1, RunsUnchanged DEF Generate
  <1>2. ASSUME NEW d \in Device, Claim(d, h) PROVE IInv'
    <2>1. Types'
      BY <1>2 DEF Claim
    <2>2. PrintIsOfKey'
      BY <1>2 DEF Claim, PrintIsOfKey
    <2> QED BY <1>2, <2>1, <2>2, RunsUnchanged DEF Claim
  <1>3. ASSUME Delete(h) PROVE IInv'
    <2>1. Types' /\ PrintIsOfKey'
      BY <1>3 DEF Delete, PrintIsOfKey, NoRecord
    <2> QED BY <1>3, <2>1, RunsUnchanged DEF Delete
  <1>4. ASSUME NEW k \in Key, Stamp(h, k) PROVE IInv'
    <2>1. Types' /\ PrintIsOfKey'
      BY <1>4 DEF Stamp, PrintIsOfKey
    <2> QED BY <1>4, <2>1, RunsUnchanged DEF Stamp
  <1> QED BY <1>1, <1>2, <1>3, <1>4

-----------------------------------------------------------------------------
(* The steps of a run that sends.  Before its upload nobody can read.       *)

LEMMA NobodyReads ==
  ASSUME IInv, NEW j \in Job, job[j].pc # "told"
  PROVE  /\ Had(j) = {}
         /\ \A r \in Reader : read[r].pc # "idle" => read[r].of # j
  BY DEF IInv, ReaderKnows, Had

\* A step that changes only a job that was not told its id, and not its key or
\* fingerprint once something of it is stored.
LEMMA JobStep ==
  ASSUME IInv, NEW j \in Job, NEW k \in JobType,
         job[j].pc \in {"idle", "confirm", "upload"}, k.pc # "told",
         job' = [job EXCEPT ![j] = k],
         k.pc # "idle" => k.print \in Key,
         k.pc # "idle" /\ ~k.vacated => k.print = k.key,
         UNCHANGED <<directory, devices, paste, read, faults>>
  PROVE  IInv'
  <1> USE DEF IInv, Types, TypeOK, directory, devices
  <1>1. Types' /\ PrintIsOfKey'
    BY DEF JobType, PrintIsOfKey
  <1>2. ShownIsKey' /\ PasteOfJob' /\ ReaderKnows' /\ Outcome'
    BY DEF JobType, ShownIsKey, PasteOfJob, ReaderKnows, Outcome
  <1>3. HandedOutOnce'
    BY DEF HandedOutOnce, Had
  <1> QED BY <1>1, <1>2, <1>3

LEMMA SendSteps ==
  ASSUME IInv, NEW j \in Job,
         \/ \E h \in Handle, command \in {"send", "deposit"}, burn \in BOOLEAN :
               SendLookup(j, h, command, burn)
         \/ \E k \in Key, burn \in BOOLEAN : SendToKey(j, k, burn)
         \/ \E yes \in BOOLEAN : Confirm(j, yes)
         \/ EncryptionFails(j)
  PROVE  IInv'
  <1> USE SecretCommandsAssumption DEF IInv, Types, TypeOK, JobType
  <1>1. ASSUME NEW h \in Handle, NEW command \in {"send", "deposit"},
               NEW burn \in BOOLEAN, SendLookup(j, h, command, burn)
        PROVE  IInv'
    <2> DEFINE k == [pc |-> IF command = "send" THEN "confirm" ELSE "upload",
                     command |-> command, burn |-> burn, handle |-> h,
                     key |-> record[h].key, print |-> ShownPrint(record[h]),
                     vacated |-> h \in deleted]
    <2>1. record[h] = [key |-> record[h].key, print |-> record[h].print]
      OBVIOUS
    <2>2. ShownPrint(record[h]) \in Key
      BY <1>1, <2>1 DEF SendLookup, ShownPrint, NoRecord
    <2>3. ~k.vacated => k.print = k.key
      BY DEF PrintIsOfKey, ShownPrint
    <2>4. k \in JobType
      BY <2>2
    <2>5. job[j].pc = "idle" /\ job' = [job EXCEPT ![j] = k]
      BY <1>1 DEF SendLookup
    <2>6. UNCHANGED <<directory, devices, paste, read, faults>>
      BY <1>1 DEF SendLookup
    <2> QED BY <2>2, <2>3, <2>4, <2>5, <2>6, JobStep
  <1>2. ASSUME NEW k \in Key, NEW burn \in BOOLEAN, SendToKey(j, k, burn)
        PROVE  IInv'
    <2> DEFINE n == [job[j] EXCEPT !.pc = "confirm", !.burn = burn, !.key = k,
                                   !.print = k]
    <2>1. n \in JobType /\ n.pc = "confirm" /\ n.print = k /\ n.key = k
      <3> HIDE DEF IInv
      <3>1. job[j] \in JobType
        BY DEF IInv
      <3> QED BY <3>1 DEF n
    <2>2. job[j].pc = "idle" /\ job' = [job EXCEPT ![j] = n]
      BY <1>2 DEF SendToKey
    <2>3. UNCHANGED <<directory, devices, paste, read, faults>>
      BY <1>2 DEF SendToKey
    <2> HIDE DEF n
    <2> QED BY <2>1, <2>2, <2>3, JobStep
  <1>3. ASSUME NEW c \in {"upload", "ended"}, job[j].pc \in {"confirm", "upload"},
               job' = [job EXCEPT ![j].pc = c],
               UNCHANGED <<directory, devices, paste, read, faults>>
        PROVE  IInv'
    <2> DEFINE n == [job[j] EXCEPT !.pc = c]
    <2>1. n \in JobType /\ n.pc = c /\ n.print = job[j].print /\ n.key = job[j].key
          /\ n.vacated = job[j].vacated
      <3> HIDE DEF IInv
      <3>1. job[j] \in JobType
        BY DEF IInv
      <3> QED BY <3>1 DEF n
    <2>2. job' = [job EXCEPT ![j] = n]
      BY <1>3
    <2> HIDE DEF n
    <2>3. n.print \in Key /\ (~n.vacated => n.print = n.key)
      BY <1>3, <2>1 DEF ShownIsKey
    <2>4. IInv /\ n.pc # "told" /\ job[j].pc \in {"idle", "confirm", "upload"}
      BY <1>3, <2>1
    <2> HIDE DEF IInv, Types, TypeOK, JobType
    <2> QED BY <1>3, <2>1, <2>2, <2>3, <2>4, JobStep
  <1>4. ASSUME NEW yes \in BOOLEAN, Confirm(j, yes) PROVE IInv'
    BY <1>4, <1>3 DEF Confirm
  <1>5. CASE EncryptionFails(j)
    BY <1>5, <1>3 DEF EncryptionFails
  <1> QED BY <1>1, <1>2, <1>4, <1>5

PasteType == [state : {"none", "stored", "expired", "gone"},
              key : Key \cup {NoKey}, burn : BOOLEAN]

\* What is left to show of the types when a step leaves the directory and the
\* devices alone.
LEMMA RunTypes ==
  ASSUME Types, UNCHANGED <<directory, devices>>,
         job' \in [Job -> JobType],
         \A j \in Job : job'[j].pc # "idle" => job'[j].print \in Key,
         paste' \in [Job -> PasteType],
         read' \in [Reader -> [pc : {"idle", "fetch", "open", "missed", "lost",
                                    "shown", "denied"},
                              of : Job, key : Key \cup {NoKey}]],
         faults' \in 0..MaxFaults
  PROVE  Types'
  BY DEF Types, TypeOK, JobType, PasteType, directory, devices

LEMMA PrintUnchanged ==
  PrintIsOfKey /\ UNCHANGED directory => PrintIsOfKey'
  BY DEF PrintIsOfKey, directory

\* The upload, whether or not the sender is told.
LEMMA UploadStep ==
  ASSUME IInv, NEW j \in Job, NEW c \in {"told", "ended"}, job[j].pc = "upload",
         Recipient(j) # NoKey,
         \/ paste' = [paste EXCEPT ![j] = Secret(j)]
         \/ c = "ended" /\ UNCHANGED paste,
         job' = [job EXCEPT ![j].pc = c],
         faults' \in {faults, faults + 1}, faults' \in 0..MaxFaults,
         UNCHANGED <<directory, devices, read>>
  PROVE  IInv'
  <1>1. /\ job \in [Job -> JobType] /\ paste \in [Job -> PasteType]
        /\ \A i \in Job : job[i].pc # "idle" => job[i].print \in Key
        /\ read \in [Reader -> [pc : {"idle", "fetch", "open", "missed", "lost",
                                     "shown", "denied"},
                               of : Job, key : Key \cup {NoKey}]]
        /\ faults \in 0..MaxFaults
    BY DEF IInv, Types, TypeOK, PasteType
  <1>2. Had(j) = {} /\ \A r \in Reader : read[r].pc # "idle" => read[r].of # j
    BY NobodyReads
  <1>3. Secret(j) \in PasteType
    BY <1>1 DEF Secret, Recipient, PasteType, JobType
  <1>4. /\ job' \in [Job -> JobType]
        /\ \A i \in Job : /\ job'[i].print = job[i].print
                          /\ job'[i].key = job[i].key
                          /\ job'[i].vacated = job[i].vacated
                          /\ job'[i].pc = IF i = j THEN c ELSE job[i].pc
    <2>1. [job[j] EXCEPT !.pc = c] \in JobType
      BY <1>1 DEF JobType
    <2>2. job' \in [Job -> JobType] /\ job'[j] = [job[j] EXCEPT !.pc = c]
          /\ \A i \in Job \ {j} : job'[i] = job[i]
      BY <1>1, <2>1
    <2>3. job[j] \in JobType
      BY <1>1
    <2> QED BY <2>2, <2>3 DEF JobType
  <1>5. paste' \in [Job -> PasteType] /\ \A i \in Job \ {j} : paste'[i] = paste[i]
    BY <1>1, <1>3
  <1>6. Types'
    BY <1>1, <1>4, <1>5, RunTypes DEF IInv, Types
  <1>7. PrintIsOfKey' /\ ShownIsKey'
    BY <1>1, <1>4, PrintUnchanged DEF IInv, ShownIsKey
  <1>8. PasteOfJob'
    <2>1. ASSUME NEW i \in Job \ {j}
          PROVE  PasteOfJob!(i)'
      BY <1>4, <1>5 DEF IInv, PasteOfJob
    <2>2. PasteOfJob!(j)'
      BY <1>4, <1>1 DEF IInv, PasteOfJob, Secret, Recipient
    <2> QED BY <2>1, <2>2 DEF PasteOfJob
  <1>9. ReaderKnows' /\ Outcome'
    BY <1>1, <1>2, <1>4, <1>5 DEF IInv, ReaderKnows, Outcome
  <1>10. HandedOutOnce'
    <2>1. \A i \in Job : Had(i)' = Had(i)
      BY DEF Had
    <2>2. paste'[j].state # "gone"
      BY <1>1 DEF IInv, PasteOfJob, Secret
    <2> QED BY <1>2, <1>5, <2>1, <2>2 DEF IInv, HandedOutOnce
  <1> QED BY <1>6, <1>7, <1>8, <1>9, <1>10 DEF IInv

LEMMA ExpireStep ==
  ASSUME IInv, NEW j \in Job, Expire(j)
  PROVE  IInv'
  <1>1. /\ job \in [Job -> JobType] /\ paste \in [Job -> PasteType]
        /\ \A i \in Job : job[i].pc # "idle" => job[i].print \in Key
        /\ read \in [Reader -> [pc : {"idle", "fetch", "open", "missed", "lost",
                                     "shown", "denied"},
                               of : Job, key : Key \cup {NoKey}]]
        /\ faults \in 0..MaxFaults
    BY DEF IInv, Types, TypeOK, PasteType
  <1>2. /\ paste' \in [Job -> PasteType]
        /\ paste[j].state = "stored" /\ paste'[j].state = "expired"
        /\ \A i \in Job : /\ paste'[i].key = paste[i].key
                          /\ paste'[i].burn = paste[i].burn
                          /\ i # j => paste'[i] = paste[i]
    BY <1>1 DEF Expire, PasteType
  <1>3. UNCHANGED <<directory, devices, job, read, faults>>
    BY DEF Expire
  <1>4. Types'
    BY <1>1, <1>2, <1>3, RunTypes DEF IInv
  <1>5. PrintIsOfKey' /\ ShownIsKey' /\ ReaderKnows'
    BY <1>3, PrintUnchanged DEF IInv, ShownIsKey, ReaderKnows
  <1>6. PasteOfJob'
    BY <1>2, <1>3 DEF IInv, PasteOfJob
  <1>7. HandedOutOnce' /\ Outcome'
    BY <1>1, <1>2, <1>3 DEF IInv, HandedOutOnce, Had, Outcome
  <1> QED BY <1>4, <1>5, <1>6, <1>7 DEF IInv

LEMMA UploadSteps ==
  ASSUME IInv, NEW j \in Job, Upload(j) \/ UploadFails(j) \/ Expire(j)
  PROVE  IInv'
  <1>1. faults \in 0..MaxFaults
    BY DEF IInv, Types, TypeOK
  <1>2. CASE Upload(j)
    BY <1>1, <1>2, UploadStep DEF Upload
  <1>3. CASE UploadFails(j)
    <2>1. /\ job[j].pc = "upload" /\ Recipient(j) # NoKey
          /\ paste' = [paste EXCEPT ![j] = Secret(j)] \/ UNCHANGED paste
          /\ job' = [job EXCEPT ![j].pc = "ended"]
          /\ faults' = faults + 1 /\ faults' \in 0..MaxFaults
          /\ UNCHANGED <<directory, devices, read>>
      BY <1>1, <1>3, SecretCommandsAssumption DEF UploadFails, Fault
    <2> QED BY <2>1, UploadStep
  <1> QED BY <1>2, <1>3, ExpireStep

-----------------------------------------------------------------------------
(* The steps of a reader.                                                   *)

ReadType == [pc : {"idle", "fetch", "open", "missed", "lost", "shown", "denied"},
             of : Job, key : Key \cup {NoKey}]

\* A reader that goes on with what it was handed, or without.
LEMMA ReadMoves ==
  ASSUME IInv, NEW r \in Reader, NEW k \in ReadType,
         read' = [read EXCEPT ![r] = k],
         k.pc # "idle", k.key # NoKey,
         k.of # read[r].of => read[r].pc = "idle",
         job[k.of].pc = "told",
         (k.pc \in {"open", "shown", "denied", "lost"})
           <=> (read[r].pc \in {"open", "shown", "denied", "lost"}),
         k.pc = "shown" => k.key = paste[k.of].key,
         k.pc = "denied" => k.key # paste[k.of].key,
         faults' \in 0..MaxFaults, faults' >= faults, k.pc = "lost" => faults' > 0,
         UNCHANGED <<directory, devices, job, paste>>
  PROVE  IInv'
  <1>1. /\ job \in [Job -> JobType] /\ paste \in [Job -> PasteType]
        /\ \A i \in Job : job[i].pc # "idle" => job[i].print \in Key
        /\ read \in [Reader -> ReadType] /\ faults \in 0..MaxFaults
    BY DEF IInv, Types, TypeOK, PasteType, ReadType
  <1>2. read' \in [Reader -> ReadType] /\ read'[r] = k
        /\ \A q \in Reader \ {r} : read'[q] = read[q]
    BY <1>1
  <1>3. Types'
    BY <1>1, <1>2, RunTypes DEF IInv, ReadType
  <1>4. PrintIsOfKey' /\ ShownIsKey' /\ PasteOfJob'
    BY PrintUnchanged DEF IInv, ShownIsKey, PasteOfJob
  <1>5. ReaderKnows' /\ Outcome'
    BY <1>1, <1>2, SecretCommandsAssumption DEF IInv, ReaderKnows, Outcome
  <1>6. \A j \in Job : Had(j)' = Had(j)
    BY <1>2 DEF Had
  <1>7. HandedOutOnce'
    BY <1>6 DEF IInv, HandedOutOnce
  <1> QED BY <1>3, <1>4, <1>5, <1>7 DEF IInv

\* The relay hands the secret out.
LEMMA HandOut ==
  ASSUME IInv, NEW r \in Reader, read[r].pc = "fetch",
         paste[read[r].of].state = "stored", paste' = Taken(read[r].of),
         NEW c \in {"open", "lost"}, read' = [read EXCEPT ![r].pc = c],
         faults' \in 0..MaxFaults, faults' >= faults, c = "lost" => faults' > 0,
         UNCHANGED <<directory, devices, job>>
  PROVE  IInv'
  <1> DEFINE j == read[r].of
  <1>1. /\ job \in [Job -> JobType] /\ paste \in [Job -> PasteType]
        /\ \A i \in Job : job[i].pc # "idle" => job[i].print \in Key
        /\ read \in [Reader -> ReadType] /\ faults \in 0..MaxFaults
    BY DEF IInv, Types, TypeOK, PasteType, ReadType
  <1>2. /\ read' \in [Reader -> ReadType] /\ read'[r].pc = c
        /\ \A q \in Reader : /\ read'[q].of = read[q].of /\ read'[q].key = read[q].key
                             /\ q # r => read'[q] = read[q]
    BY <1>1 DEF ReadType
  <1>3. j \in Job
    BY <1>1 DEF ReadType
  <1>4. /\ paste' \in [Job -> PasteType]
        /\ \A i \in Job : /\ paste'[i].key = paste[i].key
                          /\ paste'[i].burn = paste[i].burn
                          /\ i # j => paste'[i] = paste[i]
        /\ IF paste[j].burn THEN paste'[j].state = "gone" ELSE paste' = paste
    BY <1>1, <1>3 DEF Taken, PasteType
  <1>5. Types'
    BY <1>1, <1>2, <1>4, RunTypes DEF IInv, ReadType
  <1>6. PrintIsOfKey' /\ ShownIsKey'
    BY PrintUnchanged DEF IInv, ShownIsKey
  <1>7. PasteOfJob'
    BY <1>3, <1>4 DEF IInv, PasteOfJob
  <1>8. ReaderKnows' /\ Outcome'
    BY <1>1, <1>2, <1>4, SecretCommandsAssumption
       DEF IInv, ReaderKnows, Outcome, ReadType
  <1>9. HandedOutOnce'
    <2>1. \A i \in Job \ {j} : Had(i)' = Had(i)
      BY <1>2 DEF Had
    <2>2. paste[j].burn => Had(j) = {}
      BY <1>3 DEF IInv, HandedOutOnce
    <2>3. paste[j].burn => Had(j)' = {r}
      BY <1>2, <2>2 DEF Had
    <2> QED BY <1>3, <1>4, <2>1, <2>3 DEF IInv, HandedOutOnce
  <1> QED BY <1>5, <1>6, <1>7, <1>8, <1>9 DEF IInv

LEMMA ReadSteps ==
  ASSUME IInv, NEW r \in Reader,
         \/ \E d \in Device, j \in Job : ReadStart(r, d, j)
         \/ ReadFetch(r) \/ ReadFetchFails(r) \/ ReadOpen(r) \/ ReadUnsaved(r)
  PROVE  IInv'
  <1>1. /\ read[r] \in ReadType /\ faults \in 0..MaxFaults /\ faults >= faults
        /\ file \in [Device -> Key \cup {NoKey}]
        /\ read[r].pc # "idle" => job[read[r].of].pc = "told" /\ read[r].key # NoKey
    BY SecretCommandsAssumption DEF IInv, Types, TypeOK, ReadType, ReaderKnows
  <1>2. ASSUME NEW c \in {"open", "missed", "lost", "shown", "denied"}
        PROVE  /\ [read[r] EXCEPT !.pc = c] \in ReadType
               /\ [read[r] EXCEPT !.pc = c].pc = c
               /\ [read[r] EXCEPT !.pc = c].of = read[r].of
               /\ [read[r] EXCEPT !.pc = c].key = read[r].key
    BY <1>1 DEF ReadType
  <1>3. ASSUME NEW d \in Device, NEW j \in Job, ReadStart(r, d, j) PROVE IInv'
    <2> DEFINE k == [pc |-> "fetch", of |-> j, key |-> file[d]]
    <2>1. k \in ReadType /\ k.pc = "fetch" /\ k.of = j /\ k.key # NoKey
      BY <1>1, <1>3 DEF ReadStart, HasIdentity, ReadType
    <2>2. read' = [read EXCEPT ![r] = k] /\ read[r].pc = "idle" /\ job[j].pc = "told"
          /\ UNCHANGED <<directory, devices, job, paste, faults>>
      BY <1>3 DEF ReadStart
    <2> HIDE DEF k
    <2> QED BY <1>1, <2>1, <2>2, ReadMoves
  <1>4. CASE ReadFetch(r)
    <2>1. CASE paste[read[r].of].state = "stored"
      BY <1>1, <1>4, <2>1, HandOut DEF ReadFetch
    <2>2. CASE paste[read[r].of].state # "stored"
      <3> DEFINE k == [read[r] EXCEPT !.pc = "missed"]
      <3>1. read' = [read EXCEPT ![r] = k] /\ read[r].pc = "fetch"
            /\ UNCHANGED <<directory, devices, job, paste, faults>>
        BY <1>4, <2>2 DEF ReadFetch
      <3>2. k \in ReadType /\ k.pc = "missed" /\ k.of = read[r].of /\ k.key = read[r].key
        BY <1>2
      <3> HIDE DEF k
      <3> QED BY <1>1, <3>1, <3>2, ReadMoves
    <2> QED BY <2>1, <2>2
  <1>5. CASE ReadFetchFails(r)
    <2>1. faults' \in 0..MaxFaults /\ faults' >= faults /\ faults' > 0
      BY <1>1, <1>5, SecretCommandsAssumption DEF ReadFetchFails, Fault
    <2>2. CASE read' = [read EXCEPT ![r].pc = "missed"] /\ UNCHANGED paste
      <3> DEFINE k == [read[r] EXCEPT !.pc = "missed"]
      <3>1. read' = [read EXCEPT ![r] = k] /\ read[r].pc = "fetch"
            /\ UNCHANGED <<directory, devices, job, paste>>
        BY <1>5, <2>2 DEF ReadFetchFails
      <3>2. k \in ReadType /\ k.pc = "missed" /\ k.of = read[r].of /\ k.key = read[r].key
        BY <1>2
      <3> HIDE DEF k
      <3> QED BY <1>1, <2>1, <3>1, <3>2, ReadMoves
    <2>3. CASE /\ paste[read[r].of].state = "stored"
               /\ paste' = Taken(read[r].of)
               /\ read' = [read EXCEPT ![r].pc = "lost"]
      BY <1>1, <1>5, <2>1, <2>3, HandOut DEF ReadFetchFails
    <2> QED BY <1>5, <2>2, <2>3 DEF ReadFetchFails
  <1>6. CASE ReadOpen(r)
    <2> DEFINE c == IF read[r].key = paste[read[r].of].key THEN "shown" ELSE "denied"
               k == [read[r] EXCEPT !.pc = c]
    <2>1. read' = [read EXCEPT ![r] = k] /\ read[r].pc = "open"
          /\ UNCHANGED <<directory, devices, job, paste, faults>>
      BY <1>6 DEF ReadOpen
    <2>2. k \in ReadType /\ k.pc = c /\ k.of = read[r].of /\ k.key = read[r].key
      BY <1>2
    <2> HIDE DEF k
    <2> QED BY <1>1, <2>1, <2>2, ReadMoves
  <1>7. CASE ReadUnsaved(r)
    <2> DEFINE k == [read[r] EXCEPT !.pc = "lost"]
    <2>1. faults' \in 0..MaxFaults /\ faults' >= faults /\ faults' > 0
      BY <1>1, <1>7, SecretCommandsAssumption DEF ReadUnsaved, Fault
    <2>2. read' = [read EXCEPT ![r] = k] /\ read[r].pc = "open"
          /\ UNCHANGED <<directory, devices, job, paste>>
      BY <1>7 DEF ReadUnsaved
    <2>3. k \in ReadType /\ k.pc = "lost" /\ k.of = read[r].of /\ k.key = read[r].key
      BY <1>2
    <2> HIDE DEF k
    <2> QED BY <1>1, <2>1, <2>2, <2>3, ReadMoves
  <1> QED BY <1>3, <1>4, <1>5, <1>6, <1>7

-----------------------------------------------------------------------------
LEMMA NextIInv == IInv /\ [Next]_vars => IInv'
  <1> SUFFICES ASSUME IInv, [Next]_vars PROVE IInv'
    OBVIOUS
  <1>1. CASE UNCHANGED vars
    <2>1. Types' /\ PrintIsOfKey'
      BY <1>1 DEF IInv, Types, TypeOK, PrintIsOfKey, vars, directory, devices
    <2>2. UNCHANGED <<job, paste, read, faults>>
      BY <1>1 DEF vars
    <2> QED BY <2>1, <2>2, RunsUnchanged DEF IInv
  <1>2. ASSUME NEW d \in Device, Generate(d) PROVE IInv'
    BY <1>2, SecretCommandsAssumption, DirectorySteps
  <1>3. CASE Next
    BY <1>2, <1>3, DirectorySteps, SendSteps, UploadSteps, ReadSteps DEF Next
  <1> QED BY <1>1, <1>3

\* Every record of the directory, job, secret and reader is of its type, and what a
\* user is asked about is a fingerprint.
THEOREM TypeCorrect == Spec => []TypeOK
  <1>1. IInv => TypeOK
    BY DEF IInv, Types
  <1> QED BY <1>1, InitIInv, NextIInv, PTL DEF Spec

\* A secret is encrypted to the key whose fingerprint the user was shown, whatever
\* becomes of the handle in between, unless it had been deleted before.
THEOREM ConfirmedKeyIsUsed == Spec => []ConfirmedIsUsed
  <1>1. IInv => ConfirmedIsUsed
    BY DEF IInv, PasteOfJob, ShownIsKey, ConfirmedIsUsed
  <1> QED BY <1>1, InitIInv, NextIInv, PTL DEF Spec

\* A secret that burns is handed out once, and what became of it then can be named.
THEOREM SecretFetchedOnce == Spec => []FetchedOnce
  <1>1. ASSUME IInv, NEW j \in Job, paste[j].burn
        PROVE  Cardinality(Had(j)) = IF paste[j].state = "gone" THEN 1 ELSE 0
    BY <1>1, FS_EmptySet, FS_Singleton DEF IInv, HandedOutOnce
  <1>2. ASSUME IInv, NEW j \in Job, NEW r \in Had(j)
        PROVE  /\ read[r].key # NoKey
               /\ read[r].pc = "shown" => read[r].key = paste[j].key
               /\ read[r].pc = "denied" => read[r].key # paste[j].key
               /\ read[r].pc = "lost" => faults > 0
    BY <1>2 DEF IInv, ReaderKnows, Outcome, Had
  <1>3. IInv => FetchedOnce
    BY <1>1, <1>2 DEF FetchedOnce, Had
  <1> QED BY <1>3, InitIInv, NextIInv, PTL DEF Spec
=============================================================================
