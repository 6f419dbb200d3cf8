------------------------ MODULE ClientSessionProofs ------------------------
(* Proofs about the programs that listen, for any letters, senders, peers   *)
(* and bounds: how their processes may die, what chat tells its user, the   *)
(* types, which letters are lost, in which order and how often one is shown.*)
EXTENDS ClientSession, FilterProofs, FiniteSetTheorems, TLAPS

-----------------------------------------------------------------------------
(* How a process dies.                                                      *)

\* What most steps leave alone.
endings == <<host, main, signal, process, typed, stop, seen>>

\* tui closes its channel when it leaves or when its handler of signals exits.
ClosedOnce == host = "tui" /\ stop /\ main # "leaving" => signal = "exiting"

\* Only a line that was typed is appended by the goroutine that reads the input.
TypedFirst == main = "appending" \/ seen["input"] # Nothing => typed > 0

CrashInv ==
    /\ typed \in Nat /\ stop \in BOOLEAN
    /\ DOMAIN seen = Appenders
    /\ process \in {"running", "exited", "closedTwice", "raced", "wroteLate"}
    /\ ClosedOnce /\ TypedFirst /\ CrashesAreNamed

LEMMA InitCrashInv == Init => CrashInv
  <1> SUFFICES ASSUME Init PROVE CrashInv
    OBVIOUS
  <1>1. /\ typed = 0 /\ stop = FALSE /\ process = "running" /\ main \in {"fetch", "launch"}
    BY DEF Init, StreamClientInit
  <1>2. seen = [a \in Appenders |-> Nothing]
    BY DEF Init, TuiInit
  <1> QED BY <1>1, <1>2 DEF CrashInv, ClosedOnce, TypedFirst, CrashesAreNamed, Appenders

LEMMA EndingsKept == CrashInv /\ UNCHANGED endings => CrashInv'
  BY DEF CrashInv, ClosedOnce, TypedFirst, CrashesAreNamed, Appenders, endings

\* The relay and the loop of ListenStream read what the programs set only.
LEMMA StreamKeepsEndings ==
  ASSUME ListenStream \/ RelayStep, UNCHANGED <<chatVars, tuiVars, answer>>
  PROVE  UNCHANGED endings
  <1>1. UNCHANGED seen
    BY DEF tuiVars
  <1>2. ASSUME ListenStream PROVE UNCHANGED <<host, main, signal, process, typed, stop>>
    BY <1>2 DEF ListenStream, LoopTop, Connect, RequestFails, Watch, Scan, ScanEnds, Resume,
                stream, session
  <1>3. ASSUME RelayStep PROVE UNCHANGED <<host, main, signal, process, typed, stop>>
    BY <1>3 DEF RelayStep, Post, PostAgain, Deliver, Flush, Subscribe, Break, session, stream
  <1> QED BY <1>1, <1>2, <1>3 DEF endings

\* chat closes its channel once, and dies of nothing.
LEMMA ChatCrash ==
  ASSUME CrashInv, ChatStep, UNCHANGED <<tuiVars, answer>>
  PROVE  CrashInv'
  <1>1. UNCHANGED seen
    BY DEF tuiVars
  <1>2. ASSUME ChatFetch \/ ChatFetchUnsaved \/ ChatFetchFails \/ ChatHandle
        PROVE  UNCHANGED endings
    BY <1>1, <1>2 DEF ChatFetch, ChatFetchUnsaved, ChatFetchFails, ChatHandle, Handled, endings,
                      stream, session
  <1>3. ASSUME ~(ChatFetch \/ ChatFetchUnsaved \/ ChatFetchFails \/ ChatHandle)
        PROVE  /\ host = "chat" /\ process = "running" /\ host' = host
               /\ process' \in {"running", "exited"}
               /\ stop' \in BOOLEAN /\ typed' \in Nat /\ typed' >= typed
               /\ main' # main => main' # "appending"
    <2> USE <1>3 DEF ChatStep, Chat, Running, stream, session, CrashInv
    <2>1. CASE ChatLaunch
      BY <2>1 DEF ChatLaunch
    <2>2. CASE \E sort \in {"text", "file"} : ChatRefuse(sort) \/ ChatSend(sort)
      BY <2>2 DEF ChatRefuse, ChatSend, Line
    <2>3. CASE ChatPost
      BY <2>3 DEF ChatPost, Over
    <2>4. CASE ChatPostFails
      BY <2>4 DEF ChatPostFails, StopPosting, Over
    <2>5. CASE ChatQuit
      BY <2>5 DEF ChatQuit, SafeClose
    <2>6. CASE ChatSignal
      BY <2>6 DEF ChatSignal, SafeClose
    <2>7. CASE ChatExit
      BY <2>7 DEF ChatExit, Exit
    <2> QED BY <2>1, <2>2, <2>3, <2>4, <2>5, <2>6, <2>7
  <1>4. ASSUME ~(ChatFetch \/ ChatFetchUnsaved \/ ChatFetchFails \/ ChatHandle) PROVE CrashInv'
    BY <1>1, <1>3, <1>4 DEF CrashInv, ClosedOnce, TypedFirst, CrashesAreNamed
  <1> QED BY <1>2, <1>4, EndingsKept

\* tui closes its channel a second time only when a signal and the end of the
\* input meet, and races with itself only when a line was typed.
LEMMA TuiCrash ==
  ASSUME CrashInv, TuiStep
  PROVE  CrashInv'
  <1> USE DEF Tui, Running, stream, session, CrashInv, ClosedOnce, TypedFirst, CrashesAreNamed,
              Appenders
  <1>1. CASE TuiFetch
    BY <1>1 DEF TuiFetch, tuiVars
  <1>2. CASE TuiFetchFails
    BY <1>2 DEF TuiFetchFails, tuiVars
  <1>3. CASE TuiLaunch
    BY <1>3 DEF TuiLaunch, tuiVars
  <1>4. CASE TuiPassOver
    BY <1>4 DEF TuiPassOver, Handled, tuiVars
  <1>5. CASE TuiReceive
    BY <1>5 DEF TuiReceive, Read
  <1>6. CASE TuiShow
    BY <1>6 DEF TuiShow, Store, Overlap, Handled
  <1>7. CASE TuiType
    BY <1>7 DEF TuiType, Read, Line
  <1>8. CASE TuiEcho
    BY <1>8 DEF TuiEcho, Store, Overlap
  <1>9. CASE TuiQuit
    BY <1>9 DEF TuiQuit, CloseChannel, tuiVars
  <1>10. CASE TuiSignal
    BY <1>10 DEF TuiSignal, CloseChannel, tuiVars
  <1>11. CASE TuiExit
    BY <1>11 DEF TuiExit, Exit, tuiVars
  <1> QED BY <1>1, <1>2, <1>3, <1>4, <1>5, <1>6, <1>7, <1>8, <1>9, <1>10, <1>11 DEF TuiStep

\* A daemon dies of a callback that writes after its handler has returned.
LEMMA BridgeCrash ==
  ASSUME CrashInv, BridgeStep, UNCHANGED <<chatVars, tuiVars>>
  PROVE  CrashInv'
  <1>0. UNCHANGED seen
    BY DEF tuiVars
  <1> USE <1>0 DEF Page, Running, stream, session, CrashInv, ClosedOnce, TypedFirst,
                   CrashesAreNamed, Appenders
  <1>1. CASE BridgeLaunch
    BY <1>1 DEF BridgeLaunch
  <1>2. CASE PageLeaves
    BY <1>2 DEF PageLeaves
  <1>3. CASE BridgeWrite
    BY <1>3 DEF BridgeWrite, Handled
  <1>4. CASE BridgeWritesLate
    BY <1>4 DEF BridgeWritesLate, Handled
  <1>5. ASSUME NEW s \in Sender, InboxRequest(s) \/ InboxRequestFails(s) PROVE CrashInv'
    BY <1>5 DEF InboxRequest, InboxRequestFails
  <1>6. CASE InboxAnswer
    BY <1>6 DEF InboxAnswer
  <1> QED BY <1>1, <1>2, <1>3, <1>4, <1>5, <1>6 DEF BridgeStep

LEMMA NextCrashInv == CrashInv /\ [Next]_vars => CrashInv'
  <1> SUFFICES ASSUME CrashInv, [Next]_vars PROVE CrashInv'
    OBVIOUS
  <1>1. CASE (ListenStream \/ RelayStep) /\ UNCHANGED <<chatVars, tuiVars, answer>>
    BY <1>1, StreamKeepsEndings, EndingsKept
  <1>2. CASE ChatStep /\ UNCHANGED <<tuiVars, answer>>
    BY <1>2, ChatCrash
  <1>3. CASE TuiStep /\ UNCHANGED <<chatVars, answer>>
    BY <1>3, TuiCrash
  <1>4. CASE BridgeStep /\ UNCHANGED <<chatVars, tuiVars>>
    BY <1>4, BridgeCrash
  <1>5. CASE UNCHANGED vars
    BY <1>5, EndingsKept DEF vars, streamClientVars, stream, session, tuiVars, endings
  <1> QED BY <1>1, <1>2, <1>3, <1>4, <1>5 DEF Next

\* CrashesAreNamed for all letters, peers and bounds: chat never dies of its own,
\* tui only of a signal that meets the end of its input or of a line typed while
\* it receives, a daemon only of a page that has left.
THEOREM CrashesNamed == Spec => []CrashesAreNamed
  <1>1. CrashInv => CrashesAreNamed
    BY DEF CrashInv
  <1> QED BY <1>1, InitCrashInv, NextCrashInv, PTL DEF Spec

-----------------------------------------------------------------------------
(* What chat says of a line.                                                *)

Verdicts == [sort : {"text", "file"}, verdict : {"sent", "failed", "refused"}, reached : Nat]

\* What steps of the relay and of other goroutines leave alone.
tellings == <<host, peers, main, usable, err, line, reports>>

\* The error that is tested for a file is that of the line or fetch before.
ErrIsOld ==
    err => IF reports = <<>> THEN faults > 0 ELSE reports[Len(reports)].verdict # "sent"

\* A line is posted while no error is kept, and not to all peers yet.
Posting ==
    main = "posting" =>
        /\ ~err /\ host = "chat"
        /\ line.sort \in {"text", "file"}
        /\ line.reached \in Nat /\ line.reached < Len(peers)

ReportInv ==
    /\ reports \in Seq(Verdicts) /\ faults \in Nat
    /\ usable \in BOOLEAN /\ err \in BOOLEAN
    /\ host = "chat" => Len(peers) \in Nat \ {0}
    /\ main = "fetch" => reports = <<>>
    /\ ErrIsOld /\ Posting /\ ReportIsTrue

LEMMA InitReportInv == Init => ReportInv
  <1> SUFFICES ASSUME Init PROVE ReportInv
    OBVIOUS
  <1>1. /\ host \in Host /\ peers \in Invited[host] /\ faults = 0
        /\ main \in {"fetch", "launch"}
    BY DEF Init, StreamClientInit
  <1>2. reports = <<>> /\ err = FALSE /\ usable \in BOOLEAN
    BY DEF Init, ChatInit
  <1>3. host = "chat" => Len(peers) \in Nat \ {0}
    BY <1>1, StreamClientAssumption
  <1>4. reports \in Seq(Verdicts) /\ ReportIsTrue
    BY <1>2 DEF ReportIsTrue
  <1> QED BY <1>1, <1>2, <1>3, <1>4 DEF ReportInv, ErrIsOld, Posting

\* Failures are only counted.
LEMMA TellingsKept ==
  ASSUME ReportInv, UNCHANGED tellings, faults' \in {faults, faults + 1}
  PROVE  ReportInv'
  <1>1. /\ UNCHANGED <<host, peers, main, usable, err, line, reports>>
        /\ faults \in Nat /\ faults' \in Nat /\ faults' >= faults
    BY DEF tellings, ReportInv
  <1>2. ReportIsTrue'
    BY <1>1 DEF ReportInv, ReportIsTrue, Told, AfterError
  <1> QED BY <1>1, <1>2 DEF ReportInv, ErrIsOld, Posting

LEMMA StreamKeepsTellings ==
  ASSUME ListenStream \/ RelayStep, UNCHANGED <<chatVars, tuiVars, answer>>
  PROVE  UNCHANGED tellings /\ faults' \in {faults, faults + 1}
  <1>1. UNCHANGED <<usable, err, line, reports>>
    BY DEF chatVars
  <1>2. ASSUME ListenStream
        PROVE  UNCHANGED <<host, peers, main>> /\ faults' \in {faults, faults + 1}
    BY <1>2 DEF ListenStream, LoopTop, Connect, RequestFails, Watch, Scan, ScanEnds, Resume,
                stream, session, Fault
  <1>3. ASSUME RelayStep
        PROVE  UNCHANGED <<host, peers, main>> /\ faults' \in {faults, faults + 1}
    BY <1>3 DEF RelayStep, Post, PostAgain, Deliver, Flush, Subscribe, Break, session, stream,
                Fault
  <1> QED BY <1>1, <1>2, <1>3 DEF tellings

\* A line is over: what is reported of it is so, and is remembered in err.
LEMMA ReportStep ==
  ASSUME ReportInv, NEW r \in Verdicts, reports' = Append(reports, r),
         UNCHANGED <<host, peers, usable>>, faults' \in Nat, faults' >= faults,
         main' = "prompt", err' \in BOOLEAN, err' => r.verdict # "sent",
         r.verdict = "sent" => usable /\ r.reached = Len(peers),
         r.verdict = "failed" => r.reached < Len(peers),
         r.verdict = "refused" => ~usable \/ (r.sort = "file" /\ err)
  PROVE  ReportInv'
  <1> DEFINE n == Len(reports)
  <1>1. reports \in Seq(Verdicts) /\ n \in Nat /\ faults \in Nat
    BY DEF ReportInv
  <1>2. /\ reports' \in Seq(Verdicts) /\ Len(reports') = n + 1 /\ reports' # <<>>
        /\ reports'[n + 1] = r /\ \A k \in 1 .. n : reports'[k] = reports[k]
        /\ DOMAIN reports' = 1 .. n + 1 /\ DOMAIN reports = 1 .. n
    BY <1>1
  <1>3. ErrIsOld'
    BY <1>2 DEF ErrIsOld
  <1>4. ReportIsTrue'
    <2> SUFFICES ASSUME NEW k \in 1 .. n + 1 PROVE Told(k)'
      BY <1>2 DEF ReportIsTrue
    <2>1. CASE k \in 1 .. n
      <3>1. reports'[k] = reports[k] /\ (k # 1 => reports'[k - 1] = reports[k - 1])
        BY <1>1, <1>2, <2>1
      <3>2. Told(k)
        BY <1>2, <2>1 DEF ReportInv, ReportIsTrue
      <3> QED BY <1>1, <3>1, <3>2 DEF Told, AfterError
    <2>2. CASE k = n + 1
      <3>1. err => IF n = 0 THEN faults > 0 ELSE reports[n].verdict # "sent"
        BY <1>1 DEF ReportInv, ErrIsOld
      <3>2. k # 1 => n \in 1 .. n /\ k - 1 = n
        BY <1>1, <2>2
      <3>3. err => IF k = 1 THEN faults' > 0 ELSE reports'[k - 1].verdict # "sent"
        <4>1. CASE k = 1
          BY <1>1, <2>2, <3>1, <4>1
        <4>2. CASE k # 1
          BY <1>1, <1>2, <3>1, <3>2, <4>2
        <4> QED BY <4>1, <4>2
      <3> QED BY <1>2, <2>2, <3>3 DEF Told, AfterError
    <2>3. k \in 1 .. n \/ k = n + 1
      BY <1>1
    <2> QED BY <2>1, <2>2, <2>3
  <1> QED BY <1>1, <1>2, <1>3, <1>4 DEF ReportInv, Posting

\* The fetches come before the first line.
LEMMA FetchReport ==
  ASSUME ReportInv, ChatFetch \/ ChatFetchUnsaved \/ ChatFetchFails
  PROVE  ReportInv'
  <1>1. /\ main = "fetch" /\ UNCHANGED <<host, peers, main, usable, line, reports>>
        /\ faults' \in {faults, faults + 1} /\ err' \in BOOLEAN
        /\ err' => err \/ faults' = faults + 1
    BY DEF ChatFetch, ChatFetchUnsaved, ChatFetchFails, Chat, session, Fault, FetchFails,
           ReportInv, SecondFetch
  <1>2. faults \in Nat /\ reports = <<>> /\ (err => faults > 0)
    BY <1>1 DEF ReportInv, ErrIsOld
  <1>3. ErrIsOld' /\ Posting' /\ ReportIsTrue'
    BY <1>1, <1>2 DEF ErrIsOld, Posting, ReportIsTrue
  <1> QED BY <1>1, <1>2, <1>3 DEF ReportInv

LEMMA ChatReport ==
  ASSUME ReportInv, ChatStep
  PROVE  ReportInv'
  <1>0. /\ reports \in Seq(Verdicts) /\ faults \in Nat /\ usable \in BOOLEAN
        /\ err \in BOOLEAN
    BY DEF ReportInv
  <1>1. CASE ChatFetch \/ ChatFetchUnsaved \/ ChatFetchFails
    BY <1>1, FetchReport
  <1>2. CASE ChatHandle
    BY <1>2, TellingsKept DEF ChatHandle, chatVars, tellings
  <1>3. ASSUME ChatLaunch \/ ChatQuit \/ ChatSignal \/ ChatExit PROVE ReportInv'
    <2>1. /\ UNCHANGED <<host, peers, usable, err, line, reports, faults>>
          /\ main' \in {main, "prompt", "leaving"}
      BY <1>3 DEF ChatLaunch, ChatQuit, ChatSignal, ChatExit, chatVars, Chat, session
    <2>2. ReportIsTrue'
      BY <2>1 DEF ReportInv, ReportIsTrue, Told, AfterError
    <2> QED BY <2>1, <2>2 DEF ReportInv, ErrIsOld, Posting
  <1>4. ASSUME NEW sort \in {"text", "file"}, ChatRefuse(sort) PROVE ReportInv'
    <2> DEFINE r == [sort |-> sort, verdict |-> "refused", reached |-> 0]
    <2>1. /\ r \in Verdicts /\ r.verdict = "refused" /\ r.sort = sort
      BY DEF Verdicts
    <2>2. /\ reports' = Append(reports, r) /\ UNCHANGED <<host, peers, usable, faults>>
          /\ main' = "prompt" /\ err' = TRUE
          /\ IF sort = "text" THEN ~usable ELSE err
      BY <1>4 DEF ChatRefuse, Report, Chat, TestedError
    <2> HIDE DEF r
    <2> QED BY <1>0, <2>1, <2>2, ReportStep
  <1>5. ASSUME NEW sort \in {"text", "file"}, ChatSend(sort) PROVE ReportInv'
    <2>1. /\ host = "chat" /\ UNCHANGED <<host, peers, usable, reports, faults>>
          /\ main' = "posting" /\ err' = FALSE /\ line' = [sort |-> sort, reached |-> 0]
      BY <1>5 DEF ChatSend, Chat
    <2>2. ReportIsTrue'
      BY <2>1 DEF ReportInv, ReportIsTrue, Told, AfterError
    <2>3. line'.sort = sort /\ line'.reached = 0 /\ 0 < Len(peers)
      BY <2>1 DEF ReportInv
    <2> QED BY <1>0, <2>1, <2>2, <2>3 DEF ReportInv, ErrIsOld, Posting
  <1>6. ASSUME ChatPost PROVE ReportInv'
    <2>1. /\ main = "posting" /\ usable /\ UNCHANGED <<host, peers, usable, err, faults>>
      BY <1>6 DEF ChatPost, Chat
    <2>2. /\ ~err /\ host = "chat" /\ line.sort \in {"text", "file"}
          /\ line.reached \in Nat /\ line.reached < Len(peers) /\ Len(peers) \in Nat
      BY <2>1 DEF ReportInv, Posting
    <2>3. CASE line.reached + 1 = Len(peers)
      <3> DEFINE r == [sort |-> line.sort, verdict |-> "sent", reached |-> Len(peers)]
      <3>1. r \in Verdicts /\ r.verdict = "sent" /\ r.reached = Len(peers)
        BY <2>2 DEF Verdicts
      <3>2. reports' = Append(reports, r) /\ main' = "prompt"
        BY <1>6, <2>3 DEF ChatPost, Over, Report
      <3> HIDE DEF r
      <3> QED BY <1>0, <2>1, <2>2, <3>1, <3>2, ReportStep
    <2>4. CASE line.reached + 1 # Len(peers)
      <3>1. UNCHANGED <<main, reports>> /\ line' = [line EXCEPT !.reached = @ + 1]
        BY <1>6, <2>4 DEF ChatPost
      <3>2. line'.sort = line.sort /\ line'.reached = line.reached + 1
        BY <3>1
      <3>3. ReportIsTrue'
        BY <2>1, <3>1 DEF ReportInv, ReportIsTrue, Told, AfterError
      <3> QED BY <1>0, <2>1, <2>2, <2>4, <3>1, <3>2, <3>3 DEF ReportInv, ErrIsOld, Posting
    <2> QED BY <2>3, <2>4
  <1>7. ASSUME ChatPostFails PROVE ReportInv'
    <2>1. /\ main = "posting" /\ UNCHANGED <<host, peers, usable>> /\ err' = TRUE
          /\ faults' \in {faults, faults + 1}
      BY <1>7 DEF ChatPostFails, Chat, Fault
    <2>2. /\ line.sort \in {"text", "file"}
          /\ line.reached \in Nat /\ line.reached < Len(peers)
      BY <2>1 DEF ReportInv, Posting
    <2> DEFINE r == [sort |-> line.sort, verdict |-> "failed", reached |-> line.reached]
    <2>3. r \in Verdicts /\ r.verdict = "failed" /\ r.reached < Len(peers)
      BY <2>2 DEF Verdicts
    <2>4. reports' = Append(reports, r) /\ main' = "prompt"
      BY <1>7 DEF ChatPostFails, StopPosting, Over, Report
    <2> HIDE DEF r
    <2> QED BY <1>0, <2>1, <2>3, <2>4, ReportStep
  <1> QED BY <1>1, <1>2, <1>3, <1>4, <1>5, <1>6, <1>7 DEF ChatStep

\* tui and the daemons report nothing and never go back to fetching or posting.
LEMMA OthersReport ==
  ASSUME ReportInv, TuiStep \/ BridgeStep, UNCHANGED chatVars
  PROVE  ReportInv'
  <1>0. UNCHANGED <<usable, err, line, reports>>
    BY DEF chatVars
  <1>1. ASSUME TuiStep
        PROVE  /\ UNCHANGED <<host, peers>> /\ (main' \notin {"fetch", "posting"} \/ main' = main)
               /\ faults' \in {faults, faults + 1}
    <2> USE <1>1 DEF Tui, stream, session
    <2>1. CASE TuiFetch \/ TuiFetchFails \/ TuiLaunch
      BY <2>1 DEF TuiFetch, TuiFetchFails, TuiLaunch, FetchFails, Fault
    <2>2. CASE TuiPassOver \/ TuiReceive \/ TuiShow
      BY <2>2 DEF TuiPassOver, TuiReceive, TuiShow
    <2>3. CASE TuiType \/ TuiEcho
      BY <2>3 DEF TuiType, TuiEcho
    <2>4. CASE TuiQuit \/ TuiSignal \/ TuiExit
      BY <2>4 DEF TuiQuit, TuiSignal, TuiExit
    <2> QED BY <2>1, <2>2, <2>3, <2>4 DEF TuiStep
  <1>2. ASSUME BridgeStep
        PROVE  /\ UNCHANGED <<host, peers>> /\ (main' \notin {"fetch", "posting"} \/ main' = main)
               /\ faults' \in {faults, faults + 1}
    BY <1>2 DEF BridgeStep, BridgeLaunch, PageLeaves, BridgeWrite, BridgeWritesLate, InboxRequest,
                InboxRequestFails, InboxAnswer, FetchFails, Fault, Page, stream, session
  <1>3. UNCHANGED <<host, peers>> /\ (main' \notin {"fetch", "posting"} \/ main' = main)
    BY <1>1, <1>2
  <1>4. faults \in Nat /\ faults' \in Nat /\ faults' >= faults
    BY <1>1, <1>2 DEF ReportInv
  <1>5. ReportIsTrue'
    BY <1>0, <1>3, <1>4 DEF ReportInv, ReportIsTrue, Told, AfterError
  <1> QED BY <1>0, <1>3, <1>4, <1>5 DEF ReportInv, ErrIsOld, Posting

LEMMA NextReportInv == ReportInv /\ [Next]_vars => ReportInv'
  <1> SUFFICES ASSUME ReportInv, [Next]_vars PROVE ReportInv'
    OBVIOUS
  <1>1. CASE (ListenStream \/ RelayStep) /\ UNCHANGED <<chatVars, tuiVars, answer>>
    BY <1>1, StreamKeepsTellings, TellingsKept
  <1>2. CASE ChatStep
    BY <1>2, ChatReport
  <1>3. CASE (TuiStep \/ BridgeStep) /\ UNCHANGED chatVars
    BY <1>3, OthersReport
  <1>4. CASE UNCHANGED vars
    BY <1>4, TellingsKept DEF vars, streamClientVars, session, chatVars, tellings
  <1> QED BY <1>1, <1>2, <1>3, <1>4 DEF Next

\* ReportIsTrue for all peers and lines: what chat says was sent has reached every
\* peer, what it says failed has not, and it refuses what cannot be encrypted, or a
\* file after an error that it did not forget.
THEOREM ReportsAreTrue == Spec => []ReportIsTrue
  <1>1. ReportInv => ReportIsTrue
    BY DEF ReportInv
  <1> QED BY <1>1, InitReportInv, NextReportInv, PTL DEF Spec

-----------------------------------------------------------------------------
(* Sequences of letters.                                                    *)

LEMMA MembersOf ==
  ASSUME NEW T, NEW s \in Seq(T), NEW x
  PROVE  x \in ToSet(s) <=> \E i \in 1 .. Len(s) : s[i] = x
  BY DEF ToSet

LEMMA SeqGrows ==
  ASSUME NEW S, NEW T, S \subseteq T, NEW s \in Seq(S)
  PROVE  s \in Seq(T)
  OBVIOUS

LEMMA EmptySet == ToSet(<<>>) = {}
  BY DEF ToSet

LEMMA AppendSet ==
  ASSUME NEW T, NEW s \in Seq(T), NEW x
  PROVE  ToSet(Append(s, x)) = ToSet(s) \cup {x}
  <1>1. /\ \A i \in DOMAIN s : i \in DOMAIN Append(s, x) /\ Append(s, x)[i] = s[i]
        /\ Len(s) + 1 \in DOMAIN Append(s, x) /\ Append(s, x)[Len(s) + 1] = x
        /\ \A i \in DOMAIN Append(s, x) : i \in DOMAIN s \/ i = Len(s) + 1
    OBVIOUS
  <1> QED BY <1>1 DEF ToSet

LEMMA ConcatSet ==
  ASSUME NEW T, NEW s \in Seq(T), NEW t \in Seq(T)
  PROVE  ToSet(s \o t) = ToSet(s) \cup ToSet(t)
  <1> DEFINE r == s \o t
  <1>1. /\ \A i \in DOMAIN s : i \in DOMAIN r /\ r[i] = s[i]
        /\ \A i \in DOMAIN t : Len(s) + i \in DOMAIN r /\ r[Len(s) + i] = t[i]
    OBVIOUS
  <1>2. \A i \in DOMAIN r : \/ i \in DOMAIN s /\ r[i] = s[i]
                            \/ i - Len(s) \in DOMAIN t /\ r[i] = t[i - Len(s)]
    OBVIOUS
  <1> HIDE DEF r
  <1>3. ToSet(r) \subseteq ToSet(s) \cup ToSet(t)
    BY <1>2 DEF ToSet
  <1>4. ToSet(s) \cup ToSet(t) \subseteq ToSet(r)
    BY <1>1 DEF ToSet
  <1> QED BY <1>3, <1>4 DEF r

LEMMA HeadTailSet ==
  ASSUME NEW T, NEW s \in Seq(T), s # <<>>
  PROVE  /\ Head(s) \in T /\ Tail(s) \in Seq(T)
         /\ ToSet(s) = {Head(s)} \cup ToSet(Tail(s))
  <1>1. /\ Head(s) = s[1] /\ 1 \in DOMAIN s /\ Tail(s) \in Seq(T)
        /\ \A i \in DOMAIN Tail(s) : i + 1 \in DOMAIN s /\ Tail(s)[i] = s[i + 1]
        /\ \A i \in DOMAIN s : i = 1 \/ (i - 1 \in DOMAIN Tail(s) /\ Tail(s)[i - 1] = s[i])
    OBVIOUS
  <1> QED BY <1>1 DEF ToSet

\* A sequence cut in two.
LEMMA CutSet ==
  ASSUME NEW T, NEW s \in Seq(T), NEW n \in 0 .. Len(s)
  PROVE  /\ SubSeq(s, 1, n) \in Seq(T)
         /\ ToSet(s) = ToSet(SubSeq(s, 1, n)) \cup ToSet(SubSeq(s, n + 1, Len(s)))
         /\ Len(SubSeq(s, 1, n)) = n /\ \A i \in 1 .. n : SubSeq(s, 1, n)[i] = s[i]
  <1> DEFINE r == SubSeq(s, n + 1, Len(s))
             t == SubSeq(s, 1, n)
  <1>1. /\ Len(s) \in Nat /\ DOMAIN s = 1 .. Len(s)
        /\ t \in Seq(T) /\ Len(t) = n /\ \A i \in 1 .. n : t[i] = s[i]
    OBVIOUS
  <1>2. /\ r \in Seq(T) /\ Len(r) = Len(s) - n
        /\ \A i \in 1 .. (Len(s) - n) : r[i] = s[n + i]
    OBVIOUS
  <1> HIDE DEF r, t
  <1>3. DOMAIN t = 1 .. n /\ DOMAIN r = 1 .. (Len(s) - n)
    BY <1>1, <1>2 DEF t
  <1>4. ASSUME NEW x \in ToSet(s) PROVE x \in ToSet(t) \cup ToSet(r)
    <2>1. PICK i \in 1 .. Len(s) : s[i] = x
      BY <1>1 DEF ToSet
    <2>2. CASE i <= n
      BY <1>1, <1>3, <2>1, <2>2 DEF ToSet
    <2>3. CASE i > n
      <3>1. i - n \in 1 .. (Len(s) - n) /\ n + (i - n) = i
        BY <1>1, <2>3
      <3> QED BY <1>2, <1>3, <2>1, <3>1 DEF ToSet
    <2> QED BY <1>1, <2>2, <2>3
  <1>5. ToSet(t) \subseteq ToSet(s)
    BY <1>1, <1>3 DEF ToSet
  <1>6. ToSet(r) \subseteq ToSet(s)
    <2> SUFFICES ASSUME NEW x \in ToSet(r) PROVE x \in ToSet(s)
      OBVIOUS
    <2>1. PICK i \in 1 .. (Len(s) - n) : r[i] = x
      BY <1>3 DEF ToSet
    <2>2. n + i \in DOMAIN s /\ s[n + i] = x
      BY <1>1, <1>2, <2>1
    <2> QED BY <2>2 DEF ToSet
  <1> QED BY <1>1, <1>4, <1>5, <1>6 DEF r, t

LEMMA KeepSet ==
  ASSUME NEW T, NEW s \in Seq(T), NEW S
  PROVE  Keep(s, S) \in Seq(T) /\ ToSet(Keep(s, S)) = ToSet(s) \cap S
  <1> DEFINE kept == Keep(s, S)
  <1>1. kept \in Seq(T) /\ \E h : Places(s, S, Len(s), kept, h)
    BY KeepPlaces
  <1> HIDE DEF kept
  <1>2. PICK h : Places(s, S, Len(s), kept, h)
    BY <1>1
  <1>3. DOMAIN s = 1 .. Len(s)
    OBVIOUS
  <1> QED BY <1>1, <1>2, <1>3 DEF Places, ToSet, kept

-----------------------------------------------------------------------------
(* The order of letters.  P is a sequence of letters posted; s, t sequences *)
(* of their indexes.                                                        *)

\* Letters of one sender come in the order of posting.
Sorted(s, P) ==
    \A k, l \in DOMAIN s : k < l /\ P[s[k]].from = P[s[l]].from => s[k] <= s[l]

\* Nothing in s of the sender of i is later than i, or earlier.
UpTo(s, i, P) == \A k \in DOMAIN s : P[s[k]].from = P[i].from => s[k] <= i
After(i, s, P) == \A k \in DOMAIN s : P[s[k]].from = P[i].from => i <= s[k]

\* If s has i and j, it has i first.
First(i, j, s) ==
    i \in ToSet(s) /\ j \in ToSet(s) => \E k \in DOMAIN s : s[k] = i /\ \A l \in 1 .. k : s[l] # j

LEMMA SortedEmpty == ASSUME NEW P PROVE Sorted(<<>>, P)
  BY DEF Sorted

LEMMA SortedAppend ==
  ASSUME NEW T, NEW P, NEW s \in Seq(T), Sorted(s, P), NEW i \in Nat, UpTo(s, i, P)
  PROVE  Sorted(Append(s, i), P)
  <1> DEFINE r == Append(s, i)
             n == Len(s)
  <1>1. /\ \A k \in 1 .. n : r[k] = s[k]
        /\ r[n + 1] = i /\ DOMAIN r = 1 .. (n + 1) /\ DOMAIN s = 1 .. n /\ n \in Nat
    OBVIOUS
  <1> HIDE DEF r, n
  <1>2. ASSUME NEW k \in 1 .. (n + 1), NEW l \in 1 .. (n + 1), k < l,
               P[r[k]].from = P[r[l]].from
        PROVE  r[k] <= r[l]
    <2>1. k \in 1 .. n /\ (l \in 1 .. n \/ l = n + 1)
      BY <1>1, <1>2
    <2> QED BY <1>1, <1>2, <2>1 DEF Sorted, UpTo
  <1> QED BY <1>1, <1>2 DEF Sorted, r

LEMMA SortedTail ==
  ASSUME NEW T, NEW P, NEW s \in Seq(T), s # <<>>, Sorted(s, P)
  PROVE  Sorted(Tail(s), P) /\ After(Head(s), Tail(s), P)
  <1>1. /\ Head(s) = s[1] /\ 1 \in DOMAIN s /\ DOMAIN Tail(s) = 1 .. (Len(s) - 1)
        /\ Len(s) \in Nat /\ DOMAIN s = 1 .. Len(s)
        /\ \A i \in DOMAIN Tail(s) : i + 1 \in DOMAIN s /\ Tail(s)[i] = s[i + 1]
    OBVIOUS
  <1> DEFINE t == Tail(s)
  <1> HIDE DEF t
  <1>2. \A i \in DOMAIN t : i \in Nat /\ i + 1 \in DOMAIN s /\ t[i] = s[i + 1] /\ 1 < i + 1
    BY <1>1 DEF t
  <1>3. \A i, j \in DOMAIN t : i < j => i + 1 < j + 1
    BY <1>2
  <1>4. Sorted(t, P)
    BY <1>2, <1>3 DEF Sorted
  <1>5. After(s[1], t, P)
    BY <1>1, <1>2 DEF Sorted, After
  <1> QED BY <1>1, <1>4, <1>5 DEF t

LEMMA SortedCut ==
  ASSUME NEW T, NEW P, NEW s \in Seq(T), Sorted(s, P), NEW n \in 0 .. Len(s)
  PROVE  Sorted(SubSeq(s, 1, n), P)
  <1> DEFINE t == SubSeq(s, 1, n)
  <1>1. Len(t) = n /\ t \in Seq(T) /\ \A i \in 1 .. n : t[i] = s[i]
    BY CutSet
  <1> HIDE DEF t
  <1>2. DOMAIN t = 1 .. n /\ \A i \in 1 .. n : i \in DOMAIN s
    BY <1>1
  <1>3. Sorted(t, P)
    BY <1>1, <1>2 DEF Sorted
  <1> QED BY <1>3 DEF t

LEMMA SortedKeep ==
  ASSUME NEW T, NEW P, NEW s \in Seq(T), Sorted(s, P), NEW S
  PROVE  Sorted(Keep(s, S), P)
  <1> DEFINE kept == Keep(s, S)
  <1>1. kept \in Seq(T) /\ \E h : Places(s, S, Len(s), kept, h)
    BY KeepPlaces
  <1> HIDE DEF kept
  <1>2. PICK h : Places(s, S, Len(s), kept, h)
    BY <1>1
  <1>3. DOMAIN s = 1 .. Len(s)
    OBVIOUS
  <1>4. \A i \in DOMAIN kept : h[i] \in DOMAIN s /\ kept[i] = s[h[i]]
    BY <1>2, <1>3 DEF Places
  <1>5. \A i, j \in DOMAIN kept : i < j => h[i] < h[j]
    BY <1>2 DEF Places
  <1>6. Sorted(kept, P)
    BY <1>4, <1>5 DEF Sorted
  <1> QED BY <1>6 DEF kept

\* The order does not depend on letters posted later.
LEMMA SortedStays ==
  ASSUME NEW P, NEW Q, NEW s \in Seq(DOMAIN P), \A i \in DOMAIN P : Q[i] = P[i]
  PROVE  Sorted(s, P) => Sorted(s, Q)
  BY DEF Sorted

\* i is first in a sequence that has both, and in one it is added to.
LEMMA FirstSorted ==
  ASSUME NEW P, NEW s \in Seq(Nat), Sorted(s, P), NEW i \in Nat, NEW j \in Nat, i < j,
         P[i].from = P[j].from
  PROVE  First(i, j, s)
  <1> SUFFICES ASSUME i \in ToSet(s)
               PROVE  \E k \in DOMAIN s : s[k] = i /\ \A l \in 1 .. k : s[l] # j
    BY DEF First
  <1>1. PICK k \in DOMAIN s : s[k] = i
    BY DEF ToSet
  <1>2. ASSUME NEW l \in 1 .. k, s[l] = j PROVE FALSE
    <2>1. l \in DOMAIN s /\ (l = k \/ l < k)
      BY <1>1
    <2> QED BY <1>1, <1>2, <2>1 DEF Sorted
  <1> QED BY <1>1, <1>2

LEMMA FirstConcat ==
  ASSUME NEW T, NEW s \in Seq(T), NEW t \in Seq(T), NEW i, NEW j,
         First(i, j, s), First(i, j, t),
         j \in ToSet(s) /\ i \notin ToSet(s) => i \notin ToSet(t)
  PROVE  First(i, j, s \o t)
  <1> DEFINE r == s \o t
  <1>1. /\ DOMAIN r = 1 .. (Len(s) + Len(t)) /\ Len(s) \in Nat /\ Len(t) \in Nat
        /\ DOMAIN s = 1 .. Len(s) /\ DOMAIN t = 1 .. Len(t)
        /\ \A k \in DOMAIN s : r[k] = s[k]
        /\ \A k \in DOMAIN t : r[Len(s) + k] = t[k]
    OBVIOUS
  <1>2. ToSet(r) = ToSet(s) \cup ToSet(t)
    BY ConcatSet
  <1> HIDE DEF r
  <1> SUFFICES ASSUME i \in ToSet(r), j \in ToSet(r)
               PROVE  \E k \in DOMAIN r : r[k] = i /\ \A l \in 1 .. k : r[l] # j
    BY DEF First, r
  <1>3. CASE i \in ToSet(s)
    <2>1. PICK k \in DOMAIN s : s[k] = i /\ \A l \in 1 .. k : s[l] # j
      <3>1. CASE j \in ToSet(s)
        BY <1>3, <3>1 DEF First
      <3>2. CASE j \notin ToSet(s)
        <4>1. PICK k \in DOMAIN s : s[k] = i
          BY <1>3 DEF ToSet
        <4>2. \A l \in 1 .. k : l \in DOMAIN s
          BY <1>1
        <4> QED BY <3>2, <4>1, <4>2 DEF ToSet
      <3> QED BY <3>1, <3>2
    <2>2. k \in DOMAIN r /\ \A l \in 1 .. k : l \in DOMAIN s
      BY <1>1
    <2> QED BY <1>1, <2>1, <2>2
  <1>4. CASE i \notin ToSet(s)
    <2>1. i \in ToSet(t) /\ j \notin ToSet(s) /\ j \in ToSet(t)
      BY <1>2, <1>4
    <2>2. PICK k \in DOMAIN t : t[k] = i /\ \A l \in 1 .. k : t[l] # j
      BY <2>1 DEF First
    <2>3. Len(s) + k \in DOMAIN r /\ r[Len(s) + k] = i
      BY <1>1, <2>2
    <2>4. ASSUME NEW l \in 1 .. (Len(s) + k) PROVE r[l] # j
      <3>1. CASE l \in DOMAIN s
        BY <1>1, <2>1, <3>1 DEF ToSet
      <3>2. CASE l \notin DOMAIN s
        <4>1. l - Len(s) \in 1 .. k /\ l - Len(s) \in DOMAIN t /\ Len(s) + (l - Len(s)) = l
          BY <1>1, <3>2
        <4> QED BY <1>1, <2>2, <4>1
      <3> QED BY <3>1, <3>2
    <2> QED BY <2>3, <2>4
  <1> QED BY <1>3, <1>4

LEMMA FirstAppend ==
  ASSUME NEW T, NEW s \in Seq(T), NEW x \in T, NEW i, NEW j, i # j, First(i, j, s),
         j \in ToSet(s) /\ i \notin ToSet(s) => x # i
  PROVE  First(i, j, Append(s, x))
  <1>1. Append(s, x) = s \o <<x>> /\ <<x>> \in Seq(T)
    OBVIOUS
  <1>2. ToSet(<<x>>) = {x}
    BY DEF ToSet
  <1>3. First(i, j, <<x>>)
    BY <1>2 DEF First
  <1> QED BY <1>1, <1>2, <1>3, FirstConcat

-----------------------------------------------------------------------------
(* The types, and what the control says of the stream and the session.      *)

\* The copies posted are counted, and bounded with the lines typed.
CountInv ==
    /\ posted \in Seq(Mails) /\ copies \in [Letters -> 1 .. MaxEvents]
    /\ again \in 0 .. MaxEvents /\ typed \in 0 .. MaxEvents
    /\ Len(posted) + again + typed <= MaxEvents
    /\ \A i \in Letters : copies[i] <= 1 + again

\* What a goroutine may have read of the slice.
Slices == Seq(Letters \cup {0}) \cup {Nothing}

LetterInv ==
    /\ inbox \in Seq(Letters) /\ wire \in Seq(Letters) /\ answer \in Seq(Letters)
    /\ gap \subseteq Letters /\ cut \subseteq Letters /\ hand \in Letters \cup {0}
    /\ shown \in Seq(Letters \cup {0}) /\ overwritten \subseteq Letters \cup {0}
    /\ seen \in [Appenders -> Slices]

\* Which stream there is, and who handles what, goes with where the loop and the
\* program are; and a letter is cut off by a failure or at the end only.
ControlInv ==
    /\ host \in Host /\ peers \in Invited[host] /\ faults \in 0 .. MaxFaults
    /\ stop \in BOOLEAN /\ signal \in {"waiting", "exiting"}
    /\ process \in {"running", "exited", "closedTwice", "raced", "wroteLate"}
    /\ main \in {"fetch", "launch", "prompt", "posting", "appending", "leaving", "serving",
                 "left"}
    /\ loop \in {"off", "top", "request", "reading", "handling", "appending", "pause", "ended"}
    /\ link \in {"none", "open", "flushed", "live"}
    /\ (hand # 0) <=> (loop \in {"handling", "appending"})
    /\ loop \notin {"reading", "handling", "appending"} => wire = <<>> /\ link = "none"
    /\ link = "open" => wire = <<>> /\ loop = "reading"
    /\ main \in {"fetch", "launch"} => loop = "off"
    /\ main = "left" => stop /\ host \in {"web", "shell"}
    /\ answer # <<>> => host = "shell" /\ main \in {"serving", "left"}
    /\ host = "tui" /\ main = "fetch" => shown = <<>>
    /\ (seen["stream"] # Nothing) <=> (loop = "appending")
    /\ (seen["input"] # Nothing) <=> (main = "appending")
    /\ cut # {} => faults > 0 \/ stop
    /\ overwritten # {} => host = "tui"

ChatInv ==
    /\ ToSet(todo) \subseteq ToSet(peers) /\ todo \in Seq(ToSet(peers))
    /\ usable \in BOOLEAN /\ err \in BOOLEAN
    /\ reports \in Seq(Verdicts)
    /\ \A k \in DOMAIN reports : reports[k].reached \in 0 .. Len(peers)

SessionInv == CountInv /\ LetterInv /\ ControlInv

LEMMA ZeroIsNone ==
  ASSUME CountInv
  PROVE  Letters = 1 .. Len(posted) /\ Len(posted) \in Nat /\ 0 \notin Letters
         /\ Nothing \notin Seq(Letters \cup {0})
  <1>1. Letters = 1 .. Len(posted) /\ Len(posted) \in Nat /\ 0 \notin Letters
    BY DEF CountInv, Letters
  <1>2. ASSUME Nothing \in Seq(Letters \cup {0}) PROVE FALSE
    <2>1. Nothing[1] \in Letters \cup {0}
      BY <1>2 DEF Nothing
    <2> QED BY <1>1, <2>1 DEF Nothing
  <1> QED BY <1>1, <1>2

LEMMA PeersAreListed ==
  ASSUME ControlInv
  PROVE  /\ peers \in Seq(ToSet(peers)) /\ Len(peers) \in Nat
         /\ host \in {"chat", "tui"} => peers # <<>> /\ Head(peers) \in ToSet(peers)
  <1>1. /\ peers \in Seq(ToSet(peers)) /\ Len(peers) \in Nat
        /\ host = "chat" => Len(peers) # 0
        /\ host = "tui" => Len(peers) = 1
    BY StreamClientAssumption DEF ControlInv
  <1>2. Len(peers) # 0 => peers # <<>>
    OBVIOUS
  <1>3. peers # <<>> => Head(peers) \in ToSet(peers)
    BY <1>1, HeadTailSet
  <1> QED BY <1>1, <1>2, <1>3

LEMMA InitSessionInv == Init => SessionInv
  <1> SUFFICES ASSUME Init PROVE SessionInv
    OBVIOUS
  <1> USE DEF Init, StreamClientInit, TuiInit, BridgeInit
  <1>0. MaxEvents \in Nat /\ MaxFaults \in Nat
    BY StreamClientAssumption
  <1>1. Letters = {} /\ Len(posted) = 0
    BY DEF Letters
  <1>2. CountInv
    BY <1>0, <1>1 DEF CountInv
  <1>3. LetterInv
    <2>1. seen \in [Appenders -> Slices]
      BY DEF Slices
    <2> QED BY <1>1, <2>1 DEF LetterInv
  <1>4. seen["stream"] = Nothing /\ seen["input"] = Nothing
    BY DEF Appenders
  <1>5. /\ host \in Host /\ peers \in Invited[host] /\ main \in {"fetch", "launch"}
        /\ faults \in 0 .. MaxFaults /\ stop = FALSE /\ signal = "waiting"
        /\ process = "running" /\ loop = "off" /\ link = "none" /\ hand = 0 /\ wire = <<>>
        /\ answer = <<>> /\ shown = <<>> /\ cut = {} /\ overwritten = {}
    BY <1>0
  <1>6. ControlInv
    <2> USE <1>4, <1>5
    <2>1. /\ hand # 0 <=> loop \in {"handling", "appending"}
          /\ seen["stream"] # Nothing <=> loop = "appending"
          /\ seen["input"] # Nothing <=> main = "appending"
      OBVIOUS
    <2> QED BY <2>1 DEF ControlInv
  <1> QED BY <1>2, <1>3, <1>6 DEF SessionInv

-----------------------------------------------------------------------------
LEMMA StreamControl ==
  ASSUME SessionInv, ListenStream \/ RelayStep, UNCHANGED <<chatVars, tuiVars, answer>>
  PROVE  ControlInv'
  <1>0. ControlInv /\ MaxFaults \in Nat /\ UNCHANGED <<seen, overwritten>>
    BY StreamClientAssumption DEF SessionInv, tuiVars
  <1> USE <1>0 DEF ControlInv, Running, session, stream, posts, relay
  <1>1. CASE LoopTop
    BY <1>1 DEF LoopTop, Ask
  <1>2. CASE Connect
    BY <1>2 DEF Connect
  <1>3. CASE RequestFails
    BY <1>3 DEF RequestFails, Fault, Retry
  <1>4. ASSUME Watch \/ Break PROVE ControlInv'
    <2>1. /\ UNCHANGED <<stream, session>> /\ Sever /\ link # "none"
          /\ (stop /\ faults' = faults) \/ (faults' = faults + 1 /\ faults < MaxFaults)
      BY <1>4 DEF Watch, Closed, Break, Fault
    <2>2. link' = "none" /\ loop \in {"reading", "handling", "appending"}
      BY <2>1 DEF Sever
    <2> QED BY <2>1, <2>2
  <1>5. CASE Scan
    <2>1. /\ loop = "reading" /\ loop' = "handling" /\ hand' = Head(wire) /\ wire # <<>>
          /\ wire \in Seq(Letters) /\ UNCHANGED <<link, stop, session, faults, cut>>
      BY <1>5 DEF Scan, TakeNext, SessionInv, LetterInv
    <2>2. hand' # 0
      BY <2>1, HeadTailSet, ZeroIsNone DEF SessionInv
    <2> QED BY <2>1, <2>2
  <1>6. CASE ScanEnds
    BY <1>6 DEF ScanEnds
  <1>7. CASE Resume
    BY <1>7 DEF Resume
  <1>8. ASSUME NEW mail \in Mails, Post(mail) PROVE ControlInv'
    BY <1>8 DEF Post, Deliver
  <1>9. ASSUME NEW i \in Letters, PostAgain(i) PROVE ControlInv'
    BY <1>9 DEF PostAgain, Deliver
  <1>10. CASE Flush
    BY <1>10 DEF Flush
  <1>11. CASE Subscribe
    BY <1>11 DEF Subscribe
  <1> QED BY <1>1, <1>2, <1>3, <1>4, <1>5, <1>6, <1>7, <1>8, <1>9, <1>10, <1>11
          DEF ListenStream, RelayStep

LEMMA ChatControl ==
  ASSUME SessionInv, ChatStep, UNCHANGED <<tuiVars, answer>>
  PROVE  ControlInv'
  <1>0. ControlInv /\ MaxFaults \in Nat /\ UNCHANGED <<seen, overwritten>>
    BY StreamClientAssumption DEF SessionInv, tuiVars
  <1> USE <1>0 DEF ControlInv, Chat, Running, session, stream, posts, relay
  <1>1. CASE ChatFetch
    BY <1>1 DEF ChatFetch
  <1>2. CASE ChatFetchUnsaved
    BY <1>2 DEF ChatFetchUnsaved, Fault
  <1>3. CASE ChatFetchFails
    BY <1>3 DEF ChatFetchFails, FetchFails, Fault
  <1>4. CASE ChatLaunch
    BY <1>4 DEF ChatLaunch, chatVars
  <1>5. CASE ChatHandle
    BY <1>5 DEF ChatHandle, Handled
  <1>6. ASSUME NEW sort \in {"text", "file"}, ChatRefuse(sort) \/ ChatSend(sort)
        PROVE  ControlInv'
    BY <1>6 DEF ChatRefuse, ChatSend
  <1>7. CASE ChatPost
    BY <1>7 DEF ChatPost, Over
  <1>8. CASE ChatPostFails
    BY <1>8 DEF ChatPostFails, StopPosting, Over, Fault
  <1>9. CASE ChatQuit
    BY <1>9 DEF ChatQuit, SafeClose
  <1>10. CASE ChatSignal
    BY <1>10 DEF ChatSignal, SafeClose
  <1>11. CASE ChatExit
    BY <1>11 DEF ChatExit, Exit
  <1> QED BY <1>1, <1>2, <1>3, <1>4, <1>5, <1>6, <1>7, <1>8, <1>9, <1>10, <1>11 DEF ChatStep

LEMMA TuiControl ==
  ASSUME SessionInv, TuiStep, UNCHANGED <<chatVars, answer>>
  PROVE  ControlInv'
  <1>0. ControlInv /\ MaxFaults \in Nat /\ seen \in [Appenders -> Slices]
    BY StreamClientAssumption DEF SessionInv, LetterInv
  <1>00. Nothing \notin Seq(Letters \cup {0})
    BY ZeroIsNone DEF SessionInv
  <1>01. shown # Nothing
    BY <1>00 DEF SessionInv, LetterInv
  <1> USE <1>0 DEF ControlInv, Tui, Running, session, stream, posts, relay, tuiVars
  <1>1. CASE TuiFetch
    BY <1>1 DEF TuiFetch
  <1>2. CASE TuiFetchFails
    BY <1>2 DEF TuiFetchFails, FetchFails, Fault
  <1>3. CASE TuiLaunch
    BY <1>3 DEF TuiLaunch
  <1>4. CASE TuiPassOver
    BY <1>4 DEF TuiPassOver, Handled
  <1>5. CASE TuiReceive
    BY <1>5, <1>01 DEF TuiReceive, Read, Appenders
  <1>6. CASE TuiShow
    BY <1>6 DEF TuiShow, Store, Handled, Appenders, Overlap
  <1>7. CASE TuiType
    BY <1>7, <1>01 DEF TuiType, Read, Appenders
  <1>8. CASE TuiEcho
    BY <1>8 DEF TuiEcho, Store, Appenders, Overlap
  <1>9. CASE TuiQuit
    BY <1>9 DEF TuiQuit, CloseChannel
  <1>10. CASE TuiSignal
    BY <1>10 DEF TuiSignal, CloseChannel
  <1>11. CASE TuiExit
    BY <1>11 DEF TuiExit, Exit
  <1> QED BY <1>1, <1>2, <1>3, <1>4, <1>5, <1>6, <1>7, <1>8, <1>9, <1>10, <1>11 DEF TuiStep

LEMMA BridgeControl ==
  ASSUME SessionInv, BridgeStep, UNCHANGED <<chatVars, tuiVars>>
  PROVE  ControlInv'
  <1>0. ControlInv /\ MaxFaults \in Nat /\ UNCHANGED <<seen, overwritten>>
    BY StreamClientAssumption DEF SessionInv, tuiVars
  <1> USE <1>0 DEF ControlInv, Page, Running, session, stream, posts, relay
  <1>1. CASE BridgeLaunch
    BY <1>1 DEF BridgeLaunch
  <1>2. CASE PageLeaves
    BY <1>2 DEF PageLeaves
  <1>3. CASE BridgeWrite
    BY <1>3 DEF BridgeWrite, Handled
  <1>4. CASE BridgeWritesLate
    BY <1>4 DEF BridgeWritesLate, Handled
  <1>5. ASSUME NEW s \in Sender, InboxRequest(s) PROVE ControlInv'
    BY <1>5 DEF InboxRequest
  <1>6. ASSUME NEW s \in Sender, InboxRequestFails(s) PROVE ControlInv'
    BY <1>6 DEF InboxRequestFails, FetchFails, Fault
  <1>7. CASE InboxAnswer
    BY <1>7 DEF InboxAnswer
  <1> QED BY <1>1, <1>2, <1>3, <1>4, <1>5, <1>6, <1>7 DEF BridgeStep

-----------------------------------------------------------------------------
\* What a fetch finds and leaves, and what of it can be read.
LEMMA FetchParts ==
  ASSUME LetterInv, NEW s
  PROVE  /\ Found(s) \in Seq(Letters) /\ Left(s) \in Seq(Letters)
         /\ Legible(Found(s)) \in Seq(Letters)
         /\ ToSet(Found(s)) = {i \in ToSet(inbox) : From(s, i)}
         /\ ToSet(Left(s)) = {i \in ToSet(inbox) : ~From(s, i)}
         /\ ToSet(Legible(Found(s))) = {i \in ToSet(inbox) : From(s, i) /\ Readable(i)}
         /\ ToSet(inbox) \subseteq Letters
  <1>1. inbox \in Seq(Letters) /\ ToSet(inbox) \subseteq Letters
    BY DEF LetterInv, ToSet
  <1>2. /\ Found(s) \in Seq(Letters)
        /\ ToSet(Found(s)) = ToSet(inbox) \cap {i \in Letters : From(s, i)}
    BY <1>1, KeepSet DEF Found
  <1>3. /\ Left(s) \in Seq(Letters)
        /\ ToSet(Left(s)) = ToSet(inbox) \cap {i \in Letters : ~From(s, i)}
    BY <1>1, KeepSet DEF Left
  <1>4. /\ Legible(Found(s)) \in Seq(Letters)
        /\ ToSet(Legible(Found(s))) = ToSet(Found(s)) \cap {i \in Letters : Readable(i)}
    BY <1>2, KeepSet DEF Legible
  <1> QED BY <1>1, <1>2, <1>3, <1>4

LEMMA AppendIn ==
  ASSUME NEW T, NEW s \in Seq(T), NEW x \in T
  PROVE  Append(s, x) \in Seq(T)
  OBVIOUS

LEMMA Shown ==
  ASSUME NEW s \in Seq(Letters)
  PROVE  s \in Seq(Letters \cup {0}) /\ ToSet(s) \subseteq Letters
  BY SeqGrows DEF ToSet

\* A stream that ends: what has arrived, and what has not.
LEMMA SeverParts ==
  ASSUME LetterInv, ControlInv, Sever
  PROVE  /\ inbox' \in {inbox, <<>>} /\ wire' \in Seq(Letters) /\ link' = "none"
         /\ cut \subseteq cut' /\ cut' \subseteq Letters
         /\ ToSet(inbox) \cup ToSet(wire) \subseteq ToSet(inbox') \cup ToSet(wire') \cup cut'
         /\ \E written \in Seq(Letters), n \in Nat :
               /\ n \in 0 .. Len(written) /\ wire' = SubSeq(written, 1, n)
               /\ \/ written = wire /\ inbox' = inbox
                  \/ written = inbox /\ inbox' = <<>> /\ wire = <<>> /\ hand = 0 /\ link = "open"
  <1>0. PICK drained \in (IF link = "open" THEN {<<>>, inbox} ELSE {<<>>}) :
             \E n \in 0 .. Len(wire \o drained) :
               /\ wire' = SubSeq(wire \o drained, 1, n)
               /\ cut' = cut \cup ToSet(SubSeq(wire \o drained, n + 1, Len(wire \o drained)))
               /\ inbox' = IF drained = <<>> THEN inbox ELSE <<>>
               /\ link' = "none"
    BY DEF Sever
  <1>1. PICK n \in 0 .. Len(wire \o drained) :
               /\ wire' = SubSeq(wire \o drained, 1, n)
               /\ cut' = cut \cup ToSet(SubSeq(wire \o drained, n + 1, Len(wire \o drained)))
               /\ inbox' = IF drained = <<>> THEN inbox ELSE <<>>
               /\ link' = "none"
    BY <1>0
  <1> DEFINE written == wire \o drained
  <1>2. inbox \in Seq(Letters) /\ wire \in Seq(Letters) /\ cut \subseteq Letters
    BY DEF LetterInv
  <1>3. \A s \in Seq(Letters) : <<>> \o s = s /\ s \o <<>> = s
    OBVIOUS
  <1>4. \/ written = wire /\ inbox' = inbox
        \/ written = inbox /\ inbox' = <<>> /\ wire = <<>> /\ hand = 0 /\ link = "open"
    <2>1. CASE drained = <<>>
      BY <1>1, <1>2, <1>3, <2>1
    <2>2. CASE drained # <<>>
      <3>1. link = "open" /\ drained = inbox
        BY <1>0, <2>2
      <3>2. wire = <<>> /\ hand = 0
        BY <3>1 DEF ControlInv
      <3> QED BY <1>1, <1>2, <1>3, <2>2, <3>1, <3>2
    <2> QED BY <2>1, <2>2
  <1>5. written \in Seq(Letters)
    BY <1>2, <1>4
  <1>6. n \in Nat /\ n \in 0 .. Len(written) /\ wire' = SubSeq(written, 1, n)
        /\ cut' = cut \cup ToSet(SubSeq(written, n + 1, Len(written)))
    BY <1>1
  <1> HIDE DEF written
  <1>7. /\ wire' \in Seq(Letters)
        /\ ToSet(written) = ToSet(wire') \cup ToSet(SubSeq(written, n + 1, Len(written)))
    BY <1>5, <1>6, CutSet
  <1>8. ToSet(written) \subseteq Letters
    BY <1>5 DEF ToSet
  <1>9. ToSet(inbox) \cup ToSet(wire) \subseteq ToSet(inbox') \cup ToSet(written)
    BY <1>4, EmptySet
  <1> QED BY <1>1, <1>2, <1>4, <1>5, <1>6, <1>7, <1>8, <1>9

-----------------------------------------------------------------------------
\* A step that posts nothing.
LEMMA LetterStep ==
  ASSUME LetterInv, posted' = posted, gap' = gap,
         inbox' \in Seq(Letters), wire' \in Seq(Letters), answer' \in Seq(Letters),
         cut' \subseteq Letters, hand' \in Letters \cup {0}, shown' \in Seq(Letters \cup {0}),
         overwritten' \subseteq Letters \cup {0}, seen' \in [Appenders -> Slices]
  PROVE  LetterInv'
  <1>1. Letters' = Letters
    BY DEF Letters
  <1>2. Slices' = Slices
    BY <1>1 DEF Slices
  <1> QED BY <1>1, <1>2 DEF LetterInv

\* What a step leaves alone keeps its type.
LEMMA LetterTypes ==
  ASSUME LetterInv
  PROVE  /\ inbox \in Seq(Letters) /\ wire \in Seq(Letters) /\ answer \in Seq(Letters)
         /\ gap \subseteq Letters /\ cut \subseteq Letters /\ hand \in Letters \cup {0}
         /\ shown \in Seq(Letters \cup {0}) /\ overwritten \subseteq Letters \cup {0}
         /\ seen \in [Appenders -> Slices] /\ <<>> \in Seq(Letters)
         /\ ToSet(inbox) \subseteq Letters /\ ToSet(answer) \subseteq Letters
         /\ ToSet(wire) \subseteq Letters /\ ToSet(shown) \subseteq Letters \cup {0}
         /\ \A a \in Appenders : seen[a] # Nothing =>
               seen[a] \in Seq(Letters \cup {0}) /\ ToSet(seen[a]) \subseteq Letters \cup {0}
  <1>1. ASSUME NEW T, NEW s \in Seq(T) PROVE ToSet(s) \subseteq T
    BY DEF ToSet
  <1>2. \A a \in Appenders : seen[a] # Nothing => seen[a] \in Seq(Letters \cup {0})
    BY DEF LetterInv, Slices
  <1>3. <<>> \in Seq(Letters)
    OBVIOUS
  <1> QED BY <1>1, <1>2, <1>3 DEF LetterInv

LEMMA StreamLetters ==
  ASSUME SessionInv, ListenStream \/ RelayStep, UNCHANGED <<chatVars, tuiVars, answer>>
  PROVE  LetterInv'
  <1>0. LetterInv /\ ControlInv /\ UNCHANGED <<seen, overwritten, answer>>
    BY DEF SessionInv, tuiVars
  <1>01. Letters = 1 .. Len(posted) /\ Len(posted) \in Nat
    BY ZeroIsNone DEF SessionInv
  <1>1. ASSUME UNCHANGED <<posts, inbox, wire, gap, hand, shown, cut>> PROVE LetterInv'
    BY <1>0, <1>1 DEF LetterInv, posts, Letters, Slices
  <1>2. CASE LoopTop \/ Connect \/ ScanEnds \/ Resume \/ Subscribe
    BY <1>1, <1>2 DEF LoopTop, Connect, ScanEnds, Resume, Subscribe, relay, session, stream
  <1>3. CASE RequestFails
    <2>1. /\ inbox' \in {inbox, <<>>} /\ cut' \in {cut, cut \cup ToSet(inbox)}
          /\ UNCHANGED <<posted, wire, gap, hand, shown>>
      BY <1>3 DEF RequestFails, posts, session
    <2>2. inbox' \in Seq(Letters) /\ cut' \subseteq Letters
      BY <1>0, <2>1, LetterTypes
    <2> QED BY <1>0, <2>1, <2>2, LetterTypes, LetterStep
  <1>4. CASE Watch \/ Break
    <2>1. Sever /\ UNCHANGED <<posted, gap, hand, shown>>
      BY <1>4 DEF Watch, Break, posts, stream, session
    <2>2. inbox' \in {inbox, <<>>} /\ wire' \in Seq(Letters) /\ cut' \subseteq Letters
      BY <1>0, <2>1, SeverParts
    <2> QED BY <1>0, <2>1, <2>2, LetterTypes, LetterStep
  <1>5. CASE Scan
    <2>1. /\ wire # <<>> /\ hand' = Head(wire) /\ wire' = Tail(wire)
          /\ UNCHANGED <<posted, inbox, gap, shown, cut>>
      BY <1>5 DEF Scan, TakeNext, posts, session
    <2>2. Head(wire) \in Letters /\ Tail(wire) \in Seq(Letters)
      BY <1>0, <2>1, HeadTailSet DEF LetterInv
    <2> QED BY <1>0, <2>1, <2>2, LetterTypes, LetterStep
  <1>6. ASSUME NEW i \in Letters', NEW queues \in BOOLEAN, Deliver(i, queues),
               Letters \subseteq Letters'
        PROVE  LetterInv'
    <2>1. /\ inbox' \in {inbox, Append(inbox, i)} /\ wire' \in {wire, Append(wire, i)}
          /\ gap' \in {gap, gap \cup {i}} /\ UNCHANGED <<hand, shown, cut>>
      BY <1>6 DEF Deliver, stream, session
    <2>2. /\ inbox \in Seq(Letters') /\ wire \in Seq(Letters') /\ answer \in Seq(Letters')
          /\ shown \in Seq(Letters' \cup {0})
          /\ Seq(Letters \cup {0}) \subseteq Seq(Letters' \cup {0})
      BY <1>0, <1>6, SeqGrows DEF LetterInv
    <2>3. seen \in [Appenders -> Slices']
      BY <1>0, <2>2 DEF LetterInv, Slices
    <2>4. inbox' \in Seq(Letters') /\ wire' \in Seq(Letters')
      <3>1. Append(inbox, i) \in Seq(Letters') /\ Append(wire, i) \in Seq(Letters')
        BY <2>2, AppendIn
      <3> QED BY <2>1, <2>2, <3>1
    <2>5. /\ gap' \subseteq Letters' /\ cut' \subseteq Letters' /\ hand' \in Letters' \cup {0}
          /\ overwritten' \subseteq Letters' \cup {0}
      BY <1>0, <1>6, <2>1 DEF LetterInv
    <2> QED BY <1>0, <2>1, <2>2, <2>3, <2>4, <2>5 DEF LetterInv
  <1>7. ASSUME NEW mail \in Mails, Post(mail) PROVE LetterInv'
    <2>1. /\ posted' = Append(posted, mail) /\ Deliver(Len(posted) + 1, mail.from # NoSender)
      BY <1>7 DEF Post
    <2>2. Letters' = 1 .. (Len(posted) + 1)
      BY <1>01, <2>1 DEF SessionInv, CountInv, Letters
    <2>3. /\ Len(posted) + 1 \in Letters' /\ Letters \subseteq Letters'
          /\ (mail.from # NoSender) \in BOOLEAN
      BY <1>01, <2>2
    <2> QED BY <1>6, <2>1, <2>3
  <1>8. ASSUME NEW i \in Letters, PostAgain(i) PROVE LetterInv'
    <2>1. \E queues \in {FALSE, Named(i)} : Deliver(i, queues)
      BY <1>8 DEF PostAgain
    <2>2. Letters' = Letters /\ Named(i) \in BOOLEAN
      BY <1>8 DEF PostAgain, Letters, Named
    <2> QED BY <1>6, <2>1, <2>2
  <1>9. CASE Flush
    <2>1. /\ wire' = wire \o inbox /\ inbox' = <<>>
          /\ UNCHANGED <<posted, gap, hand, shown, cut>>
      BY <1>9 DEF Flush, posts, stream, session
    <2>2. wire' \in Seq(Letters)
      BY <1>0, <2>1, LetterTypes
    <2> QED BY <1>0, <2>1, <2>2, LetterTypes, LetterStep
  <1> QED BY <1>2, <1>3, <1>4, <1>5, <1>7, <1>8, <1>9 DEF ListenStream, RelayStep

LEMMA ChatLetters ==
  ASSUME SessionInv, ChatStep, UNCHANGED <<tuiVars, answer>>
  PROVE  LetterInv'
  <1>0. LetterInv /\ ControlInv /\ UNCHANGED <<seen, overwritten, answer>>
    BY DEF SessionInv, tuiVars
  <1>1. ASSUME UNCHANGED <<relay, hand, shown, cut>> PROVE LetterInv'
    BY <1>0, <1>1 DEF LetterInv, relay, posts, Letters, Slices
  <1>2. ASSUME NEW s, NEW more \in Seq(Letters), shown' = shown \o more, inbox' = Left(s),
               cut' \subseteq Letters, UNCHANGED <<posted, wire, gap, hand>>
        PROVE  LetterInv'
    <2>1. Left(s) \in Seq(Letters)
      BY <1>0, FetchParts
    <2>2. shown' \in Seq(Letters \cup {0})
      BY <1>0, <1>2, Shown DEF LetterInv
    <2> QED BY <1>0, <1>2, <2>1, <2>2, LetterTypes, LetterStep
  <1>3. CASE ChatFetch
    BY <1>0, <1>2, <1>3, FetchParts DEF ChatFetch, stream, posts, LetterInv
  <1>4. CASE ChatFetchUnsaved
    <2> DEFINE read == Legible(Found(Head(todo)))
    <2>1. read \in Seq(Letters) /\ ToSet(read) \subseteq Letters
      BY <1>0, FetchParts, Shown
    <2>2. PICK f \in {i \in ToSet(read) : posted[i].file} :
            shown' = shown \o Keep(read, Letters \ {f}) /\ cut' = cut \cup {f}
      BY <1>4 DEF ChatFetchUnsaved
    <2>3. inbox' = Left(Head(todo)) /\ UNCHANGED <<posted, wire, gap, hand>>
      BY <1>4 DEF ChatFetchUnsaved, posts, stream
    <2> HIDE DEF read
    <2>4. Keep(read, Letters \ {f}) \in Seq(Letters)
      BY <2>1, KeepSet
    <2> QED BY <1>0, <1>2, <2>1, <2>2, <2>3, <2>4 DEF LetterInv
  <1>5. CASE ChatFetchFails
    <2>1. /\ UNCHANGED <<posted, wire, gap, hand, shown>>
          /\ \/ UNCHANGED <<inbox, cut>>
             \/ inbox' = Left(Head(todo)) /\ cut' = cut \cup ToSet(Found(Head(todo)))
      BY <1>5 DEF ChatFetchFails, FetchFails, posts, stream, session
    <2>2. Left(Head(todo)) \in Seq(Letters) /\ ToSet(Found(Head(todo))) \subseteq Letters
      BY <1>0, FetchParts, Shown
    <2> QED BY <1>0, <2>1, <2>2, LetterTypes, LetterStep
  <1>6. CASE ChatHandle
    <2>1. /\ shown' \in {shown, Append(shown, hand)} /\ hand' = 0
          /\ UNCHANGED <<posted, inbox, wire, gap, cut>>
      BY <1>6 DEF ChatHandle, Handled, relay, posts
    <2>0. shown \in Seq(Letters \cup {0}) /\ hand \in Letters \cup {0}
      BY <1>0, LetterTypes
    <2>2. shown' \in Seq(Letters \cup {0})
      BY <2>0, <2>1, AppendIn
    <2> QED BY <1>0, <2>1, <2>2, LetterTypes, LetterStep
  <1>7. CASE ChatLaunch \/ ChatPost \/ ChatPostFails \/ ChatQuit \/ ChatSignal \/ ChatExit
    BY <1>1, <1>7 DEF ChatLaunch, ChatPost, ChatPostFails, ChatQuit, ChatSignal, ChatExit, stream
  <1>8. ASSUME NEW sort \in {"text", "file"}, ChatRefuse(sort) \/ ChatSend(sort)
        PROVE  LetterInv'
    BY <1>1, <1>8 DEF ChatRefuse, ChatSend, stream
  <1> QED BY <1>3, <1>4, <1>5, <1>6, <1>7, <1>8 DEF ChatStep

LEMMA TuiLetters ==
  ASSUME SessionInv, TuiStep, UNCHANGED <<chatVars, answer>>
  PROVE  LetterInv'
  <1>0. LetterInv /\ ControlInv /\ UNCHANGED answer
    BY DEF SessionInv
  <1>1. ASSUME UNCHANGED <<relay, hand, shown, cut, tuiVars>> PROVE LetterInv'
    BY <1>0, <1>1 DEF LetterInv, relay, posts, Letters, Slices, tuiVars
  <1>2. CASE TuiFetch
    <2>1. /\ shown' = Legible(Found(Peer)) /\ inbox' = Left(Peer)
          /\ UNCHANGED <<posted, wire, gap, hand, cut, seen, overwritten>>
      BY <1>2 DEF TuiFetch, posts, stream, tuiVars
    <2>2. Left(Peer) \in Seq(Letters) /\ shown' \in Seq(Letters \cup {0})
      BY <1>0, <2>1, FetchParts, Shown
    <2> QED BY <1>0, <2>1, <2>2, LetterTypes, LetterStep
  <1>3. CASE TuiFetchFails
    <2>1. /\ UNCHANGED <<posted, wire, gap, hand, shown, seen, overwritten>>
          /\ \/ UNCHANGED <<inbox, cut>>
             \/ inbox' = Left(Peer) /\ cut' = cut \cup ToSet(Found(Peer))
      BY <1>3 DEF TuiFetchFails, FetchFails, posts, stream, tuiVars
    <2>2. Left(Peer) \in Seq(Letters) /\ ToSet(Found(Peer)) \subseteq Letters
      BY <1>0, FetchParts, Shown
    <2> QED BY <1>0, <2>1, <2>2, LetterTypes, LetterStep
  <1>4. CASE TuiPassOver
    <2>1. hand' = 0 /\ UNCHANGED <<posted, inbox, wire, gap, cut, shown, seen, overwritten>>
      BY <1>4 DEF TuiPassOver, Handled, relay, posts, session, tuiVars
    <2> QED BY <1>0, <2>1, LetterTypes, LetterStep
  <1>5. ASSUME NEW a \in Appenders, Read(a), UNCHANGED <<relay, hand, shown, cut, overwritten>>
        PROVE  LetterInv'
    <2>1. seen' = [seen EXCEPT ![a] = shown]
      BY <1>5 DEF Read
    <2>2. seen' \in [Appenders -> Slices]
      BY <1>0, <2>1 DEF LetterInv, Slices
    <2> QED BY <1>0, <1>5, <2>2 DEF LetterInv, relay, posts, Letters, Slices
  <1>6. ASSUME NEW a \in Appenders, NEW x \in Letters \cup {0}, Store(a, x), seen[a] # Nothing,
               UNCHANGED <<relay, cut>>, hand' \in {hand, 0}
        PROVE  LetterInv'
    <2>1. shown' = Append(seen[a], x) /\ seen[a] \in Seq(Letters \cup {0})
      BY <1>0, <1>6 DEF Store, LetterInv, Slices
    <2>2. shown' \in Seq(Letters \cup {0})
      BY <2>1
    <2>3. overwritten' = overwritten \cup (ToSet(shown) \ ToSet(shown'))
          /\ seen' = [seen EXCEPT ![a] = Nothing]
      BY <1>6 DEF Store
    <2>4. ToSet(shown) \subseteq Letters \cup {0} /\ seen' \in [Appenders -> Slices]
      BY <1>0, <2>3 DEF LetterInv, ToSet, Slices
    <2> QED BY <1>0, <1>6, <2>2, <2>3, <2>4 DEF LetterInv, relay, posts, Letters, Slices
  <1>7. CASE TuiReceive
    BY <1>5, <1>7 DEF TuiReceive, session, Appenders
  <1>8. CASE TuiShow
    BY <1>0, <1>6, <1>8 DEF TuiShow, Handled, Appenders, ControlInv, LetterInv
  <1>9. CASE TuiType
    BY <1>5, <1>9 DEF TuiType, stream, Appenders
  <1>10. CASE TuiEcho
    BY <1>0, <1>6, <1>10 DEF TuiEcho, Tui, stream, Appenders, ControlInv
  <1>11. CASE TuiLaunch \/ TuiQuit \/ TuiSignal \/ TuiExit
    BY <1>1, <1>11 DEF TuiLaunch, TuiQuit, TuiSignal, TuiExit, stream
  <1> QED BY <1>2, <1>3, <1>4, <1>7, <1>8, <1>9, <1>10, <1>11 DEF TuiStep

LEMMA BridgeLetters ==
  ASSUME SessionInv, BridgeStep, UNCHANGED <<chatVars, tuiVars>>
  PROVE  LetterInv'
  <1>0. LetterInv /\ ControlInv /\ UNCHANGED <<seen, overwritten>>
    BY DEF SessionInv, tuiVars
  <1>00. \A x \in Letters \cup {0} : Append(shown, x) \in Seq(Letters \cup {0})
    BY <1>0, LetterTypes, AppendIn
  <1> USE <1>0 DEF LetterInv, Letters, Slices, relay, posts, stream, session
  <1>1. CASE BridgeLaunch \/ PageLeaves
    BY <1>1 DEF BridgeLaunch, PageLeaves
  <1>2. CASE BridgeWrite
    <2>1. shown' \in {shown, Append(shown, hand)} /\ hand' = 0
      BY <1>2 DEF BridgeWrite, Handled
    <2>2. shown' \in Seq(Letters \cup {0})
      BY <1>00, <2>1
    <2> QED BY <1>2, <2>1, <2>2 DEF BridgeWrite
  <1>3. CASE BridgeWritesLate
    <2>1. hand # 0 /\ hand' = 0 /\ cut' = cut \cup {hand}
      BY <1>3 DEF BridgeWritesLate, Handled, ControlInv
    <2> QED BY <1>3, <2>1 DEF BridgeWritesLate
  <1>4. ASSUME NEW s \in Sender, InboxRequest(s) PROVE LetterInv'
    <2>1. Left(s) \in Seq(Letters) /\ Legible(Found(s)) \in Seq(Letters)
      BY FetchParts
    <2> QED BY <1>4, <2>1 DEF InboxRequest
  <1>5. ASSUME NEW s \in Sender, InboxRequestFails(s) PROVE LetterInv'
    <2>1. Left(s) \in Seq(Letters) /\ ToSet(Found(s)) \subseteq Letters
      BY FetchParts, Shown
    <2> QED BY <1>5, <2>1 DEF InboxRequestFails, FetchFails
  <1>6. CASE InboxAnswer
    <2>1. answer \in Seq(Letters \cup {0}) /\ ToSet(answer) \subseteq Letters
      BY Shown
    <2>2. shown \o answer \in Seq(Letters \cup {0})
      BY <2>1
    <2>3. shown' \in Seq(Letters \cup {0}) /\ cut' \subseteq Letters /\ answer' = <<>>
      BY <1>6, <2>1, <2>2 DEF InboxAnswer
    <2>4. UNCHANGED <<posted, inbox, wire, gap, hand>>
      BY <1>6 DEF InboxAnswer
    <2> QED BY <2>3, <2>4, LetterStep, LetterTypes
  <1> QED BY <1>1, <1>2, <1>3, <1>4, <1>5, <1>6 DEF BridgeStep

-----------------------------------------------------------------------------
\* Only a letter posted, a copy of one, or a line typed is counted.
LEMMA SameCount == CountInv /\ UNCHANGED <<posts, typed>> => CountInv'
  BY DEF CountInv, posts, Letters

LEMMA OneLineMore ==
  ASSUME CountInv, Line, UNCHANGED posts
  PROVE  CountInv'
  <1>0. MaxEvents \in Nat
    BY StreamClientAssumption
  <1>1. posted \in Seq(Mails) /\ Len(posted) \in Nat
    BY DEF CountInv
  <1> QED BY <1>0, <1>1 DEF CountInv, posts, Letters, Line, MoreEvents

LEMMA PostCount ==
  ASSUME CountInv, NEW mail \in Mails, Post(mail)
  PROVE  CountInv'
  <1>0. MaxEvents \in Nat /\ posted \in Seq(Mails) /\ Len(posted) \in Nat /\ typed' = typed
    BY StreamClientAssumption DEF CountInv, Post, Deliver, session
  <1>1. /\ Len(posted) + again + typed < MaxEvents
        /\ posted' = Append(posted, mail) /\ copies' = Append(copies, 1) /\ again' = again
    BY DEF Post, MoreEvents
  <1>2. DOMAIN copies = 1 .. Len(posted) /\ \A i \in 1 .. Len(posted) : copies[i] \in 1 .. MaxEvents
    BY <1>0 DEF CountInv, Letters
  <1>3. /\ posted' \in Seq(Mails) /\ Len(posted') = Len(posted) + 1
        /\ Letters' = 1 .. (Len(posted) + 1)
    BY <1>0, <1>1 DEF Letters
  <1>4. copies \in Seq(1 .. MaxEvents) /\ Len(copies) = Len(posted)
    <2>1. copies = [i \in 1 .. Len(posted) |-> copies[i]]
      BY <1>0, <1>2 DEF CountInv, Letters
    <2>2. copies \in [1 .. Len(posted) -> 1 .. MaxEvents]
      BY <1>2, <2>1
    <2> QED BY <1>0, <2>2
  <1>5. 1 \in 1 .. MaxEvents /\ again \in Nat /\ typed \in Nat
    BY <1>0, <1>1 DEF CountInv
  <1>6. /\ copies' \in Seq(1 .. MaxEvents) /\ Len(copies') = Len(posted) + 1
        /\ copies'[Len(posted) + 1] = 1 /\ \A i \in 1 .. Len(posted) : copies'[i] = copies[i]
    BY <1>1, <1>4, <1>5
  <1>7. copies' \in [Letters' -> 1 .. MaxEvents]
    BY <1>0, <1>3, <1>6
  <1>8. \A i \in Letters' : copies'[i] <= 1 + again
    <2> SUFFICES ASSUME NEW i \in Letters' PROVE copies'[i] <= 1 + again
      OBVIOUS
    <2>1. i \in 1 .. Len(posted) \/ i = Len(posted) + 1
      BY <1>0, <1>3
    <2>2. \A k \in 1 .. Len(posted) : copies[k] <= 1 + again
      BY <1>0 DEF CountInv, Letters
    <2> QED BY <1>5, <1>6, <2>1, <2>2
  <1> QED BY <1>0, <1>1, <1>3, <1>5, <1>7, <1>8 DEF CountInv

LEMMA CopyCount ==
  ASSUME CountInv, NEW i \in Letters, PostAgain(i)
  PROVE  CountInv'
  <1>0. MaxEvents \in Nat /\ posted \in Seq(Mails) /\ Len(posted) \in Nat /\ typed' = typed
    BY StreamClientAssumption DEF CountInv, PostAgain, Deliver, session
  <1>1. /\ Len(posted) + again + typed < MaxEvents
        /\ posted' = posted /\ copies' = [copies EXCEPT ![i] = @ + 1] /\ again' = again + 1
    BY DEF PostAgain, MoreEvents
  <1>2. Letters' = Letters /\ Letters = 1 .. Len(posted) /\ Len(posted) > 0
    BY <1>0, <1>1 DEF Letters
  <1>3. /\ copies \in [Letters -> 1 .. MaxEvents] /\ \A k \in Letters : copies[k] <= 1 + again
        /\ again \in Nat /\ typed \in Nat
    BY <1>0 DEF CountInv
  <1>4. \A k \in Letters : copies'[k] \in {copies[k], copies[k] + 1}
    BY <1>1, <1>3
  <1>5. \A k \in Letters : copies'[k] \in 1 .. MaxEvents /\ copies'[k] <= 1 + again'
    <2> SUFFICES ASSUME NEW k \in Letters
                 PROVE  copies'[k] \in 1 .. MaxEvents /\ copies'[k] <= 1 + again'
      OBVIOUS
    <2>1. copies[k] \in 1 .. MaxEvents /\ copies[k] <= 1 + again
      BY <1>3
    <2> QED BY <1>0, <1>1, <1>2, <1>3, <1>4, <2>1
  <1>6. copies' \in [Letters -> 1 .. MaxEvents]
    BY <1>1, <1>3, <1>5
  <1> QED BY <1>0, <1>1, <1>2, <1>3, <1>5, <1>6 DEF CountInv

LEMMA NextCountInv == CountInv /\ Next => CountInv'
  <1> SUFFICES ASSUME CountInv, Next PROVE CountInv'
    OBVIOUS
  <1> USE DEF relay, session
  <1>1. CASE ListenStream
    <2>1. UNCHANGED <<posts, typed>>
      BY <1>1 DEF ListenStream, LoopTop, Connect, RequestFails, Watch, Scan, ScanEnds, Resume
    <2> QED BY <2>1, SameCount
  <1>2. CASE RelayStep
    <2>1. CASE Flush \/ Subscribe \/ Break
      BY <2>1, SameCount DEF Flush, Subscribe, Break
    <2> QED BY <1>2, <2>1, PostCount, CopyCount DEF RelayStep
  <1>3. CASE ChatStep
    <2>1. CASE \E sort \in {"text", "file"} : ChatRefuse(sort) \/ ChatSend(sort)
      <3>1. Line /\ UNCHANGED posts
        BY <2>1 DEF ChatRefuse, ChatSend
      <3> QED BY <3>1, OneLineMore
    <2>2. CASE ~(\E sort \in {"text", "file"} : ChatRefuse(sort) \/ ChatSend(sort))
      <3>1. UNCHANGED <<posts, typed>>
        BY <1>3, <2>2 DEF ChatStep, ChatFetch, ChatFetchUnsaved, ChatFetchFails, ChatLaunch,
             ChatHandle, ChatPost, ChatPostFails, ChatQuit, ChatSignal, ChatExit
      <3> QED BY <3>1, SameCount
    <2> QED BY <2>1, <2>2
  <1>4. CASE TuiStep
    <2>1. CASE TuiType
      <3>1. Line /\ UNCHANGED posts
        BY <2>1 DEF TuiType
      <3> QED BY <3>1, OneLineMore
    <2>2. CASE ~TuiType
      <3>1. UNCHANGED <<posts, typed>>
        BY <1>4, <2>2 DEF TuiStep, TuiFetch, TuiFetchFails, TuiLaunch, TuiPassOver, TuiReceive,
             TuiShow, TuiEcho, TuiQuit, TuiSignal, TuiExit
      <3> QED BY <3>1, SameCount
    <2> QED BY <2>1, <2>2
  <1>5. CASE BridgeStep
    <2>1. UNCHANGED <<posts, typed>>
      BY <1>5 DEF BridgeStep, BridgeLaunch, PageLeaves, BridgeWrite, BridgeWritesLate,
           InboxRequest, InboxRequestFails, InboxAnswer
    <2> QED BY <2>1, SameCount
  <1> QED BY <1>1, <1>2, <1>3, <1>4, <1>5 DEF Next

LEMMA NextSessionInv == SessionInv /\ [Next]_vars => SessionInv'
  <1> SUFFICES ASSUME SessionInv, [Next]_vars PROVE SessionInv'
    OBVIOUS
  <1>1. CASE UNCHANGED vars
    <2> USE <1>1 DEF vars, streamClientVars, relay, posts, stream, session, tuiVars
    <2>1. CountInv'
      BY SameCount DEF SessionInv
    <2>2. LetterInv'
      BY DEF SessionInv, LetterInv, Letters, Slices
    <2>3. ControlInv'
      BY DEF SessionInv, ControlInv
    <2> QED BY <2>1, <2>2, <2>3 DEF SessionInv
  <1>2. CASE Next
    <2>1. CountInv'
      BY <1>2, NextCountInv DEF SessionInv
    <2>2. LetterInv' /\ ControlInv'
      BY <1>2, StreamLetters, ChatLetters, TuiLetters, BridgeLetters,
         StreamControl, ChatControl, TuiControl, BridgeControl DEF Next
    <2> QED BY <2>1, <2>2 DEF SessionInv
  <1> QED BY <1>1, <1>2

-----------------------------------------------------------------------------
\* Who listens, and to whom, is settled at the start.
LEMMA SamePeers ==
  ASSUME [Next]_vars
  PROVE  UNCHANGED <<host, peers>>
  <1> USE DEF session
  <1>1. CASE ListenStream \/ RelayStep
    BY <1>1 DEF ListenStream, LoopTop, Connect, RequestFails, Watch, Scan, ScanEnds, Resume,
         RelayStep, Post, PostAgain, Deliver, Flush, Subscribe, Break
  <1>2. CASE ChatStep
    BY <1>2 DEF ChatStep, ChatFetch, ChatFetchUnsaved, ChatFetchFails, ChatLaunch, ChatHandle,
         ChatRefuse, ChatSend, ChatPost, ChatPostFails, ChatQuit, ChatSignal, ChatExit
  <1>3. CASE TuiStep
    BY <1>3 DEF TuiStep, TuiFetch, TuiFetchFails, TuiLaunch, TuiPassOver, TuiReceive,
         TuiShow, TuiType, TuiEcho, TuiQuit, TuiSignal, TuiExit
  <1>4. CASE BridgeStep
    BY <1>4 DEF BridgeStep, BridgeLaunch, PageLeaves, BridgeWrite, BridgeWritesLate,
         InboxRequest, InboxRequestFails, InboxAnswer
  <1>5. CASE UNCHANGED vars
    BY <1>5 DEF vars, streamClientVars
  <1> QED BY <1>1, <1>2, <1>3, <1>4, <1>5 DEF Next

LEMMA InitChatInv == Init => ChatInv
  <1> SUFFICES ASSUME Init PROVE ChatInv
    OBVIOUS
  <1>1. SessionInv
    BY InitSessionInv
  <1>2. /\ peers \in Seq(ToSet(peers))
        /\ host = "chat" => Head(peers) \in ToSet(peers)
    BY <1>1, PeersAreListed DEF SessionInv
  <1>3. /\ todo = IF host = "chat" THEN Append(peers, Head(peers)) ELSE <<>>
        /\ usable \in BOOLEAN /\ err \in BOOLEAN /\ reports = <<>>
    BY DEF Init, ChatInit
  <1>4. todo \in Seq(ToSet(peers))
    <2>1. host = "chat" => Append(peers, Head(peers)) \in Seq(ToSet(peers))
      BY <1>2, AppendIn
    <2> QED BY <1>3, <2>1
  <1>5. ToSet(todo) \subseteq ToSet(peers)
    BY <1>4 DEF ToSet
  <1>6. reports \in Seq(Verdicts)
    BY <1>3
  <1> QED BY <1>3, <1>4, <1>5, <1>6 DEF ChatInv

\* The fetches that are left, and what was reported.
LEMMA NextChatInv == SessionInv /\ ReportInv /\ ChatInv /\ [Next]_vars => ChatInv'
  <1> SUFFICES ASSUME SessionInv, ReportInv, ChatInv, [Next]_vars PROVE ChatInv'
    OBVIOUS
  <1>0. ReportInv'
    BY NextReportInv
  <1> USE DEF session
  <1>1. UNCHANGED peers
    BY SamePeers
  <1>2. todo' \in Seq(ToSet(peers))
    <2>1. todo' = todo \/ todo' = <<>> \/ (todo # <<>> /\ todo' = Tail(todo))
      <3> USE DEF chatVars
      <3>1. CASE ChatStep
        BY <3>1 DEF ChatStep, ChatFetch, ChatFetchUnsaved, ChatFetchFails, ChatLaunch,
             ChatHandle, ChatRefuse, ChatSend, ChatPost, ChatPostFails, ChatQuit, ChatSignal,
             ChatExit
      <3>2. CASE ~ChatStep
        BY <3>2 DEF Next, vars
      <3> QED BY <3>1, <3>2
    <2>2. todo \in Seq(ToSet(peers))
      BY DEF ChatInv
    <2>3. todo # <<>> => Tail(todo) \in Seq(ToSet(peers))
      BY <2>2, HeadTailSet
    <2>4. todo' = todo => todo' \in Seq(ToSet(peers))
      BY <2>2
    <2>5. todo' = <<>> => todo' \in Seq(ToSet(peers))
      OBVIOUS
    <2> QED BY <2>1, <2>3, <2>4, <2>5
  <1>3. ToSet(todo') \subseteq ToSet(peers)
    BY <1>2 DEF ToSet
  <1>4. /\ usable' \in BOOLEAN /\ err' \in BOOLEAN /\ reports' \in Seq(Verdicts)
    BY <1>0 DEF ReportInv
  <1>5. \A k \in DOMAIN reports' : reports'[k].reached \in 0 .. Len(peers)
    <2>0. Len(peers) \in Nat
      BY PeersAreListed DEF SessionInv
    <2>1. \/ reports' = reports
          \/ \E told : told.reached \in 0 .. Len(peers) /\ reports' = Append(reports, told)
      <3>0. ASSUME NEW sort, NEW verdict, NEW reached \in 0 .. Len(peers),
                   Report(sort, verdict, reached)
            PROVE  \E told : told.reached \in 0 .. Len(peers) /\ reports' = Append(reports, told)
        <4> DEFINE r == [sort |-> sort, verdict |-> verdict, reached |-> reached]
        <4>1. r.reached = reached /\ reports' = Append(reports, r)
          BY <3>0 DEF Report
        <4> HIDE DEF r
        <4> QED BY <4>1
      <3>1. CASE \E sort \in {"text", "file"} : ChatRefuse(sort)
        <4>1. PICK sort \in {"text", "file"} : Report(sort, "refused", 0)
          BY <3>1 DEF ChatRefuse
        <4> QED BY <2>0, <3>0, <4>1
      <3>2. CASE ChatPost
        <4>1. Posting /\ main = "posting"
          BY <3>2 DEF ReportInv, ChatPost, Chat
        <4>2. reports' = reports \/ Report(line.sort, "sent", Len(peers))
          BY <3>2 DEF ChatPost, Over
        <4>3. Len(peers) \in 0 .. Len(peers)
          BY <2>0
        <4> QED BY <3>0, <4>2, <4>3
      <3>3. CASE ChatPostFails
        <4>1. Posting /\ main = "posting"
          BY <3>3 DEF ReportInv, ChatPostFails, Chat
        <4>2. Report(line.sort, "failed", line.reached)
          BY <3>3 DEF ChatPostFails, StopPosting, Over
        <4>3. line.sort \in {"text", "file"} /\ line.reached \in 0 .. Len(peers)
          BY <2>0, <4>1 DEF Posting
        <4> QED BY <3>0, <4>2, <4>3
      <3>4. CASE ChatStep /\ ~(\E sort \in {"text", "file"} : ChatRefuse(sort))
                 /\ ~ChatPost /\ ~ChatPostFails
        BY <3>4 DEF ChatStep, ChatFetch, ChatFetchUnsaved, ChatFetchFails, ChatLaunch,
             ChatHandle, ChatSend, ChatQuit, ChatSignal, ChatExit, chatVars
      <3>5. CASE ~ChatStep
        BY <3>5 DEF Next, vars, chatVars
      <3> QED BY <3>1, <3>2, <3>3, <3>4, <3>5
    <2>2. /\ \A k \in DOMAIN reports : reports[k].reached \in 0 .. Len(peers)
          /\ reports \in Seq(Verdicts)
      BY DEF ChatInv
    <2>3. ASSUME NEW told, told.reached \in 0 .. Len(peers), reports' = Append(reports, told)
          PROVE  \A k \in DOMAIN reports' : reports'[k].reached \in 0 .. Len(peers)
      <3>1. \A k \in DOMAIN reports' :
               reports'[k] = told \/ (k \in DOMAIN reports /\ reports'[k] = reports[k])
        BY <2>2, <2>3
      <3> QED BY <2>2, <2>3, <3>1
    <2> QED BY <2>1, <2>2, <2>3
  <1> QED BY <1>1, <1>2, <1>3, <1>4, <1>5 DEF ChatInv

-----------------------------------------------------------------------------
\* TypeOK for all letters, peers and bounds.
THEOREM SessionTypes == Spec => []TypeOK
  <1> DEFINE Inv == SessionInv /\ ReportInv /\ ChatInv
  <1>1. Init => Inv
    BY InitSessionInv, InitReportInv, InitChatInv
  <1>2. Inv /\ [Next]_vars => Inv'
    BY NextSessionInv, NextReportInv, NextChatInv
  <1>3. Inv => TypeOK
    <2> SUFFICES ASSUME Inv PROVE TypeOK
      OBVIOUS
    <2>1. /\ posted \in Seq(Mails) /\ copies \in [Letters -> 1 .. MaxEvents]
          /\ again \in 0 .. MaxEvents /\ typed \in 0 .. MaxEvents
      BY DEF SessionInv, CountInv
    <2>2. /\ ToSet(inbox) \cup ToSet(wire) \cup gap \cup cut \subseteq Letters
          /\ hand \in Letters \cup {0}
          /\ ToSet(shown) \cup ToSet(answer) \subseteq Letters \cup {0}
      BY DEF SessionInv, LetterInv, ToSet
    <2>3. /\ link \in {"none", "open", "flushed", "live"}
          /\ loop \in {"off", "top", "request", "reading", "handling", "appending", "pause",
                       "ended"}
          /\ (hand # 0) = (loop \in {"handling", "appending"})
          /\ stop \in BOOLEAN /\ host \in Host /\ peers \in Invited[host]
          /\ main \in {"fetch", "launch", "prompt", "posting", "appending", "leaving",
                       "serving", "left"}
          /\ signal \in {"waiting", "exiting"}
          /\ process \in {"running", "exited", "closedTwice", "raced", "wroteLate"}
          /\ faults \in 0 .. MaxFaults
      BY DEF SessionInv, ControlInv
    <2>4. /\ ToSet(todo) \subseteq ToSet(peers) /\ usable \in BOOLEAN /\ err \in BOOLEAN
          /\ \A k \in DOMAIN reports : reports[k].reached \in 0 .. Len(peers)
      BY DEF ChatInv
    <2> QED BY <2>1, <2>2, <2>3, <2>4 DEF TypeOK
  <1> QED BY <1>1, <1>2, <1>3, PTL DEF Spec

-----------------------------------------------------------------------------
(* What becomes of a letter.                                                *)

\* Who has letters.
Held == ToSet(inbox) \cup ToSet(wire) \cup {hand} \cup ToSet(answer) \cup ToSet(shown)

\* The letters nobody can read, and those tui passes over.
Unread == {i \in Letters : ~Readable(i)}
PassedOver == {i \in Letters : host = "tui" /\ Foreign(i)}

LossInv ==
    {i \in Letters : Named(i)} \subseteq Held \cup Unread \cup PassedOver \cup cut \cup overwritten

\* What is held by no one after a step is lost in a way that has a name.
LossNamedHere ==
    /\ Held \subseteq Held' \cup Unread \cup PassedOver \cup cut' \cup overwritten' \cup {0}
    /\ cut \subseteq cut' /\ overwritten \subseteq overwritten'

LEMMA LossStep ==
  ASSUME SessionInv, LossInv, LossNamedHere, UNCHANGED <<posted, host, peers>>
  PROVE  LossInv'
  <1>1. /\ Letters' = Letters /\ Unread' = Unread /\ PassedOver' = PassedOver
        /\ \A i \in Letters : Named(i)' = Named(i)
    BY DEF Letters, Unread, Readable, PassedOver, Foreign, Peer, Named
  <1>2. 0 \notin Letters
    BY ZeroIsNone DEF SessionInv
  <1> QED BY <1>1, <1>2 DEF LossInv, LossNamedHere

\* The relay and the loop lose what a break cuts off.
LEMMA StreamLoss ==
  ASSUME SessionInv, LossInv, ListenStream \/ RelayStep, UNCHANGED <<chatVars, tuiVars, answer>>
  PROVE  LossInv'
  <1>0. /\ LetterInv /\ ControlInv /\ UNCHANGED <<seen, overwritten, answer>>
        /\ Letters = 1 .. Len(posted) /\ Len(posted) \in Nat /\ 0 \notin Letters
    BY ZeroIsNone DEF SessionInv, tuiVars
  <1>00. UNCHANGED <<host, peers, shown>>
    BY DEF ListenStream, LoopTop, Connect, RequestFails, Watch, Scan, ScanEnds, Resume,
           RelayStep, Post, PostAgain, Deliver, Flush, Subscribe, Break, session
  <1>1. CASE LoopTop \/ Connect \/ ScanEnds \/ Resume \/ Subscribe
    <2>1. UNCHANGED <<posted, inbox, wire, hand, cut>>
      BY <1>1 DEF LoopTop, Connect, ScanEnds, Resume, Subscribe, relay, posts, stream
    <2> QED BY <1>0, <1>00, <2>1, LossStep DEF LossNamedHere, Held
  <1>2. CASE RequestFails
    <2>1. /\ UNCHANGED <<posted, wire, hand>>
          /\ \/ UNCHANGED <<inbox, cut>>
             \/ cut' = cut \cup ToSet(inbox)
      BY <1>2 DEF RequestFails, posts
    <2> QED BY <1>0, <1>00, <2>1, LossStep DEF LossNamedHere, Held
  <1>3. CASE Watch \/ Break
    <2>1. Sever /\ UNCHANGED <<posted, hand>>
      BY <1>3 DEF Watch, Break, posts, stream
    <2>2. /\ ToSet(inbox) \cup ToSet(wire) \subseteq ToSet(inbox') \cup ToSet(wire') \cup cut'
          /\ cut \subseteq cut'
      BY <1>0, <2>1, SeverParts
    <2> QED BY <1>0, <1>00, <2>1, <2>2, LossStep DEF LossNamedHere, Held
  <1>4. CASE Scan
    <2>1. /\ wire # <<>> /\ hand = 0 /\ hand' = Head(wire) /\ wire' = Tail(wire)
          /\ UNCHANGED <<posted, inbox, cut>>
      BY <1>0, <1>4 DEF Scan, TakeNext, posts, ControlInv
    <2>2. ToSet(wire) = {hand'} \cup ToSet(wire')
      BY <1>0, <2>1, HeadTailSet, LetterTypes
    <2> QED BY <1>0, <1>00, <2>1, <2>2, LossStep DEF LossNamedHere, Held
  <1>5. CASE Flush
    <2>1. wire' = wire \o inbox /\ UNCHANGED <<posted, hand, cut>>
      BY <1>5 DEF Flush, posts, stream
    <2>2. ToSet(wire') = ToSet(wire) \cup ToSet(inbox)
      BY <1>0, <2>1, ConcatSet, LetterTypes
    <2> QED BY <1>0, <1>00, <2>1, <2>2, LossStep DEF LossNamedHere, Held
  <1>6. ASSUME NEW i, NEW queues, Deliver(i, queues)
        PROVE  /\ Held \subseteq Held' /\ UNCHANGED <<hand, cut>>
               /\ queues => i \in ToSet(inbox')
    <2>1. /\ inbox' = IF queues THEN Append(inbox, i) ELSE inbox
          /\ wire' \in {wire, Append(wire, i)} /\ UNCHANGED <<hand, cut>>
      BY <1>6 DEF Deliver, stream
    <2>2. /\ ToSet(Append(inbox, i)) = ToSet(inbox) \cup {i}
          /\ ToSet(Append(wire, i)) = ToSet(wire) \cup {i}
      BY <1>0, AppendSet, LetterTypes
    <2> QED BY <1>0, <1>00, <2>1, <2>2 DEF Held
  <1>7. ASSUME NEW i \in Letters, PostAgain(i) PROVE LossInv'
    <2>1. posted' = posted /\ \E queues \in {FALSE, Named(i)} : Deliver(i, queues)
      BY <1>7 DEF PostAgain
    <2>2. Held \subseteq Held' /\ UNCHANGED cut
      BY <1>6, <2>1
    <2> QED BY <1>0, <1>00, <2>1, <2>2, LossStep DEF LossNamedHere
  <1>8. ASSUME NEW mail \in Mails, Post(mail) PROVE LossInv'
    <2>1. /\ posted' = Append(posted, mail) /\ posted \in Seq(Mails)
          /\ Deliver(Len(posted) + 1, mail.from # NoSender)
      BY <1>8 DEF Post, SessionInv, CountInv
    <2>2. /\ Letters' = Letters \cup {Len(posted) + 1} /\ posted'[Len(posted) + 1] = mail
          /\ \A i \in Letters : posted'[i] = posted[i]
      BY <1>0, <2>1 DEF Letters
    <2>3. /\ Held \subseteq Held' /\ UNCHANGED cut
          /\ mail.from # NoSender => Len(posted) + 1 \in Held'
      BY <1>6, <2>1 DEF Held
    <2>4. Unread \subseteq Unread' /\ PassedOver \subseteq PassedOver'
      BY <1>00, <2>2 DEF Unread, PassedOver, Readable, Foreign, Peer
    <2> QED BY <1>0, <2>2, <2>3, <2>4 DEF LossInv, Named
  <1> QED BY <1>1, <1>2, <1>3, <1>4, <1>5, <1>7, <1>8 DEF ListenStream, RelayStep

\* What a fetch that fails loses is cut off.
LEMMA FetchLoss ==
  ASSUME LetterInv, NEW s, FetchFails(s)
  PROVE  ToSet(inbox) \subseteq ToSet(inbox') \cup cut' /\ cut \subseteq cut'
  BY FetchParts DEF FetchFails

LEMMA ChatLoss ==
  ASSUME SessionInv, LossInv, ChatStep, UNCHANGED <<tuiVars, answer>>
  PROVE  LossInv'
  <1>0. LetterInv /\ ControlInv /\ UNCHANGED <<seen, overwritten, answer>>
    BY DEF SessionInv, tuiVars
  <1>00. UNCHANGED <<posted, host, peers>>
    BY DEF ChatStep, ChatFetch, ChatFetchUnsaved, ChatFetchFails, ChatLaunch, ChatHandle,
           ChatRefuse, ChatSend, ChatPost, ChatPostFails, ChatQuit, ChatSignal, ChatExit,
           relay, posts, session
  <1>1. ASSUME UNCHANGED <<inbox, wire, hand, shown, cut>> PROVE LossInv'
    BY <1>0, <1>00, <1>1, LossStep DEF LossNamedHere, Held
  <1>2. ASSUME NEW s, NEW more \in Seq(Letters), shown' = shown \o more, inbox' = Left(s),
               {i \in ToSet(inbox) : From(s, i) /\ Readable(i)} \subseteq ToSet(more) \cup cut',
               cut \subseteq cut', UNCHANGED <<wire, hand>>
        PROVE  LossInv'
    <2>1. shown \in Seq(Letters \cup {0}) /\ more \in Seq(Letters \cup {0})
      BY <1>0, LetterTypes, Shown
    <2>2. ToSet(shown') = ToSet(shown) \cup ToSet(more)
      BY <1>2, <2>1, ConcatSet
    <2>3. ToSet(inbox) \subseteq ToSet(inbox') \cup ToSet(more) \cup cut' \cup Unread
      BY <1>0, <1>2, FetchParts DEF Unread
    <2> QED BY <1>0, <1>00, <1>2, <2>2, <2>3, LossStep DEF LossNamedHere, Held
  <1>3. CASE ChatFetch
    BY <1>0, <1>2, <1>3, FetchParts DEF ChatFetch, stream
  <1>4. CASE ChatFetchUnsaved
    <2> DEFINE read == Legible(Found(Head(todo)))
    <2>1. /\ read \in Seq(Letters)
          /\ ToSet(read) = {i \in ToSet(inbox) : From(Head(todo), i) /\ Readable(i)}
          /\ ToSet(inbox) \subseteq Letters
      BY <1>0, FetchParts
    <2>2. PICK f \in {i \in ToSet(read) : posted[i].file} :
            shown' = shown \o Keep(read, Letters \ {f}) /\ cut' = cut \cup {f}
      BY <1>4 DEF ChatFetchUnsaved
    <2>3. inbox' = Left(Head(todo)) /\ UNCHANGED <<wire, hand>>
      BY <1>4 DEF ChatFetchUnsaved, stream
    <2> HIDE DEF read
    <2>4. /\ Keep(read, Letters \ {f}) \in Seq(Letters)
          /\ ToSet(Keep(read, Letters \ {f})) = ToSet(read) \cap (Letters \ {f})
      BY <2>1, KeepSet
    <2> QED BY <1>2, <2>1, <2>2, <2>3, <2>4
  <1>5. CASE ChatFetchFails
    <2>1. FetchFails(Head(todo)) /\ UNCHANGED <<wire, hand, shown>>
      BY <1>5 DEF ChatFetchFails, stream, session
    <2> QED BY <1>0, <1>00, <2>1, FetchLoss, LossStep DEF LossNamedHere, Held
  <1>6. CASE ChatHandle
    <2>1. /\ UNCHANGED <<inbox, wire, cut>>
          /\ shown' = IF Readable(hand) THEN Append(shown, hand) ELSE shown
      BY <1>6 DEF ChatHandle, Shows, relay
    <2>2. ToSet(Append(shown, hand)) = ToSet(shown) \cup {hand}
      BY <1>0, AppendSet, LetterTypes
    <2>3. hand \in Letters \cup {0}
      BY <1>0, LetterTypes
    <2> QED BY <1>0, <1>00, <2>1, <2>2, <2>3, LossStep DEF LossNamedHere, Held, Unread
  <1>7. CASE ChatLaunch \/ ChatPost \/ ChatPostFails \/ ChatQuit \/ ChatSignal \/ ChatExit
    BY <1>1, <1>7 DEF ChatLaunch, ChatPost, ChatPostFails, ChatQuit, ChatSignal, ChatExit,
                      relay, stream
  <1>8. ASSUME NEW sort \in {"text", "file"}, ChatRefuse(sort) \/ ChatSend(sort)
        PROVE  LossInv'
    BY <1>1, <1>8 DEF ChatRefuse, ChatSend, relay, stream
  <1> QED BY <1>3, <1>4, <1>5, <1>6, <1>7, <1>8 DEF ChatStep

LEMMA TuiLoss ==
  ASSUME SessionInv, LossInv, TuiStep, UNCHANGED <<chatVars, answer>>
  PROVE  LossInv'
  <1>0. LetterInv /\ ControlInv /\ UNCHANGED answer
    BY DEF SessionInv
  <1>00. UNCHANGED <<posted, host, peers>>
    BY DEF TuiStep, TuiFetch, TuiFetchFails, TuiLaunch, TuiPassOver, TuiReceive, TuiShow,
           TuiType, TuiEcho, TuiQuit, TuiSignal, TuiExit, relay, posts, session
  <1>1. ASSUME UNCHANGED <<inbox, wire, hand, shown, cut, overwritten>> PROVE LossInv'
    BY <1>0, <1>00, <1>1, LossStep DEF LossNamedHere, Held
  <1>2. CASE TuiFetch
    <2>1. /\ shown = <<>> /\ shown' = Legible(Found(Peer)) /\ inbox' = Left(Peer)
          /\ UNCHANGED <<wire, hand, cut, overwritten>>
      BY <1>0, <1>2 DEF TuiFetch, Tui, stream, tuiVars, ControlInv
    <2>2. ToSet(inbox) \subseteq ToSet(inbox') \cup ToSet(shown') \cup Unread /\ ToSet(shown) = {}
      BY <1>0, <2>1, FetchParts, EmptySet DEF Unread
    <2> QED BY <1>0, <1>00, <2>1, <2>2, LossStep DEF LossNamedHere, Held
  <1>3. CASE TuiFetchFails
    <2>1. FetchFails(Peer) /\ UNCHANGED <<wire, hand, shown, overwritten>>
      BY <1>3 DEF TuiFetchFails, stream, tuiVars
    <2> QED BY <1>0, <1>00, <2>1, FetchLoss, LossStep DEF LossNamedHere, Held
  <1>4. CASE TuiPassOver
    <2>1. /\ host = "tui" /\ (Foreign(hand) \/ ~Readable(hand))
          /\ UNCHANGED <<inbox, wire, cut, shown, overwritten>>
      BY <1>4 DEF TuiPassOver, relay, session, tuiVars
    <2>2. hand \in Unread \cup PassedOver \cup {0}
      BY <1>0, <1>4, LetterTypes DEF TuiPassOver, Unread, PassedOver
    <2> QED BY <1>0, <1>00, <2>1, <2>2, LossStep DEF LossNamedHere, Held
  <1>5. ASSUME NEW a \in Appenders, NEW x \in Letters \cup {0}, Store(a, x), seen[a] # Nothing,
               UNCHANGED <<inbox, wire, cut>>, hand' = hand \/ hand = x
        PROVE  LossInv'
    <2>1. seen[a] \in Seq(Letters \cup {0})
      BY <1>0, <1>5, LetterTypes DEF Slices
    <2>2. /\ shown' = Append(seen[a], x)
          /\ overwritten' = overwritten \cup (ToSet(shown) \ ToSet(shown'))
      BY <1>5 DEF Store
    <2>3. x \in ToSet(shown')
      BY <2>1, <2>2, AppendSet
    <2> QED BY <1>0, <1>00, <1>5, <2>2, <2>3, LossStep DEF LossNamedHere, Held
  <1>6. CASE TuiShow
    BY <1>0, <1>5, <1>6, LetterTypes DEF TuiShow, Appenders, ControlInv, relay
  <1>7. CASE TuiEcho
    BY <1>0, <1>5, <1>7 DEF TuiEcho, Tui, relay, stream, Appenders, ControlInv
  <1>8. CASE TuiLaunch \/ TuiReceive \/ TuiType \/ TuiQuit \/ TuiSignal \/ TuiExit
    BY <1>1, <1>8 DEF TuiLaunch, TuiReceive, TuiType, TuiQuit, TuiSignal, TuiExit, relay, stream,
                      session, tuiVars
  <1> QED BY <1>2, <1>3, <1>4, <1>6, <1>7, <1>8 DEF TuiStep

LEMMA BridgeLoss ==
  ASSUME SessionInv, LossInv, BridgeStep, UNCHANGED <<chatVars, tuiVars>>
  PROVE  LossInv'
  <1>0. LetterInv /\ ControlInv /\ UNCHANGED <<seen, overwritten>>
    BY DEF SessionInv, tuiVars
  <1>00. UNCHANGED <<posted, host, peers, wire>>
    BY DEF BridgeStep, BridgeLaunch, PageLeaves, BridgeWrite, BridgeWritesLate, InboxRequest,
           InboxRequestFails, InboxAnswer, relay, posts, session
  <1>1. CASE BridgeLaunch \/ PageLeaves
    <2>1. UNCHANGED <<inbox, hand, shown, cut, answer>>
      BY <1>1 DEF BridgeLaunch, PageLeaves, relay
    <2> QED BY <1>0, <1>00, <2>1, LossStep DEF LossNamedHere, Held
  <1>2. CASE BridgeWrite
    <2>1. /\ UNCHANGED <<inbox, cut, answer>>
          /\ shown' = IF Readable(hand) THEN Append(shown, hand) ELSE shown
      BY <1>2 DEF BridgeWrite, relay
    <2>2. ToSet(Append(shown, hand)) = ToSet(shown) \cup {hand}
      BY <1>0, AppendSet, LetterTypes
    <2>3. hand \in Letters \cup {0}
      BY <1>0, LetterTypes
    <2> QED BY <1>0, <1>00, <2>1, <2>2, <2>3, LossStep DEF LossNamedHere, Held, Unread
  <1>3. CASE BridgeWritesLate
    <2>1. UNCHANGED <<inbox, shown, answer>> /\ cut' = cut \cup {hand}
      BY <1>3 DEF BridgeWritesLate, relay
    <2> QED BY <1>0, <1>00, <2>1, LossStep DEF LossNamedHere, Held
  <1>4. ASSUME NEW s \in Sender, InboxRequest(s) PROVE LossInv'
    <2>1. /\ answer = <<>> /\ answer' = Legible(Found(s)) /\ inbox' = Left(s)
          /\ UNCHANGED <<hand, shown, cut>>
      BY <1>4 DEF InboxRequest, stream, session
    <2>2. ToSet(inbox) \subseteq ToSet(inbox') \cup ToSet(answer') \cup Unread /\ ToSet(answer) = {}
      BY <1>0, <2>1, FetchParts, EmptySet DEF Unread
    <2> QED BY <1>0, <1>00, <2>1, <2>2, LossStep DEF LossNamedHere, Held
  <1>5. ASSUME NEW s \in Sender, InboxRequestFails(s) PROVE LossInv'
    <2>1. FetchFails(s) /\ UNCHANGED <<hand, shown, answer>>
      BY <1>5 DEF InboxRequestFails, stream, session
    <2> QED BY <1>0, <1>00, <2>1, FetchLoss, LossStep DEF LossNamedHere, Held
  <1>6. CASE InboxAnswer
    <2>1. /\ UNCHANGED <<inbox, hand>>
          /\ \/ shown' = shown \o answer /\ cut' = cut
             \/ shown' = shown /\ cut' = cut \cup ToSet(answer)
      BY <1>6 DEF InboxAnswer, relay, stream
    <2>2. shown \in Seq(Letters \cup {0}) /\ answer \in Seq(Letters \cup {0})
      BY <1>0, LetterTypes, Shown
    <2>3. ToSet(shown \o answer) = ToSet(shown) \cup ToSet(answer)
      BY <2>2, ConcatSet
    <2> QED BY <1>0, <1>00, <2>1, <2>3, LossStep DEF LossNamedHere, Held
  <1> QED BY <1>1, <1>2, <1>3, <1>4, <1>5, <1>6 DEF BridgeStep

\* LossIsNamed for all letters, peers and bounds.
THEOREM LossNamed == Spec => []LossIsNamed
  <1> DEFINE Inv == SessionInv /\ LossInv
  <1>1. Init => Inv
    BY InitSessionInv DEF Init, StreamClientInit, LossInv, Letters
  <1>2. Inv /\ [Next]_vars => Inv'
    <2> SUFFICES ASSUME Inv, [Next]_vars PROVE LossInv'
      BY NextSessionInv
    <2>1. CASE UNCHANGED vars
      BY <2>1, LossStep DEF LossNamedHere, Held, vars, streamClientVars, relay, posts, stream,
         session, tuiVars
    <2>2. CASE Next
      BY <2>2, StreamLoss, ChatLoss, TuiLoss, BridgeLoss DEF Next
    <2> QED BY <2>1, <2>2
  <1>3. Inv => LossIsNamed
    <2> SUFFICES ASSUME Inv, NEW i \in Letters, Named(i)
                 PROVE  \/ Kept(i)
                        \/ ~Readable(i)
                        \/ i \in cut /\ (faults > 0 \/ stop)
                        \/ host = "tui" /\ (Foreign(i) \/ i \in overwritten)
      BY DEF LossIsNamed
    <2>1. i \in cut => faults > 0 \/ stop
      BY DEF SessionInv, ControlInv
    <2>2. overwritten # {} => host = "tui"
      BY DEF SessionInv, ControlInv
    <2> QED BY <2>1, <2>2 DEF LossInv, Held, Unread, PassedOver, Kept
  <1> QED BY <1>1, <1>2, <1>3, PTL DEF Spec

-----------------------------------------------------------------------------
(* In which order letters are shown.                                        *)

\* What the connection carries, and what the callback holds.
Moving == ToSet(wire) \cup {hand}

\* What the program would show.
Showable(i) == Readable(i) /\ (host = "tui" => ~Foreign(i))

\* Letters of one sender are in order in a queue, on a connection, and between
\* the callback and the connection.
InOrder ==
    /\ Sorted(inbox, posted) /\ Sorted(wire, posted)
    /\ hand # 0 => After(hand, wire, posted)

\* If j is out before i, i no longer comes: not from the connection, nor from the
\* queue.  If j is on its way before i, i is not left in the queue.
Behind(i, j, out, way, queue) ==
    /\ j \in out /\ i \notin out => i \notin way \cup queue
    /\ j \in way /\ i \notin out \cup way => i \notin queue

\* Two letters of one sender that were not posted in the gap, nor overwritten.
Pair(i, j) ==
    /\ i < j /\ posted[i].from = posted[j].from
    /\ {i, j} \cap (gap \cup overwritten) = {}

\* The program shows them in order, and so far has.
PairInOrder(i, j) ==
    /\ Showable(i) /\ main # "left" => Behind(i, j, ToSet(shown), Moving, ToSet(inbox))
    /\ First(i, j, shown)
    /\ \A a \in Appenders : seen[a] # Nothing => First(i, j, seen[a])

\* After a drain, what is queued came in the gap; and once the stream is live,
\* what is queued is a copy of what was shown or is on its way.
QueueInv ==
    /\ link = "flushed" => ToSet(inbox) \subseteq gap
    /\ link = "live" /\ main # "left" =>
          \A i \in ToSet(inbox) \ (gap \cup overwritten) :
             Showable(i) => i \in ToSet(shown) \cup Moving

\* What a goroutine has read of the slice, and what is stored in it.
SliceInv ==
    /\ \A a \in Appenders :
          seen[a] # Nothing => ToSet(seen[a]) \subseteq ToSet(shown) \cup overwritten
    /\ loop = "appending" =>
          /\ Showable(hand)
          /\ ToSet(shown) \subseteq ToSet(seen["stream"]) \cup overwritten \cup {0}

OrderInv ==
    host # "shell" =>
        /\ InOrder /\ QueueInv /\ SliceInv
        /\ \A i, j \in Letters : Pair(i, j) => PairInOrder(i, j)

LEMMA PairNext ==
  ASSUME NEW i, NEW j, First(i, j, shown'),
         Showable(i)' /\ main' # "left" => Behind(i, j, ToSet(shown'), Moving', ToSet(inbox')),
         \A a \in Appenders : seen'[a] # Nothing => First(i, j, seen'[a])
  PROVE  PairInOrder(i, j)'
  BY DEF PairInOrder

LEMMA InitOrderInv == Init => OrderInv
  <1> SUFFICES ASSUME Init PROVE OrderInv
    OBVIOUS
  <1> USE DEF Init, StreamClientInit, TuiInit
  <1>1. InOrder
    BY SortedEmpty DEF InOrder
  <1>2. QueueInv /\ SliceInv
    BY DEF QueueInv, SliceInv
  <1>3. Letters = {}
    BY DEF Letters
  <1> QED BY <1>1, <1>2, <1>3 DEF OrderInv

\* A step that posts nothing changes neither the letters nor who shows which.
LEMMA SameLetters ==
  ASSUME UNCHANGED <<posted, host, peers>>
  PROVE  /\ Letters' = Letters
         /\ \A i \in Letters \cup {0} : Showable(i)' <=> Showable(i)
  BY DEF Letters, Showable, Readable, Foreign, Peer

\* A step that posts nothing, told of one pair.
LEMMA OrderStep ==
  ASSUME SessionInv, OrderInv, UNCHANGED <<posted, host, peers>>,
         gap \subseteq gap', overwritten \subseteq overwritten',
         host # "shell" => InOrder' /\ QueueInv' /\ SliceInv',
         \A i, j \in Letters :
            /\ host # "shell" /\ i < j /\ posted[i].from = posted[j].from
            /\ {i, j} \cap (gap' \cup overwritten') = {}
            /\ PairInOrder(i, j)
            => PairInOrder(i, j)'
  PROVE  OrderInv'
  <1>1. Letters' = Letters
    BY SameLetters
  <1>2. ASSUME host # "shell", NEW i \in Letters, NEW j \in Letters, Pair(i, j)'
        PROVE  PairInOrder(i, j)'
    <2>1. /\ i < j /\ posted[i].from = posted[j].from
          /\ {i, j} \cap (gap' \cup overwritten') = {}
      BY <1>2 DEF Pair
    <2>2. Pair(i, j)
      BY <2>1 DEF Pair
    <2> QED BY <1>2, <2>1, <2>2 DEF OrderInv
  <1> QED BY <1>1, <1>2 DEF OrderInv

\* What a step leaves alone that moves no letter but out of the queue.
contents == <<posted, wire, hand, shown, gap, overwritten, seen, host, peers>>

LEMMA QuietStep ==
  ASSUME SessionInv, OrderInv, UNCHANGED contents,
         ToSet(inbox') \subseteq ToSet(inbox), Sorted(inbox, posted) => Sorted(inbox', posted),
         main = "left" => main' = "left",
         link' \in {link, "none", "open"} \/ (link = "flushed" /\ link' = "live"),
         loop' = "appending" => loop = "appending"
  PROVE  OrderInv'
  <1> USE DEF contents
  <1>0. /\ ToSet(inbox) \subseteq Letters /\ hand \in Letters \cup {0}
        /\ \A i \in Letters \cup {0} : Showable(i)' <=> Showable(i)
    BY LetterTypes, SameLetters DEF SessionInv
  <1>1. CASE host = "shell"
    BY <1>1, OrderStep
  <1>2. CASE host # "shell"
    <2>1. InOrder /\ QueueInv /\ SliceInv
      BY <1>2 DEF OrderInv
    <2>2. InOrder'
      BY <2>1 DEF InOrder
    <2>3. QueueInv'
      BY <1>0, <2>1 DEF QueueInv, Moving
    <2>4. SliceInv'
      BY <1>0, <2>1 DEF SliceInv
    <2>5. ASSUME NEW i \in Letters, NEW j \in Letters, PairInOrder(i, j) PROVE PairInOrder(i, j)'
      BY <1>0, <2>5 DEF PairInOrder, Behind, Moving
    <2> QED BY <2>2, <2>3, <2>4, <2>5, OrderStep
  <1> QED BY <1>1, <1>2

-----------------------------------------------------------------------------
\* Read of the connection, a letter is in hand.
LEMMA ScanOrder ==
  ASSUME SessionInv, OrderInv, Scan, UNCHANGED tuiVars
  PROVE  OrderInv'
  <1>0. /\ wire # <<>> /\ hand = 0 /\ hand' = Head(wire) /\ wire' = Tail(wire)
        /\ loop' = "handling" /\ wire \in Seq(Letters)
        /\ UNCHANGED <<posted, inbox, link, shown, gap, overwritten, seen, host, peers, main>>
    BY LetterTypes DEF Scan, TakeNext, posts, session, tuiVars, SessionInv, ControlInv
  <1>1. /\ ToSet(wire) = {hand'} \cup ToSet(wire') /\ 0 \notin Letters
        /\ ToSet(inbox) \subseteq Letters /\ hand' \in Letters /\ Moving' = ToSet(wire)
        /\ Moving = ToSet(wire) \cup {0}
    BY <1>0, HeadTailSet, ZeroIsNone, LetterTypes DEF SessionInv, Moving
  <1>2. \A i \in Letters \cup {0} : Showable(i)' <=> Showable(i)
    BY <1>0, SameLetters
  <1>3. ASSUME host # "shell" PROVE InOrder' /\ QueueInv' /\ SliceInv'
    <2>1. InOrder /\ QueueInv /\ SliceInv
      BY <1>3 DEF OrderInv
    <2>2. InOrder'
      BY <1>0, <2>1, SortedTail DEF InOrder
    <2>3. QueueInv'
      BY <1>0, <1>1, <1>2, <2>1 DEF QueueInv
    <2>4. SliceInv'
      BY <1>0, <2>1 DEF SliceInv
    <2> QED BY <2>2, <2>3, <2>4
  <1>4. ASSUME NEW i \in Letters, NEW j \in Letters, PairInOrder(i, j) PROVE PairInOrder(i, j)'
    BY <1>0, <1>1, <1>2, <1>4 DEF PairInOrder, Behind
  <1> QED BY <1>0, <1>3, <1>4, OrderStep

\* A drain moves the queue to a connection that carried nothing.
LEMMA FlushOrder ==
  ASSUME SessionInv, OrderInv, Flush, UNCHANGED tuiVars
  PROVE  OrderInv'
  <1>0. /\ wire = <<>> /\ hand = 0 /\ wire' = wire \o inbox /\ inbox' = <<>> /\ link' = "flushed"
        /\ inbox \in Seq(Letters)
        /\ UNCHANGED <<posted, hand, shown, gap, overwritten, seen, host, peers, main, loop>>
    BY LetterTypes DEF Flush, posts, stream, session, tuiVars, SessionInv, ControlInv
  <1>1. wire' = inbox
    BY <1>0
  <1>2. /\ ToSet(inbox) \subseteq Letters /\ ToSet(inbox') = {} /\ 0 \notin Letters
        /\ Moving = {0} /\ Moving' = ToSet(inbox) \cup {0}
    BY <1>0, <1>1, LetterTypes, EmptySet, ZeroIsNone DEF SessionInv, Moving
  <1>3. \A i \in Letters \cup {0} : Showable(i)' <=> Showable(i)
    BY <1>0, SameLetters
  <1>4. ASSUME host # "shell" PROVE InOrder' /\ QueueInv' /\ SliceInv'
    <2>1. InOrder /\ QueueInv /\ SliceInv
      BY <1>4 DEF OrderInv
    <2>2. InOrder'
      BY <1>0, <1>1, <2>1, SortedEmpty DEF InOrder
    <2>3. QueueInv'
      BY <1>0, <1>2 DEF QueueInv
    <2>4. SliceInv'
      BY <1>0, <1>3, <2>1 DEF SliceInv
    <2> QED BY <2>2, <2>3, <2>4
  <1>5. ASSUME NEW i \in Letters, NEW j \in Letters, PairInOrder(i, j) PROVE PairInOrder(i, j)'
    BY <1>0, <1>2, <1>3, <1>5 DEF PairInOrder, Behind
  <1> QED BY <1>0, <1>4, <1>5, OrderStep

\* What a break cuts off is the end of what was written: if a letter arrives, the
\* earlier ones that were on their way do.
LEMMA SeverOrder ==
  ASSUME SessionInv, OrderInv, Sever,
         UNCHANGED <<posted, hand, shown, gap, overwritten, seen, host, peers, main, loop>>
  PROVE  OrderInv'
  <1>0. /\ LetterInv /\ ControlInv /\ 0 \notin Letters /\ ToSet(inbox) \subseteq Letters
        /\ Letters \subseteq Nat
    BY ZeroIsNone, LetterTypes DEF SessionInv
  <1>1. PICK written \in Seq(Letters), n \in Nat :
          /\ n \in 0 .. Len(written) /\ wire' = SubSeq(written, 1, n)
          /\ \/ written = wire /\ inbox' = inbox
             \/ written = inbox /\ inbox' = <<>> /\ wire = <<>> /\ hand = 0
    BY <1>0, SeverParts
  <1>2. link' = "none"
    BY <1>0, SeverParts
  <1>3. /\ ToSet(written) = ToSet(wire') \cup ToSet(SubSeq(written, n + 1, Len(written)))
        /\ ToSet(wire') \subseteq ToSet(written) /\ ToSet(inbox') \subseteq ToSet(inbox)
        /\ Sorted(written, posted) => Sorted(wire', posted)
    BY <1>1, CutSet, SortedCut, EmptySet
  <1>4. \A i \in Letters \cup {0} : Showable(i)' <=> Showable(i)
    BY SameLetters
  <1>5. ASSUME host # "shell" PROVE InOrder' /\ QueueInv' /\ SliceInv'
    <2>1. InOrder /\ QueueInv /\ SliceInv
      BY <1>5 DEF OrderInv
    <2>2. Sorted(inbox', posted) /\ Sorted(wire', posted)
      BY <1>1, <1>3, <2>1, SortedEmpty DEF InOrder
    <2>3. ASSUME hand # 0 PROVE After(hand, wire', posted)
      <3>1. written = wire /\ After(hand, wire, posted)
        BY <1>1, <2>1, <2>3 DEF InOrder
      <3>2. \A x \in ToSet(wire') : x \in ToSet(wire)
        BY <1>3, <3>1
      <3>3. wire \in Seq(Letters) /\ wire' \in Seq(Letters)
        BY <1>0, SeverParts, LetterTypes
      <3>4. ASSUME NEW k \in DOMAIN wire', posted[wire'[k]].from = posted[hand].from
            PROVE  hand <= wire'[k]
        <4>1. wire'[k] \in ToSet(wire')
          BY DEF ToSet
        <4>2. PICK l \in 1 .. Len(wire) : wire[l] = wire'[k]
          BY <3>2, <3>3, <4>1, MembersOf
        <4> QED BY <3>1, <3>3, <3>4, <4>2 DEF After
      <3> QED BY <3>4 DEF After
    <2>4. InOrder'
      BY <2>2, <2>3 DEF InOrder
    <2>5. QueueInv'
      BY <1>2 DEF QueueInv
    <2>6. SliceInv'
      BY <1>0, <1>4, <2>1, LetterTypes DEF SliceInv
    <2> QED BY <2>4, <2>5, <2>6
  <1>6. ASSUME NEW i \in Letters, NEW j \in Letters, host # "shell", i < j,
               posted[i].from = posted[j].from, PairInOrder(i, j)
        PROVE  PairInOrder(i, j)'
    <2>0. Showable(i)' <=> Showable(i)
      BY <1>4
    <2>1. ASSUME Showable(i), main # "left"
          PROVE  Behind(i, j, ToSet(shown), Moving', ToSet(inbox'))
      <3>1. Behind(i, j, ToSet(shown), Moving, ToSet(inbox))
        BY <1>6, <2>1 DEF PairInOrder
      <3>2. CASE written = inbox /\ inbox' = <<>> /\ wire = <<>> /\ hand = 0
        <4>1. ToSet(inbox') = {} /\ Moving' \subseteq ToSet(inbox) \cup {0}
          BY <1>3, <3>2, EmptySet DEF Moving
        <4> QED BY <1>0, <3>1, <4>1 DEF Behind
      <3>3. CASE written = wire /\ inbox' = inbox
        <4>1. Moving' \subseteq Moving
          BY <1>3, <3>3 DEF Moving
        <4>2. InOrder
          BY <1>6 DEF OrderInv
        <4>3. ASSUME j \in Moving', i \in Moving PROVE i \in Moving'
          <5>1. SUFFICES ASSUME i \in ToSet(SubSeq(wire, n + 1, Len(wire))), i # hand
                         PROVE  FALSE
            BY <1>3, <3>3, <4>3 DEF Moving
          <5>2. wire \in Seq(Letters) /\ n \in 0 .. Len(wire) /\ wire' = SubSeq(wire, 1, n)
            BY <1>1, <3>3
          <5>3. PICK l \in (n + 1) .. Len(wire) : wire[l] = i
            <6> DEFINE rest == SubSeq(wire, n + 1, Len(wire))
            <6>1. /\ rest \in Seq(Letters) /\ Len(rest) = Len(wire) - n
                  /\ \A k \in 1 .. Len(rest) : rest[k] = wire[n + k]
              BY <5>2
            <6>2. PICK k \in 1 .. Len(rest) : rest[k] = i
              <7>1. i \in ToSet(rest)
                BY <5>1
              <7> HIDE DEF rest
              <7> QED BY <6>1, <7>1, MembersOf
            <6>3. n + k \in (n + 1) .. Len(wire) /\ wire[n + k] = i
              <7> HIDE DEF rest
              <7> QED BY <5>2, <6>1, <6>2
            <6> QED BY <6>3
          <5>4. CASE j = hand
            <6>1. After(j, wire, posted)
              BY <1>0, <4>2, <5>4 DEF InOrder
            <6> QED BY <1>0, <1>6, <5>2, <5>3, <6>1 DEF After
          <5>5. CASE j \in ToSet(wire')
            <6>1. PICK k \in 1 .. n : wire[k] = j
              <7>1. Len(wire') = n /\ wire' \in Seq(Letters) /\ \A k \in 1 .. n : wire'[k] = wire[k]
                BY <5>2
              <7> QED BY <5>5, <7>1, MembersOf
            <6>2. k \in DOMAIN wire /\ l \in DOMAIN wire /\ k < l
              BY <5>2, <5>3, <6>1
            <6>3. j <= i
              BY <1>6, <4>2, <5>3, <6>1, <6>2 DEF InOrder, Sorted
            <6> QED BY <1>0, <1>6, <6>3
          <5> QED BY <4>3, <5>4, <5>5 DEF Moving
        <4> QED BY <3>1, <3>3, <4>1, <4>3 DEF Behind
      <3> QED BY <1>1, <3>2, <3>3
    <2>3. First(i, j, shown) /\ \A a \in Appenders : seen[a] # Nothing => First(i, j, seen[a])
      BY <1>6 DEF PairInOrder
    <2> QED BY <2>0, <2>1, <2>3, PairNext
  <1> QED BY <1>5, <1>6, OrderStep

-----------------------------------------------------------------------------
\* A copy is delivered of the last letter its sender has posted so far.
LEMMA DeliverOrder ==
  ASSUME SessionInv, OrderInv, NEW x \in Nat \ {0}, NEW queues \in BOOLEAN, Deliver(x, queues),
         UNCHANGED tuiVars, Letters \subseteq Letters', x \in Letters',
         Letters' \subseteq Letters \cup {x}, \A i \in Letters : posted'[i] = posted[i],
         \A i \in Letters' : posted'[i].from = posted'[x].from => i <= x
  PROVE  OrderInv'
  <1>0. /\ inbox \in Seq(Letters) /\ wire \in Seq(Letters) /\ hand \in Letters \cup {0}
        /\ Letters \subseteq Nat /\ 0 \notin Letters
        /\ ToSet(inbox) \subseteq Letters /\ ToSet(wire) \subseteq Letters
        /\ ToSet(shown) \subseteq Letters \cup {0}
        /\ \A a \in Appenders : seen[a] # Nothing => ToSet(seen[a]) \subseteq Letters \cup {0}
    BY ZeroIsNone, LetterTypes DEF SessionInv
  <1>1. /\ inbox' = IF queues THEN Append(inbox, x) ELSE inbox
        /\ wire' = IF link = "live" THEN Append(wire, x) ELSE wire
        /\ gap' = IF link = "flushed" THEN gap \cup {x} ELSE gap
        /\ UNCHANGED <<link, loop, hand, shown, host, peers, main, seen, overwritten>>
    BY DEF Deliver, stream, session, tuiVars
  <1>2. /\ ToSet(Append(inbox, x)) = ToSet(inbox) \cup {x}
        /\ ToSet(Append(wire, x)) = ToSet(wire) \cup {x}
    BY <1>0, AppendSet
  <1>3. \A i \in Letters : Showable(i)' <=> Showable(i)
    BY <1>1 DEF Showable, Readable, Foreign, Peer
  <1>4. ASSUME host # "shell" PROVE InOrder' /\ QueueInv' /\ SliceInv'
    <2>1. InOrder /\ QueueInv /\ SliceInv
      BY <1>4 DEF OrderInv
    <2>2. ASSUME NEW s \in Seq(Letters), Sorted(s, posted)
          PROVE  Sorted(s, posted') /\ Sorted(Append(s, x), posted')
      <3>1. Sorted(s, posted')
        BY <2>2, SortedStays DEF Letters
      <3>2. UpTo(s, x, posted')
        <4>0. \A k \in DOMAIN s : s[k] \in Letters
          OBVIOUS
        <4>1. \A k \in DOMAIN s : s[k] \in Letters'
          BY <4>0
        <4> QED BY <4>1 DEF UpTo
      <3> QED BY <3>1, <3>2, SortedAppend
    <2>3. Sorted(inbox', posted') /\ Sorted(wire', posted')
      BY <1>0, <1>1, <2>1, <2>2 DEF InOrder
    <2>4. ASSUME hand # 0 PROVE After(hand, wire', posted')
      <3>1. /\ After(hand, wire, posted) /\ hand \in Letters
            /\ posted'[hand].from = posted'[x].from => hand <= x
        BY <1>0, <2>1, <2>4 DEF InOrder
      <3>2. After(hand, wire, posted')
        <4>1. \A k \in DOMAIN wire : wire[k] \in Letters
          BY <1>0
        <4>2. \A k \in DOMAIN wire : posted'[wire[k]] = posted[wire[k]]
          BY <4>1
        <4>3. posted'[hand] = posted[hand]
          BY <3>1
        <4> QED BY <3>1, <4>2, <4>3 DEF After
      <3>3. \A k \in DOMAIN Append(wire, x) :
               Append(wire, x)[k] = x \/ (k \in DOMAIN wire /\ Append(wire, x)[k] = wire[k])
        BY <1>0
      <3>4. After(hand, Append(wire, x), posted')
        BY <3>1, <3>2, <3>3 DEF After
      <3> QED BY <1>1, <3>2, <3>4
    <2>5. InOrder'
      BY <1>1, <2>3, <2>4 DEF InOrder
    <2>6. QueueInv'
      BY <1>0, <1>1, <1>2, <1>3, <2>1 DEF QueueInv, Moving
    <2>7. loop = "appending" => hand \in Letters
      BY <1>0 DEF SessionInv, ControlInv
    <2>8. SliceInv'
      BY <1>1, <1>3, <2>1, <2>7 DEF SliceInv
    <2> QED BY <2>5, <2>6, <2>8
  <1>5. ASSUME host # "shell", NEW i \in Letters', NEW j \in Letters', Pair(i, j)'
        PROVE  PairInOrder(i, j)'
    <2>1. /\ i < j /\ posted'[i].from = posted'[j].from
          /\ {i, j} \cap (gap' \cup overwritten) = {}
      BY <1>1, <1>5 DEF Pair
    <2>2. i # x /\ i \in Letters
      BY <1>0, <2>1
    <2>3. gap \subseteq gap' /\ i \notin gap \cup overwritten
      BY <1>1, <2>1
    <2>4. j \in Letters => PairInOrder(i, j)
      BY <1>1, <1>5, <2>1, <2>2, <2>3 DEF OrderInv, Pair
    <2>5. First(i, j, shown) /\ \A a \in Appenders : seen[a] # Nothing => First(i, j, seen[a])
      <3>1. CASE j \in Letters
        BY <2>4, <3>1 DEF PairInOrder
      <3>2. CASE j \notin Letters
        <4>1. j = x
          BY <3>2
        <4> QED BY <1>0, <3>2, <4>1 DEF First
      <3> QED BY <3>1, <3>2
    <2>6. ASSUME Showable(i), main # "left"
          PROVE  Behind(i, j, ToSet(shown), Moving', ToSet(inbox'))
      <3>1. /\ Moving \subseteq Moving' /\ Moving' \subseteq Moving \cup {x}
            /\ ToSet(inbox') \subseteq ToSet(inbox) \cup {x}
            /\ x \in Moving' => link = "live" \/ x \in Moving
        BY <1>1, <1>2 DEF Moving
      <3>2. link = "live" /\ i \in ToSet(inbox) => i \in ToSet(shown) \cup Moving
        BY <1>5, <1>1, <2>3, <2>6 DEF OrderInv, QueueInv
      <3>3. CASE j \in Letters
        <4>1. Behind(i, j, ToSet(shown), Moving, ToSet(inbox))
          BY <2>4, <2>6, <3>3 DEF PairInOrder
        <4> QED BY <2>2, <3>1, <3>2, <4>1 DEF Behind
      <3>4. CASE j \notin Letters
        <4>1. j = x /\ j \notin ToSet(shown) \cup Moving
          BY <1>0, <3>4 DEF Moving
        <4> QED BY <2>2, <3>1, <3>2, <4>1 DEF Behind
      <3> QED BY <3>3, <3>4
    <2>8. Showable(i)' <=> Showable(i)
      BY <1>3, <2>2
    <2> QED BY <1>1, <2>5, <2>6, <2>8, PairNext
  <1> QED BY <1>1, <1>4, <1>5 DEF OrderInv

LEMMA StreamOrder ==
  ASSUME SessionInv, OrderInv, ListenStream \/ RelayStep, UNCHANGED <<chatVars, tuiVars, answer>>
  PROVE  OrderInv'
  <1>0. /\ LetterInv /\ ControlInv /\ UNCHANGED <<seen, overwritten>>
        /\ Letters = 1 .. Len(posted) /\ Len(posted) \in Nat
    BY ZeroIsNone DEF SessionInv, tuiVars
  <1>1. CASE LoopTop \/ Connect \/ ScanEnds \/ Resume \/ Subscribe
    <2>1. /\ UNCHANGED contents /\ inbox' = inbox /\ main' = main
          /\ link' \in {link, "open"} \/ (link = "flushed" /\ link' = "live")
          /\ loop' = "appending" => loop = "appending"
      BY <1>0, <1>1 DEF LoopTop, Ask, Connect, ScanEnds, Resume, Subscribe, contents, relay, posts,
         stream, session
    <2> QED BY <2>1, QuietStep
  <1>2. CASE RequestFails
    <2>1. /\ UNCHANGED contents /\ inbox' \in {inbox, <<>>} /\ main' = main /\ link' = link
          /\ loop' # "appending"
      BY <1>0, <1>2 DEF RequestFails, Retry, contents, posts, session
    <2>2. ToSet(inbox') \subseteq ToSet(inbox) /\ (Sorted(inbox, posted) => Sorted(inbox', posted))
      BY <2>1, EmptySet, SortedEmpty
    <2> QED BY <2>1, <2>2, QuietStep
  <1>3. CASE Watch \/ Break
    <2>1. /\ Sever
          /\ UNCHANGED <<posted, hand, shown, gap, overwritten, seen, host, peers, main, loop>>
      BY <1>0, <1>3 DEF Watch, Break, posts, stream, session
    <2> QED BY <2>1, SeverOrder
  <1>4. ASSUME NEW mail \in Mails, Post(mail) PROVE OrderInv'
    <2> DEFINE x == Len(posted) + 1
    <2>1. /\ posted' = Append(posted, mail) /\ posted \in Seq(Mails)
          /\ Deliver(x, mail.from # NoSender) /\ x \in Nat \ {0}
      BY <1>0, <1>4 DEF Post, SessionInv, CountInv
    <2>2. /\ Letters' = 1 .. x /\ \A i \in Letters : posted'[i] = posted[i]
      BY <1>0, <2>1 DEF Letters
    <2>3. /\ Letters \subseteq Letters' /\ x \in Letters' /\ Letters' \subseteq Letters \cup {x}
          /\ \A i \in Letters' : i <= x
      BY <1>0, <2>2
    <2>4. (mail.from # NoSender) \in BOOLEAN /\ UNCHANGED tuiVars
      OBVIOUS
    <2> QED BY <2>1, <2>2, <2>3, <2>4, DeliverOrder
  <1>5. ASSUME NEW x \in Letters, PostAgain(x) PROVE OrderInv'
    <2>1. PICK queues \in {FALSE, Named(x)} : Deliver(x, queues)
      BY <1>5 DEF PostAgain
    <2>2. /\ posted' = posted
          /\ \A i \in Letters : i > x => posted[i].from # posted[x].from
      BY <1>5 DEF PostAgain
    <2>0. Named(x) \in BOOLEAN
      BY DEF Named
    <2>5. queues \in BOOLEAN
      BY <2>0, <2>1, Zenon
    <2>4. queues \in BOOLEAN /\ x \in Nat \ {0}
      BY <1>0, <2>5
    <2>3. Letters' = Letters /\ \A i \in Letters : posted[i].from = posted[x].from => i <= x
      BY <1>0, <2>2 DEF Letters
    <2> QED BY <2>1, <2>2, <2>3, <2>4, DeliverOrder
  <1> QED BY <1>1, <1>2, <1>3, <1>4, <1>5, ScanOrder, FlushOrder DEF ListenStream, RelayStep

-----------------------------------------------------------------------------
\* A fetch, before there is a stream, shows all there is of one sender.
LEMMA FetchOrder ==
  ASSUME SessionInv, OrderInv, NEW s, NEW more \in Seq(Letters), loop = "off", loop' = "off",
         inbox' = Left(s), shown' = shown \o more, Sorted(more, posted), main' # "left",
         main # "left",
         ToSet(more) \subseteq {i \in ToSet(inbox) : From(s, i) /\ Showable(i)},
         UNCHANGED <<posted, wire, hand, gap, overwritten, seen, link, host, peers>>
  PROVE  OrderInv'
  <1>0. /\ LetterInv /\ link = "none" /\ hand = 0 /\ wire = <<>> /\ seen["stream"] = Nothing
        /\ 0 \notin Letters /\ inbox \in Seq(Letters) /\ shown \in Seq(Letters \cup {0})
        /\ more \in Seq(Letters \cup {0}) /\ more \in Seq(Nat) /\ Letters \subseteq Nat
    BY ZeroIsNone, LetterTypes, Shown DEF SessionInv, ControlInv
  <1>1. /\ ToSet(inbox') = {i \in ToSet(inbox) : ~From(s, i)}
        /\ ToSet(shown') = ToSet(shown) \cup ToSet(more)
        /\ Moving = {0} /\ Moving' = {0} /\ ToSet(inbox) \subseteq Letters
    BY <1>0, FetchParts, ConcatSet, EmptySet DEF Moving
  <1>2. \A i \in Letters \cup {0} : Showable(i)' <=> Showable(i)
    BY SameLetters
  <1>3. ASSUME host # "shell" PROVE InOrder' /\ QueueInv' /\ SliceInv'
    <2>1. InOrder /\ QueueInv /\ SliceInv
      BY <1>3 DEF OrderInv
    <2>2. InOrder'
      BY <1>0, <2>1, SortedKeep DEF InOrder, Left
    <2>3. QueueInv'
      BY <1>0 DEF QueueInv
    <2>4. SliceInv'
      BY <1>1, <2>1 DEF SliceInv
    <2> QED BY <2>2, <2>3, <2>4
  <1>4. ASSUME host # "shell", NEW i \in Letters, NEW j \in Letters, i < j,
               posted[i].from = posted[j].from, PairInOrder(i, j)
        PROVE  PairInOrder(i, j)'
    <2>0. Showable(i)' <=> Showable(i)
      BY <1>2
    <2>1. /\ First(i, j, shown) /\ \A a \in Appenders : seen[a] # Nothing => First(i, j, seen[a])
          /\ Showable(i) => Behind(i, j, ToSet(shown), Moving, ToSet(inbox))
      BY <1>4 DEF PairInOrder
    <2>2. From(s, i) <=> From(s, j)
      BY <1>4 DEF From
    <2>3. Showable(i) => Behind(i, j, ToSet(shown'), {0}, ToSet(inbox'))
      BY <1>0, <1>1, <2>1, <2>2 DEF Behind
    <2>4. First(i, j, more)
      BY <1>0, <1>4, FirstSorted
    <2>5. j \in ToSet(shown) /\ i \notin ToSet(shown) => i \notin ToSet(more)
      BY <1>0, <1>1, <2>1 DEF Behind
    <2>6. First(i, j, shown')
      BY <1>0, <2>1, <2>4, <2>5, FirstConcat
    <2> QED BY <1>1, <2>0, <2>1, <2>3, <2>6, PairNext
  <1> QED BY <1>3, <1>4, OrderStep

\* The callback shows what is in hand, or passes over what it does not show.
LEMMA HandleOrder ==
  ASSUME SessionInv, OrderInv, hand # 0, hand' = 0, loop' = "reading", main # "left",
         shown' = IF Showable(hand) THEN Append(shown, hand) ELSE shown,
         UNCHANGED <<posted, inbox, wire, gap, overwritten, seen, link, host, peers, main>>
  PROVE  OrderInv'
  <1>0. /\ 0 \notin Letters /\ hand \in Letters /\ shown \in Seq(Letters \cup {0})
        /\ ToSet(inbox) \subseteq Letters /\ ToSet(wire) \subseteq Letters
        /\ wire \in Seq(Letters) /\ Letters \subseteq Nat
    BY ZeroIsNone, LetterTypes DEF SessionInv
  <1>1. /\ ToSet(Append(shown, hand)) = ToSet(shown) \cup {hand}
        /\ Moving = ToSet(wire) \cup {hand} /\ Moving' = ToSet(wire) \cup {0}
        /\ ToSet(shown) \subseteq ToSet(shown') /\ ToSet(shown') \subseteq ToSet(shown) \cup {hand}
        /\ Showable(hand) => hand \in ToSet(shown')
    BY <1>0, AppendSet DEF Moving
  <1>2. \A i \in Letters \cup {0} : Showable(i)' <=> Showable(i)
    BY SameLetters
  <1>3. ASSUME host # "shell" PROVE InOrder' /\ QueueInv' /\ SliceInv'
    <2>1. InOrder /\ QueueInv /\ SliceInv
      BY <1>3 DEF OrderInv
    <2>2. InOrder'
      BY <2>1 DEF InOrder
    <2>3. QueueInv'
      BY <1>0, <1>1, <1>2, <2>1 DEF QueueInv
    <2>4. SliceInv'
      BY <1>1, <2>1 DEF SliceInv
    <2> QED BY <2>2, <2>3, <2>4
  <1>4. ASSUME host # "shell", NEW i \in Letters, NEW j \in Letters, i < j,
               posted[i].from = posted[j].from, PairInOrder(i, j)
        PROVE  PairInOrder(i, j)'
    <2>0. Showable(i)' <=> Showable(i)
      BY <1>2
    <2>1. /\ First(i, j, shown) /\ \A a \in Appenders : seen[a] # Nothing => First(i, j, seen[a])
          /\ Showable(i) => Behind(i, j, ToSet(shown), Moving, ToSet(inbox))
      BY <1>4 DEF PairInOrder
    <2>2. j = hand => i \notin ToSet(wire)
      <3>1. ASSUME j = hand, i \in ToSet(wire) PROVE FALSE
        <4>1. After(j, wire, posted)
          BY <1>4, <3>1 DEF OrderInv, InOrder
        <4>2. PICK k \in DOMAIN wire : wire[k] = i
          BY <1>0, <3>1, MembersOf
        <4>3. j <= i
          BY <1>4, <4>1, <4>2 DEF After
        <4> QED BY <1>0, <1>4, <4>3
      <3> QED BY <3>1
    <2>3. Showable(i) => Behind(i, j, ToSet(shown'), Moving', ToSet(inbox))
      BY <1>0, <1>1, <2>1, <2>2 DEF Behind
    <2>4. First(i, j, shown')
      <3>1. CASE ~Showable(hand)
        BY <2>1, <3>1
      <3>2. CASE Showable(hand)
        <4>1. j \in ToSet(shown) /\ i \notin ToSet(shown) => hand # i
          BY <1>1, <2>1, <3>2 DEF Behind
        <4>2. hand \in Letters \cup {0} /\ i # j
          BY <1>0, <1>4
        <4> QED BY <1>0, <2>1, <3>2, <4>1, <4>2, FirstAppend
      <3> QED BY <3>1, <3>2
    <2> QED BY <2>0, <2>1, <2>3, <2>4, PairNext
  <1> QED BY <1>3, <1>4, OrderStep

\* What nobody shows when the page has left.
LEMMA LeftOrder ==
  ASSUME SessionInv, OrderInv, main = "left", main' = "left", hand' = 0, loop' = "reading",
         UNCHANGED <<posted, inbox, wire, gap, overwritten, seen, link, host, peers, shown>>
  PROVE  OrderInv'
  <1>1. ASSUME host # "shell" PROVE InOrder' /\ QueueInv' /\ SliceInv'
    BY <1>1 DEF OrderInv, InOrder, QueueInv, SliceInv
  <1>2. ASSUME NEW i \in Letters, NEW j \in Letters, PairInOrder(i, j) PROVE PairInOrder(i, j)'
    BY <1>2 DEF PairInOrder
  <1> QED BY <1>1, <1>2, OrderStep

-----------------------------------------------------------------------------
LEMMA ChatOrder ==
  ASSUME SessionInv, OrderInv, ChatStep, UNCHANGED <<tuiVars, answer>>
  PROVE  OrderInv'
  <1>0. LetterInv /\ ControlInv /\ InOrder /\ UNCHANGED <<seen, overwritten>> /\ host = "chat"
    <2>1. host = "chat"
      BY DEF ChatStep, ChatFetch, ChatFetchUnsaved, ChatFetchFails, ChatLaunch, ChatHandle,
           ChatRefuse, ChatSend, ChatPost, ChatPostFails, ChatQuit, ChatSignal, ChatExit, Chat
    <2> QED BY <2>1 DEF SessionInv, OrderInv, tuiVars
  <1>1. ASSUME UNCHANGED <<posted, inbox, wire, hand, shown, gap, host, peers, link>>,
               main = "left" => main' = "left", loop' \in {loop, "top"}
        PROVE  OrderInv'
    BY <1>0, <1>1, QuietStep DEF contents
  <1>2. CASE ChatFetch \/ ChatFetchUnsaved
    <2> DEFINE s == Head(todo)
               read == Legible(Found(s))
    <2>1. /\ read \in Seq(Letters) /\ Sorted(read, posted)
          /\ ToSet(read) = {i \in ToSet(inbox) : From(s, i) /\ Readable(i)}
          /\ inbox \in Seq(Letters)
      <3>1. inbox \in Seq(Letters) /\ Sorted(inbox, posted)
        BY <1>0 DEF LetterInv, InOrder
      <3>2. Found(s) \in Seq(Letters) /\ Sorted(Found(s), posted)
        BY <1>0, <3>1, FetchParts, SortedKeep DEF Found
      <3>3. Sorted(read, posted)
        BY <3>2, SortedKeep DEF Legible
      <3> QED BY <1>0, <3>1, <3>3, FetchParts
    <2>2. \A i \in Letters : Readable(i) => Showable(i)
      BY <1>0 DEF Showable
    <2>3. /\ loop = "off" /\ main = "fetch" /\ inbox' = Left(s)
          /\ UNCHANGED <<posted, wire, hand, gap, link, host, peers, main, loop>>
      BY <1>0, <1>2 DEF ChatFetch, ChatFetchUnsaved, Chat, ControlInv, posts, stream
    <2>4. ToSet(inbox) \subseteq Letters
      BY <1>0, LetterTypes
    <2>5. CASE ChatFetch
      <3>1. shown' = shown \o read
        BY <2>5 DEF ChatFetch
      <3> HIDE DEF read, s
      <3>2. ToSet(read) \subseteq {i \in ToSet(inbox) : From(s, i) /\ Showable(i)}
        BY <2>1, <2>2, <2>4
      <3> QED BY <1>0, <2>1, <2>3, <3>1, <3>2, FetchOrder
    <2>6. CASE ChatFetchUnsaved
      <3>1. PICK f \in {i \in ToSet(read) : posted[i].file} :
              shown' = shown \o Keep(read, Letters \ {f})
        BY <2>6 DEF ChatFetchUnsaved
      <3> HIDE DEF read, s
      <3> DEFINE more == Keep(read, Letters \ {f})
      <3>2. /\ more \in Seq(Letters) /\ Sorted(more, posted)
            /\ ToSet(more) = ToSet(read) \cap (Letters \ {f})
        BY <2>1, KeepSet, SortedKeep
      <3>3. shown' = shown \o more
        BY <3>1
      <3> HIDE DEF more
      <3>4. ToSet(more) \subseteq {i \in ToSet(inbox) : From(s, i) /\ Showable(i)}
        BY <2>1, <2>2, <2>4, <3>2
      <3> QED BY <1>0, <2>3, <3>2, <3>3, <3>4, FetchOrder
    <2> QED BY <1>2, <2>5, <2>6
  <1>3. CASE ChatFetchFails
    <2>1. /\ UNCHANGED contents /\ main' = main /\ link' = link /\ loop' = loop
          /\ inbox' \in {inbox, Left(Head(todo))}
      BY <1>0, <1>3 DEF ChatFetchFails, FetchFails, contents, posts, stream, session
    <2>2. ToSet(Left(Head(todo))) \subseteq ToSet(inbox) /\ inbox \in Seq(Letters)
      BY <1>0, FetchParts, LetterTypes
    <2>3. Sorted(inbox, posted) => Sorted(Left(Head(todo)), posted)
      BY <2>2, SortedKeep DEF Left
    <2> QED BY <2>1, <2>2, <2>3, QuietStep
  <1>4. CASE ChatHandle
    <2>1. /\ hand # 0 /\ hand' = 0 /\ loop' = "reading" /\ main # "left"
          /\ shown' = IF Showable(hand) THEN Append(shown, hand) ELSE shown
          /\ UNCHANGED <<posted, inbox, wire, gap, link, host, peers, main>>
      BY <1>0, <1>4 DEF ChatHandle, Handled, Shows, Showable, relay, posts, ControlInv
    <2> QED BY <1>0, <2>1, HandleOrder
  <1>5. CASE ChatLaunch \/ ChatPost \/ ChatPostFails \/ ChatQuit \/ ChatSignal \/ ChatExit
    BY <1>1, <1>5 DEF ChatLaunch, ChatPost, ChatPostFails, ChatQuit, ChatSignal, ChatExit, Chat,
                      Over, StopPosting, relay, posts, stream, session
  <1>6. ASSUME NEW sort \in {"text", "file"}, ChatRefuse(sort) \/ ChatSend(sort)
        PROVE  OrderInv'
    BY <1>1, <1>6 DEF ChatRefuse, ChatSend, Chat, relay, posts, stream
  <1> QED BY <1>2, <1>3, <1>4, <1>5, <1>6 DEF ChatStep

LEMMA BridgeOrder ==
  ASSUME SessionInv, OrderInv, BridgeStep, UNCHANGED <<chatVars, tuiVars>>
  PROVE  OrderInv'
  <1>0. LetterInv /\ ControlInv /\ UNCHANGED <<seen, overwritten>>
    BY DEF SessionInv, tuiVars
  <1>00. host' = host
    BY DEF BridgeStep, BridgeLaunch, PageLeaves, BridgeWrite, BridgeWritesLate, InboxRequest,
           InboxRequestFails, InboxAnswer, session
  <1>1. CASE host = "shell"
    BY <1>00, <1>1 DEF OrderInv
  <1>2. CASE host # "shell"
    <2>1. CASE BridgeLaunch \/ PageLeaves
      <3>1. /\ UNCHANGED contents /\ inbox' = inbox /\ link' = link
            /\ main = "left" => main' = "left"
            /\ loop' \in {loop, "top"}
        BY <1>0, <2>1 DEF BridgeLaunch, PageLeaves, Page, contents, relay, posts
      <3> QED BY <3>1, QuietStep
    <2>2. CASE BridgeWrite
      <3>1. /\ hand # 0 /\ hand' = 0 /\ loop' = "reading" /\ main # "left"
            /\ shown' = IF Showable(hand) THEN Append(shown, hand) ELSE shown
            /\ UNCHANGED <<posted, inbox, wire, gap, link, host, peers, main>>
        BY <1>0, <2>2 DEF BridgeWrite, Page, Handled, Showable, relay, posts, ControlInv
      <3> QED BY <1>0, <3>1, HandleOrder
    <2>3. CASE BridgeWritesLate
      <3>1. /\ hand' = 0 /\ loop' = "reading" /\ main = "left" /\ main' = "left"
            /\ UNCHANGED <<posted, inbox, wire, gap, link, host, peers, shown>>
        BY <2>3 DEF BridgeWritesLate, Page, Handled, relay, posts
      <3> QED BY <1>0, <3>1, LeftOrder
    <2>4. CASE InboxAnswer \/ \E s \in Sender : InboxRequest(s) \/ InboxRequestFails(s)
      BY <1>0, <1>2, <2>4 DEF InboxAnswer, InboxRequest, InboxRequestFails, ControlInv
    <2> QED BY <2>1, <2>2, <2>3, <2>4 DEF BridgeStep
  <1> QED BY <1>1, <1>2

-----------------------------------------------------------------------------
\* An append stores what its goroutine read, and one letter or line more.
LEMMA StoreOrder ==
  ASSUME SessionInv, OrderInv, host = "tui", NEW a \in Appenders, seen[a] # Nothing,
         NEW x, Store(a, x), main # "left", main' # "left",
         \/ /\ a = "stream" /\ x = hand /\ hand # 0 /\ hand' = 0
            /\ loop = "appending" /\ loop' = "reading"
         \/ a = "input" /\ x = 0 /\ hand' = hand /\ loop' = loop,
         UNCHANGED <<posted, inbox, wire, gap, link, host, peers>>
  PROVE  OrderInv'
  <1>0. /\ 0 \notin Letters /\ hand \in Letters \cup {0} /\ seen[a] \in Seq(Letters \cup {0})
        /\ ToSet(inbox) \subseteq Letters /\ ToSet(wire) \subseteq Letters
        /\ wire \in Seq(Letters) /\ Letters \subseteq Nat /\ x \in Letters \cup {0}
        /\ DOMAIN seen = Appenders
    BY ZeroIsNone, LetterTypes DEF SessionInv
  <1>1. /\ shown' = Append(seen[a], x)
        /\ overwritten' = overwritten \cup (ToSet(shown) \ ToSet(shown'))
        /\ seen' = [seen EXCEPT ![a] = Nothing]
    BY DEF Store
  <1>2. /\ ToSet(shown') = ToSet(seen[a]) \cup {x}
        /\ ToSet(shown) \subseteq ToSet(shown') \cup overwritten'
        /\ overwritten \subseteq overwritten'
        /\ Moving = ToSet(wire) \cup {hand} /\ Moving' = ToSet(wire) \cup {hand'}
    BY <1>0, <1>1, AppendSet DEF Moving
  <1>3. \A i \in Letters \cup {0} : Showable(i)' <=> Showable(i)
    BY SameLetters
  <1>4. InOrder /\ QueueInv /\ SliceInv
    BY DEF OrderInv
  <1>5. \A b \in Appenders : seen'[b] # Nothing => seen'[b] = seen[b] /\ seen[b] # Nothing /\ b # a
    BY <1>0, <1>1
  <1>6. InOrder' /\ QueueInv' /\ SliceInv'
    <2>1. InOrder'
      BY <1>4 DEF InOrder
    <2>2. hand' = hand \/ hand \in ToSet(shown')
      BY <1>2
    <2>3. QueueInv'
      BY <1>0, <1>2, <1>3, <1>4, <2>2 DEF QueueInv
    <2>4. \A b \in Appenders : seen'[b] # Nothing =>
             ToSet(seen'[b]) \subseteq ToSet(shown') \cup overwritten'
      BY <1>2, <1>4, <1>5 DEF SliceInv
    <2>5. ASSUME loop' = "appending"
          PROVE  /\ Showable(hand)'
                 /\ ToSet(shown') \subseteq ToSet(seen'["stream"]) \cup overwritten' \cup {0}
      <3>1. a = "input" /\ x = 0 /\ hand' = hand /\ loop = "appending"
        BY <2>5
      <3>2. /\ Showable(hand)
            /\ ToSet(shown) \subseteq ToSet(seen["stream"]) \cup overwritten \cup {0}
            /\ ToSet(seen["input"]) \subseteq ToSet(shown) \cup overwritten
        BY <1>4, <3>1 DEF SliceInv
      <3>3. seen'["stream"] = seen["stream"]
        BY <1>0, <1>1, <3>1 DEF Appenders
      <3>4. Showable(hand)'
        BY <1>0, <1>3, <3>1, <3>2
      <3> QED BY <1>2, <3>1, <3>2, <3>3, <3>4
    <2>6. SliceInv'
      BY <2>4, <2>5 DEF SliceInv
    <2> QED BY <2>1, <2>3, <2>6
  <1>7. ASSUME NEW i \in Letters, NEW j \in Letters, i < j, posted[i].from = posted[j].from,
               {i, j} \cap (gap' \cup overwritten') = {}, PairInOrder(i, j)
        PROVE  PairInOrder(i, j)'
    <2>0. Showable(i)' <=> Showable(i)
      BY <1>3
    <2>1. /\ First(i, j, shown) /\ \A b \in Appenders : seen[b] # Nothing => First(i, j, seen[b])
          /\ Showable(i) => Behind(i, j, ToSet(shown), Moving, ToSet(inbox))
      BY <1>7 DEF PairInOrder
    <2>2. /\ i \in ToSet(shown) => i \in ToSet(shown')
          /\ j \in ToSet(seen[a]) => j \in ToSet(shown)
          /\ x = hand /\ hand # 0 /\ i \notin ToSet(seen[a]) => i \notin ToSet(shown)
      <3>1. i \notin overwritten' /\ j \notin overwritten'
        BY <1>7
      <3>2. ToSet(seen[a]) \subseteq ToSet(shown) \cup overwritten
        BY <1>4 DEF SliceInv
      <3>3. x = hand /\ hand # 0 => ToSet(shown) \subseteq ToSet(seen[a]) \cup overwritten \cup {0}
        BY <1>4 DEF SliceInv
      <3> QED BY <1>0, <1>2, <3>1, <3>2, <3>3
    <2>3. x # 0 => x = hand /\ Showable(hand)
      BY <1>4 DEF SliceInv
    <2>4. j = hand => i \notin ToSet(wire)
      <3>1. ASSUME j = hand, i \in ToSet(wire) PROVE FALSE
        <4>1. After(j, wire, posted)
          BY <1>0, <1>4, <1>7, <3>1 DEF InOrder
        <4>2. PICK k \in DOMAIN wire : wire[k] = i
          BY <1>0, <3>1, MembersOf
        <4>3. j <= i
          BY <1>7, <4>1, <4>2 DEF After
        <4> QED BY <1>0, <1>7, <4>3
      <3> QED BY <3>1
    <2>5. Showable(i) => Behind(i, j, ToSet(shown'), Moving', ToSet(inbox))
      BY <1>0, <1>2, <2>1, <2>2, <2>4 DEF Behind
    <2>6. First(i, j, shown')
      <3>1. j \in ToSet(seen[a]) /\ i \notin ToSet(seen[a]) => x # i
        BY <1>0, <1>2, <2>1, <2>2, <2>3 DEF Behind
      <3>2. First(i, j, seen[a]) /\ i # j
        BY <1>0, <1>7, <2>1
      <3> QED BY <1>0, <1>1, <3>1, <3>2, FirstAppend
    <2>7. \A b \in Appenders : seen'[b] # Nothing => First(i, j, seen'[b])
      BY <1>5, <2>1
    <2> QED BY <2>0, <2>5, <2>6, <2>7, PairNext
  <1> QED BY <1>2, <1>6, <1>7, OrderStep

\* A goroutine reads the slice as it stands.
LEMMA ReadOrder ==
  ASSUME SessionInv, OrderInv, host = "tui", NEW a \in Appenders, Read(a), main' # "left",
         main # "left",
         \/ a = "stream" /\ loop' = "appending" /\ Showable(hand)
         \/ a = "input" /\ loop' = loop,
         UNCHANGED <<posted, inbox, wire, hand, shown, gap, overwritten, link, host, peers>>
  PROVE  OrderInv'
  <1>0. hand \in Letters \cup {0} /\ DOMAIN seen = Appenders /\ seen' = [seen EXCEPT ![a] = shown]
    BY LetterTypes DEF SessionInv, LetterInv, Read
  <1>1. \A i \in Letters \cup {0} : Showable(i)' <=> Showable(i)
    BY SameLetters
  <1>2. InOrder /\ QueueInv /\ SliceInv
    BY DEF OrderInv
  <1>3. \A b \in Appenders : seen'[b] = shown \/ seen'[b] = seen[b]
    BY <1>0
  <1>4. InOrder' /\ QueueInv'
    <2>1. InOrder'
      BY <1>2 DEF InOrder
    <2>2. ToSet(inbox) \subseteq Letters /\ UNCHANGED inbox
      BY LetterTypes DEF SessionInv
    <2>3. QueueInv'
      BY <1>1, <1>2, <2>2 DEF QueueInv, Moving
    <2> QED BY <2>1, <2>3
  <1>5. SliceInv'
    <2>1. \A b \in Appenders :
             seen'[b] # Nothing => ToSet(seen'[b]) \subseteq ToSet(shown) \cup overwritten
      BY <1>2, <1>3 DEF SliceInv
    <2>2. ASSUME loop' = "appending"
          PROVE  /\ Showable(hand)
                 /\ ToSet(shown) \subseteq ToSet(seen'["stream"]) \cup overwritten \cup {0}
      <3>1. CASE a = "stream"
        BY <1>0, <3>1 DEF Appenders
      <3>2. CASE a = "input"
        BY <1>0, <1>2, <2>2, <3>2 DEF SliceInv, Appenders
      <3> QED BY <3>1, <3>2 DEF Appenders
    <2>3. Showable(hand)' <=> Showable(hand)
      BY <1>0, <1>1
    <2> QED BY <2>1, <2>2, <2>3 DEF SliceInv
  <1>6. ASSUME NEW i \in Letters, NEW j \in Letters, PairInOrder(i, j) PROVE PairInOrder(i, j)'
    BY <1>1, <1>3, <1>6 DEF PairInOrder, Moving
  <1> QED BY <1>4, <1>5, <1>6, OrderStep

LEMMA TuiOrder ==
  ASSUME SessionInv, OrderInv, TuiStep, UNCHANGED <<chatVars, answer>>
  PROVE  OrderInv'
  <1>0. LetterInv /\ ControlInv /\ InOrder /\ host = "tui" /\ Peer = Head(peers)
    <2>1. host = "tui"
      BY DEF TuiStep, TuiFetch, TuiFetchFails, TuiLaunch, TuiPassOver, TuiReceive, TuiShow,
             TuiType, TuiEcho, TuiQuit, TuiSignal, TuiExit, Tui
    <2> QED BY <2>1 DEF SessionInv, OrderInv, Peer
  <1>1. main # "left"
    BY <1>0 DEF ControlInv
  <1>2. CASE TuiLaunch \/ TuiQuit \/ TuiSignal \/ TuiExit
    <2>1. /\ UNCHANGED contents /\ inbox' = inbox /\ link' = link
          /\ loop' \in {loop, "top"}
      BY <1>2 DEF TuiLaunch, TuiQuit, TuiSignal, TuiExit, contents, relay, posts, stream, session,
                  tuiVars
    <2> QED BY <1>1, <2>1, QuietStep
  <1>3. CASE TuiFetch
    <2> DEFINE read == Legible(Found(Peer))
    <2>1. /\ loop = "off" /\ shown = <<>> /\ inbox' = Left(Peer) /\ shown' = read /\ main' # "left"
          /\ UNCHANGED <<posted, wire, hand, gap, overwritten, seen, link, host, peers, loop>>
      BY <1>0, <1>3 DEF TuiFetch, Tui, ControlInv, posts, stream, tuiVars
    <2>2. /\ read \in Seq(Letters) /\ Sorted(read, posted)
          /\ ToSet(read) = {i \in ToSet(inbox) : From(Peer, i) /\ Readable(i)}
          /\ ToSet(inbox) \subseteq Letters
      <3>1. inbox \in Seq(Letters) /\ Sorted(inbox, posted)
        BY <1>0 DEF LetterInv, InOrder
      <3>2. Found(Peer) \in Seq(Letters) /\ Sorted(Found(Peer), posted)
        BY <1>0, <3>1, FetchParts, SortedKeep DEF Found
      <3>3. Sorted(read, posted)
        BY <3>2, SortedKeep DEF Legible
      <3> QED BY <1>0, <3>3, FetchParts
    <2> HIDE DEF read
    <2>3. shown' = shown \o read
      BY <2>1, <2>2
    <2>4. \A i \in Letters : From(Peer, i) /\ Readable(i) => Showable(i)
      BY DEF Showable, From, Foreign
    <2>5. ToSet(read) \subseteq {i \in ToSet(inbox) : From(Peer, i) /\ Showable(i)}
      BY <2>2, <2>4
    <2> QED BY <1>1, <2>1, <2>2, <2>3, <2>5, FetchOrder
  <1>4. CASE TuiFetchFails
    <2>1. /\ UNCHANGED contents /\ link' = link /\ loop' = loop
          /\ inbox' \in {inbox, Left(Peer)}
      BY <1>4 DEF TuiFetchFails, FetchFails, contents, posts, stream, tuiVars
    <2>2. ToSet(Left(Peer)) \subseteq ToSet(inbox) /\ inbox \in Seq(Letters)
      BY <1>0, FetchParts, LetterTypes
    <2>3. Sorted(inbox, posted) => Sorted(Left(Peer), posted)
      BY <2>2, SortedKeep DEF Left
    <2> QED BY <1>1, <2>1, <2>2, <2>3, QuietStep
  <1>5. CASE TuiPassOver
    <2>1. /\ hand # 0 /\ hand' = 0 /\ loop' = "reading" /\ ~Showable(hand) /\ shown' = shown
          /\ UNCHANGED <<posted, inbox, wire, gap, overwritten, seen, link, host, peers, main>>
      BY <1>0, <1>5 DEF TuiPassOver, Handled, Showable, relay, posts, session, tuiVars, ControlInv
    <2> QED BY <1>1, <2>1, HandleOrder
  <1>6. CASE TuiReceive
    <2>1. /\ Read("stream") /\ loop' = "appending" /\ Showable(hand)
          /\ UNCHANGED <<posted, inbox, wire, hand, shown, gap, overwritten, link, host, peers,
                         main>>
      BY <1>6 DEF TuiReceive, Showable, relay, posts, session
    <2>2. "stream" \in Appenders
      BY DEF Appenders
    <2> QED BY <1>0, <1>1, <2>1, <2>2, ReadOrder
  <1>7. CASE TuiType
    <2>1. /\ Read("input") /\ main' = "appending"
          /\ UNCHANGED <<posted, inbox, wire, hand, shown, gap, overwritten, link, loop, host,
                         peers>>
      BY <1>7 DEF TuiType, relay, posts, stream
    <2>2. "input" \in Appenders
      BY DEF Appenders
    <2> QED BY <1>0, <1>1, <2>1, <2>2, ReadOrder
  <1>8. CASE TuiShow
    <2>1. /\ Store("stream", hand) /\ hand # 0 /\ hand' = 0 /\ loop = "appending"
          /\ loop' = "reading" /\ seen["stream"] # Nothing
          /\ UNCHANGED <<posted, inbox, wire, gap, link, host, peers, main>>
      BY <1>0, <1>8 DEF TuiShow, Handled, ControlInv, relay, posts
    <2>2. "stream" \in Appenders
      BY DEF Appenders
    <2> QED BY <1>0, <1>1, <2>1, <2>2, StoreOrder
  <1>9. CASE TuiEcho
    <2>1. /\ Store("input", 0) /\ seen["input"] # Nothing /\ main' = "prompt"
          /\ UNCHANGED <<posted, inbox, wire, gap, link, hand, loop, host, peers>>
      BY <1>0, <1>9 DEF TuiEcho, Tui, ControlInv, relay, posts, stream
    <2>2. "input" \in Appenders
      BY DEF Appenders
    <2> QED BY <1>0, <1>1, <2>1, <2>2, StoreOrder
  <1> QED BY <1>2, <1>3, <1>4, <1>5, <1>6, <1>7, <1>8, <1>9 DEF TuiStep

\* OrderKept for all letters, peers and bounds.
THEOREM OrderIsKept == Spec => []OrderKept
  <1> DEFINE Inv == SessionInv /\ OrderInv
  <1>1. Init => Inv
    BY InitSessionInv, InitOrderInv
  <1>2. Inv /\ [Next]_vars => Inv'
    <2> SUFFICES ASSUME Inv, [Next]_vars PROVE OrderInv'
      BY NextSessionInv
    <2>1. CASE UNCHANGED vars
      BY <2>1, QuietStep DEF contents, vars, streamClientVars, relay, posts, stream, session,
         tuiVars
    <2>2. CASE Next
      BY <2>2, StreamOrder, ChatOrder, TuiOrder, BridgeOrder DEF Next
    <2> QED BY <2>1, <2>2
  <1>3. Inv => OrderKept
    <2> SUFFICES ASSUME Inv, NEW i \in Letters, NEW j \in Letters,
                        i < j, posted[i].from = posted[j].from, {i, j} \subseteq ToSet(shown),
                        (gap \cup overwritten) \cap {i, j} = {}, host # "shell"
                 PROVE  \E k \in DOMAIN shown : shown[k] = i /\ \A l \in 1 .. k : shown[l] # j
      BY DEF OrderKept
    <2>1. First(i, j, shown)
      BY DEF OrderInv, Pair, PairInOrder
    <2> QED BY <2>1 DEF First
  <1> QED BY <1>1, <1>2, <1>3, PTL DEF Spec

-----------------------------------------------------------------------------
(* How often a letter is shown.                                             *)

\* How often i is in s.
Occurrences(i, s) == {k \in DOMAIN s : s[k] = i}
Times(i, s) == Cardinality(Occurrences(i, s))

LEMMA TimesType ==
  ASSUME NEW T, NEW s \in Seq(T), NEW i
  PROVE  /\ Occurrences(i, s) \subseteq 1 .. Len(s) /\ Len(s) \in Nat
         /\ IsFiniteSet(Occurrences(i, s)) /\ Times(i, s) \in Nat
  <1>1. Occurrences(i, s) \subseteq 1 .. Len(s) /\ Len(s) \in Nat
    BY DEF Occurrences
  <1>2. IsFiniteSet(1 .. Len(s))
    BY <1>1, FS_Interval
  <1>3. IsFiniteSet(Occurrences(i, s))
    BY <1>1, <1>2, FS_Subset
  <1> QED BY <1>1, <1>3, FS_CardinalityType DEF Times

\* It is not in a sequence without it.
LEMMA TimesAbsent ==
  ASSUME NEW T, NEW s \in Seq(T), NEW i, i \notin ToSet(s)
  PROVE  Times(i, s) = 0
  <1>1. Occurrences(i, s) = {}
    BY DEF Occurrences, ToSet
  <1> QED BY <1>1, FS_EmptySet DEF Times

\* Where t has i, so has s, at a place of its own.
LEMMA TimesMapped ==
  ASSUME NEW T, NEW s \in Seq(T), NEW t \in Seq(T), NEW i, NEW h,
         \A k \in Occurrences(i, t) : h[k] \in Occurrences(i, s),
         \A k, l \in Occurrences(i, t) : h[k] = h[l] => k = l
  PROVE  Times(i, t) <= Times(i, s)
  <1> DEFINE f == [k \in Occurrences(i, t) |-> h[k]]
  <1>1. f \in Injection(Occurrences(i, t), Occurrences(i, s))
    BY DEF Injection, IsInjective
  <1>2. IsFiniteSet(Occurrences(i, s))
    BY TimesType
  <1> HIDE DEF f
  <1> QED BY <1>1, <1>2, FS_Injection DEF Times

LEMMA TimesAppend ==
  ASSUME NEW T, NEW s \in Seq(T), NEW x, NEW i
  PROVE  Times(i, Append(s, x)) = Times(i, s) + (IF x = i THEN 1 ELSE 0)
  <1>1. /\ DOMAIN Append(s, x) = 1 .. (Len(s) + 1) /\ DOMAIN s = 1 .. Len(s) /\ Len(s) \in Nat
        /\ \A k \in 1 .. Len(s) : Append(s, x)[k] = s[k]
        /\ Append(s, x)[Len(s) + 1] = x
    OBVIOUS
  <1>2. /\ IsFiniteSet(Occurrences(i, s)) /\ Times(i, s) \in Nat
        /\ Occurrences(i, s) \subseteq 1 .. Len(s)
    BY TimesType
  <1>3. CASE x = i
    <2>1. Occurrences(i, Append(s, x)) = Occurrences(i, s) \cup {Len(s) + 1}
      BY <1>1, <1>3 DEF Occurrences
    <2>2. Len(s) + 1 \notin Occurrences(i, s)
      BY <1>1, <1>2
    <2> QED BY <1>2, <1>3, <2>1, <2>2, FS_AddElement DEF Times
  <1>4. CASE x # i
    <2>1. Occurrences(i, Append(s, x)) = Occurrences(i, s)
      BY <1>1, <1>4 DEF Occurrences
    <2> QED BY <1>2, <1>4, <2>1 DEF Times
  <1> QED BY <1>3, <1>4

\* Of a sequence cut in two.
LEMMA TimesTail ==
  ASSUME NEW T, NEW s \in Seq(T), s # <<>>, NEW i
  PROVE  Times(i, Tail(s)) + (IF Head(s) = i THEN 1 ELSE 0) <= Times(i, s)
  <1> DEFINE t == Tail(s)
  <1>1. /\ t \in Seq(T) /\ Len(t) = Len(s) - 1 /\ Len(s) \in Nat \ {0} /\ Head(s) = s[1]
        /\ \A k \in 1 .. Len(t) : t[k] = s[k + 1]
    OBVIOUS
  <1> HIDE DEF t
  <1>2. /\ Times(i, t) \in Nat /\ Times(i, s) \in Nat /\ IsFiniteSet(Occurrences(i, s))
        /\ Occurrences(i, t) \subseteq 1 .. Len(t)
    BY <1>1, TimesType
  <1> DEFINE f == [k \in Occurrences(i, t) |-> k + 1]
             rest == Occurrences(i, s) \ {1}
  <1>3. f \in Injection(Occurrences(i, t), rest)
    <2>1. \A k \in Occurrences(i, t) : k + 1 \in rest
      BY <1>1, <1>2 DEF Occurrences
    <2>2. \A k, l \in Occurrences(i, t) : k + 1 = l + 1 => k = l
      BY <1>2
    <2> QED BY <2>1, <2>2 DEF Injection, IsInjective
  <1>4. /\ IsFiniteSet(rest)
        /\ Cardinality(rest) = IF 1 \in Occurrences(i, s) THEN Times(i, s) - 1 ELSE Times(i, s)
    BY <1>2, FS_RemoveElement DEF Times
  <1> HIDE DEF f, rest
  <1>5. Times(i, t) <= Cardinality(rest)
    BY <1>3, <1>4, FS_Injection DEF Times
  <1>6. 1 \in Occurrences(i, s) <=> Head(s) = i
    BY <1>1 DEF Occurrences
  <1> QED BY <1>2, <1>4, <1>5, <1>6 DEF t

LEMMA TimesCut ==
  ASSUME NEW T, NEW s \in Seq(T), NEW n \in 0 .. Len(s), NEW i
  PROVE  Times(i, SubSeq(s, 1, n)) <= Times(i, s)
  <1> DEFINE t == SubSeq(s, 1, n)
  <1>1. t \in Seq(T) /\ Len(t) = n /\ \A k \in 1 .. n : t[k] = s[k]
    OBVIOUS
  <1> HIDE DEF t
  <1>2. IsFiniteSet(Occurrences(i, s))
    BY TimesType
  <1>4. Occurrences(i, t) \subseteq Occurrences(i, s)
    <2>1. DOMAIN t = 1 .. n /\ 1 .. n \subseteq DOMAIN s
      BY <1>1
    <2> QED BY <1>1, <2>1 DEF Occurrences
  <1>3. Times(i, t) <= Times(i, s)
    BY <1>2, <1>4, FS_Subset DEF Times
  <1> QED BY <1>3 DEF t

LEMMA TimesConcat ==
  ASSUME NEW T, NEW s \in Seq(T), NEW t \in Seq(T), NEW i
  PROVE  Times(i, s \o t) <= Times(i, s) + Times(i, t)
  <1> DEFINE r == s \o t
  <1>1. /\ r \in Seq(T) /\ Len(r) = Len(s) + Len(t) /\ Len(s) \in Nat /\ Len(t) \in Nat
        /\ \A k \in 1 .. Len(s) : r[k] = s[k]
        /\ \A k \in 1 .. Len(t) : r[Len(s) + k] = t[k]
    OBVIOUS
  <1> HIDE DEF r
  <1> DEFINE rest == Occurrences(i, r) \ 1 .. Len(s)
             f == [k \in rest |-> k - Len(s)]
  <1>2. /\ Times(i, r) \in Nat /\ Times(i, s) \in Nat /\ Times(i, t) \in Nat
        /\ IsFiniteSet(Occurrences(i, r)) /\ IsFiniteSet(Occurrences(i, s))
        /\ IsFiniteSet(Occurrences(i, t))
        /\ Occurrences(i, r) \subseteq 1 .. Len(r)
    BY <1>1, TimesType
  <1>3. f \in Injection(rest, Occurrences(i, t))
    <2>1. \A k \in rest : k \in Nat /\ k - Len(s) \in 1 .. Len(t) /\ r[k] = i
      BY <1>1, <1>2 DEF Occurrences
    <2>2. \A k \in rest : k - Len(s) \in Occurrences(i, t)
      <3>1. \A k \in rest : r[Len(s) + (k - Len(s))] = t[k - Len(s)]
        BY <1>1, <2>1
      <3>2. \A k \in rest : Len(s) + (k - Len(s)) = k
        BY <1>1, <2>1
      <3>3. DOMAIN t = 1 .. Len(t)
        OBVIOUS
      <3> QED BY <2>1, <3>1, <3>2, <3>3 DEF Occurrences
    <2>3. \A k, l \in rest : k - Len(s) = l - Len(s) => k = l
      BY <1>1, <2>1
    <2> QED BY <2>2, <2>3 DEF Injection, IsInjective
  <1>4. IsFiniteSet(rest) /\ Cardinality(rest) <= Times(i, t) /\ Cardinality(rest) \in Nat
    <2> HIDE DEF f, rest
    <2>1. IsFiniteSet(rest) /\ Cardinality(rest) <= Times(i, t)
      BY <1>2, <1>3, FS_Injection DEF Times
    <2> QED BY <2>1, FS_CardinalityType
  <1>5. Occurrences(i, r) = Occurrences(i, s) \cup rest
    BY <1>1 DEF Occurrences
  <1> HIDE DEF f, rest
  <1>6. Times(i, r) <= Times(i, s) + Cardinality(rest)
    <2>1. /\ Cardinality(Occurrences(i, s) \cup rest) =
                Times(i, s) + Cardinality(rest) - Cardinality(Occurrences(i, s) \cap rest)
      BY <1>2, <1>4, FS_Union DEF Times
    <2>2. IsFiniteSet(Occurrences(i, s) \cap rest)
      BY <1>4, FS_Subset
    <2>3. Cardinality(Occurrences(i, s) \cap rest) \in Nat
      BY <2>2, FS_CardinalityType
    <2> QED BY <1>2, <1>4, <1>5, <2>1, <2>3 DEF Times
  <1>7. Times(i, r) <= Times(i, s) + Times(i, t)
    BY <1>2, <1>4, <1>6
  <1> QED BY <1>7 DEF r

LEMMA TimesKeep ==
  ASSUME NEW T, NEW s \in Seq(T), NEW S, NEW i
  PROVE  Times(i, Keep(s, S)) <= Times(i, s)
  <1>1. Keep(s, S) \in Seq(T)
    BY KeepPlaces
  <1>2. PICK h : Places(s, S, Len(s), Keep(s, S), h)
    BY KeepPlaces
  <1>3. \A k \in Occurrences(i, Keep(s, S)) : h[k] \in Occurrences(i, s)
    BY <1>2 DEF Places, Occurrences
  <1>4. \A k, l \in Occurrences(i, Keep(s, S)) : h[k] = h[l] => k = l
    <2>1. SUFFICES ASSUME NEW k \in DOMAIN Keep(s, S), NEW l \in DOMAIN Keep(s, S), h[k] = h[l]
                   PROVE  k = l
      BY DEF Occurrences
    <2>2. k \in Nat /\ l \in Nat /\ h[k] \in Nat
      BY <1>1, <1>2 DEF Places
    <2>3. ~(k < l) /\ ~(l < k)
      BY <1>2, <2>1, <2>2 DEF Places
    <2> QED BY <2>2, <2>3
  <1> QED BY <1>1, <1>3, <1>4, TimesMapped


\* A fetch divides what is queued.
LEMMA FetchTimes ==
  ASSUME LetterInv, NEW s, NEW i \in Letters
  PROVE  /\ Times(i, Legible(Found(s))) + Times(i, Left(s)) <= Times(i, inbox)
         /\ Times(i, Left(s)) <= Times(i, inbox)
  <1>1. inbox \in Seq(Letters) /\ Found(s) \in Seq(Letters) /\ Left(s) \in Seq(Letters)
        /\ Legible(Found(s)) \in Seq(Letters)
    BY FetchParts, LetterTypes
  <1>2. /\ Times(i, inbox) \in Nat /\ Times(i, Left(s)) \in Nat /\ Times(i, Found(s)) \in Nat
        /\ Times(i, Legible(Found(s))) \in Nat
    BY <1>1, TimesType
  <1>3. Times(i, Left(s)) <= Times(i, inbox) /\ Times(i, Found(s)) <= Times(i, inbox)
    BY <1>1, TimesKeep DEF Left, Found
  <1>4. Times(i, Legible(Found(s))) <= Times(i, Found(s))
    BY <1>1, TimesKeep DEF Legible
  <1>5. CASE From(s, i)
    <2>1. i \notin ToSet(Left(s))
      BY <1>5, FetchParts
    <2>2. Times(i, Left(s)) = 0
      BY <1>1, <2>1, TimesAbsent
    <2> QED BY <1>2, <1>3, <1>4, <2>2
  <1>6. CASE ~From(s, i)
    <2>1. i \notin ToSet(Found(s))
      BY <1>6, FetchParts
    <2>2. Times(i, Found(s)) = 0
      BY <1>1, <2>1, TimesAbsent
    <2> QED BY <1>2, <1>3, <1>4, <2>2
  <1> QED BY <1>5, <1>6

\* What comes of i if the program shows s: of what it has been sent, and in all.
InHand(i) == IF hand = i THEN 1 ELSE 0
Sent(i, s) == Times(i, s) + Times(i, wire) + InHand(i)
InAll(i, s) == Sent(i, s) + Times(i, inbox) + Times(i, answer)

\* The slices that are stored, or that one of tui's goroutines has read.
Drafts == {shown} \cup {seen[a] : a \in Appenders}

\* The first drain is still to come.
Fresh == loop \in {"off", "request"} \/ (loop = "top" /\ ~stop) \/ link = "open"

\* Without a failure the stream ends at the end of the session only.
NoReopening ==
    faults = 0 =>
        /\ loop = "pause" => stop
        /\ link = "none" /\ loop \in {"reading", "handling", "appending"} => stop

\* Of c copies.  A letter of nobody is not queued.
Bounded(i, s, c) ==
    /\ InAll(i, s) <= 2 * c
    /\ faults = 0 /\ host # "shell" => Sent(i, s) <= c /\ (Fresh => InAll(i, s) <= c)
    /\ Named(i) \/ (i \notin ToSet(inbox) \cup ToSet(answer) /\ Sent(i, s) <= c)

RepeatInv == NoReopening /\ \A i \in Letters : \A s \in Drafts : Bounded(i, s, copies[i])

LEMMA CopiesAreNumbers ==
  ASSUME CountInv
  PROVE  \A i \in Letters : copies[i] \in Nat
  <1>1. copies \in [Letters -> 1 .. MaxEvents]
    BY DEF CountInv
  <1>2. 1 .. MaxEvents \subseteq Nat
    BY StreamClientAssumption
  <1> QED BY <1>1, <1>2

\* All that is counted are numbers.
Counted ==
    \A i \in Nat :
        /\ Times(i, wire) \in Nat /\ Times(i, inbox) \in Nat /\ Times(i, answer) \in Nat
        /\ InHand(i) \in Nat
        /\ \A s \in Drafts : /\ s \in Seq(Int) /\ Times(i, s) \in Nat
                             /\ Sent(i, s) \in Nat /\ InAll(i, s) \in Nat
        /\ answer = <<>> => Times(i, answer) = 0
        /\ Times(i, Nothing) = 0

LEMMA CountsAreNumbers == SessionInv => Counted
  <1> SUFFICES ASSUME SessionInv, NEW i \in Nat
               PROVE  /\ Times(i, wire) \in Nat /\ Times(i, inbox) \in Nat
                      /\ Times(i, answer) \in Nat /\ InHand(i) \in Nat
                      /\ \A s \in Drafts : /\ s \in Seq(Int) /\ Times(i, s) \in Nat
                                           /\ Sent(i, s) \in Nat /\ InAll(i, s) \in Nat
                      /\ answer = <<>> => Times(i, answer) = 0
                      /\ Times(i, Nothing) = 0
    BY DEF Counted
  <1>1. /\ wire \in Seq(Letters) /\ inbox \in Seq(Letters) /\ answer \in Seq(Letters)
        /\ shown \in Seq(Letters \cup {0}) /\ Letters \cup {0} \subseteq Int
        /\ \A a \in Appenders : seen[a] # Nothing => seen[a] \in Seq(Letters \cup {0})
    BY LetterTypes, ZeroIsNone DEF SessionInv
  <1>2. Nothing \in Seq(Int) /\ ToSet(Nothing) = {-1}
    BY DEF Nothing, ToSet
  <1>3. ASSUME NEW s \in Drafts PROVE s \in Seq(Int)
    <2>1. shown \in Seq(Int)
      BY <1>1, SeqGrows
    <2>2. ASSUME NEW a \in Appenders PROVE seen[a] \in Seq(Int)
      BY <1>1, <1>2, SeqGrows
    <2> QED BY <2>1, <2>2 DEF Drafts
  <1>4. /\ Times(i, wire) \in Nat /\ Times(i, inbox) \in Nat /\ Times(i, answer) \in Nat
    BY <1>1, TimesType
  <1>5. \A s \in Drafts : Times(i, s) \in Nat
    BY <1>3, TimesType
  <1>6. answer = <<>> => Times(i, answer) = 0
    BY <1>1, EmptySet, TimesAbsent
  <1>7. Times(i, Nothing) = 0
    BY <1>2, TimesAbsent
  <1>8. InHand(i) \in Nat
    BY DEF InHand
  <1> QED BY <1>3, <1>4, <1>5, <1>6, <1>7, <1>8 DEF Sent, InAll

LEMMA InitRepeatInv == Init => RepeatInv
  BY DEF Init, StreamClientInit, RepeatInv, NoReopening, Letters

\* Nothing but a failure brings back the time before the first drain.
Onward == NoReopening' /\ (faults' = 0 => faults = 0 /\ (Fresh' => Fresh))

LEMMA FreshNoMore ==
  ASSUME SessionInv, NoReopening, Next
  PROVE  Onward
  <1>0. ControlInv /\ faults \in Nat
    BY StreamClientAssumption DEF SessionInv, ControlInv
  <1> USE DEF Onward, NoReopening, Fresh, stream, session, relay, Fault
  <1>1. CASE ListenStream \/ RelayStep
    <2>1. CASE LoopTop \/ Connect \/ RequestFails \/ Resume \/ ScanEnds
      BY <1>0, <2>1 DEF LoopTop, Ask, Connect, RequestFails, Retry, Resume, ScanEnds, ControlInv
    <2>2. CASE Watch \/ Break
      <3>1. link' = "none" /\ host' = host /\ UNCHANGED <<loop, stop>>
        BY <2>2 DEF Watch, Break, Sever
      <3>2. (stop /\ faults' = faults) \/ faults' = faults + 1
        BY <2>2 DEF Watch, Break, Closed
      <3>3. link # "none"
        BY <2>2 DEF Watch, Break
      <3> QED BY <1>0, <3>1, <3>2, <3>3 DEF ControlInv
    <2>3. CASE Scan \/ Flush \/ Subscribe
      BY <1>0, <2>3 DEF Scan, Flush, Subscribe, ControlInv
    <2>4. CASE \E x, queues : Deliver(x, queues)
      BY <2>4 DEF Deliver
    <2> QED BY <1>1, <2>1, <2>2, <2>3, <2>4 DEF ListenStream, RelayStep, Post, PostAgain
  <1>2. CASE ChatStep
    <2>1. /\ link' = link /\ faults' \in {faults, faults + 1} /\ host' = host
          /\ stop => stop'
          /\ \/ loop' = loop
             \/ loop = "off" /\ loop' = "top"
             \/ loop = "handling" /\ loop' = "reading"
      BY <1>0, <1>2 DEF ChatStep, ChatFetch, ChatFetchUnsaved, ChatFetchFails, FetchFails,
         ChatLaunch, ChatHandle, Handled, ChatRefuse, ChatSend, ChatPost, ChatPostFails, ChatQuit,
         ChatSignal, SafeClose, ChatExit, Chat, ControlInv
    <2> QED BY <1>0, <2>1
  <1>3. CASE TuiStep
    <2>1. /\ link' = link /\ faults' \in {faults, faults + 1} /\ host' = host
          /\ stop => stop'
          /\ \/ loop' = loop
             \/ loop = "off" /\ loop' = "top"
             \/ loop = "handling" /\ loop' \in {"appending", "reading"}
             \/ loop = "appending" /\ loop' = "reading"
      BY <1>0, <1>3 DEF TuiStep, TuiFetch, TuiFetchFails, FetchFails, TuiLaunch, TuiPassOver,
         TuiReceive, TuiShow, TuiType, TuiEcho, TuiQuit, TuiSignal, TuiExit, Handled,
         CloseChannel, Tui, ControlInv
    <2> QED BY <1>0, <2>1
  <1>4. CASE BridgeStep
    <2>1. /\ link' = link /\ faults' \in {faults, faults + 1} /\ host' = host
          /\ stop => stop'
          /\ \/ loop' = loop
             \/ loop = "off" /\ loop' = "top"
             \/ loop = "handling" /\ loop' = "reading"
      BY <1>0, <1>4 DEF BridgeStep, BridgeLaunch, PageLeaves, BridgeWrite, BridgeWritesLate,
         InboxRequest, InboxRequestFails, InboxAnswer, FetchFails, Handled, Page, ControlInv
    <2> QED BY <1>0, <2>1
  <1> QED BY <1>1, <1>2, <1>3, <1>4 DEF Next

LEMMA NextCounts == SessionInv' => Counted'
  BY CountsAreNumbers, PTL

LEMMA RepeatStep ==
  ASSUME SessionInv, SessionInv', RepeatInv, UNCHANGED <<posts, host>>, Onward,
         ToSet(inbox') \cup ToSet(answer') \subseteq ToSet(inbox) \cup ToSet(answer),
         \A i \in Letters : \A s \in Drafts' : \E r \in Drafts :
            /\ InAll(i, s)' <= InAll(i, r)
            /\ Sent(i, s)' <= Sent(i, r) \/ Fresh \/ faults' > 0 \/ host = "shell"
  PROVE  RepeatInv'
  <1>0. /\ Letters' = Letters /\ Letters \subseteq Nat /\ copies' = copies
        /\ \A i \in Letters : copies[i] \in Nat /\ (Named(i)' <=> Named(i))
        /\ faults \in Nat /\ faults' \in Nat
        /\ inbox' \in Seq(Int) /\ answer' \in Seq(Int)
        /\ inbox \in Seq(Int) /\ answer \in Seq(Int)
    <2>1. /\ CountInv /\ Letters' = Letters /\ Letters \subseteq Nat
          /\ posted' = posted /\ copies' = copies
      BY ZeroIsNone DEF SessionInv, posts, Letters
    <2>2. \A i \in Letters : copies[i] \in Nat /\ (Named(i)' <=> Named(i))
      BY <2>1, CopiesAreNumbers DEF Named
    <2>3. faults \in Nat /\ faults' \in Nat
      BY StreamClientAssumption DEF SessionInv, ControlInv
    <2>4. /\ inbox' \in Seq(Letters) /\ answer' \in Seq(Letters)
          /\ inbox \in Seq(Letters) /\ answer \in Seq(Letters)
      BY <2>1 DEF SessionInv, LetterInv
    <2>5. Letters \subseteq Int
      BY <2>1
    <2>6. /\ inbox' \in Seq(Int) /\ answer' \in Seq(Int)
          /\ inbox \in Seq(Int) /\ answer \in Seq(Int)
      BY <2>4, <2>5, SeqGrows
    <2> QED BY <2>1, <2>2, <2>3, <2>6
  <1>1. Counted /\ Counted'
    BY CountsAreNumbers, NextCounts
  <1>2. SUFFICES ASSUME NEW i \in Letters, NEW s \in Drafts' PROVE Bounded(i, s, copies[i])'
    BY <1>0 DEF RepeatInv, Onward
  <1>3. PICK r \in Drafts :
            /\ InAll(i, s)' <= InAll(i, r)
            /\ Sent(i, s)' <= Sent(i, r) \/ Fresh \/ faults' > 0 \/ host = "shell"
    OBVIOUS
  <1>4. Bounded(i, r, copies[i])
    BY DEF RepeatInv
  <1>5. /\ InAll(i, s)' \in Nat /\ Sent(i, s)' \in Nat /\ InAll(i, r) \in Nat /\ Sent(i, r) \in Nat
        /\ Sent(i, s)' <= InAll(i, s)' /\ copies[i] \in Nat
        /\ InAll(i, r) = Sent(i, r) + Times(i, inbox) + Times(i, answer)
    <2>1. i \in Nat
      BY <1>0
    <2>2. /\ InAll(i, s)' \in Nat /\ Sent(i, s)' \in Nat
          /\ Times(i, inbox') \in Nat /\ Times(i, answer') \in Nat
      BY <1>1, <2>1 DEF Counted
    <2>3. InAll(i, s)' = Sent(i, s)' + Times(i, inbox') + Times(i, answer')
      BY DEF InAll
    <2>4. /\ InAll(i, r) \in Nat /\ Sent(i, r) \in Nat
          /\ InAll(i, r) = Sent(i, r) + Times(i, inbox) + Times(i, answer)
      BY <1>1, <2>1 DEF Counted, InAll
    <2>5. Sent(i, s)' <= InAll(i, s)'
      BY <2>2, <2>3
    <2> QED BY <1>0, <2>2, <2>4, <2>5
  <1>6. InAll(i, s)' <= 2 * copies[i]
    BY <1>3, <1>4, <1>5 DEF Bounded
  <1>7. faults' = 0 /\ host # "shell" =>
           Sent(i, s)' <= copies[i] /\ (Fresh' => InAll(i, s)' <= copies[i])
    <2> SUFFICES ASSUME faults' = 0, host # "shell"
                 PROVE  Sent(i, s)' <= copies[i] /\ (Fresh' => InAll(i, s)' <= copies[i])
      OBVIOUS
    <2>1. /\ Sent(i, r) <= copies[i] /\ (Fresh => InAll(i, r) <= copies[i])
          /\ Sent(i, s)' <= Sent(i, r) \/ Fresh
          /\ Fresh' => Fresh
      BY <1>3, <1>4 DEF Bounded, Onward
    <2> QED BY <1>3, <1>5, <2>1
  <1>8. ASSUME ~Named(i)
        PROVE  i \notin ToSet(inbox') \cup ToSet(answer') /\ Sent(i, s)' <= copies[i]
    <2>1. i \notin ToSet(inbox) \cup ToSet(answer) /\ Sent(i, r) <= copies[i]
      BY <1>4, <1>8 DEF Bounded
    <2>2. Times(i, inbox) = 0 /\ Times(i, answer) = 0
      BY <1>0, <2>1, TimesAbsent
    <2> QED BY <1>3, <1>5, <2>1, <2>2
  <1> QED BY <1>0, <1>6, <1>7, <1>8 DEF Bounded

\* A step that moves letters between the queue, the connection and the callback.
LEMMA MoveStep ==
  ASSUME SessionInv, SessionInv', RepeatInv, UNCHANGED <<posts, host, shown, seen, answer>>,
         Onward, ToSet(inbox') \subseteq ToSet(inbox),
         \A i \in Letters :
            /\ Times(i, wire') + InHand(i)' + Times(i, inbox')
                  <= Times(i, wire) + InHand(i) + Times(i, inbox)
            /\ \/ Times(i, wire') + InHand(i)' <= Times(i, wire) + InHand(i)
               \/ Fresh
  PROVE  RepeatInv'
  <1>1. Counted /\ Counted' /\ Drafts' = Drafts /\ Letters \subseteq Nat /\ Letters' = Letters
    BY CountsAreNumbers, NextCounts, ZeroIsNone DEF Drafts, posts, Letters, SessionInv
  <1>2. ASSUME NEW i \in Letters, NEW s \in Drafts
        PROVE  /\ InAll(i, s)' <= InAll(i, s)
               /\ Sent(i, s)' <= Sent(i, s) \/ Fresh
    <2>1. /\ Times(i, wire) \in Nat /\ Times(i, inbox) \in Nat /\ Times(i, answer) \in Nat
          /\ InHand(i) \in Nat /\ Times(i, s) \in Nat
          /\ Times(i, wire') \in Nat /\ Times(i, inbox') \in Nat /\ InHand(i)' \in Nat
          /\ answer' = answer
      BY <1>1 DEF Counted
    <2> QED BY <2>1 DEF InAll, Sent
  <1> QED BY <1>1, <1>2, RepeatStep


LEMMA TimesNone == ASSUME NEW i PROVE Times(i, <<>>) = 0
  BY EmptySet, TimesAbsent, <<>> \in Seq({})

\* Nothing is counted of a letter that is not posted.
LEMMA NotPosted ==
  ASSUME SessionInv, NEW x \in Nat \ {0}, x \notin Letters, NEW s \in Drafts
  PROVE  Bounded(x, s, 0)
  <1>1. /\ ToSet(wire) \subseteq Letters /\ ToSet(inbox) \subseteq Letters
        /\ ToSet(answer) \subseteq Letters /\ hand # x
        /\ wire \in Seq(Letters) /\ inbox \in Seq(Letters) /\ answer \in Seq(Letters)
    BY LetterTypes DEF SessionInv
  <1>2. Times(x, wire) = 0 /\ Times(x, inbox) = 0 /\ Times(x, answer) = 0 /\ InHand(x) = 0
    BY <1>1, TimesAbsent DEF InHand
  <1>3. CASE s # Nothing
    <2>1. s \in Seq(Letters \cup {0}) /\ ToSet(s) \subseteq Letters \cup {0}
      BY <1>3, LetterTypes DEF SessionInv, Drafts
    <2> QED BY <1>1, <1>2, <2>1, TimesAbsent DEF Bounded, Sent, InAll
  <1>4. CASE s = Nothing
    <2>1. Times(x, s) = 0
      BY <1>4, CountsAreNumbers DEF Counted
    <2> QED BY <1>1, <1>2, <2>1 DEF Bounded, Sent, InAll
  <1> QED BY <1>3, <1>4

\* A copy more, on at most two ways: queued, and written to a stream that has drained.
LEMMA DeliverRepeat ==
  ASSUME SessionInv, SessionInv', RepeatInv, Onward, NEW queues, NEW x \in Nat \ {0},
         Deliver(x, queues), queues => Named(x)', UNCHANGED <<seen, answer>>,
         Letters' = Letters \cup {x}, \A i \in Letters : Named(i)' <=> Named(i),
         \A i \in Letters' :
            copies'[i] = (IF i \in Letters THEN copies[i] ELSE 0) + (IF i = x THEN 1 ELSE 0)
  PROVE  RepeatInv'
  <1>0. /\ UNCHANGED <<loop, stop, link, hand, host, shown, faults>> /\ Drafts' = Drafts
        /\ ControlInv /\ faults \in Nat
        /\ inbox' = IF queues THEN Append(inbox, x) ELSE inbox
        /\ wire' = IF link = "live" THEN Append(wire, x) ELSE wire
    BY StreamClientAssumption DEF Deliver, stream, session, Drafts, SessionInv, ControlInv
  <1>1. /\ Counted /\ Counted' /\ Letters \subseteq Nat /\ Letters' \subseteq Nat
        /\ inbox \in Seq(Letters) /\ wire \in Seq(Letters)
        /\ \A i \in Letters : copies[i] \in Nat
    <2>1. Counted /\ Counted'
      BY CountsAreNumbers, NextCounts
    <2>2. Letters \subseteq Nat /\ inbox \in Seq(Letters) /\ wire \in Seq(Letters)
      BY ZeroIsNone, LetterTypes DEF SessionInv
    <2>3. \A i \in Letters : copies[i] \in Nat
      BY CopiesAreNumbers DEF SessionInv
    <2> QED BY <2>1, <2>2, <2>3
  <1>2. SUFFICES ASSUME NEW i \in Letters', NEW s \in Drafts PROVE Bounded(i, s, copies[i])'
    BY <1>0 DEF RepeatInv, Onward
  <1> DEFINE c == IF i \in Letters THEN copies[i] ELSE 0
             d == IF i = x THEN 1 ELSE 0
  <1>3. c \in Nat /\ d \in {0, 1} /\ copies'[i] = c + d /\ i \in Nat \ {0}
    BY <1>1, ZeroIsNone DEF SessionInv
  <1>4. Bounded(i, s, c)
    BY <1>3, NotPosted DEF RepeatInv
  <1>5. /\ Times(i, inbox') \in {Times(i, inbox), Times(i, inbox) + d}
        /\ Times(i, wire') \in {Times(i, wire), Times(i, wire) + d}
        /\ link # "live" => Times(i, wire') = Times(i, wire)
    BY <1>0, <1>1, TimesAppend
  <1>6. /\ i \in ToSet(inbox') => i \in ToSet(inbox) \/ (i = x /\ queues)
        /\ answer' = answer /\ InHand(i)' = InHand(i) /\ (Fresh' <=> Fresh)
        /\ Fresh => link # "live"
    <2>1. i \in ToSet(inbox') => i \in ToSet(inbox) \/ (i = x /\ queues)
      BY <1>0, <1>1, AppendSet
    <2>2. answer' = answer /\ InHand(i)' = InHand(i) /\ (Fresh' <=> Fresh)
      BY <1>0 DEF InHand, Fresh
    <2>3. Fresh => link # "live"
      BY <1>0 DEF ControlInv, Fresh
    <2> QED BY <2>1, <2>2, <2>3
  <1> HIDE DEF c, d
  <1>7. /\ Sent(i, s) \in Nat /\ Times(i, s) \in Nat /\ Times(i, wire) \in Nat
        /\ InHand(i) \in Nat /\ Times(i, inbox) \in Nat /\ Times(i, answer) \in Nat
    BY <1>1, <1>3 DEF Counted
  <1>8. /\ InAll(i, s)' <= InAll(i, s) + 2 * d
        /\ Sent(i, s)' <= Sent(i, s) + d
        /\ Fresh => InAll(i, s)' <= InAll(i, s) + d
        /\ InAll(i, s) \in Nat /\ InAll(i, s)' \in Nat /\ Sent(i, s)' \in Nat
    BY <1>3, <1>5, <1>6, <1>7 DEF InAll, Sent
  <1>9. InAll(i, s)' <= 2 * copies'[i]
    BY <1>3, <1>4, <1>8 DEF Bounded
  <1>10. faults' = 0 /\ host' # "shell" =>
            Sent(i, s)' <= copies'[i] /\ (Fresh' => InAll(i, s)' <= copies'[i])
    <2> SUFFICES ASSUME faults' = 0, host' # "shell"
                 PROVE  Sent(i, s)' <= copies'[i] /\ (Fresh' => InAll(i, s)' <= copies'[i])
      OBVIOUS
    <2>1. Sent(i, s) <= c /\ (Fresh => InAll(i, s) <= c)
      BY <1>0, <1>4 DEF Bounded
    <2> QED BY <1>3, <1>6, <1>7, <1>8, <2>1
  <1>11. \/ Named(i)'
         \/ i \notin ToSet(inbox') \cup ToSet(answer') /\ Sent(i, s)' <= copies'[i]
    <2> SUFFICES ASSUME ~Named(i)'
                 PROVE  /\ i \notin ToSet(inbox') \cup ToSet(answer')
                        /\ Sent(i, s)' <= copies'[i]
      OBVIOUS
    <2>1. i \notin ToSet(inbox) \cup ToSet(answer) /\ Sent(i, s) <= c
      <3>1. CASE i \in Letters
        BY <1>4, <3>1 DEF Bounded
      <3>2. CASE i \notin Letters
        <4>1. c = 0 /\ Sent(i, s) <= InAll(i, s) /\ InAll(i, s) <= 2 * c
          BY <1>4, <1>7, <3>2 DEF Bounded, InAll, c
        <4>2. i \notin ToSet(inbox) \cup ToSet(answer)
          BY <3>2, LetterTypes DEF SessionInv
        <4> QED BY <1>7, <1>8, <4>1, <4>2
      <3> QED BY <3>1, <3>2
    <2> QED BY <1>3, <1>6, <1>7, <1>8, <2>1
  <1> QED BY <1>9, <1>10, <1>11 DEF Bounded


\* What an end of the stream leaves of what was written is the beginning of it.
LEMMA SeverRepeat ==
  ASSUME SessionInv, SessionInv', RepeatInv, Onward, Sever,
         UNCHANGED <<posts, host, shown, seen, answer, hand>>
  PROVE  RepeatInv'
  <1>0. LetterInv /\ ControlInv /\ ToSet(inbox) \subseteq Letters /\ Letters \subseteq Nat
    BY ZeroIsNone, LetterTypes DEF SessionInv
  <1>1. PICK written \in Seq(Letters), n \in Nat :
          /\ n \in 0 .. Len(written) /\ wire' = SubSeq(written, 1, n)
          /\ \/ written = wire /\ inbox' = inbox
             \/ written = inbox /\ inbox' = <<>> /\ link = "open"
    BY <1>0, SeverParts
  <1>2. ToSet(inbox') \subseteq ToSet(inbox)
    BY <1>1, EmptySet
  <1>3. ASSUME NEW i \in Letters
        PROVE  /\ Times(i, wire') + InHand(i)' + Times(i, inbox')
                    <= Times(i, wire) + InHand(i) + Times(i, inbox)
               /\ Times(i, wire') + InHand(i)' <= Times(i, wire) + InHand(i) \/ Fresh
    <2>1. /\ Times(i, wire) \in Nat /\ Times(i, inbox) \in Nat /\ InHand(i) \in Nat
          /\ Times(i, wire') \in Nat /\ InHand(i)' = InHand(i)
      BY <1>0, CountsAreNumbers, NextCounts DEF Counted, InHand
    <2>2. Times(i, wire') <= Times(i, written)
      BY <1>1, TimesCut
    <2>3. CASE written = wire /\ inbox' = inbox
      BY <2>1, <2>2, <2>3
    <2>4. CASE written = inbox /\ inbox' = <<>> /\ link = "open"
      <3>1. Times(i, inbox') = 0
        BY <2>4, TimesNone
      <3> QED BY <2>1, <2>2, <2>4, <3>1 DEF Fresh
    <2> QED BY <1>1, <2>3, <2>4
  <1> QED BY <1>2, <1>3, MoveStep

\* What the stream and the relay do.
LEMMA StreamRepeat ==
  ASSUME SessionInv, SessionInv', RepeatInv, Onward, ListenStream \/ RelayStep,
         UNCHANGED <<tuiVars, answer>>
  PROVE  RepeatInv'
  <1>0. /\ Counted /\ Counted' /\ Letters \subseteq Nat /\ 0 \notin Letters
        /\ inbox \in Seq(Letters) /\ wire \in Seq(Letters) /\ ControlInv
        /\ UNCHANGED <<seen, answer>> /\ \A i \in Letters : InHand(i) \in Nat
    BY CountsAreNumbers, NextCounts, ZeroIsNone, LetterTypes
       DEF SessionInv, Counted, tuiVars, InHand
  <1>1. CASE LoopTop \/ Connect \/ Resume \/ ScanEnds \/ Subscribe
    <2>1. UNCHANGED <<posts, host, shown, wire, inbox, hand>>
      BY <1>1 DEF LoopTop, Connect, Resume, ScanEnds, Subscribe, relay, stream, session
    <2>2. \A i \in Letters : InHand(i)' = InHand(i)
      BY <2>1 DEF InHand
    <2>3. \A i \in Letters : Times(i, wire) \in Nat /\ Times(i, inbox) \in Nat
      BY <1>0 DEF Counted
    <2> QED BY <1>0, <2>1, <2>2, <2>3, MoveStep
  <1>2. CASE RequestFails
    <2>1. UNCHANGED <<posts, host, shown, wire, hand>> /\ inbox' \in {inbox, <<>>}
      BY <1>2 DEF RequestFails, session
    <2>2. \A i \in Letters : InHand(i)' = InHand(i)
      BY <2>1 DEF InHand
    <2>3. ASSUME NEW i \in Letters
          PROVE  /\ Times(i, wire) \in Nat /\ Times(i, inbox) \in Nat
                 /\ Times(i, inbox') \in Nat /\ Times(i, inbox') <= Times(i, inbox)
      <3>1. Times(i, wire) \in Nat /\ Times(i, inbox) \in Nat
        BY <1>0 DEF Counted
      <3> QED BY <2>1, <3>1, TimesNone
    <2>4. ToSet(inbox') \subseteq ToSet(inbox)
      BY <2>1, EmptySet
    <2>5. \A i \in Letters : Times(i, wire') + InHand(i)' = Times(i, wire) + InHand(i)
      BY <2>1, <2>2
    <2>6. \A i \in Letters : Times(i, wire') + InHand(i)' + Times(i, inbox')
                                <= Times(i, wire) + InHand(i) + Times(i, inbox)
      BY <1>0, <2>3, <2>5
    <2>7. \A i \in Letters : Times(i, wire') + InHand(i)' <= Times(i, wire) + InHand(i)
      BY <1>0, <2>3, <2>5
    <2> QED BY <1>0, <2>1, <2>4, <2>6, <2>7, MoveStep
  <1>3. CASE Scan
    <2>1. /\ UNCHANGED <<posts, host, shown, inbox>> /\ hand = 0
          /\ wire # <<>> /\ hand' = Head(wire) /\ wire' = Tail(wire)
      BY <1>0, <1>3 DEF Scan, TakeNext, session, ControlInv
    <2>2. ASSUME NEW i \in Letters
          PROVE  /\ InHand(i) = 0 /\ Times(i, wire') + InHand(i)' <= Times(i, wire)
                 /\ Times(i, wire') \in Nat /\ InHand(i)' \in Nat
                 /\ Times(i, wire) \in Nat /\ Times(i, inbox) \in Nat
      <3>1. InHand(i) = 0 /\ InHand(i)' = IF Head(wire) = i THEN 1 ELSE 0
        BY <1>0, <2>1 DEF InHand
      <3>2. Times(i, Tail(wire)) + (IF Head(wire) = i THEN 1 ELSE 0) <= Times(i, wire)
        BY <1>0, <2>1, TimesTail
      <3> QED BY <1>0, <2>1, <3>1, <3>2 DEF Counted
    <2> QED BY <1>0, <2>1, <2>2, MoveStep
  <1>4. CASE Flush
    <2>1. /\ UNCHANGED <<posts, host, shown, hand>> /\ Fresh
          /\ wire' = wire \o inbox /\ inbox' = <<>>
      BY <1>4 DEF Flush, stream, session, Fresh
    <2>2. \A i \in Letters : InHand(i)' = InHand(i)
      BY <2>1 DEF InHand
    <2>3. ASSUME NEW i \in Letters
          PROVE  /\ Times(i, wire') <= Times(i, wire) + Times(i, inbox)
                 /\ Times(i, inbox') = 0 /\ Times(i, wire') \in Nat
                 /\ Times(i, wire) \in Nat /\ Times(i, inbox) \in Nat
      BY <1>0, <2>1, TimesConcat, TimesNone DEF Counted
    <2> QED BY <1>0, <2>1, <2>2, <2>3, EmptySet, MoveStep
  <1>5. CASE Watch \/ Break
    <2>1. Sever /\ UNCHANGED <<posts, host, shown, hand>>
      BY <1>5 DEF Watch, Break, stream, session
    <2> QED BY <1>0, <2>1, SeverRepeat
  <1>6. ASSUME NEW mail \in Mails, Post(mail) PROVE RepeatInv'
    <2>1. /\ Len(posted) \in Nat /\ posted \in Seq(Mails) /\ Letters = 1 .. Len(posted)
          /\ copies \in [1 .. Len(posted) -> Nat]
      <3>1. /\ Len(posted) \in Nat /\ posted \in Seq(Mails) /\ Letters = 1 .. Len(posted)
            /\ copies \in [Letters -> 1 .. MaxEvents]
        BY DEF SessionInv, CountInv, Letters
      <3>2. 1 .. MaxEvents \subseteq Nat
        BY StreamClientAssumption
      <3> QED BY <3>1, <3>2
    <2>8. copies \in Seq(Nat) /\ Len(copies) = Len(posted)
      BY <2>1
    <2>9. PICK x \in Nat : x = Len(posted) + 1
      BY <2>1
    <2>2. /\ posted' = Append(posted, mail) /\ copies' = Append(copies, 1)
          /\ Deliver(x, mail.from # NoSender)
      BY <1>6, <2>9 DEF Post
    <2>3. /\ Letters' = Letters \cup {x} /\ x \in Nat \ {0} /\ x \notin Letters
          /\ posted'[x] = mail /\ \A i \in Letters : posted'[i] = posted[i]
      BY <2>1, <2>2, <2>9 DEF Letters
    <2>4. /\ copies'[x] = 1 /\ \A i \in Letters : copies'[i] = copies[i]
      BY <2>1, <2>2, <2>8, <2>9
    <2>5. \A i \in Letters : copies[i] \in Nat
      BY <2>1
    <2>6. \A i \in Letters' :
            copies'[i] = (IF i \in Letters THEN copies[i] ELSE 0) + (IF i = x THEN 1 ELSE 0)
      BY <2>3, <2>4, <2>5
    <2>7. /\ (mail.from # NoSender) => Named(x)'
          /\ \A i \in Letters : Named(i)' <=> Named(i)
      BY <2>3 DEF Named
    <2> QED BY <1>0, <2>2, <2>3, <2>6, <2>7, DeliverRepeat
  <1>7. ASSUME NEW x \in Letters, PostAgain(x) PROVE RepeatInv'
    <2>1. /\ posted' = posted /\ copies' = [copies EXCEPT ![x] = @ + 1]
          /\ \E queues \in {FALSE, Named(x)} : Deliver(x, queues)
      BY <1>7 DEF PostAgain
    <2>2. PICK queues \in {FALSE, Named(x)} : Deliver(x, queues)
      BY <2>1
    <2>3. /\ Letters' = Letters \cup {x} /\ x \in Nat \ {0}
          /\ \A i \in Letters : Named(i)' <=> Named(i)
      BY <1>0, <2>1 DEF Letters, Named
    <2>4. copies \in [Letters -> 1 .. MaxEvents] /\ MaxEvents \in Nat
      BY StreamClientAssumption DEF SessionInv, CountInv
    <2>5. \A i \in Letters : copies[i] \in Nat
      BY <2>4
    <2>6. \A i \in Letters : copies'[i] = IF i = x THEN copies[i] + 1 ELSE copies[i]
      BY <2>1, <2>4
    <2>7. \A i \in Letters' :
            copies'[i] = (IF i \in Letters THEN copies[i] ELSE 0) + (IF i = x THEN 1 ELSE 0)
      BY <2>3, <2>5, <2>6
    <2>8. Named(x) \in BOOLEAN
      BY DEF Named
    <2>9. queues => Named(x)'
      BY <2>2, <2>3, <2>8
    <2> QED BY <1>0, <2>2, <2>3, <2>7, <2>9, DeliverRepeat
  <1> QED BY <1>1, <1>2, <1>3, <1>4, <1>5, <1>6, <1>7 DEF ListenStream, RelayStep


\* A step that moves no letter.
LEMMA RestStep ==
  ASSUME SessionInv, SessionInv', RepeatInv, Onward,
         UNCHANGED <<posts, host, shown, seen, answer, wire, hand, inbox>>
  PROVE  RepeatInv'
  <1>1. Counted /\ Letters \subseteq Nat
    BY CountsAreNumbers, ZeroIsNone DEF SessionInv
  <1>2. \A i \in Letters : /\ Times(i, wire) \in Nat /\ Times(i, inbox) \in Nat
                           /\ InHand(i) \in Nat /\ InHand(i)' = InHand(i)
    BY <1>1 DEF Counted, InHand
  <1> QED BY <1>2, MoveStep

\* A request to the queue that fails leaves less in it, if anything.
LEMMA LostRequest ==
  ASSUME SessionInv, SessionInv', RepeatInv, Onward, NEW p, FetchFails(p),
         UNCHANGED <<posts, host, shown, seen, answer, wire, hand>>
  PROVE  RepeatInv'
  <1>1. Counted /\ Letters \subseteq Nat /\ LetterInv
    BY CountsAreNumbers, ZeroIsNone DEF SessionInv
  <1>2. inbox' \in {inbox, Left(p)}
    BY DEF FetchFails
  <1>3. ToSet(inbox') \subseteq ToSet(inbox)
    BY <1>1, <1>2, FetchParts
  <1>4. ASSUME NEW i \in Letters
        PROVE  /\ Times(i, wire) \in Nat /\ Times(i, inbox) \in Nat /\ Times(i, inbox') \in Nat
               /\ InHand(i) \in Nat /\ InHand(i)' = InHand(i)
               /\ Times(i, inbox') <= Times(i, inbox)
    <2>1. /\ Times(i, wire) \in Nat /\ Times(i, inbox) \in Nat
          /\ InHand(i) \in Nat /\ InHand(i)' = InHand(i)
      BY <1>1 DEF Counted, InHand
    <2>2. Times(i, inbox') \in Nat
      BY <1>1, NextCounts DEF Counted
    <2>3. Times(i, Left(p)) <= Times(i, inbox)
      BY <1>1, FetchTimes
    <2> QED BY <1>2, <2>1, <2>2, <2>3
  <1> QED BY <1>3, <1>4, MoveStep

\* A fetch before the stream is started: what it found is shown.
LEMMA FetchRepeat ==
  ASSUME SessionInv, SessionInv', RepeatInv, Onward, Fresh, NEW p, inbox' = Left(p),
         UNCHANGED <<posts, host, seen, answer, wire, hand>>,
         \A i \in Letters : Times(i, shown') <= Times(i, shown) + Times(i, Legible(Found(p)))
  PROVE  RepeatInv'
  <1>1. Counted /\ Counted' /\ Letters \subseteq Nat /\ LetterInv /\ Letters' = Letters
    BY CountsAreNumbers, NextCounts, ZeroIsNone DEF SessionInv, posts, Letters
  <1>2. ToSet(inbox') \subseteq ToSet(inbox)
    BY <1>1, FetchParts
  <1>3. ASSUME NEW i \in Letters, NEW s \in Drafts'
        PROVE  \E r \in Drafts : InAll(i, s)' <= InAll(i, r)
    <2>1. /\ Times(i, wire) \in Nat /\ Times(i, inbox) \in Nat /\ Times(i, answer) \in Nat
          /\ InHand(i) \in Nat /\ InHand(i)' = InHand(i) /\ Times(i, inbox') \in Nat
          /\ Times(i, s) \in Nat /\ wire' = wire /\ answer' = answer
          /\ \A r \in Drafts : Times(i, r) \in Nat
      BY <1>1 DEF Counted, InHand
    <2>2. /\ Times(i, Legible(Found(p))) + Times(i, inbox') <= Times(i, inbox)
          /\ Times(i, inbox') <= Times(i, inbox)
      BY <1>1, FetchTimes
    <2>3. Times(i, Legible(Found(p))) \in Nat
      BY <1>1, FetchParts, TimesType
    <2>4. CASE s = shown'
      <3>1. shown \in Drafts /\ Times(i, shown) \in Nat
        BY <2>1 DEF Drafts
      <3>2. Times(i, s) <= Times(i, shown) + Times(i, Legible(Found(p)))
        BY <2>4
      <3>3. InAll(i, s)' <= InAll(i, shown)
        BY <2>1, <2>2, <2>3, <3>1, <3>2 DEF InAll, Sent
      <3> QED BY <3>1, <3>3
    <2>5. CASE s # shown'
      <3>1. s \in Drafts
        BY <2>5 DEF Drafts
      <3>2. InAll(i, s)' <= InAll(i, s)
        BY <2>1, <2>2 DEF InAll, Sent
      <3> QED BY <3>1, <3>2
    <2> QED BY <2>4, <2>5
  <1> QED BY <1>1, <1>2, <1>3, RepeatStep

\* What was in hand is shown once more, or not.
LEMMA HandleRepeat ==
  ASSUME SessionInv, SessionInv', RepeatInv, Onward, Handled, loop = "handling",
         UNCHANGED <<posts, host, seen, answer, wire, inbox>>,
         shown' \in {shown, Append(shown, hand)}
  PROVE  RepeatInv'
  <1>1. /\ Counted /\ Counted' /\ Letters \subseteq Nat /\ 0 \notin Letters /\ Letters' = Letters
        /\ shown \in Seq(Letters \cup {0})
    BY CountsAreNumbers, NextCounts, ZeroIsNone, LetterTypes DEF SessionInv, posts, Letters
  <1>2. ASSUME NEW i \in Letters, NEW s \in Drafts'
        PROVE  \E r \in Drafts : InAll(i, s)' <= InAll(i, r) /\ Sent(i, s)' <= Sent(i, r)
    <2>1. /\ Times(i, wire) \in Nat /\ Times(i, inbox) \in Nat /\ Times(i, answer) \in Nat
          /\ InHand(i) \in Nat /\ InHand(i)' = 0 /\ \A r \in Drafts : Times(i, r) \in Nat
          /\ wire' = wire /\ inbox' = inbox /\ answer' = answer
      BY <1>1 DEF Counted, InHand, Handled
    <2>2. CASE s = shown'
      <3>1. shown \in Drafts /\ Times(i, shown) \in Nat
        BY <2>1 DEF Drafts
      <3>2. Times(i, Append(shown, hand)) = Times(i, shown) + InHand(i)
        BY <1>1, TimesAppend DEF InHand
      <3>3. Times(i, s) <= Times(i, shown) + InHand(i) /\ Times(i, s) \in Nat
        <4>1. CASE shown' = shown
          BY <2>1, <2>2, <3>1, <4>1
        <4>2. CASE shown' = Append(shown, hand)
          BY <2>1, <2>2, <3>1, <3>2, <4>2
        <4> QED BY <4>1, <4>2
      <3>4. InAll(i, s)' <= InAll(i, shown) /\ Sent(i, s)' <= Sent(i, shown)
        BY <2>1, <3>1, <3>3 DEF InAll, Sent
      <3> QED BY <3>1, <3>4
    <2>3. CASE s # shown'
      <3>1. s \in Drafts
        BY <2>3 DEF Drafts
      <3>2. InAll(i, s)' <= InAll(i, s) /\ Sent(i, s)' <= Sent(i, s)
        BY <2>1, <3>1 DEF InAll, Sent
      <3> QED BY <3>1, <3>2
    <2> QED BY <2>2, <2>3
  <1>3. ToSet(inbox') \cup ToSet(answer') \subseteq ToSet(inbox) \cup ToSet(answer)
    OBVIOUS
  <1> QED BY <1>1, <1>2, <1>3, RepeatStep


LEMMA ChatRepeat ==
  ASSUME SessionInv, SessionInv', RepeatInv, Onward, ChatStep, UNCHANGED <<tuiVars, answer>>
  PROVE  RepeatInv'
  <1>0. UNCHANGED <<seen, answer>> /\ LetterInv /\ ControlInv /\ Counted /\ Letters \subseteq Nat
    BY CountsAreNumbers, ZeroIsNone DEF tuiVars, SessionInv
  <1>1. ASSUME NEW p, inbox' = Left(p), UNCHANGED <<posts, host, wire, hand>>, main = "fetch",
               NEW t \in Seq(Letters), shown' = shown \o t,
               \A i \in Letters : Times(i, t) <= Times(i, Legible(Found(p)))
        PROVE  RepeatInv'
    <2>1. Fresh
      BY <1>0, <1>1 DEF ControlInv, Fresh
    <2>2. ASSUME NEW i \in Letters
          PROVE  Times(i, shown') <= Times(i, shown) + Times(i, Legible(Found(p)))
      <3>1. shown \in Seq(Letters \cup {0}) /\ t \in Seq(Letters \cup {0})
        BY <1>0, <1>1, LetterTypes, SeqGrows
      <3>2. Times(i, shown') <= Times(i, shown) + Times(i, t)
        BY <1>1, <3>1, TimesConcat
      <3>3. /\ Times(i, shown) \in Nat /\ Times(i, t) \in Nat
            /\ Times(i, Legible(Found(p))) \in Nat /\ Times(i, shown') \in Nat
        BY <1>0, <1>1, <3>1, FetchParts, TimesType, NextCounts DEF Counted, Drafts
      <3> QED BY <1>1, <3>2, <3>3
    <2> QED BY <1>0, <1>1, <2>1, <2>2, FetchRepeat
  <1>2. CASE ChatFetch
    <2> DEFINE p == Head(todo)
    <2>1. /\ inbox' = Left(p) /\ UNCHANGED <<posts, host, wire, hand>> /\ main = "fetch"
          /\ shown' = shown \o Legible(Found(p))
      BY <1>2 DEF ChatFetch, Chat, stream
    <2>2. Legible(Found(p)) \in Seq(Letters)
      BY <1>0, FetchParts
    <2>3. \A i \in Letters : Times(i, Legible(Found(p))) <= Times(i, Legible(Found(p)))
      BY <2>2, TimesType
    <2> HIDE DEF p
    <2> QED BY <1>1, <2>1, <2>2, <2>3
  <1>3. CASE ChatFetchUnsaved
    <2> DEFINE p == Head(todo)
    <2>1. PICK f : shown' = shown \o Keep(Legible(Found(p)), Letters \ {f})
      BY <1>3 DEF ChatFetchUnsaved
    <2>2. inbox' = Left(p) /\ UNCHANGED <<posts, host, wire, hand>> /\ main = "fetch"
      BY <1>3 DEF ChatFetchUnsaved, Chat, stream
    <2>3. Legible(Found(p)) \in Seq(Letters)
      BY <1>0, FetchParts
    <2>4. Keep(Legible(Found(p)), Letters \ {f}) \in Seq(Letters)
      BY <2>3, KeepSet
    <2>5. \A i \in Letters :
             Times(i, Keep(Legible(Found(p)), Letters \ {f})) <= Times(i, Legible(Found(p)))
      BY <2>3, TimesKeep
    <2> HIDE DEF p
    <2> QED BY <1>1, <2>1, <2>2, <2>4, <2>5
  <1>4. CASE ChatFetchFails
    BY <1>0, <1>4, LostRequest DEF ChatFetchFails, stream, session
  <1>5. CASE ChatHandle
    <2>1. /\ Handled /\ loop = "handling" /\ UNCHANGED <<posts, host, wire, inbox>>
          /\ shown' \in {shown, Append(shown, hand)}
      BY <1>5 DEF ChatHandle, relay
    <2> QED BY <1>0, <2>1, HandleRepeat
  <1>6. CASE ~(ChatFetch \/ ChatFetchUnsaved \/ ChatFetchFails \/ ChatHandle)
    <2>1. UNCHANGED <<posts, host, shown, wire, hand, inbox>>
      BY <1>6 DEF ChatStep, ChatLaunch, ChatRefuse, ChatSend, ChatPost, ChatPostFails, ChatQuit,
         ChatSignal, ChatExit, relay, stream, session
    <2> QED BY <1>0, <2>1, RestStep
  <1> QED BY <1>2, <1>3, <1>4, <1>5, <1>6

LEMMA BridgeRepeat ==
  ASSUME SessionInv, SessionInv', RepeatInv, Onward, BridgeStep, UNCHANGED <<chatVars, tuiVars>>
  PROVE  RepeatInv'
  <1>0. /\ UNCHANGED seen /\ LetterInv /\ ControlInv
        /\ Letters \subseteq Nat /\ Letters' \subseteq Nat
        /\ Counted /\ Counted' /\ (UNCHANGED posts => Letters' = Letters)
    BY CountsAreNumbers, NextCounts, ZeroIsNone DEF tuiVars, SessionInv, posts, Letters
  <1>1. CASE BridgeLaunch \/ PageLeaves
    <2>1. UNCHANGED <<posts, host, shown, wire, hand, inbox, answer>>
      BY <1>1 DEF BridgeLaunch, PageLeaves, relay, stream, session
    <2> QED BY <1>0, <2>1, RestStep
  <1>2. CASE BridgeWrite \/ BridgeWritesLate
    <2>1. /\ Handled /\ loop = "handling" /\ UNCHANGED <<posts, host, wire, inbox, answer>>
          /\ shown' \in {shown, Append(shown, hand)}
      BY <1>2 DEF BridgeWrite, BridgeWritesLate, relay
    <2> QED BY <1>0, <2>1, HandleRepeat
  <1>3. ASSUME NEW p \in Sender, InboxRequestFails(p) PROVE RepeatInv'
    BY <1>0, <1>3, LostRequest DEF InboxRequestFails, stream, session
  <1>4. ASSUME NEW p \in Sender, InboxRequest(p) PROVE RepeatInv'
    <2>1. /\ host = "shell" /\ answer = <<>> /\ answer' = Legible(Found(p)) /\ inbox' = Left(p)
          /\ UNCHANGED <<posts, host, shown, wire, hand>>
      BY <1>4 DEF InboxRequest, stream, session
    <2>2. ToSet(inbox') \cup ToSet(answer') \subseteq ToSet(inbox) \cup ToSet(answer)
      BY <1>0, <2>1, FetchParts
    <2>3. Drafts' = Drafts
      BY <1>0, <2>1 DEF Drafts
    <2>4. ASSUME NEW i \in Letters, NEW s \in Drafts PROVE InAll(i, s)' <= InAll(i, s)
      <3>1. /\ Times(i, s) \in Nat /\ Times(i, wire) \in Nat /\ Times(i, inbox) \in Nat
            /\ InHand(i) \in Nat /\ InHand(i)' = InHand(i) /\ wire' = wire
            /\ Times(i, inbox') \in Nat /\ Times(i, answer') \in Nat /\ Times(i, answer) = 0
        BY <1>0, <2>1 DEF Counted, InHand
      <3>2. Times(i, answer') + Times(i, inbox') <= Times(i, inbox)
        BY <1>0, <2>1, FetchTimes
      <3> QED BY <3>1, <3>2 DEF InAll, Sent
    <2> QED BY <1>0, <2>1, <2>2, <2>3, <2>4, RepeatStep
  <1>5. CASE InboxAnswer
    <2>1. /\ host = "shell" /\ answer' = <<>> /\ shown' \in {shown, shown \o answer}
          /\ UNCHANGED <<posts, host, wire, hand, inbox>>
      BY <1>0, <1>5 DEF InboxAnswer, relay, stream, ControlInv
    <2>2. ToSet(inbox') \cup ToSet(answer') \subseteq ToSet(inbox) \cup ToSet(answer)
      BY <2>1, EmptySet
    <2>3. ASSUME NEW i \in Letters, NEW s \in Drafts'
          PROVE  \E r \in Drafts : InAll(i, s)' <= InAll(i, r)
      <3>1. /\ Times(i, wire) \in Nat /\ Times(i, inbox) \in Nat /\ Times(i, answer) \in Nat
            /\ InHand(i) \in Nat /\ InHand(i)' = InHand(i) /\ Times(i, answer') = 0
            /\ \A r \in Drafts : Times(i, r) \in Nat
            /\ Times(i, s) \in Nat /\ wire' = wire /\ inbox' = inbox
        BY <1>0, <2>1, TimesNone DEF Counted, InHand
      <3>2. CASE s = shown'
        <4>1. shown \in Drafts /\ Times(i, shown) \in Nat
          BY <3>1 DEF Drafts
        <4>2. shown \in Seq(Letters \cup {0}) /\ answer \in Seq(Letters \cup {0})
          BY <1>0, LetterTypes, SeqGrows
        <4>3. Times(i, shown \o answer) <= Times(i, shown) + Times(i, answer)
          BY <4>2, TimesConcat
        <4>4. Times(i, s) <= Times(i, shown) + Times(i, answer)
          <5>1. CASE shown' = shown
            BY <3>1, <3>2, <4>1, <5>1
          <5>2. CASE shown' = shown \o answer
            BY <3>2, <4>3, <5>2
          <5> QED BY <2>1, <5>1, <5>2
        <4>5. InAll(i, s)' <= InAll(i, shown)
          BY <3>1, <4>1, <4>4 DEF InAll, Sent
        <4> QED BY <4>1, <4>5
      <3>3. CASE s # shown'
        <4>1. s \in Drafts
          BY <1>0, <3>3 DEF Drafts
        <4>2. InAll(i, s)' <= InAll(i, s)
          BY <3>1, <4>1 DEF InAll, Sent
        <4> QED BY <4>1, <4>2
      <3> QED BY <3>2, <3>3
    <2> QED BY <1>0, <2>1, <2>2, <2>3, RepeatStep
  <1> QED BY <1>1, <1>2, <1>3, <1>4, <1>5 DEF BridgeStep


\* Of two goroutines that append, the one that stores last keeps what it has read.
LEMMA StoreRepeat ==
  ASSUME SessionInv, SessionInv', RepeatInv, Onward, NEW a \in Appenders, NEW item,
         Store(a, item), seen[a] # Nothing, UNCHANGED <<posts, host, answer, wire, inbox>>,
         \A i \in Letters : (IF item = i THEN 1 ELSE 0) + InHand(i)' <= InHand(i)
  PROVE  RepeatInv'
  <1>1. /\ Counted /\ Counted' /\ Letters \subseteq Nat /\ Letters' = Letters
        /\ seen[a] \in Seq(Letters \cup {0}) /\ DOMAIN seen = Appenders
        /\ shown' = Append(seen[a], item)
        /\ \A b \in Appenders : seen'[b] = IF b = a THEN Nothing ELSE seen[b]
    <2>1. Counted /\ Counted' /\ Letters \subseteq Nat /\ Letters' = Letters
      BY CountsAreNumbers, NextCounts, ZeroIsNone DEF SessionInv, posts, Letters
    <2>2. seen[a] \in Seq(Letters \cup {0}) /\ seen \in [Appenders -> Slices]
      BY LetterTypes DEF SessionInv
    <2> QED BY <2>1, <2>2 DEF Store
  <1>2. ASSUME NEW i \in Letters, NEW s \in Drafts'
        PROVE  \E r \in Drafts : InAll(i, s)' <= InAll(i, r) /\ Sent(i, s)' <= Sent(i, r)
    <2>1. /\ Times(i, wire) \in Nat /\ Times(i, inbox) \in Nat /\ Times(i, answer) \in Nat
          /\ InHand(i) \in Nat /\ InHand(i)' \in Nat /\ \A r \in Drafts : Times(i, r) \in Nat
          /\ Times(i, Nothing) = 0 /\ wire' = wire /\ inbox' = inbox /\ answer' = answer
      BY <1>1 DEF Counted
    <2>2. InHand(i)' <= InHand(i)
      BY <2>1
    <2>3. CASE s = shown'
      <3>1. seen[a] \in Drafts
        BY DEF Drafts
      <3>2. Times(i, s) = Times(i, seen[a]) + (IF item = i THEN 1 ELSE 0)
        BY <1>1, <2>3, TimesAppend
      <3>3. Times(i, seen[a]) \in Nat
        BY <2>1, <3>1
      <3>4. InAll(i, s)' <= InAll(i, seen[a]) /\ Sent(i, s)' <= Sent(i, seen[a])
        BY <2>1, <3>2, <3>3 DEF InAll, Sent
      <3> QED BY <3>1, <3>4
    <2>4. CASE s = Nothing
      <3>1. shown \in Drafts /\ Times(i, shown) \in Nat
        BY <2>1 DEF Drafts
      <3>2. InAll(i, s)' <= InAll(i, shown) /\ Sent(i, s)' <= Sent(i, shown)
        BY <2>1, <2>2, <2>4, <3>1 DEF InAll, Sent
      <3> QED BY <3>1, <3>2
    <2>5. CASE s # shown' /\ s # Nothing
      <3>1. s \in Drafts
        BY <1>1, <2>5 DEF Drafts
      <3>2. InAll(i, s)' <= InAll(i, s) /\ Sent(i, s)' <= Sent(i, s)
        BY <2>1, <2>2, <3>1 DEF InAll, Sent
      <3> QED BY <3>1, <3>2
    <2> QED BY <2>3, <2>4, <2>5
  <1> QED BY <1>1, <1>2, RepeatStep

\* What a goroutine reads is what is stored.
LEMMA ReadRepeat ==
  ASSUME SessionInv, SessionInv', RepeatInv, Onward, NEW a \in Appenders, Read(a),
         UNCHANGED <<posts, host, shown, answer, wire, hand, inbox>>
  PROVE  RepeatInv'
  <1>1. Counted /\ Letters \subseteq Nat /\ seen \in [Appenders -> Slices]
    BY CountsAreNumbers, ZeroIsNone, LetterTypes DEF SessionInv
  <1>2. Drafts' \subseteq Drafts
    <2>1. \A b \in Appenders : seen'[b] \in {seen[b], shown}
      BY <1>1 DEF Read
    <2> QED BY <2>1 DEF Drafts
  <1>3. ASSUME NEW i \in Letters, NEW s \in Drafts
        PROVE  InAll(i, s)' <= InAll(i, s) /\ Sent(i, s)' <= Sent(i, s)
    <2>1. /\ Times(i, wire) \in Nat /\ Times(i, inbox) \in Nat /\ Times(i, answer) \in Nat
          /\ InHand(i) \in Nat /\ InHand(i)' = InHand(i) /\ Times(i, s) \in Nat
          /\ wire' = wire /\ inbox' = inbox /\ answer' = answer
      BY <1>1 DEF Counted, InHand
    <2> QED BY <2>1 DEF InAll, Sent
  <1> QED BY <1>2, <1>3, RepeatStep

LEMMA TuiRepeat ==
  ASSUME SessionInv, SessionInv', RepeatInv, Onward, TuiStep, UNCHANGED <<chatVars, answer>>
  PROVE  RepeatInv'
  <1>0. /\ LetterInv /\ ControlInv /\ Counted /\ Letters \subseteq Nat /\ 0 \notin Letters
        /\ UNCHANGED answer
    BY CountsAreNumbers, ZeroIsNone DEF SessionInv
  <1>1. CASE TuiFetch
    <2> DEFINE p == Peer
    <2>1. /\ inbox' = Left(p) /\ UNCHANGED <<posts, host, seen, wire, hand>> /\ Fresh
          /\ shown = <<>> /\ shown' = Legible(Found(p))
      BY <1>0, <1>1 DEF TuiFetch, Tui, stream, tuiVars, ControlInv, Fresh
    <2>2. ASSUME NEW i \in Letters
          PROVE  Times(i, shown') <= Times(i, shown) + Times(i, Legible(Found(p)))
      <3>1. Times(i, shown) = 0 /\ Times(i, Legible(Found(p))) \in Nat
        BY <1>0, <2>1, TimesNone, FetchParts, TimesType
      <3> QED BY <2>1, <3>1
    <2> HIDE DEF p
    <2> QED BY <1>0, <2>1, <2>2, FetchRepeat
  <1>2. CASE TuiFetchFails
    BY <1>0, <1>2, LostRequest DEF TuiFetchFails, stream, tuiVars
  <1>3. CASE TuiPassOver
    <2>1. Handled /\ loop = "handling" /\ UNCHANGED <<posts, host, shown, seen, wire, inbox>>
      BY <1>3 DEF TuiPassOver, relay, session, tuiVars
    <2> QED BY <1>0, <2>1, HandleRepeat
  <1>4. CASE TuiReceive \/ TuiType
    <2>1. PICK a \in Appenders : Read(a)
      BY <1>4 DEF TuiReceive, TuiType, Appenders
    <2>2. UNCHANGED <<posts, host, shown, wire, hand, inbox>>
      BY <1>4 DEF TuiReceive, TuiType, relay, stream, session
    <2> QED BY <1>0, <2>1, <2>2, ReadRepeat
  <1>5. CASE TuiShow
    <2>1. /\ Store("stream", hand) /\ "stream" \in Appenders /\ seen["stream"] # Nothing
          /\ UNCHANGED <<posts, host, wire, inbox>> /\ hand' = 0
      BY <1>0, <1>5 DEF TuiShow, Handled, relay, ControlInv, Appenders
    <2>2. \A i \in Letters : (IF hand = i THEN 1 ELSE 0) + InHand(i)' <= InHand(i)
      BY <1>0, <2>1 DEF InHand
    <2> QED BY <1>0, <2>1, <2>2, StoreRepeat
  <1>6. CASE TuiEcho
    <2>1. /\ Store("input", 0) /\ "input" \in Appenders /\ seen["input"] # Nothing
          /\ UNCHANGED <<posts, host, wire, inbox, hand>>
      BY <1>0, <1>6 DEF TuiEcho, Tui, relay, stream, ControlInv, Appenders
    <2>2. \A i \in Letters : (IF 0 = i THEN 1 ELSE 0) + InHand(i)' <= InHand(i)
      BY <1>0, <2>1 DEF InHand
    <2> QED BY <1>0, <2>1, <2>2, StoreRepeat
  <1>7. CASE TuiLaunch \/ TuiQuit \/ TuiSignal \/ TuiExit
    <2>1. UNCHANGED <<posts, host, shown, seen, wire, hand, inbox>>
      BY <1>7 DEF TuiLaunch, TuiQuit, TuiSignal, TuiExit, relay, stream, session, tuiVars
    <2> QED BY <1>0, <2>1, RestStep
  <1> QED BY <1>1, <1>2, <1>3, <1>4, <1>5, <1>6, <1>7 DEF TuiStep

LEMMA NextRepeatInv == SessionInv /\ RepeatInv /\ [Next]_vars => RepeatInv'
  <1> SUFFICES ASSUME SessionInv, RepeatInv, [Next]_vars PROVE RepeatInv'
    OBVIOUS
  <1>1. SessionInv'
    BY NextSessionInv
  <1>2. CASE Next
    <2>1. Onward
      BY <1>2, FreshNoMore DEF RepeatInv
    <2> QED BY <1>1, <1>2, <2>1, StreamRepeat, ChatRepeat, TuiRepeat, BridgeRepeat DEF Next
  <1>3. CASE UNCHANGED vars
    <2> USE <1>3 DEF vars, streamClientVars, relay, posts, stream, session, tuiVars
    <2>1. Onward
      BY DEF RepeatInv, Onward, NoReopening, Fresh
    <2> QED BY <1>1, <2>1, RestStep
  <1> QED BY <1>2, <1>3

\* For any letters, senders, peers and bounds, no program shows a letter oftener than
\* copies of it were posted, but by a stream that is opened once more after a failure
\* or by a page of the shell server, and then at most twice as often.
THEOREM RepeatsNamed == Spec => []RepeatsAreNamed
  <1>1. SessionInv /\ RepeatInv => RepeatsAreNamed
    <2> SUFFICES ASSUME SessionInv, RepeatInv, NEW i \in Letters
                 PROVE  /\ Times(i, shown) <= 2 * copies[i]
                        /\ Times(i, shown) > copies[i] =>
                              Named(i) /\ (faults > 0 \/ host = "shell")
      BY DEF RepeatsAreNamed, Times, Occurrences
    <2>1. shown \in Drafts /\ i \in Nat
      BY ZeroIsNone DEF Drafts, SessionInv
    <2>2. Bounded(i, shown, copies[i])
      BY <2>1 DEF RepeatInv
    <2>3. /\ Times(i, shown) \in Nat /\ Sent(i, shown) \in Nat /\ InAll(i, shown) \in Nat
          /\ Times(i, shown) <= Sent(i, shown) /\ Sent(i, shown) <= InAll(i, shown)
      <3>1. /\ Times(i, shown) \in Nat /\ Sent(i, shown) \in Nat /\ InAll(i, shown) \in Nat
            /\ Times(i, wire) \in Nat /\ InHand(i) \in Nat
            /\ Times(i, inbox) \in Nat /\ Times(i, answer) \in Nat
        BY <2>1, CountsAreNumbers DEF Counted
      <3> QED BY <3>1 DEF Sent, InAll
    <2>4. copies[i] \in Nat /\ faults \in Nat
      BY StreamClientAssumption, CopiesAreNumbers DEF SessionInv, ControlInv
    <2> QED BY <2>2, <2>3, <2>4 DEF Bounded
  <1> QED BY <1>1, InitSessionInv, InitRepeatInv, NextSessionInv, NextRepeatInv, PTL DEF Spec
=============================================================================
