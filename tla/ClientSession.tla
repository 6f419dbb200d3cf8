---------------------------- MODULE ClientSession ----------------------------
(* A program that listens for messages, with the relay: chat, tui, or a page *)
(* of the web daemon or of the shell server.                                 *)
EXTENDS ChatSession, TuiSession, StreamBridge

vars == <<streamClientVars, chatVars, tuiVars, answer>>

Init ==
    /\ StreamClientInit
    /\ ChatInit /\ TuiInit /\ BridgeInit

Next ==
    \/ (ListenStream \/ RelayStep) /\ UNCHANGED <<chatVars, tuiVars, answer>>
    \/ ChatStep /\ UNCHANGED <<tuiVars, answer>>
    \/ TuiStep /\ UNCHANGED <<chatVars, answer>>
    \/ BridgeStep /\ UNCHANGED <<chatVars, tuiVars>>

\* Callbacks return, and so do handlers.
Fairness ==
    /\ StreamFairness
    /\ WF_vars(ChatHandle /\ UNCHANGED <<tuiVars, answer>>)
    /\ WF_vars((TuiPassOver \/ TuiReceive \/ TuiShow) /\ UNCHANGED <<chatVars, answer>>)
    /\ WF_vars((BridgeWrite \/ BridgeWritesLate) /\ UNCHANGED <<chatVars, tuiVars>>)
    /\ WF_vars(InboxAnswer /\ UNCHANGED <<chatVars, tuiVars>>)

Spec == Init /\ [][Next]_vars /\ Fairness

-----------------------------------------------------------------------------
TypeOK ==
    /\ posted \in Seq(Mails)
    /\ copies \in [Letters -> 1..MaxEvents] /\ again \in 0..MaxEvents
    /\ ToSet(inbox) \cup ToSet(wire) \cup gap \cup cut \subseteq Letters
    /\ link \in {"none", "open", "flushed", "live"}
    /\ loop \in {"off", "top", "request", "reading", "handling", "appending",
                 "pause", "ended"}
    /\ hand \in Letters \cup {0} /\ (hand # 0) = (loop \in {"handling", "appending"})
    /\ stop \in BOOLEAN /\ host \in Host /\ peers \in Invited[host]
    /\ main \in {"fetch", "launch", "prompt", "posting", "appending", "leaving",
                 "serving", "left"}
    /\ signal \in {"waiting", "exiting"}
    /\ process \in {"running", "exited", "closedTwice", "raced", "wroteLate"}
    /\ ToSet(shown) \cup ToSet(answer) \subseteq Letters \cup {0}
    /\ faults \in 0..MaxFaults
    /\ ToSet(todo) \subseteq ToSet(peers) /\ usable \in BOOLEAN /\ err \in BOOLEAN
    /\ \A k \in DOMAIN reports : reports[k].reached \in 0..Len(peers)
    /\ typed \in 0..MaxEvents

\* A letter somebody still has: the relay, the connection, or the program.
Kept(i) == i \in ToSet(inbox) \cup ToSet(wire) \cup {hand} \cup ToSet(answer) \cup ToSet(shown)

\* A letter of a named sender is never lost but in these ways: nobody could
\* read it; a fault, or the end of the session, came between the relay's giving
\* it away and the program's showing it; or the program is tui, and passes over
\* letters not of the peer as typed or overwrites what another append stored.
\* (redis.go clears a queue when it reads it; api.go:593-617; tui.go:166, 183)
LossIsNamed ==
    \A i \in Letters : Named(i) =>
        \/ Kept(i)
        \/ ~Readable(i)
        \/ i \in cut /\ (faults > 0 \/ stop)
        \/ host = "tui" /\ (Foreign(i) \/ i \in overwritten)

\* Letters of one sender are shown in the order they were posted in, unless one
\* was posted between a drain and the subscription and had to wait in the queue.
\* A page of the shell server has two sources and is told nothing of their order.
\* (chat.go:141-214, 233-265; handlers.go:273-309)
OrderKept ==
    \A i, j \in Letters :
        /\ i < j /\ posted[i].from = posted[j].from
        /\ {i, j} \subseteq ToSet(shown) /\ (gap \cup overwritten) \cap {i, j} = {}
        /\ host # "shell"
        => \E k \in DOMAIN shown : shown[k] = i /\ \A l \in 1..k : shown[l] # j

\* A letter is shown at most as often as copies of it were posted, as nothing tells
\* copies apart (server.go:533 draws an id for each).  It is shown more often only
\* from the queue, in which live delivery leaves a copy (handlers.go:337): when a
\* failed stream is opened again (api.go:610-615), or a page of the shell server
\* fetches the queue.
RepeatsAreNamed ==
    \A i \in Letters :
        LET times == Cardinality({k \in DOMAIN shown : shown[k] = i}) IN
        /\ times <= 2 * copies[i]
        /\ times > copies[i] => Named(i) /\ (faults > 0 \/ host = "shell")

\* The request before line k, or the last fetch, failed or was refused.
AfterError(k) == IF k = 1 THEN faults > 0 ELSE reports[k - 1].verdict # "sent"

Told(k) ==
    LET r == reports[k] IN
    /\ r.verdict = "sent" => usable /\ r.reached = Len(peers)
    /\ r.verdict = "failed" => r.reached < Len(peers)
    /\ r.verdict = "refused" => ~usable \/ (r.sort = "file" /\ AfterError(k))

\* What chat says of a line is so.  Sent: every peer's relay confirmed its copy.
\* Failed: some peer's did not, and the user is told whether or not others have
\* it.  Refused as not encryptable: it was not, or it is a file and the error
\* tested is that of the line before, or of the last fetch (chat.go:310-355).
ReportIsTrue == \A k \in DOMAIN reports : Told(k)

\* The program dies of its own only in ways that can be named: tui, of closing
\* its channel a second time when a signal and the end of its input meet, or of
\* two appends; a daemon, of a callback that outlives its handler.  chat never
\* does (chat.go:217-224; tui.go:208, 221, 287; server.go:541).
CrashesAreNamed ==
    CASE process = "closedTwice" -> host = "tui" /\ signal = "exiting" /\ stop
      [] process = "raced" -> host = "tui" /\ typed > 0
      [] process = "wroteLate" -> host \in {"web", "shell"} /\ main = "left"
      [] OTHER -> TRUE

\* Once its channel is closed, ListenStream returns, whatever it waits for.
\* (api.go:545-550, 580-586, 610-615)
StreamStops == stop ~> (loop \in {"off", "ended"} \/ ~Running)

\* What LetterArrives promises of a letter.
Settled(i) ==
    \/ stop \/ ~Running
    \/ /\ i \in Letters
       /\ \/ i \in ToSet(shown) \cup gap \cup cut \cup overwritten
          \/ ~Readable(i)
          \/ host = "tui" /\ Foreign(i)

\* A letter posted while the program listens is shown, unless it came in the gap
\* before the subscription, is lost in a way LossIsNamed names, or the session
\* ends: after any break the stream is opened again (api.go:559-577, 607-615).
LetterArrives ==
    \A i \in 1..MaxEvents :
        (i \in Letters /\ Named(i) /\ loop # "off") ~> Settled(i)
=============================================================================
