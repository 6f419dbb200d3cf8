----------------------------- MODULE TuiSession -----------------------------
(* The command tui: it fetches what its peer has queued and starts the      *)
(* stream and the handler of signals.  Two goroutines append to one slice   *)
(* of messages without a lock, and two close one channel.                   *)
EXTENDS StreamClient

VARIABLES
    seen,           \* the slice as each goroutine read it before it appends
    overwritten     \* history: letters that another append took from the slice

tuiVars == <<seen, overwritten>>

Peer == Head(peers)
Appenders == {"input", "stream"}
Nothing == <<-1>>

TuiInit ==
    /\ seen = [a \in Appenders |-> Nothing]
    /\ overwritten = {}

Tui(at) == Running /\ host = "tui" /\ main = at

TuiFetch ==
    /\ Tui("fetch")
    /\ shown' = Legible(Found(Peer))
    /\ inbox' = Left(Peer)
    /\ main' = "launch"
    /\ UNCHANGED <<posts, link, wire, gap, stream, host, peers, signal, process,
                   typed, faults, cut, tuiVars>>

TuiFetchFails ==
    /\ Tui("fetch")
    /\ FetchFails(Peer)
    /\ main' = "launch"
    /\ UNCHANGED <<posts, link, wire, gap, stream, host, peers, signal, process,
                   typed, shown, tuiVars>>

TuiLaunch ==
    /\ Tui("launch")
    /\ main' = "prompt" /\ loop' = "top"
    /\ UNCHANGED <<relay, hand, stop, host, peers, signal, process, typed, shown,
                   faults, cut, tuiVars>>

-----------------------------------------------------------------------------
(* Appending: the slice is read, and then the longer one is stored.         *)

Read(a) == seen' = [seen EXCEPT ![a] = shown]

\* Somebody else has read the slice and not stored it yet.
Overlap(a) == \E b \in Appenders \ {a} : seen[b] # Nothing

\* What was stored since the slice was read is gone, and the race detector's
\* worst case, a slice of torn parts, may end the process.
Store(a, item) ==
    /\ shown' = Append(seen[a], item)
    /\ overwritten' = overwritten \cup (ToSet(shown) \ ToSet(shown'))
    /\ seen' = [seen EXCEPT ![a] = Nothing]
    /\ process' \in IF Overlap(a) THEN {process, "raced"} ELSE {process}

\* The callback passes over letters of other senders, though the relay has
\* taken them from its queue.
Foreign(i) == posted[i].from \notin {NoSender, Peer}

TuiPassOver ==
    /\ Running /\ host = "tui" /\ loop = "handling"
    /\ Foreign(hand) \/ ~Readable(hand)
    /\ Handled
    /\ UNCHANGED <<relay, session, faults, cut, tuiVars>>

TuiReceive ==
    /\ Running /\ host = "tui" /\ loop = "handling"
    /\ ~Foreign(hand) /\ Readable(hand)
    /\ Read("stream")
    /\ loop' = "appending"
    /\ UNCHANGED <<relay, hand, stop, session, faults, cut, overwritten>>

TuiShow ==
    /\ Running /\ host = "tui" /\ loop = "appending"
    /\ Store("stream", hand)
    /\ Handled
    /\ UNCHANGED <<relay, host, peers, main, signal, typed, faults, cut>>

\* A line that cannot be encrypted is dropped, which changes nothing; one that
\* can is shown before it is posted, and the result of the post is ignored.
TuiType ==
    /\ Tui("prompt") /\ Line
    /\ Read("input")
    /\ main' = "appending"
    /\ UNCHANGED <<relay, stream, host, peers, signal, process, shown, faults, cut,
                   overwritten>>

TuiEcho ==
    /\ Tui("appending")
    /\ Store("input", 0)
    /\ main' = "prompt"
    /\ UNCHANGED <<relay, stream, host, peers, signal, typed, faults, cut>>

-----------------------------------------------------------------------------
(* The end of the session.                                                  *)

TuiQuit ==
    /\ Tui("prompt")
    /\ CloseChannel
    /\ main' = "leaving"
    /\ UNCHANGED <<relay, loop, hand, host, peers, signal, typed, shown, faults,
                   cut, tuiVars>>

\* A signal waits in its channel until the handler runs.
TuiSignal ==
    /\ Running /\ host = "tui" /\ main \notin {"fetch", "launch"} /\ signal = "waiting"
    /\ CloseChannel
    /\ signal' = "exiting"
    /\ UNCHANGED <<relay, loop, hand, host, peers, main, typed, shown, faults, cut,
                   tuiVars>>

TuiExit ==
    /\ Running /\ host = "tui"
    /\ main \in {"leaving", "fetch"} \/ signal = "exiting"
    /\ Exit
    /\ UNCHANGED <<relay, stream, host, peers, main, signal, typed, shown, faults,
                   cut, tuiVars>>

TuiStep ==
    \/ TuiFetch \/ TuiFetchFails \/ TuiLaunch
    \/ TuiPassOver \/ TuiReceive \/ TuiShow
    \/ TuiType \/ TuiEcho
    \/ TuiQuit \/ TuiSignal \/ TuiExit
=============================================================================
