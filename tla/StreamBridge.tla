---------------------------- MODULE StreamBridge ----------------------------
(* The stream of a page: handleStream of the web daemon and /api/stream of  *)
(* the terminal shell server run ListenStream in a goroutine that writes to *)
(* the page, and return when the page goes, without waiting for it.  A page *)
(* of the shell server also fetches what a peer has queued.                 *)
EXTENDS StreamClient

VARIABLE answer     \* what GET /api/inbox has fetched for the page

Page(at) == Running /\ host \in {"web", "shell"} /\ main = at

BridgeInit == answer = <<>>

BridgeLaunch ==
    /\ Page("launch")
    /\ main' = "serving" /\ loop' = "top"
    /\ UNCHANGED <<relay, hand, stop, host, peers, signal, process, typed, shown,
                   faults, cut, answer>>

\* The page is closed: the handler returns, and its deferred close runs.
PageLeaves ==
    /\ Page("serving")
    /\ stop' = TRUE
    /\ main' = "left"
    /\ UNCHANGED <<relay, loop, hand, host, peers, signal, process, typed, shown,
                   faults, cut, answer>>

\* The callback writes what can be decrypted.
BridgeWrite ==
    /\ Page("serving") /\ loop = "handling"
    /\ shown' = IF Readable(hand) THEN Append(shown, hand) ELSE shown
    /\ Handled
    /\ UNCHANGED <<relay, host, peers, main, signal, process, typed, faults, cut,
                   answer>>

\* Writing to a response whose handler has returned is not defined: nothing
\* comes of it, or it panics in a goroutine nobody recovers.
BridgeWritesLate ==
    /\ Page("left") /\ loop = "handling"
    /\ cut' = cut \cup {hand}
    /\ process' \in {process} \cup IF Readable(hand) THEN {"wroteLate"} ELSE {}
    /\ Handled
    /\ UNCHANGED <<relay, host, peers, main, signal, typed, shown, faults, answer>>

-----------------------------------------------------------------------------
(* GET /api/inbox of the shell server.                                      *)

InboxRequest(s) ==
    /\ Page("serving") /\ host = "shell"
    /\ answer = <<>> /\ Found(s) # <<>>
    /\ answer' = Legible(Found(s))
    /\ inbox' = Left(s)
    /\ UNCHANGED <<posts, link, wire, gap, stream, session, faults, cut>>

\* The page is told that there is nothing.
InboxRequestFails(s) ==
    /\ Page("serving") /\ host = "shell"
    /\ answer = <<>> /\ Found(s) # <<>>
    /\ FetchFails(s)
    /\ UNCHANGED <<posts, link, wire, gap, stream, session, answer>>

InboxAnswer ==
    /\ Running /\ answer # <<>>
    /\ answer' = <<>>
    /\ IF main = "serving" THEN shown' = shown \o answer /\ UNCHANGED cut
       ELSE cut' = cut \cup ToSet(answer) /\ UNCHANGED shown
    /\ UNCHANGED <<relay, stream, host, peers, main, signal, process, typed,
                   faults>>

BridgeStep ==
    \/ BridgeLaunch \/ PageLeaves \/ BridgeWrite \/ BridgeWritesLate
    \/ \E s \in Sender : InboxRequest(s) \/ InboxRequestFails(s)
    \/ InboxAnswer
=============================================================================
