---------------------------- MODULE ChatSession ----------------------------
(* The command chat: it fetches what is queued from each peer, and from the *)
(* first one once more, starts the stream and the handler of signals, and   *)
(* then encrypts each line to all peers and posts it to one after another.  *)
EXTENDS StreamClient

VARIABLES
    todo,       \* fetches still to be made
    usable,     \* whether the peers' keys can be encrypted to
    err,        \* the variable err of runChat: whether it holds an error
    line,       \* what is being posted: its sort, and how many peers have it
    reports     \* history: what the user was told of each line

chatVars == <<todo, usable, err, line, reports>>

NoLine == [sort |-> "none", reached |-> 0]

ChatInit ==
    /\ todo = IF host = "chat" THEN Append(peers, Head(peers)) ELSE <<>>
    /\ usable \in IF host = "chat" THEN BOOLEAN ELSE {TRUE}
    /\ err = FALSE
    /\ line = NoLine /\ reports = <<>>

Chat(at) == Running /\ host = "chat" /\ main = at

-----------------------------------------------------------------------------
(* The inbox.                                                               *)

\* The last fetch assigns err, those before it a variable of the loop.
SecondFetch == Len(todo) = 1

\* Letters that cannot be decrypted are passed over.
ChatFetch ==
    /\ Chat("fetch") /\ todo # <<>>
    /\ shown' = shown \o Legible(Found(Head(todo)))
    /\ inbox' = Left(Head(todo))
    /\ todo' = Tail(todo)
    /\ err' = (err /\ ~SecondFetch)
    /\ UNCHANGED <<posts, link, wire, gap, stream, host, peers, main, signal,
                   process, typed, faults, cut, usable, line, reports>>

\* A file of the last fetch that cannot be saved is not mentioned; those of the
\* other fetches, and of the stream, are announced whether saved or not.
ChatFetchUnsaved ==
    /\ Chat("fetch") /\ SecondFetch
    /\ Fault
    /\ \E f \in {i \in ToSet(Legible(Found(Head(todo)))) : posted[i].file} :
          /\ shown' = shown \o Keep(Legible(Found(Head(todo))), Letters \ {f})
          /\ cut' = cut \cup {f}
    /\ inbox' = Left(Head(todo))
    /\ todo' = <<>> /\ err' = FALSE
    /\ UNCHANGED <<posts, link, wire, gap, stream, host, peers, main, signal,
                   process, typed, usable, line, reports>>

ChatFetchFails ==
    /\ Chat("fetch") /\ todo # <<>>
    /\ FetchFails(Head(todo))
    /\ todo' = Tail(todo)
    /\ err' = (err \/ SecondFetch)
    /\ UNCHANGED <<posts, link, wire, gap, stream, session, usable, line, reports>>

\* The handler of signals is installed and the stream's goroutine started.
ChatLaunch ==
    /\ Chat("fetch") /\ todo = <<>>
    /\ main' = "prompt" /\ loop' = "top"
    /\ UNCHANGED <<relay, hand, stop, host, peers, signal, process, typed, shown,
                   faults, cut, chatVars>>

-----------------------------------------------------------------------------
(* The stream's callback.                                                   *)

\* Mutated form: a sender other than the first peer is passed over, as in tui.
ShowsFirstOnly(i) == Readable(i) /\ posted[i].from \in {NoSender, Head(peers)}

\* Whatever can be decrypted is printed, whoever sent it.
Shows(i) == Readable(i)

ChatHandle ==
    /\ Running /\ host = "chat" /\ loop = "handling"
    /\ shown' = IF Shows(hand) THEN Append(shown, hand) ELSE shown
    /\ Handled
    /\ UNCHANGED <<relay, host, peers, main, signal, process, typed, faults, cut,
                   chatVars>>

-----------------------------------------------------------------------------
(* The input loop.                                                          *)

Report(sort, verdict, reached) ==
    reports' = Append(reports, [sort |-> sort, verdict |-> verdict, reached |-> reached])

\* The err that is tested after encryption: that of this text; for a file, whose
\* error went to a variable of the block, the one of the request or text before.
TestedError(sort) == IF sort = "text" THEN ~usable ELSE err

ChatRefuse(sort) ==
    /\ Chat("prompt") /\ Line
    /\ TestedError(sort)
    /\ err' = TRUE
    /\ Report(sort, "refused", 0)
    /\ UNCHANGED <<relay, stream, host, peers, main, signal, process, shown, faults,
                   cut, todo, usable, line>>

ChatSend(sort) ==
    /\ Chat("prompt") /\ Line
    /\ ~TestedError(sort)
    /\ err' = FALSE
    /\ line' = [sort |-> sort, reached |-> 0]
    /\ main' = "posting"
    /\ UNCHANGED <<relay, stream, host, peers, signal, process, shown, faults, cut,
                   todo, usable, reports>>

Over(verdict, reached) ==
    /\ Report(line.sort, verdict, reached)
    /\ line' = NoLine
    /\ main' = "prompt"

\* The relay confirms the copy of one more peer; after the last one the line is
\* reported as sent.
ChatPost ==
    /\ Chat("posting") /\ usable
    /\ IF line.reached + 1 = Len(peers) THEN Over("sent", Len(peers))
       ELSE line' = [line EXCEPT !.reached = @ + 1] /\ UNCHANGED <<main, reports>>
    /\ UNCHANGED <<relay, stream, host, peers, signal, process, typed, shown,
                   faults, cut, todo, usable, err>>

\* Mutated form: a member that fails is passed over.
PassOver == Over("sent", line.reached)

\* The first member that cannot be posted to ends it.
StopPosting == Over("failed", line.reached)

\* A post fails, with or without having reached the peer.  The relay rejects the
\* empty ciphertext of a file that could not be encrypted.
ChatPostFails ==
    /\ Chat("posting")
    /\ IF usable THEN Fault ELSE UNCHANGED faults
    /\ err' = TRUE
    /\ StopPosting
    /\ UNCHANGED <<relay, stream, host, peers, signal, process, typed, shown, cut,
                   todo, usable>>

-----------------------------------------------------------------------------
(* The end of the session.                                                  *)

\* Mutated form: no sync.Once.
CloseEachTime == CloseChannel

SafeClose == stop' = TRUE /\ UNCHANGED process

\* /quit, or the end of the input.
ChatQuit ==
    /\ Chat("prompt")
    /\ SafeClose
    /\ main' = "leaving"
    /\ UNCHANGED <<relay, loop, hand, host, peers, signal, typed, shown, faults,
                   cut, chatVars>>

ChatSignal ==
    /\ Running /\ host = "chat" /\ main # "fetch" /\ signal = "waiting"
    /\ SafeClose
    /\ signal' = "exiting"
    /\ UNCHANGED <<relay, loop, hand, host, peers, main, typed, shown, faults, cut,
                   chatVars>>

\* The session returns, the handler exits, or there is no handler yet.
ChatExit ==
    /\ Running /\ host = "chat"
    /\ main \in {"leaving", "fetch"} \/ signal = "exiting"
    /\ Exit
    /\ UNCHANGED <<relay, stream, host, peers, main, signal, typed, shown, faults,
                   cut, chatVars>>

ChatStep ==
    \/ ChatFetch \/ ChatFetchUnsaved \/ ChatFetchFails \/ ChatLaunch
    \/ ChatHandle
    \/ \E sort \in {"text", "file"} : ChatRefuse(sort) \/ ChatSend(sort)
    \/ ChatPost \/ ChatPostFails
    \/ ChatQuit \/ ChatSignal \/ ChatExit
=============================================================================
