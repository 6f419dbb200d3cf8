---------------------------- MODULE StreamClient ----------------------------
(* ListenStream, by which every program that shows messages receives them:  *)
(* it asks the relay for a stream, reads what comes, calls the program back *)
(* with each message, and asks again when the stream breaks, until its stop *)
(* channel is closed.  The relay is coarse here (module Inbox has its       *)
(* commands): a copy of a letter is queued if its sender is named and       *)
(* written to a stream that is subscribed, without being taken from the     *)
(* queue; a stream first drains the queue and then subscribes.  There is a  *)
(* copy for each spelling of the handle a letter is posted or published to. *)
EXTENDS Naturals, Sequences, SequencesExt, FiniteSets, Filter

CONSTANTS
    Sender,         \* handles that write to the one this program listens for
    NoSender,       \* an absent sender
    Mails,          \* the letters there can be: [from, file, readable]
    Host,           \* the programs that may be started: chat, tui, web, shell
    Invited,        \* for each program, the peers it may be started with, as they
                    \* were typed: handles or other spellings; pages name nobody
    MaxEvents,      \* how many copies are posted and lines typed, together
    MaxFaults       \* how many requests, connections and saves may fail

ASSUME StreamClientAssumption ==
    /\ Host \subseteq {"chat", "tui", "web", "shell"}
    /\ NoSender \notin Sender
    /\ Mails \subseteq [from : Sender \cup {NoSender}, file : BOOLEAN, readable : BOOLEAN]
    /\ \A h \in Host : \A with \in Invited[h] :
          /\ with \in Seq(ToSet(with))
          /\ CASE h = "chat" -> Len(with) # 0
               [] h = "tui" -> Len(with) = 1
               [] OTHER -> with = <<>>
    /\ {MaxEvents, MaxFaults} \subseteq Nat

VARIABLES
    posted,     \* the letters posted, in order; a letter is its index in it
    copies,     \* how many copies of each were posted
    again,      \* how many of them were not the first
    inbox,      \* copies in the relay's queues
    link,       \* the relay's side of the stream: none, open, flushed, live
    wire,       \* copies written to the stream and not yet read
    stop,       \* whether the stop channel is closed
    loop,       \* where ListenStream is
    hand,       \* the letter its callback is handling, or 0
    host,       \* the program that listens
    peers,      \* whom it was started with; pages are with nobody
    main,       \* where the program's own goroutine is
    signal,     \* where its handler of signals is: waiting, exiting
    process,    \* running, exited, or how it panicked
    typed,      \* how many lines were typed
    shown,      \* what the program has shown, in order; 0 is a line of its own
    faults,     \* what failed so far
    gap,        \* history: letters posted between a drain and the subscription
    cut         \* history: letters taken from the queue, or written to the
                \* stream, whose answer, connection or session ended first

posts == <<posted, copies, again>>
relay == <<posts, inbox, link, wire, gap>>
stream == <<loop, hand, stop>>
session == <<host, peers, main, signal, process, typed, shown>>
streamClientVars == <<relay, stream, session, faults, cut>>

Letters == DOMAIN posted
Named(i) == posted[i].from # NoSender
Readable(i) == posted[i].readable
From(s, i) == posted[i].from = s

StreamClientInit ==
    /\ posted = <<>> /\ copies = <<>> /\ inbox = <<>> /\ wire = <<>> /\ shown = <<>>
    /\ link = "none" /\ loop = "off" /\ hand = 0
    /\ stop = FALSE /\ signal = "waiting" /\ process = "running"
    /\ host \in Host
    /\ peers \in Invited[host]
    /\ main = IF host \in {"chat", "tui"} THEN "fetch" ELSE "launch"
    /\ typed = 0 /\ again = 0 /\ faults = 0 /\ gap = {} /\ cut = {}

Running == process = "running"
Fault == faults < MaxFaults /\ faults' = faults + 1

\* There may be one more copy or line.
MoreEvents == Len(posted) + again + typed < MaxEvents

\* The user types one more line.
Line == MoreEvents /\ typed' = typed + 1

-----------------------------------------------------------------------------
(* The relay.                                                               *)

\* A copy is queued, if the spelling is the one listened for, and written to the
\* stream, if it is subscribed.
Deliver(i, queues) ==
    /\ inbox' = IF queues THEN Append(inbox, i) ELSE inbox
    /\ wire' = IF link = "live" THEN Append(wire, i) ELSE wire
    /\ gap' = IF link = "flushed" THEN gap \cup {i} ELSE gap
    /\ UNCHANGED <<link, stream, session, faults, cut>>

\* The first copy of a letter.
Post(mail) ==
    /\ Running /\ MoreEvents
    /\ posted' = Append(posted, mail)
    /\ copies' = Append(copies, 1) /\ UNCHANGED again
    /\ Deliver(Len(posted) + 1, mail.from # NoSender)

\* The copy of another spelling, before the sender's next letter.
PostAgain(i) ==
    /\ Running /\ MoreEvents
    /\ \A j \in Letters : j > i => posted[j].from # posted[i].from
    /\ copies' = [copies EXCEPT ![i] = @ + 1] /\ again' = again + 1
    /\ \E queues \in {FALSE, Named(i)} : Deliver(i, queues)
    /\ UNCHANGED posted

\* The stream writes what is queued, of every sender, and takes it away.
Flush ==
    /\ Running /\ link = "open"
    /\ wire' = wire \o inbox /\ inbox' = <<>>
    /\ link' = "flushed"
    /\ UNCHANGED <<posts, gap, stream, session, faults, cut>>

Subscribe ==
    /\ Running /\ link = "flushed"
    /\ link' = "live"
    /\ UNCHANGED <<posts, inbox, wire, gap, stream, session, faults, cut>>

\* The connection is over.  Of what was written, a beginning has arrived; a
\* drain that was still to come may happen all the same, with nobody to read it.
Sever ==
    \E drained \in IF link = "open" THEN {<<>>, inbox} ELSE {<<>>} :
        LET written == wire \o drained IN
        \E n \in 0..Len(written) :
            /\ wire' = SubSeq(written, 1, n)
            /\ cut' = cut \cup ToSet(SubSeq(written, n + 1, Len(written)))
            /\ inbox' = IF drained = <<>> THEN inbox ELSE <<>>
            /\ link' = "none"

\* The relay restarts or the network fails; or an event is longer than the
\* scanner's buffer, which ends the reading.
Break ==
    /\ Running /\ link # "none"
    /\ Fault
    /\ Sever
    /\ UNCHANGED <<posts, gap, stream, session>>

-----------------------------------------------------------------------------
(* ListenStream.                                                            *)

\* Mutated form: the loop asks again without looking at the channel.
AskAgain == loop' = "request"

\* The channel is looked at before each request.
Ask == loop' = IF stop THEN "ended" ELSE "request"

LoopTop ==
    /\ Running /\ loop = "top"
    /\ Ask
    /\ UNCHANGED <<relay, hand, stop, session, faults, cut>>

\* The relay answers 200 and flushes the header before it drains.  Closing the
\* channel does not call the request back.
Connect ==
    /\ Running /\ loop = "request"
    /\ loop' = "reading" /\ link' = "open"
    /\ UNCHANGED <<posts, inbox, wire, gap, hand, stop, session, faults, cut>>

\* Mutated form: the first request that fails is the last.
GiveUp == loop' = "ended"

\* Wait, and try again.
Retry == loop' = "pause"

\* No answer, or one that is not 200; the relay may have drained the queue.
RequestFails ==
    /\ Running /\ loop = "request"
    /\ Fault
    /\ Retry
    /\ \/ UNCHANGED <<inbox, cut>>
       \/ inbox' = <<>> /\ cut' = cut \cup ToSet(inbox)
    /\ UNCHANGED <<posts, link, wire, gap, hand, stop, session>>

\* Mutated form: nobody waits for the channel while the stream is read.
NotClosed == FALSE

\* What the goroutine beside the scanner waits for.
Closed == stop

\* That goroutine closes the body.
Watch ==
    /\ Running /\ link # "none"
    /\ Closed
    /\ Sever
    /\ UNCHANGED <<posts, gap, stream, session, faults>>

\* Mutated form: the callback runs in goroutines of its own.
TakeAny ==
    \E k \in DOMAIN wire : hand' = wire[k] /\ wire' = RemoveAt(wire, k)

\* One letter after the other.
TakeNext == hand' = Head(wire) /\ wire' = Tail(wire)

Scan ==
    /\ Running /\ loop = "reading" /\ wire # <<>>
    /\ TakeNext
    /\ loop' = "handling"
    /\ UNCHANGED <<posts, inbox, link, gap, stop, session, faults, cut>>

\* Mutated form: the callback keeps what it was given.
HandledHoldingOn == loop' = "reading" /\ UNCHANGED <<hand, stop>>

\* The callback has returned.
Handled == hand' = 0 /\ loop' = "reading" /\ UNCHANGED stop

ScanEnds ==
    /\ Running /\ loop = "reading" /\ wire = <<>> /\ link = "none"
    /\ loop' = "pause"
    /\ UNCHANGED <<relay, hand, stop, session, faults, cut>>

\* The pause ends by the timer or by the channel.
Resume ==
    /\ Running /\ loop = "pause"
    /\ \/ loop' = "top"
       \/ stop /\ loop' = "ended"
    /\ UNCHANGED <<relay, hand, stop, session, faults, cut>>

ListenStream ==
    \/ LoopTop \/ Connect \/ RequestFails \/ Watch \/ Scan \/ ScanEnds \/ Resume

RelayStep ==
    \/ \E mail \in Mails : Post(mail)
    \/ \E i \in Letters : PostAgain(i)
    \/ Flush \/ Subscribe \/ Break

\* The relay answers, the network carries, and goroutines are scheduled; no
\* fault need happen and nobody need post.
StreamFairness ==
    /\ WF_streamClientVars(Flush) /\ WF_streamClientVars(Subscribe)
    /\ WF_streamClientVars(LoopTop) /\ WF_streamClientVars(Connect)
    /\ WF_streamClientVars(Watch) /\ WF_streamClientVars(Scan)
    /\ WF_streamClientVars(ScanEnds) /\ WF_streamClientVars(Resume)

-----------------------------------------------------------------------------
(* What the programs have in common.                                        *)

\* Mutated form: the relay answers and clears nothing.
LeftAll(s) == inbox

\* GET /inbox for one sender: what it finds, and what it leaves.
Found(s) == Keep(inbox, {i \in Letters : From(s, i)})
Left(s) == Keep(inbox, {i \in Letters : ~From(s, i)})
Legible(letters) == Keep(letters, {i \in Letters : Readable(i)})

\* The answer is lost, or the relay fails before it looks or after it cleared.
FetchFails(s) ==
    /\ Fault
    /\ \/ UNCHANGED <<inbox, cut>>
       \/ inbox' = Left(s) /\ cut' = cut \cup ToSet(Found(s))

\* close(stopCh) panics when the channel is closed already.
CloseChannel ==
    /\ stop' = TRUE
    /\ process' = IF stop THEN "closedTwice" ELSE process

Exit == process' = "exited"
=============================================================================
