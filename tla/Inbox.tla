------------------------------- MODULE Inbox -------------------------------
(* The relay's offline inbox and its live streams: what POST /paste does    *)
(* for a recipient after it has stored the paste, GET /inbox and GET        *)
(* /stream, at the granularity of Redis commands.  A message is appended to *)
(* one Redis list per spelling of the recipient's handle and sender, the    *)
(* sender is indexed in a set, and the message is published to the streams. *)
(* A reader drains lists by LRANGE and a later DEL; the commands of other   *)
(* requests run in between, and most errors are ignored by the code.        *)
EXTENDS Naturals, Sequences, SequencesExt, FiniteSets, Filter

CONSTANTS
    Msg,            \* uploads; a message is posted once
    Sender,         \* senders
    NoSender,       \* an absent sender, an absent `with` or `sender` filter
    SenderOf,       \* the sender of each message
    Fold,           \* the handle of each sender in lower case
    Box,            \* spellings of handles
    Targets,        \* for a recipient's spelling, the spellings it fans out to
    Conn,           \* GET /inbox and GET /stream requests of the recipient
    Requests,       \* the [kind, box, with] those requests may ask for
    MaxFaults       \* how many Redis commands may fail

ASSUME InboxAssumption ==
    /\ Box # {} /\ NoSender \notin Sender
    /\ SenderOf \in [Msg -> Sender \cup {NoSender}]
    /\ DOMAIN Fold = Sender
    /\ Targets \in [Box -> Seq(Box)]
    /\ \A b \in Box : b \in ToSet(Targets[b]) /\ IsInjective(Targets[b])
    /\ Requests \subseteq [kind : {"fetch", "stream"}, box : Box,
                           with : Sender \cup {NoSender}]
    /\ MaxFaults \in Nat

VARIABLES
    list,       \* Redis lists pandora:inbox:<box>:<sender>
    index,      \* Redis sets pandora:inbox_senders:<box>
    chan,       \* what Pub/Sub has buffered for each subscribed stream
    up,         \* the upload handler of each message: pc, targets left
    conn,       \* the handler of each GET request
    faults,     \* commands that failed so far
    queued,     \* history: the copies appended so far, in order
    delivered,  \* history: copies written to a client, drained or live
    overlapped, \* history: copies appended between an LRANGE and its DEL
    dropped,    \* history: copies lost with a handler that was cut off, or
                \* cleared by the operator
    discarded   \* history: copies a live `with` stream cleared unread

redis == <<list, index>>
history == <<queued, delivered, overlapped, dropped, discarded>>
vars == <<redis, chan, up, conn, faults, history>>

Copy == [box : Box, msg : Msg]

Copies(b, seq) == {[box |-> b, msg |-> seq[i]] : i \in DOMAIN seq}

Idle == [pc |-> "idle", kind |-> "fetch", box |-> CHOOSE b \in Box : TRUE,
         with |-> NoSender, caller |-> "none", senders |-> {}, from |-> NoSender,
         snap |-> <<>>, got |-> <<>>, subscribed |-> FALSE, start |-> {},
         wrote |-> {}, failed |-> FALSE]

Init ==
    /\ list = [b \in Box |-> [s \in Sender |-> <<>>]]
    /\ index = [b \in Box |-> {}]
    /\ chan = [c \in Conn |-> <<>>]
    /\ up = [m \in Msg |-> [pc |-> "idle", todo |-> <<>>]]
    /\ conn = [c \in Conn |-> Idle]
    /\ faults = 0
    /\ queued = <<>> /\ delivered = {}
    /\ overlapped = {} /\ dropped = {} /\ discarded = {}

Fault == faults < MaxFaults /\ faults' = faults + 1

-----------------------------------------------------------------------------
(* POST /paste with a recipient.  The handler ignores the results of        *)
(* PushInboxMessage and Publish.                                            *)

\* The next thing to do for the first target of todo.
Continue(m, todo) ==
    up' = [up EXCEPT ![m] =
             [pc |-> IF todo = <<>> THEN "done"
                     ELSE IF SenderOf[m] = NoSender THEN "publish" ELSE "rpush",
              todo |-> todo]]

\* PutPaste stored the text (module PasteStore); the rest follows for every
\* target in turn.
PostMessage(m, b) ==
    /\ up[m].pc = "idle"
    /\ Continue(m, Targets[b])
    /\ UNCHANGED <<list, index, chan, conn, faults, history>>

\* PutPaste failed: 503, and the recipient is never told.
PostFails(m) ==
    /\ up[m].pc = "idle"
    /\ Fault
    /\ up' = [up EXCEPT ![m] = [pc |-> "done", todo |-> <<>>]]
    /\ UNCHANGED <<redis, chan, conn, history>>

\* A handler is between reading list (b, s) and deleting it.
Draining(b, s) ==
    \E c \in Conn : /\ conn[c].pc \in {"del", "kdel"}
                    /\ conn[c].box = b /\ conn[c].from = s

RPush(m) ==
    LET b == Head(up[m].todo)
        s == SenderOf[m]
    IN
    /\ up[m].pc = "rpush"
    /\ list' = [list EXCEPT ![b][s] = Append(@, m)]
    /\ overlapped' = IF Draining(b, s) THEN overlapped \cup {[box |-> b, msg |-> m]}
                     ELSE overlapped
    /\ queued' = Append(queued, [box |-> b, msg |-> m])
    /\ up' = [up EXCEPT ![m].pc = "sadd"]
    /\ UNCHANGED <<index, chan, conn, faults, delivered, dropped, discarded>>

SAdd(m) ==
    /\ up[m].pc = "sadd"
    /\ index' = [index EXCEPT ![Head(up[m].todo)] = @ \cup {SenderOf[m]}]
    /\ up' = [up EXCEPT ![m].pc = "publish"]
    /\ UNCHANGED <<list, chan, conn, faults, history>>

\* The pipeline breaks off before its next command.
PipelineFails(m) ==
    /\ up[m].pc \in {"rpush", "sadd"}
    /\ Fault
    /\ up' = [up EXCEPT ![m].pc = "publish"]
    /\ UNCHANGED <<redis, chan, conn, history>>

\* The answer of the pipeline is lost after its RPUSH, or after all of it, and
\* go-redis sends the pipeline again from its beginning.
PipelineResent(m) ==
    /\ up[m].pc = "sadd"
    /\ Fault
    /\ index' \in {index, [index EXCEPT ![Head(up[m].todo)] = @ \cup {SenderOf[m]}]}
    /\ up' = [up EXCEPT ![m].pc = "rpush"]
    /\ UNCHANGED <<list, chan, conn, history>>

\* Who is subscribed to stream:<b>: the streams of every spelling b is in.
Subscribed(b) ==
    {c \in Conn : conn[c].subscribed /\ b \in ToSet(Targets[conn[c].box])}

Announce(m) ==
    LET to == Subscribed(Head(up[m].todo)) IN
    chan' = [c \in Conn |-> IF c \in to THEN Append(chan[c], m) ELSE chan[c]]

Publish(m) ==
    /\ up[m].pc = "publish"
    /\ Announce(m)
    /\ Continue(m, Tail(up[m].todo))
    /\ UNCHANGED <<redis, conn, faults, history>>

\* The answer is lost and PUBLISH is sent again.
PublishResent(m) ==
    /\ up[m].pc = "publish"
    /\ Fault
    /\ Announce(m)
    /\ UNCHANGED <<redis, up, conn, history>>

PublishFails(m) ==
    /\ up[m].pc = "publish"
    /\ Fault
    /\ Continue(m, Tail(up[m].todo))
    /\ UNCHANGED <<redis, chan, conn, history>>

-----------------------------------------------------------------------------
(* GetAndClearInbox: LRANGE, and when it found something DEL and SREM.  It  *)
(* is called for `with` (or `sender`), for each indexed sender of a full    *)
(* drain, and by a live `with` stream; conn[c].caller says which.           *)

Set(c, rec) == conn' = [conn EXCEPT ![c] = rec]

\* Where a handler goes when GetAndClearInbox of one sender is over: to the
\* next sender, to its answer, or to the live message it was called for.
After(caller) ==
    CASE caller = "all" -> "lrange" [] caller = "with" -> "scan" [] caller = "live" -> "writeLive"

\* Mutated form: only a full drain keeps what it found.
ReturnToAll(c) ==
    LET k == conn[c] IN
    Set(c, [k EXCEPT !.pc = After(k.caller), !.senders = @ \ {k.from},
                     !.got = IF k.caller = "all" THEN @ \o k.snap ELSE @,
                     !.from = NoSender, !.snap = <<>>])

\* The messages are appended to what was found before, or thrown away.
Return(c) ==
    LET k == conn[c] IN
    Set(c, [k EXCEPT !.pc = After(k.caller), !.senders = @ \ {k.from},
                     !.got = IF k.caller = "live" THEN @ ELSE @ \o k.snap,
                     !.from = NoSender, !.snap = <<>>])

\* One list at a time; a list with nothing in it is passed over.
LRange(c) ==
    LET k == conn[c] IN
    /\ k.pc = "lrange"
    /\ \E s \in k.senders :
          LET found == list[k.box][s] IN
          Set(c, IF found # <<>>
                 THEN [k EXCEPT !.pc = "del", !.from = s, !.snap = found]
                 ELSE [k EXCEPT !.pc = After(k.caller), !.senders = @ \ {s}])
    /\ UNCHANGED <<redis, chan, up, faults, history>>

\* The error ends a GET /inbox for one sender with 503 and is passed over
\* everywhere else.
LRangeFails(c) ==
    LET k == conn[c] IN
    /\ k.pc = "lrange"
    /\ Fault
    /\ \E s \in k.senders :
          Set(c, IF k.caller = "with" /\ k.kind = "fetch" THEN Idle
                 ELSE [k EXCEPT !.pc = After(k.caller), !.failed = TRUE,
                                !.senders = @ \ {s}])
    /\ UNCHANGED <<redis, chan, up, history>>

\* Mutated form: the list is left in place, only the index forgets it.
EmptyNothing(b, s) == UNCHANGED list

Empty(b, s) == list' = [list EXCEPT ![b][s] = <<>>]

\* DEL, whose result nobody uses when a live stream called for it.
Del(k) ==
    /\ Empty(k.box, k.from)
    /\ discarded' = IF k.caller = "live"
                    THEN discarded \cup Copies(k.box, list[k.box][k.from])
                    ELSE discarded

DelList(c) ==
    /\ conn[c].pc = "del"
    /\ Del(conn[c])
    /\ Set(c, [conn[c] EXCEPT !.pc = "srem"])
    /\ UNCHANGED <<index, chan, up, faults, queued, delivered,
                   overlapped, dropped>>

\* The error of DEL is ignored: the messages are returned and stay queued.
DelListFails(c) ==
    /\ conn[c].pc = "del"
    /\ Fault
    /\ Set(c, [conn[c] EXCEPT !.pc = "srem", !.failed = TRUE])
    /\ UNCHANGED <<redis, chan, up, history>>

SRem(c) ==
    LET k == conn[c] IN
    /\ k.pc = "srem"
    /\ index' = [index EXCEPT ![k.box] = @ \ {k.from}]
    /\ Return(c)
    /\ UNCHANGED <<list, chan, up, faults, history>>

SRemFails(c) ==
    LET k == conn[c] IN
    /\ k.pc = "srem"
    /\ Fault
    /\ Return(c)
    /\ UNCHANGED <<redis, chan, up, history>>

-----------------------------------------------------------------------------
(* GetAllAndClearInbox: SMEMBERS, GetAndClearInbox of each sender, DEL of   *)
(* the index, and KEYS for the lists the index did not name.                *)

SMembers(c) ==
    LET k == conn[c] IN
    /\ k.pc = "smembers"
    /\ Set(c, [k EXCEPT !.pc = "lrange", !.senders = index[k.box]])
    /\ UNCHANGED <<redis, chan, up, faults, history>>

\* 503 for GET /inbox; a stream goes on with nothing to flush.
SMembersFails(c) ==
    /\ conn[c].pc = "smembers"
    /\ Fault
    /\ IF conn[c].kind = "fetch" THEN Set(c, Idle)
       ELSE Set(c, [conn[c] EXCEPT !.pc = "scan", !.failed = TRUE])
    /\ UNCHANGED <<redis, chan, up, history>>

\* Every indexed sender's list was taken.
IndexDone(k) == k.pc = "lrange" /\ k.senders = {}

DelIndex(c) ==
    LET k == conn[c] IN
    /\ IndexDone(k)
    /\ index' = [index EXCEPT ![k.box] = {}]
    /\ Set(c, [k EXCEPT !.pc = "keys"])
    /\ UNCHANGED <<list, chan, up, faults, history>>

DelIndexFails(c) ==
    /\ IndexDone(conn[c])
    /\ Fault
    /\ Set(c, [conn[c] EXCEPT !.pc = "keys"])
    /\ UNCHANGED <<redis, chan, up, history>>

\* Mutated form: no pattern scan, the index is believed.
NoKeys(b) == {}

\* Mutated form: a key is taken for the sender it ends with.
KeyNames(b) == {[box |-> b, sender |-> s] : s \in {t \in Sender : list[b][t] # <<>>}}

\* KEYS pandora:inbox:<box>:* names every list that exists.
KeysOf(b) == {s \in Sender : list[b][s] # <<>>}

Keys(c) ==
    LET k == conn[c] IN
    /\ k.pc = "keys"
    /\ Set(c, [k EXCEPT !.pc = "scan", !.senders = KeysOf(k.box)])
    /\ UNCHANGED <<redis, chan, up, faults, history>>

KeysFails(c) ==
    /\ conn[c].pc = "keys"
    /\ Fault
    /\ Set(c, [conn[c] EXCEPT !.pc = "scan", !.failed = TRUE])
    /\ UNCHANGED <<redis, chan, up, history>>

\* LRANGE of one key of the scan.
ScanKey(c) ==
    LET k == conn[c] IN
    /\ k.pc = "scan"
    /\ \E s \in k.senders :
          LET found == list[k.box][s] IN
          Set(c, [k EXCEPT !.pc = IF found = <<>> THEN "scan" ELSE "kdel",
                           !.from = s, !.senders = @ \ {s}, !.got = @ \o found])
    /\ UNCHANGED <<redis, chan, up, faults, history>>

ScanKeyFails(c) ==
    LET k == conn[c] IN
    /\ k.pc = "scan"
    /\ Fault
    /\ \E s \in k.senders : Set(c, [k EXCEPT !.senders = @ \ {s}, !.failed = TRUE])
    /\ UNCHANGED <<redis, chan, up, history>>

DelKey(c) ==
    LET k == conn[c] IN
    /\ k.pc = "kdel"
    /\ Empty(k.box, k.from)
    /\ Set(c, [k EXCEPT !.pc = "scan"])
    /\ UNCHANGED <<index, chan, up, faults, history>>

DelKeyFails(c) ==
    /\ conn[c].pc = "kdel"
    /\ Fault
    /\ Set(c, [conn[c] EXCEPT !.pc = "scan", !.failed = TRUE])
    /\ UNCHANGED <<redis, chan, up, history>>

\* A DEL or SREM whose answer is lost took effect and is sent again.
ClearResent(c) ==
    LET k == conn[c] IN
    /\ Fault
    /\ \/ k.pc \in {"del", "kdel"} /\ Del(k) /\ UNCHANGED index
       \/ k.pc = "srem" /\ index' = [index EXCEPT ![k.box] = @ \ {k.from}]
          /\ UNCHANGED <<list, discarded>>
       \/ IndexDone(k) /\ index' = [index EXCEPT ![k.box] = {}]
          /\ UNCHANGED <<list, discarded>>
    /\ UNCHANGED <<chan, up, conn, queued, delivered, overlapped, dropped>>

\* Nothing is left to take: what was found can be written.
Drained(k) == k.pc = "scan" /\ k.senders = {}

-----------------------------------------------------------------------------
(* The handlers FetchInbox and HandleStream around those two operations.    *)

Queued(b) == UNION {Copies(b, list[b][s]) : s \in Sender}

Start(c, q) ==
    /\ conn[c].pc = "idle"
    /\ Set(c, [Idle EXCEPT
                 !.kind = q.kind, !.box = q.box, !.with = q.with,
                 !.pc = IF q.with = NoSender THEN "smembers" ELSE "lrange",
                 !.senders = {q.with} \ {NoSender},
                 !.caller = IF q.with = NoSender THEN "all" ELSE "with",
                 !.start = IF q.with = NoSender THEN Queued(q.box) ELSE {}])
    /\ UNCHANGED <<redis, chan, up, faults, history>>

Deliver(S) ==
    /\ delivered' = delivered \cup S
    /\ UNCHANGED <<queued, overlapped, dropped, discarded>>

\* GET /inbox answers what was drained.
FetchReply(c) ==
    LET k == conn[c] IN
    /\ Drained(k) /\ k.kind = "fetch"
    /\ Deliver(Copies(k.box, k.got))
    /\ Set(c, Idle)
    /\ UNCHANGED <<redis, chan, up, faults>>

\* GET /stream writes what was drained as events, and only then subscribes.
StreamFlush(c) ==
    LET k == conn[c] IN
    /\ Drained(k) /\ k.kind = "stream"
    /\ Deliver(Copies(k.box, k.got))
    /\ Set(c, [k EXCEPT !.pc = "subscribe", !.got = <<>>, !.start = {},
                        !.wrote = ToSet(k.got)])
    /\ UNCHANGED <<redis, chan, up, faults>>

Subscribe(c) ==
    /\ conn[c].pc = "subscribe"
    /\ Set(c, [conn[c] EXCEPT !.pc = "live", !.subscribed = TRUE])
    /\ UNCHANGED <<redis, chan, up, faults, history>>

\* Whether the `with` filter of a stream looks at the sender of a message, and
\* whether it lets the message through, whatever the letter case.
Filtered(c, m) == conn[c].with # NoSender /\ SenderOf[m] # NoSender
Wanted(c, m) == Fold[SenderOf[m]] = Fold[conn[c].with]

Pop(c) == chan' = [chan EXCEPT ![c] = Tail(@)]

LiveWrite(c) ==
    LET k == conn[c]
        m == Head(chan[c])
    IN
    /\ chan[c] # <<>>
    /\ \/ k.pc = "live" /\ ~Filtered(c, m)
       \/ k.pc = "writeLive"
    /\ Pop(c)
    /\ Deliver({[box |-> k.box, msg |-> m]})
    /\ Set(c, [k EXCEPT !.pc = "live", !.wrote = @ \cup {m}])
    /\ UNCHANGED <<redis, up, faults>>

LiveSkip(c) ==
    /\ conn[c].pc = "live" /\ chan[c] # <<>>
    /\ Filtered(c, Head(chan[c]))
    /\ ~Wanted(c, Head(chan[c]))
    /\ Pop(c)
    /\ UNCHANGED <<redis, up, conn, faults, history>>

\* Mutated form: the live message is written and its queued copy stays.
LiveNoClear(c) ==
    /\ conn[c].pc = "live" /\ chan[c] # <<>>
    /\ Filtered(c, Head(chan[c]))
    /\ Wanted(c, Head(chan[c]))
    /\ Set(c, [conn[c] EXCEPT !.pc = "writeLive"])
    /\ UNCHANGED <<redis, chan, up, faults, history>>

\* "Clear from inbox list if it was queued": GetAndClearInbox of the sender as
\* `with` spells it, result unused.
LiveClear(c) ==
    /\ conn[c].pc = "live" /\ chan[c] # <<>>
    /\ Filtered(c, Head(chan[c]))
    /\ Wanted(c, Head(chan[c]))
    /\ Set(c, [conn[c] EXCEPT !.pc = "lrange", !.caller = "live",
                              !.senders = {conn[c].with}])
    /\ UNCHANGED <<redis, chan, up, faults, history>>

\* What a handler took out of Redis and has not written yet.
InHand(c) ==
    LET k == conn[c] IN
    Copies(k.box, k.got) \cup IF k.pc \in {"del", "srem"} /\ k.caller # "live"
                              THEN Copies(k.box, k.snap) ELSE {}

\* The client goes away, or the relay dies.  Of a flush in progress the
\* client may have received the first n events.
Disconnect(c) ==
    LET k == conn[c] IN
    /\ k.pc # "idle"
    /\ Fault
    /\ \E n \in 0 .. (IF Drained(k) /\ k.kind = "stream" THEN Len(k.got) ELSE 0) :
          LET sent == Copies(k.box, SubSeq(k.got, 1, n)) IN
          /\ delivered' = delivered \cup sent
          /\ dropped' = dropped \cup ((InHand(c) \ sent) \ Queued(k.box))
    /\ Set(c, Idle)
    /\ chan' = [chan EXCEPT ![c] = <<>>]
    /\ UNCHANGED <<redis, up, queued, overlapped, discarded>>

-----------------------------------------------------------------------------
\* The set of senders has a TTL of its own, that of the last message of any
\* sender, so it may expire before the lists it names.  (The expiry of the lists
\* is module InboxLifetime.)
IndexExpires(b) ==
    /\ index[b] # {}
    /\ index' = [index EXCEPT ![b] = {}]
    /\ UNCHANGED <<list, chan, up, conn, faults, history>>

\* /admin/clear
FlushServer ==
    /\ Fault
    /\ list' = [b \in Box |-> [s \in Sender |-> <<>>]]
    /\ index' = [b \in Box |-> {}]
    /\ dropped' = dropped \cup UNION {Queued(b) : b \in Box}
    /\ UNCHANGED <<chan, up, conn, queued, delivered, overlapped,
                   discarded>>

-----------------------------------------------------------------------------
Upload(m) ==
    \/ \E b \in Box : PostMessage(m, b)
    \/ PostFails(m)
    \/ RPush(m) \/ SAdd(m) \/ PipelineFails(m) \/ PipelineResent(m)
    \/ Publish(m) \/ PublishFails(m) \/ PublishResent(m)

\* The steps of a GET handler that runs.
Handle(c) ==
    \/ LRange(c) \/ DelList(c) \/ SRem(c)
    \/ SMembers(c) \/ DelIndex(c) \/ Keys(c)
    \/ ScanKey(c) \/ DelKey(c)
    \/ FetchReply(c) \/ StreamFlush(c) \/ Subscribe(c)
    \/ LiveWrite(c) \/ LiveSkip(c) \/ LiveClear(c)

Failure(c) ==
    \/ LRangeFails(c) \/ DelListFails(c) \/ SRemFails(c)
    \/ SMembersFails(c) \/ DelIndexFails(c) \/ KeysFails(c)
    \/ ScanKeyFails(c) \/ DelKeyFails(c)
    \/ ClearResent(c) \/ Disconnect(c)

Arrival(c) == \E q \in Requests : Start(c, q)

Next ==
    \/ \E m \in Msg : Upload(m)
    \/ \E c \in Conn : Arrival(c) \/ Handle(c) \/ Failure(c)
    \/ \E b \in Box : IndexExpires(b)
    \/ FlushServer

Spec == Init /\ [][Next]_vars

\* The recipient asks again and again (every client polls or reconnects), and
\* the relay goes on with a request it has begun.
FairSpec ==
    /\ Spec
    /\ \A c \in Conn : WF_vars(Arrival(c)) /\ WF_vars(Handle(c))

-----------------------------------------------------------------------------
(* Properties.                                                              *)

ConnType ==
    [pc : {"idle", "smembers", "lrange", "del", "srem", "keys", "scan", "kdel",
           "subscribe", "live", "writeLive"},
     kind : {"fetch", "stream"}, box : Box, with : Sender \cup {NoSender},
     caller : {"none", "all", "with", "live"}, senders : SUBSET Sender,
     from : Sender \cup {NoSender}, snap : Seq(Msg), got : Seq(Msg),
     subscribed : BOOLEAN, start : SUBSET Copy, wrote : SUBSET Msg,
     failed : BOOLEAN]

\* Type invariant.
TypeOK ==
    /\ list \in [Box -> [Sender -> Seq(Msg)]]
    /\ index \in [Box -> SUBSET Sender]
    /\ chan \in [Conn -> Seq(Msg)]
    /\ up \in [Msg -> [pc : {"idle", "rpush", "sadd", "publish", "done"},
                       todo : Seq(Box)]]
    /\ conn \in [Conn -> ConnType]
    /\ faults \in 0 .. MaxFaults
    /\ queued \in Seq(Copy)
    /\ delivered \subseteq Copy /\ overlapped \subseteq Copy
    /\ dropped \subseteq Copy /\ discarded \subseteq Copy

\* A copy is still on its way to the recipient.
Pending(x) == x \in Queued(x.box) \/ \E c \in Conn : x \in InHand(c)

\* The only ways to lose a queued copy: it was appended between the LRANGE and
\* the DEL of another handler, the handler that held it was cut off, the
\* operator cleared the relay, or a live `with` stream cleared the list.
\* Ignored errors, the index and the pattern scan lose nothing.
LossOnlyInWindows ==
    \A x \in ToSet(queued) :
        Pending(x) \/ x \in delivered \cup overlapped \cup dropped \cup discarded

\* The inbox is a mailbox that has accidents in those windows only: at no step
\* does a copy go that was not given or at risk, come back by itself, or reach a
\* client without an upload.
Mail == INSTANCE Mailbox WITH
            posted <- {m \in Msg : up[m].pc # "idle"},
            waiting <- UNION ({Queued(b) : b \in Box} \cup {InHand(c) : c \in Conn}),
            given <- delivered,
            lost <- overlapped \cup dropped \cup discarded

MailboxSpec == Mail!Spec

\* A full drain that met no error leaves none of the messages that were queued
\* when it began, although the index may not name their sender: a concurrent
\* drain removed it, the pipeline broke before SADD, or the index expired.  (A
\* message whose pipeline was resent may have been appended once more since.)
DrainComplete ==
    \A c \in Conn :
        Drained(conn[c]) /\ conn[c].caller = "all" /\ ~conn[c].failed
        => \A x \in conn[c].start \cap Queued(conn[c].box) :
              \E i, j \in DOMAIN queued : i # j /\ queued[i] = x /\ queued[j] = x

Subsequence(s, t) ==
    \E f \in [DOMAIN s -> DOMAIN t] :
        /\ \A i \in DOMAIN s : s[i] = t[f[i]]
        /\ \A i, j \in DOMAIN s : i < j => f[i] < f[j]

\* What one drain returns of a sender is in the order of arrival, each append
\* once, although the pattern scan reads every list a second time.
DrainInOrder ==
    \A c \in Conn, s \in Sender : ~conn[c].failed =>
        Subsequence(
            Keep(conn[c].got, {m \in Msg : SenderOf[m] = s}),
            [i \in DOMAIN queued |-> IF queued[i].box = conn[c].box
                                    THEN queued[i].msg ELSE NoSender])

\* A `with` stream clears what it writes: when uploads are done, streams are
\* quiet and nothing failed, no message of its sender that the stream wrote, from
\* the queue or live, is still queued under the stream's spelling, to be shown
\* again at the next connection.  The fan-out pushes and publishes spelling by
\* spelling, so a stream may see a message before the copy it has to clear exists.
LiveNotRequeued ==
    (/\ faults = 0
     /\ \A m \in Msg : up[m].pc \in {"idle", "done"}
     /\ \A c \in Conn : conn[c].pc \in {"idle", "live"} /\ chan[c] = <<>>)
    => \A c \in Conn : \A m \in conn[c].wrote :
          conn[c].pc = "live" /\ conn[c].with = SenderOf[m]
          => [box |-> conn[c].box, msg |-> m] \notin Queued(conn[c].box)

\* With a recipient that keeps asking and finitely many failures, no message
\* stays queued forever.
QueueDrains ==
    \A b \in Box, m \in Msg :
        ([box |-> b, msg |-> m] \in Queued(b)) ~> ([box |-> b, msg |-> m] \notin Queued(b))
=============================================================================
