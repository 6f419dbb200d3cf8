----------------------------- MODULE InboxProofs -----------------------------
(* Proofs about the inbox and the live streams, for any number of messages, *)
(* senders, spellings, requests and failing commands, and about the life of *)
(* one list, for any messages and lifetimes.                                *)
EXTENDS Inbox, InboxLifetime, FilterProofs, TLAPS

\* A copy is in a Redis list.
InList(x) == \E s \in Sender : \E i \in DOMAIN list[x.box][s] : list[x.box][s][i] = x.msg

\* What a handler with record k holds: InHand, as a function of the record.
Hand(k) ==
    Copies(k.box, k.got) \cup
        IF k.pc \in {"del", "srem"} /\ k.caller # "live" THEN Copies(k.box, k.snap) ELSE {}

-----------------------------------------------------------------------------
(* The inductive invariant.                                                 *)

\* An upload that is under way has a target, and pushes only for a sender.
UploadInv ==
    \A m \in Msg :
        /\ up[m].pc \in {"rpush", "sadd", "publish"} => up[m].todo # <<>>
        /\ up[m].pc \in {"rpush", "sadd"} => SenderOf[m] \in Sender

\* What a handler's program counter says of its locals: who called, for which
\* senders, and that nothing was found before the first list was read.
Locals(k) ==
    /\ k.pc \in {"smembers", "lrange", "del", "srem"} => k.caller # "none"
    /\ k.pc \in {"del", "srem", "kdel"} => k.from \in Sender
    /\ k.got # <<>> => \/ k.pc \in {"keys", "scan", "kdel"}
                       \/ k.pc \in {"lrange", "del", "srem"} /\ k.caller = "all"

\* Nothing is lost while a handler is between reading a list and deleting it:
\* what the list holds the handler has, or it came in between.
Clearing(k) ==
    \/ k.pc = "kdel"
    \/ k.pc = "del" /\ k.caller # "live"

Window(k) ==
    Clearing(k) => \A i \in DOMAIN list[k.box][k.from] :
          [box |-> k.box, msg |-> list[k.box][k.from][i]] \in Hand(k) \cup overlapped

\* Lists hold messages of their sender, and what was queued.
ListInv ==
    \A b \in Box, s \in Sender : \A i \in DOMAIN list[b][s] :
        /\ SenderOf[list[b][s][i]] = s
        /\ [box |-> b, msg |-> list[b][s][i]] \in ToSet(queued)

\* A copy was appended twice.
Twice(x) == \E i, j \in DOMAIN queued : i # j /\ queued[i] = x /\ queued[j] = x

\* A full drain has still to read the list a copy is in.
Ahead(k, x) ==
    \/ k.pc \in {"smembers", "lrange", "del", "srem", "keys"}
    \/ k.pc \in {"scan", "kdel"} /\ SenderOf[x.msg] \in k.senders
    \/ k.pc = "kdel" /\ k.from = SenderOf[x.msg]

\* A full drain that met no error has taken what was queued when it began, but
\* for the lists it has still to read.
StartTaken(k) ==
    \A x \in k.start :
        /\ x.box = k.box /\ x \in ToSet(queued)
        /\ k.caller = "all" /\ ~k.failed => Twice(x) \/ ~InList(x) \/ Ahead(k, x)

IInv ==
    /\ TypeOK
    /\ UploadInv
    /\ ListInv
    /\ \A c \in Conn : Locals(conn[c]) /\ Window(conn[c]) /\ StartTaken(conn[c])
    /\ LossOnlyInWindows

-----------------------------------------------------------------------------
(* Where a copy is.                                                         *)

LEMMA QueuedIsInList ==
  ASSUME TypeOK, NEW x \in Copy
  PROVE  x \in Queued(x.box) <=> InList(x)
  <1>1. x = [box |-> x.box, msg |-> x.msg]
    BY DEF Copy
  <1>2. ASSUME NEW s \in Sender
        PROVE  x \in Copies(x.box, list[x.box][s])
                 <=> \E i \in DOMAIN list[x.box][s] : list[x.box][s][i] = x.msg
    BY <1>1 DEF Copies
  <1> QED BY <1>2 DEF Queued, InList

\* What LossOnlyInWindows says of one copy.
Safe(x) ==
    \/ InList(x)
    \/ \E c \in Conn : x \in Hand(conn[c])
    \/ x \in delivered \cup overlapped \cup dropped \cup discarded

AllSafe == \A x \in ToSet(queued) : Safe(x)

LEMMA LossIsSafe == TypeOK => (LossOnlyInWindows <=> AllSafe)
  <1> SUFFICES ASSUME TypeOK PROVE LossOnlyInWindows <=> AllSafe
    OBVIOUS
  <1>1. ToSet(queued) \subseteq Copy
    BY DEF TypeOK, ToSet
  <1>2. ASSUME NEW x \in Copy
        PROVE  Pending(x) <=> InList(x) \/ \E c \in Conn : x \in Hand(conn[c])
    BY <1>2, QueuedIsInList DEF Pending, InHand, Hand
  <1> QED BY <1>1, <1>2 DEF LossOnlyInWindows, Safe, AllSafe

LEMMA InitIInv == Init => IInv
  <1> SUFFICES ASSUME Init PROVE IInv
    OBVIOUS
  <1>1. (CHOOSE b \in Box : TRUE) \in Box
    BY InboxAssumption
  <1>2. Idle \in ConnType
    BY <1>1 DEF Idle, ConnType
  <1>3. TypeOK
    BY <1>2, InboxAssumption DEF Init, TypeOK
  <1>4. UploadInv /\ ListInv
    BY DEF Init, UploadInv, ListInv
  <1>5. \A c \in Conn : Locals(conn[c]) /\ Window(conn[c]) /\ StartTaken(conn[c])
    BY DEF Init, Idle, Locals, Window, Clearing, StartTaken
  <1>6. LossOnlyInWindows
    BY DEF Init, LossOnlyInWindows, ToSet
  <1> QED BY <1>3, <1>4, <1>5, <1>6 DEF IInv

-----------------------------------------------------------------------------
(* What a step of a handler has to show.                                    *)

\* The handler c goes on with record k.  Lists may be deleted; what goes from the
\* lists and from the handler's hands must be found elsewhere.
LEMMA HandlerStep ==
  ASSUME IInv, NEW c \in Conn, NEW k \in ConnType, conn' = [conn EXCEPT ![c] = k],
         UNCHANGED <<up, queued, overlapped>>,
         index' \in [Box -> SUBSET Sender], chan' \in [Conn -> Seq(Msg)],
         faults' \in 0 .. MaxFaults,
         delivered \subseteq delivered', delivered' \subseteq Copy,
         dropped \subseteq dropped', dropped' \subseteq Copy,
         discarded \subseteq discarded', discarded' \subseteq Copy,
         list' \in [Box -> [Sender -> Seq(Msg)]],
         \A b \in Box, s \in Sender : list'[b][s] \in {list[b][s], <<>>},
         \A x \in Copy : InList(x) => \/ InList(x)'
                                     \/ x \in Hand(k) \cup delivered' \cup overlapped
                                              \cup dropped' \cup discarded',
         \A x \in Copy : x \in Hand(conn[c]) => \/ InList(x)'
                                              \/ x \in Hand(k) \cup delivered'
                                                       \cup dropped',
         Locals(k), Window(k),
         \A x \in k.start :
            /\ x.box = k.box /\ x \in ToSet(queued)
            /\ k.caller = "all" /\ ~k.failed => Twice(x) \/ ~InList(x)' \/ Ahead(k, x)
  PROVE  IInv'
  <1>1. conn \in [Conn -> ConnType] /\ conn' \in [Conn -> ConnType]
        /\ conn'[c] = k /\ \A q \in Conn \ {c} : conn'[q] = conn[q]
    BY DEF IInv, TypeOK
  <1>2. TypeOK'
    BY <1>1 DEF IInv, TypeOK
  <1>3. UploadInv'
    BY DEF IInv, UploadInv
  <1>4. ListInv'
    <2> SUFFICES ASSUME NEW b \in Box, NEW s \in Sender, NEW i \in DOMAIN list'[b][s]
                 PROVE  /\ SenderOf[list'[b][s][i]] = s
                        /\ [box |-> b, msg |-> list'[b][s][i]] \in ToSet(queued')
      BY DEF ListInv
    <2>1. list'[b][s] = list[b][s]
      BY list'[b][s] \in {list[b][s], <<>>}
    <2>2. /\ SenderOf[list[b][s][i]] = s
          /\ [box |-> b, msg |-> list[b][s][i]] \in ToSet(queued)
      BY <2>1 DEF IInv, ListInv
    <2> QED BY <2>1, <2>2
  <1>5. \A x \in Copy : InList(x)' => InList(x)
    <2> SUFFICES ASSUME NEW x \in Copy, InList(x)' PROVE InList(x)
      OBVIOUS
    <2>1. PICK s \in Sender : \E i \in DOMAIN list'[x.box][s] : list'[x.box][s][i] = x.msg
      BY DEF InList
    <2>2. x.box \in Box
      BY DEF Copy
    <2>3. list'[x.box][s] = list[x.box][s]
      BY <2>1, <2>2, list'[x.box][s] \in {list[x.box][s], <<>>}
    <2> QED BY <2>1, <2>3 DEF InList
  <1>6. ASSUME NEW q \in Conn PROVE Locals(conn'[q])
    BY <1>1 DEF IInv
  <1>7. ASSUME NEW q \in Conn PROVE Window(conn[q])'
    <2>1. Window(conn'[q]) /\ Locals(conn'[q]) /\ conn'[q] \in ConnType
      BY <1>1, <1>6 DEF IInv
    <2>2. ASSUME NEW b \in Box, NEW s \in Sender, NEW i \in DOMAIN list'[b][s]
          PROVE  i \in DOMAIN list[b][s] /\ list'[b][s][i] = list[b][s][i]
      BY list'[b][s] \in {list[b][s], <<>>}
    <2>3. conn'[q].pc \in {"del", "kdel"} => conn'[q].box \in Box /\ conn'[q].from \in Sender
      BY <2>1 DEF Locals, ConnType
    <2>4. Hand(conn[q])' = Hand(conn'[q])
      BY DEF Hand, Copies
    <2>5. ASSUME Clearing(conn'[q]),
                 NEW i \in DOMAIN list'[conn'[q].box][conn'[q].from]
          PROVE  [box |-> conn'[q].box, msg |-> list'[conn'[q].box][conn'[q].from][i]]
                    \in Hand(conn'[q]) \cup overlapped
      <3>1. conn'[q].box \in Box /\ conn'[q].from \in Sender
        BY <2>3, <2>5 DEF Clearing
      <3>2. /\ i \in DOMAIN list[conn'[q].box][conn'[q].from]
            /\ list'[conn'[q].box][conn'[q].from][i] = list[conn'[q].box][conn'[q].from][i]
        BY <2>2, <3>1
      <3> QED BY <2>1, <2>5, <3>2 DEF Window
    <2>6. overlapped' = overlapped
      OBVIOUS
    <2> QED
      <3> SUFFICES ASSUME Clearing(conn'[q]),
                          NEW i \in DOMAIN list'[conn'[q].box][conn'[q].from]
                   PROVE  [box |-> conn'[q].box, msg |-> list'[conn'[q].box][conn'[q].from][i]]
                             \in Hand(conn[q])' \cup overlapped'
        BY DEF Window, Clearing
      <3> QED BY <2>4, <2>5, <2>6
  <1>8. ASSUME NEW q \in Conn PROVE StartTaken(conn[q])'
    <2>1. Twice(queued)' = Twice(queued)
      BY DEF Twice
    <2>2. CASE q = c
      BY <1>1, <2>2 DEF StartTaken, Twice, Ahead
    <2>3. CASE q # c
      <3>1. StartTaken(conn[q]) /\ conn[q].start \subseteq Copy /\ conn'[q] = conn[q]
        BY <1>1, <2>3 DEF IInv, ConnType
      <3> QED BY <3>1, <1>5 DEF StartTaken, Twice, Ahead
    <2> QED BY <2>2, <2>3
  <1>9. LossOnlyInWindows'
    <2>1. ASSUME NEW x \in ToSet(queued) PROVE Safe(x)'
      <3>1. x \in Copy
        BY DEF IInv, TypeOK, ToSet
      <3>2. Safe(x)
        BY LossIsSafe DEF IInv, AllSafe
      <3>3. ASSUME NEW q \in Conn \ {c}, x \in Hand(conn[q]) PROVE x \in Hand(conn[q])'
        BY <1>1, <3>3 DEF Hand
      <3>4. x \in Hand(k) => x \in Hand(conn[c])'
        BY <1>1 DEF Hand
      <3> QED BY <3>1, <3>2, <3>3, <3>4 DEF Safe
    <2>2. AllSafe'
      BY <2>1 DEF AllSafe
    <2> QED BY <1>2, <2>2, LossIsSafe, PTL
  <1> QED BY <1>2, <1>3, <1>4, <1>6, <1>7, <1>8, <1>9 DEF IInv, Locals

\* A handler goes on and leaves the lists alone: it may learn, and forgets nothing.
LEMMA QuietStep ==
  ASSUME IInv, NEW c \in Conn, NEW k \in ConnType, conn' = [conn EXCEPT ![c] = k],
         UNCHANGED <<list, up, chan, history>>,
         index' \in [Box -> SUBSET Sender], faults' \in 0 .. MaxFaults,
         Hand(conn[c]) \subseteq Hand(k), Locals(k), Window(k), StartTaken(k)
  PROVE  IInv'
  <1>1. /\ chan' \in [Conn -> Seq(Msg)] /\ list' \in [Box -> [Sender -> Seq(Msg)]]
        /\ delivered' \subseteq Copy /\ dropped' \subseteq Copy /\ discarded' \subseteq Copy
    BY DEF IInv, TypeOK, history
  <1>2. \A x \in Copy : InList(x)' = InList(x)
    BY DEF InList
  <1>3. \A x \in k.start :
            /\ x.box = k.box /\ x \in ToSet(queued)
            /\ k.caller = "all" /\ ~k.failed => Twice(x) \/ ~InList(x)' \/ Ahead(k, x)
    BY DEF StartTaken, InList
  <1>4. /\ UNCHANGED <<up, queued, overlapped>> /\ UNCHANGED <<delivered, dropped, discarded>>
        /\ \A b \in Box, s \in Sender : list'[b][s] \in {list[b][s], <<>>}
    BY DEF history
  <1> QED BY <1>1, <1>2, <1>3, <1>4, HandlerStep

\* A sequence that grows: the copies of both parts.
LEMMA CopiesOfConcat ==
  ASSUME NEW b, NEW s \in Seq(Msg), NEW t \in Seq(Msg)
  PROVE  Copies(b, s \o t) = Copies(b, s) \cup Copies(b, t)
  <1>1. \A i \in DOMAIN s : i \in DOMAIN (s \o t) /\ (s \o t)[i] = s[i]
    OBVIOUS
  <1>2. \A i \in DOMAIN t : Len(s) + i \in DOMAIN (s \o t) /\ (s \o t)[Len(s) + i] = t[i]
    OBVIOUS
  <1>3. \A i \in DOMAIN (s \o t) :
          \/ i \in DOMAIN s /\ (s \o t)[i] = s[i]
          \/ i - Len(s) \in DOMAIN t /\ (s \o t)[i] = t[i - Len(s)]
    OBVIOUS
  <1> QED BY <1>1, <1>2, <1>3 DEF Copies

\* What holds of the handler that takes a step.
LEMMA Handler ==
  ASSUME IInv, NEW c \in Conn
  PROVE  /\ conn \in [Conn -> ConnType] /\ conn[c] \in ConnType
         /\ Locals(conn[c]) /\ Window(conn[c]) /\ StartTaken(conn[c])
         /\ list \in [Box -> [Sender -> Seq(Msg)]]
         /\ index \in [Box -> SUBSET Sender]
         /\ faults \in 0 .. MaxFaults
         /\ Fault => faults' \in 0 .. MaxFaults
         /\ Idle \in ConnType /\ Locals(Idle) /\ Window(Idle) /\ StartTaken(Idle)
  <1>1. (CHOOSE b \in Box : TRUE) \in Box
    BY InboxAssumption
  <1>2. Idle \in ConnType /\ Locals(Idle) /\ Window(Idle) /\ StartTaken(Idle)
    BY <1>1 DEF Idle, ConnType, Locals, Window, Clearing, StartTaken
  <1>3. Fault => faults' \in 0 .. MaxFaults
    BY InboxAssumption DEF Fault, IInv, TypeOK
  <1> QED BY <1>2, <1>3 DEF IInv, TypeOK

\* The list a copy is in is that of its sender.
LEMMA InListOfSender ==
  ASSUME IInv, NEW x, x.box \in Box, InList(x)
  PROVE  SenderOf[x.msg] \in Sender /\ list[x.box][SenderOf[x.msg]] # <<>>
  <1>1. PICK s \in Sender : \E i \in DOMAIN list[x.box][s] : list[x.box][s][i] = x.msg
    BY DEF InList
  <1>2. PICK i \in DOMAIN list[x.box][s] : list[x.box][s][i] = x.msg
    BY <1>1
  <1>3. SenderOf[list[x.box][s][i]] = s
    BY DEF IInv, ListInv
  <1> QED BY <1>2, <1>3

-----------------------------------------------------------------------------
(* The steps that leave the lists alone.                                    *)

LEMMA LRangeStep ==
  ASSUME IInv, NEW c \in Conn, LRange(c) \/ LRangeFails(c)
  PROVE  IInv'
  <1> DEFINE k == conn[c]
  <1>1. /\ k \in ConnType /\ Locals(k) /\ Window(k) /\ StartTaken(k) /\ k.pc = "lrange"
        /\ index' \in [Box -> SUBSET Sender] /\ faults' \in 0 .. MaxFaults
        /\ UNCHANGED <<list, up, chan, history>>
    BY Handler DEF LRange, LRangeFails, redis
  <1>2. k.caller \in {"all", "with", "live"} /\ (k.got # <<>> => k.caller = "all")
        /\ k.box \in Box /\ k.senders \subseteq Sender
    BY <1>1 DEF Locals, ConnType
  <1>3. ASSUME LRange(c) PROVE IInv'
    <2>1. PICK s \in k.senders :
            conn' = [conn EXCEPT ![c] =
              IF list[k.box][s] # <<>>
              THEN [k EXCEPT !.pc = "del", !.from = s, !.snap = list[k.box][s]]
              ELSE [k EXCEPT !.pc = After(k.caller), !.senders = @ \ {s}]]
      BY <1>3 DEF LRange, Set
    <2>2. CASE list[k.box][s] # <<>>
      <3> DEFINE r == [k EXCEPT !.pc = "del", !.from = s, !.snap = list[k.box][s]]
      <3>1. conn' = [conn EXCEPT ![c] = r]
        BY <2>1, <2>2
      <3>2. r \in ConnType
        <4>1. list[k.box][s] \in Seq(Msg)
          BY <1>2, Handler
        <4> QED BY <1>1, <1>2, <4>1 DEF ConnType
      <3>3. Locals(r) /\ Window(r) /\ Hand(k) \subseteq Hand(r)
        BY <1>1, <1>2 DEF Locals, Window, Clearing, Hand, Copies, ConnType
      <3>4. StartTaken(r)
        BY <1>1 DEF StartTaken, Ahead, ConnType
      <3> HIDE DEF r
      <3> QED BY <1>1, <3>1, <3>2, <3>3, <3>4, QuietStep
    <2>3. CASE list[k.box][s] = <<>>
      <3> DEFINE r == [k EXCEPT !.pc = After(k.caller), !.senders = @ \ {s}]
      <3>1. conn' = [conn EXCEPT ![c] = r]
        BY <2>1, <2>3
      <3>2. r \in ConnType
        BY <1>1, <1>2 DEF ConnType, After
      <3>3. Locals(r) /\ Window(r) /\ Hand(k) \subseteq Hand(r)
        BY <1>1, <1>2 DEF Locals, Window, Clearing, Hand, ConnType, After
      <3>4. StartTaken(r)
        BY <1>1, <1>2 DEF StartTaken, Ahead, After, ConnType
      <3> HIDE DEF r
      <3> QED BY <1>1, <3>1, <3>2, <3>3, <3>4, QuietStep
    <2> QED BY <2>2, <2>3
  <1>4. ASSUME LRangeFails(c) PROVE IInv'
    <2>1. PICK s \in k.senders :
            conn' = [conn EXCEPT ![c] =
              IF k.caller = "with" /\ k.kind = "fetch" THEN Idle
              ELSE [k EXCEPT !.pc = After(k.caller), !.failed = TRUE, !.senders = @ \ {s}]]
      BY <1>4 DEF LRangeFails, Set
    <2>2. CASE k.caller = "with" /\ k.kind = "fetch"
      <3>1. Hand(k) = {}
        BY <1>1, <1>2, <2>2 DEF Hand, Copies
      <3> QED BY <1>1, <2>1, <2>2, <3>1, Handler, QuietStep
    <2>3. CASE ~(k.caller = "with" /\ k.kind = "fetch")
      <3> DEFINE r == [k EXCEPT !.pc = After(k.caller), !.failed = TRUE, !.senders = @ \ {s}]
      <3>1. conn' = [conn EXCEPT ![c] = r]
        BY <2>1, <2>3
      <3>2. r \in ConnType
        BY <1>1, <1>2 DEF ConnType, After
      <3>3. Locals(r) /\ Window(r) /\ Hand(k) \subseteq Hand(r)
        BY <1>1, <1>2 DEF Locals, Window, Clearing, Hand, ConnType, After
      <3>4. StartTaken(r)
        BY <1>1, <1>2 DEF StartTaken, ConnType
      <3> HIDE DEF r
      <3> QED BY <1>1, <3>1, <3>2, <3>3, <3>4, QuietStep
    <2> QED BY <2>2, <2>3
  <1> QED BY <1>3, <1>4

LEMMA SRemStep ==
  ASSUME IInv, NEW c \in Conn, SRem(c) \/ SRemFails(c)
  PROVE  IInv'
  <1> DEFINE k == conn[c]
             r == [k EXCEPT !.pc = After(k.caller), !.senders = @ \ {k.from},
                            !.got = IF k.caller = "live" THEN @ ELSE @ \o k.snap,
                            !.from = NoSender, !.snap = <<>>]
  <1>1. /\ k \in ConnType /\ Locals(k) /\ StartTaken(k) /\ k.pc = "srem"
        /\ faults' \in 0 .. MaxFaults /\ UNCHANGED <<list, up, chan, history>>
        /\ conn' = [conn EXCEPT ![c] = r]
    BY Handler DEF SRem, SRemFails, Return, Set, redis
  <1>2. index' \in [Box -> SUBSET Sender]
    BY Handler DEF SRem, SRemFails, redis
  <1>3. /\ k.caller \in {"all", "with", "live"} /\ (k.got # <<>> => k.caller = "all")
        /\ k.got \in Seq(Msg) /\ k.snap \in Seq(Msg) /\ k.got \o k.snap \in Seq(Msg)
    BY <1>1 DEF Locals, ConnType
  <1>4. r \in ConnType
    <2>1. /\ After(k.caller) \in {"lrange", "scan", "writeLive"}
          /\ (IF k.caller = "live" THEN k.got ELSE k.got \o k.snap) \in Seq(Msg)
          /\ k.senders \ {k.from} \in SUBSET Sender
      BY <1>1, <1>3 DEF ConnType, After
    <2>2. ASSUME NEW a \in {"lrange", "scan", "writeLive"}, NEW S \in SUBSET Sender,
                 NEW g \in Seq(Msg)
          PROVE  [k EXCEPT !.pc = a, !.senders = S, !.got = g,
                           !.from = NoSender, !.snap = <<>>] \in ConnType
      <3>1. <<>> \in Seq(Msg) /\ NoSender \in Sender \cup {NoSender} /\ k \in ConnType
        BY <1>1
      <3> HIDE DEF r, k
      <3> QED BY <3>1 DEF ConnType
    <2> QED BY <2>1, <2>2
  <1>5. Locals(r) /\ Window(r)
    BY <1>1, <1>3 DEF Locals, Window, Clearing, ConnType, After
  <1>6. StartTaken(r)
    BY <1>1, <1>3 DEF StartTaken, Ahead, After, ConnType
  <1>7. Hand(k) \subseteq Hand(r)
    <2>1. r.box = k.box /\ r.got = (IF k.caller = "live" THEN k.got ELSE k.got \o k.snap)
      BY <1>1 DEF ConnType
    <2>2. Copies(k.box, k.got \o k.snap) = Copies(k.box, k.got) \cup Copies(k.box, k.snap)
      BY <1>3, CopiesOfConcat
    <2> QED BY <1>1, <2>1, <2>2 DEF Hand
  <1> HIDE DEF r
  <1> QED BY <1>1, <1>2, <1>4, <1>5, <1>6, <1>7, QuietStep

LEMMA SMembersStep ==
  ASSUME IInv, NEW c \in Conn, SMembers(c) \/ SMembersFails(c)
  PROVE  IInv'
  <1> DEFINE k == conn[c]
  <1>1. /\ k \in ConnType /\ Locals(k) /\ StartTaken(k) /\ k.pc = "smembers"
        /\ index' \in [Box -> SUBSET Sender] /\ faults' \in 0 .. MaxFaults
        /\ UNCHANGED <<list, up, chan, history>> /\ index[k.box] \subseteq Sender
    BY Handler DEF SMembers, SMembersFails, redis, ConnType
  <1>2. k.got = <<>> /\ Hand(k) = {}
    BY <1>1 DEF Locals, Hand, Copies
  <1>3. CASE SMembers(c)
    <2> DEFINE r == [k EXCEPT !.pc = "lrange", !.senders = index[k.box]]
    <2>1. conn' = [conn EXCEPT ![c] = r] /\ r \in ConnType
      BY <1>1, <1>3 DEF SMembers, Set, ConnType
    <2>2. Locals(r) /\ Window(r) /\ StartTaken(r)
      BY <1>1, <1>2 DEF Locals, Window, Clearing, StartTaken, Ahead, ConnType
    <2> HIDE DEF r
    <2> QED BY <1>1, <1>2, <2>1, <2>2, QuietStep
  <1>4. CASE SMembersFails(c) /\ k.kind = "fetch"
    BY <1>1, <1>2, <1>4, Handler, QuietStep DEF SMembersFails, Set
  <1>5. CASE SMembersFails(c) /\ k.kind # "fetch"
    <2> DEFINE r == [k EXCEPT !.pc = "scan", !.failed = TRUE]
    <2>1. conn' = [conn EXCEPT ![c] = r] /\ r \in ConnType
      BY <1>1, <1>5 DEF SMembersFails, Set, ConnType
    <2>2. Locals(r) /\ Window(r) /\ StartTaken(r)
      BY <1>1, <1>2 DEF Locals, Window, Clearing, StartTaken, ConnType
    <2> HIDE DEF r
    <2> QED BY <1>1, <1>2, <2>1, <2>2, QuietStep
  <1> QED BY <1>3, <1>4, <1>5 DEF SMembers, SMembersFails

LEMMA DelIndexStep ==
  ASSUME IInv, NEW c \in Conn, DelIndex(c) \/ DelIndexFails(c)
  PROVE  IInv'
  <1> DEFINE k == conn[c]
             r == [k EXCEPT !.pc = "keys"]
  <1>1. /\ k \in ConnType /\ Locals(k) /\ StartTaken(k) /\ k.pc = "lrange"
        /\ index' \in [Box -> SUBSET Sender] /\ faults' \in 0 .. MaxFaults
        /\ UNCHANGED <<list, up, chan, history>> /\ conn' = [conn EXCEPT ![c] = r]
    BY Handler DEF DelIndex, DelIndexFails, IndexDone, Set, redis
  <1>2. r \in ConnType /\ Locals(r) /\ Window(r) /\ StartTaken(r)
    BY <1>1 DEF Locals, Window, Clearing, StartTaken, Ahead, ConnType
  <1>3. Hand(k) \subseteq Hand(r)
    BY <1>1 DEF Hand, ConnType
  <1> HIDE DEF r
  <1> QED BY <1>1, <1>2, <1>3, QuietStep

\* The pattern scan names every list that holds something.
LEMMA KeysStep ==
  ASSUME IInv, NEW c \in Conn, Keys(c) \/ KeysFails(c)
  PROVE  IInv'
  <1> DEFINE k == conn[c]
  <1>1. /\ k \in ConnType /\ Locals(k) /\ StartTaken(k) /\ k.pc = "keys"
        /\ index' \in [Box -> SUBSET Sender] /\ faults' \in 0 .. MaxFaults
        /\ UNCHANGED <<list, up, chan, history>>
    BY Handler DEF Keys, KeysFails, redis
  <1>2. CASE Keys(c)
    <2> DEFINE r == [k EXCEPT !.pc = "scan", !.senders = KeysOf(k.box)]
    <2>1. conn' = [conn EXCEPT ![c] = r] /\ r \in ConnType
      BY <1>1, <1>2 DEF Keys, Set, KeysOf, ConnType
    <2>2. Locals(r) /\ Window(r) /\ Hand(k) \subseteq Hand(r)
      BY <1>1 DEF Locals, Window, Clearing, Hand, ConnType
    <2>3. StartTaken(r)
      <3>1. ASSUME NEW x \in k.start, InList(x), x.box = k.box PROVE Ahead(r, x)
        <4>1. k.box \in Box
          BY <1>1 DEF ConnType
        <4>2. SenderOf[x.msg] \in KeysOf(k.box)
          BY <3>1, <4>1, InListOfSender DEF KeysOf
        <4> QED BY <1>1, <4>2 DEF Ahead, ConnType
      <3>2. /\ r.start = k.start /\ r.box = k.box /\ r.caller = k.caller
            /\ r.failed = k.failed
        BY <1>1 DEF ConnType
      <3> HIDE DEF r
      <3> QED BY <1>1, <3>1, <3>2 DEF StartTaken
    <2> HIDE DEF r
    <2> QED BY <1>1, <2>1, <2>2, <2>3, QuietStep
  <1>3. CASE KeysFails(c)
    <2> DEFINE r == [k EXCEPT !.pc = "scan", !.failed = TRUE]
    <2>1. conn' = [conn EXCEPT ![c] = r] /\ r \in ConnType
      BY <1>1, <1>3 DEF KeysFails, Set, ConnType
    <2>2. Locals(r) /\ Window(r) /\ StartTaken(r) /\ Hand(k) \subseteq Hand(r)
      BY <1>1 DEF Locals, Window, Clearing, StartTaken, Hand, ConnType
    <2> HIDE DEF r
    <2> QED BY <1>1, <2>1, <2>2, QuietStep
  <1> QED BY <1>2, <1>3

LEMMA ScanKeyStep ==
  ASSUME IInv, NEW c \in Conn, ScanKey(c)
  PROVE  IInv'
  <1> DEFINE k == conn[c]
  <1>1. /\ k \in ConnType /\ Locals(k) /\ StartTaken(k) /\ k.pc = "scan"
        /\ index' \in [Box -> SUBSET Sender] /\ faults' \in 0 .. MaxFaults
        /\ UNCHANGED <<list, up, chan, history>>
    BY Handler DEF ScanKey, redis
  <1> SUFFICES ASSUME NEW s \in k.senders,
                      conn' = [conn EXCEPT ![c] =
                        [k EXCEPT !.pc = IF list[k.box][s] = <<>> THEN "scan" ELSE "kdel",
                                  !.from = s, !.senders = @ \ {s},
                                  !.got = @ \o list[k.box][s]]]
               PROVE  IInv'
    BY DEF ScanKey, Set
  <1> DEFINE r == [k EXCEPT !.pc = IF list[k.box][s] = <<>> THEN "scan" ELSE "kdel",
                            !.from = s, !.senders = @ \ {s}, !.got = @ \o list[k.box][s]]
  <1>3. /\ s \in Sender /\ k.box \in Box /\ list[k.box][s] \in Seq(Msg)
        /\ k.got \in Seq(Msg) /\ k.got \o list[k.box][s] \in Seq(Msg)
    BY <1>1, Handler DEF ConnType
  <1>4. r \in ConnType
    BY <1>1, <1>3 DEF ConnType
  <1>5. /\ r.start = k.start /\ r.box = k.box /\ r.caller = k.caller /\ r.failed = k.failed
        /\ r.pc = (IF list[k.box][s] = <<>> THEN "scan" ELSE "kdel") /\ r.from = s
        /\ r.senders = k.senders \ {s} /\ r.got = k.got \o list[k.box][s]
    BY <1>1 DEF ConnType
  <1>6. Hand(k) = Copies(k.box, k.got)
        /\ Hand(r) = Copies(k.box, k.got) \cup Copies(k.box, list[k.box][s])
    <2>1. Copies(k.box, r.got) = Copies(k.box, k.got) \cup Copies(k.box, list[k.box][s])
      BY <1>3, <1>5, CopiesOfConcat
    <2> HIDE DEF r
    <2> QED BY <1>1, <1>5, <2>1 DEF Hand
  <1>2. conn' = [conn EXCEPT ![c] = r]
    OBVIOUS
  <1> HIDE DEF r
  <1>7. Locals(r)
    BY <1>3, <1>5 DEF Locals
  <1>8. Window(r)
    BY <1>5, <1>6 DEF Window, Copies
  <1>9. StartTaken(r)
    <2>1. ASSUME NEW x \in k.start, InList(x), x.box = k.box, Ahead(k, x) PROVE Ahead(r, x)
      <3>1. list[k.box][SenderOf[x.msg]] # <<>>
        BY <1>3, <2>1, InListOfSender
      <3>2. SenderOf[x.msg] \in k.senders
        BY <1>1, <2>1 DEF Ahead
      <3> QED BY <1>5, <3>1, <3>2 DEF Ahead
    <2> QED BY <1>1, <1>5, <2>1 DEF StartTaken
  <1> QED BY <1>1, <1>2, <1>4, <1>6, <1>7, <1>8, <1>9, QuietStep

LEMMA ScanFailsStep ==
  ASSUME IInv, NEW c \in Conn, ScanKeyFails(c) \/ DelKeyFails(c) \/ DelListFails(c)
  PROVE  IInv'
  <1> DEFINE k == conn[c]
  <1>1. /\ k \in ConnType /\ Locals(k) /\ StartTaken(k)
        /\ index' \in [Box -> SUBSET Sender] /\ faults' \in 0 .. MaxFaults
        /\ UNCHANGED <<list, up, chan, history>>
    BY Handler DEF ScanKeyFails, DelKeyFails, DelListFails, redis
  <1>2. CASE ScanKeyFails(c)
    <2> SUFFICES ASSUME NEW s \in k.senders,
                        conn' = [conn EXCEPT ![c] =
                                   [k EXCEPT !.senders = @ \ {s}, !.failed = TRUE]]
                 PROVE  IInv'
      BY <1>2 DEF ScanKeyFails, Set
    <2> DEFINE r == [k EXCEPT !.senders = @ \ {s}, !.failed = TRUE]
    <2>1. conn' = [conn EXCEPT ![c] = r]
      OBVIOUS
    <2>2. r \in ConnType /\ k.pc = "scan"
      BY <1>1, <1>2 DEF ScanKeyFails, ConnType
    <2>3. Locals(r) /\ Window(r) /\ StartTaken(r) /\ Hand(k) \subseteq Hand(r)
      BY <1>1, <2>2 DEF Locals, Window, Clearing, StartTaken, Hand, ConnType
    <2> HIDE DEF r
    <2> QED BY <1>1, <2>1, <2>2, <2>3, QuietStep
  <1>3. CASE DelKeyFails(c)
    <2> DEFINE r == [k EXCEPT !.pc = "scan", !.failed = TRUE]
    <2>1. conn' = [conn EXCEPT ![c] = r] /\ r \in ConnType /\ k.pc = "kdel"
      BY <1>1, <1>3 DEF DelKeyFails, Set, ConnType
    <2>2. Locals(r) /\ Window(r) /\ StartTaken(r) /\ Hand(k) \subseteq Hand(r)
      BY <1>1, <2>1 DEF Locals, Window, Clearing, StartTaken, Hand, ConnType
    <2> HIDE DEF r
    <2> QED BY <1>1, <2>1, <2>2, QuietStep
  <1>4. CASE DelListFails(c)
    <2> DEFINE r == [k EXCEPT !.pc = "srem", !.failed = TRUE]
    <2>1. conn' = [conn EXCEPT ![c] = r] /\ r \in ConnType /\ k.pc = "del"
      BY <1>1, <1>4 DEF DelListFails, Set, ConnType
    <2>2. Locals(r) /\ Window(r) /\ StartTaken(r) /\ Hand(k) \subseteq Hand(r)
      BY <1>1, <2>1 DEF Locals, Window, Clearing, StartTaken, Hand, ConnType
    <2> HIDE DEF r
    <2> QED BY <1>1, <2>1, <2>2, QuietStep
  <1> QED BY <1>2, <1>3, <1>4

LEMMA StartStep ==
  ASSUME IInv, NEW c \in Conn, Arrival(c)
  PROVE  IInv'
  <1> SUFFICES ASSUME NEW q \in Requests, Start(c, q) PROVE IInv'
    BY DEF Arrival
  <1> DEFINE k == conn[c]
             r == [Idle EXCEPT
                     !.kind = q.kind, !.box = q.box, !.with = q.with,
                     !.pc = IF q.with = NoSender THEN "smembers" ELSE "lrange",
                     !.senders = {q.with} \ {NoSender},
                     !.caller = IF q.with = NoSender THEN "all" ELSE "with",
                     !.start = IF q.with = NoSender THEN Queued(q.box) ELSE {}]
  <1>1. /\ k \in ConnType /\ Locals(k) /\ k.pc = "idle" /\ conn' = [conn EXCEPT ![c] = r]
        /\ index' \in [Box -> SUBSET Sender] /\ faults' \in 0 .. MaxFaults
        /\ UNCHANGED <<list, up, chan, history>>
    BY Handler DEF Start, Set, redis
  <1>2. Hand(k) = {}
    BY <1>1 DEF Locals, Hand, Copies
  <1>3. /\ q.kind \in {"fetch", "stream"} /\ q.box \in Box
        /\ q.with \in Sender \cup {NoSender}
    BY InboxAssumption
  <1>4. \A x \in Queued(q.box) : x \in Copy /\ x.box = q.box /\ x \in ToSet(queued)
    <2>1. ASSUME NEW s \in Sender, NEW x \in Copies(q.box, list[q.box][s])
          PROVE  x \in Copy /\ x.box = q.box /\ x \in ToSet(queued)
      <3>1. PICK i \in DOMAIN list[q.box][s] : x = [box |-> q.box, msg |-> list[q.box][s][i]]
        BY DEF Copies
      <3>2. x \in ToSet(queued)
        BY <1>3, <3>1 DEF IInv, ListInv
      <3> QED BY <3>1, <3>2 DEF IInv, TypeOK, ToSet
    <2> QED BY <2>1 DEF Queued
  <1>5. r \in ConnType
    <2>1. /\ (IF q.with = NoSender THEN Queued(q.box) ELSE {}) \in SUBSET Copy
          /\ {q.with} \ {NoSender} \in SUBSET Sender
      BY <1>3, <1>4
    <2>2. Idle \in ConnType
      BY Handler
    <2> QED BY <1>3, <2>1, <2>2 DEF ConnType
  <1>6. Locals(r) /\ Window(r)
    BY <1>3 DEF Locals, Window, Clearing, Idle
  <1>7. StartTaken(r)
    BY <1>4 DEF StartTaken, Ahead, Idle
  <1> HIDE DEF r
  <1> QED BY <1>1, <1>2, <1>5, <1>6, <1>7, QuietStep

LEMMA StreamStep ==
  ASSUME IInv, NEW c \in Conn, Subscribe(c) \/ LiveClear(c)
  PROVE  IInv'
  <1> DEFINE k == conn[c]
  <1>1. /\ k \in ConnType /\ Locals(k) /\ StartTaken(k)
        /\ index' \in [Box -> SUBSET Sender] /\ faults' \in 0 .. MaxFaults
        /\ UNCHANGED <<list, up, chan, history>>
    BY Handler DEF Subscribe, LiveClear, redis
  <1>2. k.got = <<>> /\ Hand(k) = {}
    BY <1>1 DEF Subscribe, LiveClear, Locals, Hand, Copies
  <1>3. CASE Subscribe(c)
    <2> DEFINE r == [k EXCEPT !.pc = "live", !.subscribed = TRUE]
    <2>1. conn' = [conn EXCEPT ![c] = r] /\ r \in ConnType
      BY <1>1, <1>3 DEF Subscribe, Set, ConnType
    <2>2. Locals(r) /\ Window(r) /\ StartTaken(r)
      BY <1>1, <1>2, <1>3 DEF Subscribe, Locals, Window, Clearing, StartTaken, Ahead, ConnType
    <2> HIDE DEF r
    <2> QED BY <1>1, <1>2, <2>1, <2>2, QuietStep
  <1>4. CASE LiveClear(c)
    <2> DEFINE r == [k EXCEPT !.pc = "lrange", !.caller = "live", !.senders = {k.with}]
    <2>1. k.with \in Sender
      BY <1>1, <1>4 DEF LiveClear, Filtered, ConnType
    <2>2. conn' = [conn EXCEPT ![c] = r] /\ r \in ConnType
      BY <1>1, <1>4, <2>1 DEF LiveClear, Set, ConnType
    <2>3. Locals(r) /\ Window(r) /\ StartTaken(r)
      BY <1>1, <1>2 DEF Locals, Window, Clearing, StartTaken, ConnType
    <2> HIDE DEF r
    <2> QED BY <1>1, <1>2, <2>2, <2>3, QuietStep
  <1> QED BY <1>3, <1>4

-----------------------------------------------------------------------------
(* The steps that empty a list, and those that write to the client.         *)

\* DEL of list (b, s): what was in it is gone, the rest stays.
LEMMA EmptyEffect ==
  ASSUME IInv, NEW b \in Box, NEW s \in Sender, Empty(b, s)
  PROVE  /\ list' \in [Box -> [Sender -> Seq(Msg)]]
         /\ list'[b][s] = <<>>
         /\ \A a \in Box, t \in Sender : list'[a][t] \in {list[a][t], <<>>}
         /\ \A x \in Copy : InList(x) => InList(x)' \/ x \in Copies(b, list[b][s])
         /\ \A x \in Copy : InList(x)' => InList(x) /\ ~(x.box = b /\ SenderOf[x.msg] = s)
  <1>1. list \in [Box -> [Sender -> Seq(Msg)]]
    BY Handler DEF IInv, TypeOK
  <1>2. /\ list'[b][s] = <<>>
        /\ \A a \in Box, t \in Sender : ~(a = b /\ t = s) => list'[a][t] = list[a][t]
    BY <1>1 DEF Empty
  <1>3. list' \in [Box -> [Sender -> Seq(Msg)]]
    BY <1>1 DEF Empty
  <1>4. \A a \in Box, t \in Sender : list'[a][t] \in {list[a][t], <<>>}
    BY <1>2
  <1>5. ASSUME NEW x \in Copy, InList(x) PROVE InList(x)' \/ x \in Copies(b, list[b][s])
    <2>1. x.box \in Box /\ x = [box |-> x.box, msg |-> x.msg]
      BY DEF Copy
    <2>2. PICK t \in Sender : \E i \in DOMAIN list[x.box][t] : list[x.box][t][i] = x.msg
      BY <1>5 DEF InList
    <2>3. CASE x.box = b /\ t = s
      BY <2>1, <2>2, <2>3 DEF Copies
    <2>4. CASE ~(x.box = b /\ t = s)
      BY <1>2, <2>1, <2>2, <2>4 DEF InList
    <2> QED BY <2>3, <2>4
  <1>6. ASSUME NEW x \in Copy, InList(x)' PROVE InList(x) /\ ~(x.box = b /\ SenderOf[x.msg] = s)
    <2>1. x.box \in Box
      BY DEF Copy
    <2>2. PICK t \in Sender : \E i \in DOMAIN list'[x.box][t] : list'[x.box][t][i] = x.msg
      BY <1>6 DEF InList
    <2>3. ~(x.box = b /\ t = s) /\ list'[x.box][t] = list[x.box][t]
      BY <1>2, <2>1, <2>2
    <2>4. PICK i \in DOMAIN list[x.box][t] : list[x.box][t][i] = x.msg
      BY <2>2, <2>3
    <2>5. SenderOf[x.msg] = t
      <3>1. SenderOf[list[x.box][t][i]] = t
        BY <2>1 DEF IInv, ListInv
      <3> QED BY <2>4, <3>1
    <2> QED BY <2>3, <2>4, <2>5 DEF InList
  <1> QED BY <1>2, <1>3, <1>4, <1>5, <1>6

\* The copies of a list of the relay, and what a handler holds, are copies.
LEMMA CopiesType ==
  ASSUME NEW b \in Box, NEW s \in Seq(Msg)
  PROVE  Copies(b, s) \subseteq Copy
  BY DEF Copies, Copy

LEMMA DelListStep ==
  ASSUME IInv, NEW c \in Conn, DelList(c)
  PROVE  IInv'
  <1> DEFINE k == conn[c]
             r == [k EXCEPT !.pc = "srem"]
  <1>1. /\ k \in ConnType /\ Locals(k) /\ Window(k) /\ StartTaken(k) /\ k.pc = "del"
        /\ index' \in [Box -> SUBSET Sender] /\ faults' \in 0 .. MaxFaults
        /\ chan' \in [Conn -> Seq(Msg)] /\ conn' = [conn EXCEPT ![c] = r]
        /\ UNCHANGED <<up, queued, overlapped, delivered, dropped>>
    BY Handler DEF DelList, Set, IInv, TypeOK
  <1>2. k.box \in Box /\ k.from \in Sender /\ Empty(k.box, k.from)
    BY <1>1 DEF Locals, ConnType, DelList, Del
  <1>3. r \in ConnType /\ Locals(r) /\ Window(r) /\ Hand(r) = Hand(k)
    BY <1>1 DEF ConnType, Locals, Window, Clearing, Hand
  <1>4. discarded' = IF k.caller = "live"
                     THEN discarded \cup Copies(k.box, list[k.box][k.from])
                     ELSE discarded
    BY DEF DelList, Del
  <1>5. /\ discarded \subseteq discarded' /\ discarded' \subseteq Copy
        /\ delivered' \subseteq Copy /\ dropped' \subseteq Copy
    <2>1. list[k.box][k.from] \in Seq(Msg) /\ discarded \subseteq Copy
          /\ delivered' \subseteq Copy /\ dropped' \subseteq Copy
      BY <1>1, <1>2 DEF IInv, TypeOK
    <2> QED BY <1>2, <1>4, <2>1, CopiesType
  <1>6. Copies(k.box, list[k.box][k.from]) \subseteq Hand(r) \cup overlapped \cup discarded'
    <2>1. CASE k.caller = "live"
      BY <1>4, <2>1
    <2>2. CASE k.caller # "live"
      BY <1>1, <1>3, <2>2 DEF Window, Clearing, Copies
    <2> QED BY <2>1, <2>2
  <1>7. \A x \in r.start :
          /\ x.box = r.box /\ x \in ToSet(queued)
          /\ r.caller = "all" /\ ~r.failed => Twice(x) \/ ~InList(x)' \/ Ahead(r, x)
    BY <1>1 DEF StartTaken, Ahead, ConnType
  <1> HIDE DEF r
  <1> QED BY <1>1, <1>2, <1>3, <1>5, <1>6, <1>7, EmptyEffect, HandlerStep

LEMMA DelKeyStep ==
  ASSUME IInv, NEW c \in Conn, DelKey(c)
  PROVE  IInv'
  <1> DEFINE k == conn[c]
             r == [k EXCEPT !.pc = "scan"]
  <1>1. /\ k \in ConnType /\ Locals(k) /\ Window(k) /\ StartTaken(k) /\ k.pc = "kdel"
        /\ index' \in [Box -> SUBSET Sender] /\ faults' \in 0 .. MaxFaults
        /\ chan' \in [Conn -> Seq(Msg)] /\ conn' = [conn EXCEPT ![c] = r]
        /\ UNCHANGED <<up, history>>
    BY Handler DEF DelKey, Set, IInv, TypeOK
  <1>2. k.box \in Box /\ k.from \in Sender /\ Empty(k.box, k.from)
    BY <1>1 DEF Locals, ConnType, DelKey
  <1>3. r \in ConnType /\ Locals(r) /\ Window(r) /\ Hand(r) = Hand(k)
    BY <1>1 DEF ConnType, Locals, Window, Clearing, Hand
  <1>4. /\ UNCHANGED <<queued, overlapped, delivered, dropped, discarded>>
        /\ discarded' \subseteq Copy /\ delivered' \subseteq Copy /\ dropped' \subseteq Copy
    BY <1>1 DEF history, IInv, TypeOK
  <1>5. Copies(k.box, list[k.box][k.from]) \subseteq Hand(r) \cup overlapped
    <2>1. \A i \in DOMAIN list[k.box][k.from] :
            [box |-> k.box, msg |-> list[k.box][k.from][i]] \in Hand(k) \cup overlapped
      <3>1. Window(k) /\ Clearing(k)
        BY <1>1 DEF Clearing
      <3> QED BY <3>1 DEF Window
    <2> HIDE DEF r
    <2> QED BY <1>3, <2>1 DEF Copies
  <1>6. \A x \in r.start :
          /\ x.box = r.box /\ x \in ToSet(queued)
          /\ r.caller = "all" /\ ~r.failed => Twice(x) \/ ~InList(x)' \/ Ahead(r, x)
    <2>1. /\ r.start = k.start /\ r.box = k.box /\ r.caller = k.caller
          /\ r.failed = k.failed /\ r.pc = "scan" /\ r.senders = k.senders
          /\ k.start \subseteq Copy
      BY <1>1 DEF ConnType
    <2>2. \A x \in k.start : InList(x)' =>
            InList(x) /\ ~(x.box = k.box /\ SenderOf[x.msg] = k.from)
      BY <1>2, <2>1, EmptyEffect
    <2> HIDE DEF r
    <2> QED BY <1>1, <2>1, <2>2 DEF StartTaken, Ahead
  <1> HIDE DEF r
  <1> QED BY <1>1, <1>2, <1>3, <1>4, <1>5, <1>6, EmptyEffect, HandlerStep

LEMMA ClearResentStep ==
  ASSUME IInv, NEW c \in Conn, ClearResent(c)
  PROVE  IInv'
  <1> DEFINE k == conn[c]
  <1>1. /\ k \in ConnType /\ Locals(k) /\ Window(k) /\ StartTaken(k)
        /\ faults' \in 0 .. MaxFaults /\ chan' \in [Conn -> Seq(Msg)]
        /\ conn' = [conn EXCEPT ![c] = k]
        /\ UNCHANGED <<up, queued, overlapped, delivered, dropped>>
    BY Handler DEF ClearResent, IInv, TypeOK
  <1>2. /\ delivered' \subseteq Copy /\ dropped' \subseteq Copy /\ discarded \subseteq Copy
        /\ UNCHANGED <<delivered, dropped>>
    BY <1>1 DEF IInv, TypeOK
  <1>3. CASE k.pc \in {"del", "kdel"} /\ Del(k) /\ UNCHANGED index
    <2>1. k.box \in Box /\ k.from \in Sender /\ Empty(k.box, k.from)
      BY <1>1, <1>3 DEF Locals, ConnType, Del
    <2>2. list[k.box][k.from] \in Seq(Msg) /\ index' \in [Box -> SUBSET Sender]
      BY <1>3, <2>1, Handler
    <2>3. discarded' = IF k.caller = "live"
                       THEN discarded \cup Copies(k.box, list[k.box][k.from])
                       ELSE discarded
      BY <1>3 DEF Del
    <2>4. discarded \subseteq discarded' /\ discarded' \subseteq Copy
      BY <1>2, <2>1, <2>2, <2>3, CopiesType
    <2>5. Copies(k.box, list[k.box][k.from]) \subseteq Hand(k) \cup overlapped \cup discarded'
      <3>1. CASE k.caller = "live"
        BY <2>3, <3>1
      <3>2. CASE k.caller # "live"
        <4>1. Window(k) /\ Clearing(k)
          BY <1>1, <1>3, <3>2 DEF Clearing
        <4> QED BY <4>1 DEF Window, Copies
      <3> QED BY <3>1, <3>2
    <2>6. \A x \in k.start :
            /\ x.box = k.box /\ x \in ToSet(queued)
            /\ k.caller = "all" /\ ~k.failed => Twice(x) \/ ~InList(x)' \/ Ahead(k, x)
      <3>1. \A x \in k.start : InList(x)' => InList(x)
        BY <1>1, <2>1, EmptyEffect DEF ConnType
      <3> QED BY <1>1, <3>1 DEF StartTaken
    <2> HIDE DEF k
    <2> QED BY <1>1, <1>2, <2>1, <2>2, <2>4, <2>5, <2>6, EmptyEffect, HandlerStep DEF k
  <1>4. CASE /\ UNCHANGED <<list, discarded>>
             /\ index' \in {[index EXCEPT ![k.box] = @ \ {k.from}],
                            [index EXCEPT ![k.box] = {}]}
    <2>1. index' \in [Box -> SUBSET Sender]
      BY <1>4, Handler
    <2>2. UNCHANGED <<list, up, chan, history>>
      BY <1>1, <1>4 DEF history, ClearResent
    <2> QED BY <1>1, <2>1, <2>2, QuietStep
  <1> QED BY <1>3, <1>4 DEF ClearResent

\* What was drained is written: it moves from the handler to the client.
LEMMA ReplyStep ==
  ASSUME IInv, NEW c \in Conn, FetchReply(c) \/ StreamFlush(c)
  PROVE  IInv'
  <1> DEFINE k == conn[c]
             r == [k EXCEPT !.pc = "subscribe", !.got = <<>>, !.start = {},
                            !.wrote = ToSet(k.got)]
  <1>1. /\ k \in ConnType /\ k.pc = "scan"
        /\ delivered' = delivered \cup Copies(k.box, k.got)
        /\ UNCHANGED <<redis, up, chan, faults, queued, overlapped, dropped, discarded>>
    BY Handler DEF FetchReply, StreamFlush, Deliver, Drained
  <1>2. /\ index' \in [Box -> SUBSET Sender] /\ faults' \in 0 .. MaxFaults
        /\ chan' \in [Conn -> Seq(Msg)] /\ list' \in [Box -> [Sender -> Seq(Msg)]]
        /\ \A b \in Box, s \in Sender : list'[b][s] \in {list[b][s], <<>>}
        /\ UNCHANGED <<up, queued, overlapped>>
        /\ dropped' \subseteq Copy /\ discarded' \subseteq Copy
        /\ dropped \subseteq dropped' /\ discarded \subseteq discarded'
    BY <1>1 DEF IInv, TypeOK, redis
  <1>3. delivered \subseteq delivered' /\ delivered' \subseteq Copy
    BY <1>1, CopiesType DEF IInv, TypeOK, ConnType
  <1>4. Hand(k) \subseteq delivered'
    BY <1>1 DEF Hand
  <1>5. \A x \in Copy : InList(x)' = InList(x)
    BY <1>1 DEF InList, redis
  <1>6. ASSUME NEW q \in ConnType, conn' = [conn EXCEPT ![c] = q],
               Locals(q), Window(q), q.start = {}
        PROVE  IInv'
    BY <1>2, <1>3, <1>4, <1>5, <1>6, HandlerStep
  <1>7. CASE FetchReply(c)
    <2>1. conn' = [conn EXCEPT ![c] = Idle] /\ Idle.start = {}
      BY <1>7 DEF FetchReply, Set, Idle
    <2> QED BY <1>6, <2>1, Handler
  <1>8. CASE StreamFlush(c)
    <2>1. conn' = [conn EXCEPT ![c] = r]
      BY <1>8 DEF StreamFlush, Set
    <2>2. r \in ConnType
      <3>1. ToSet(k.got) \in SUBSET Msg /\ <<>> \in Seq(Msg)
        BY <1>1 DEF ConnType, ToSet
      <3> QED BY <1>1, <3>1 DEF ConnType
    <2>3. Locals(r) /\ Window(r) /\ r.start = {}
      BY <1>1 DEF Locals, Window, Clearing, ConnType
    <2> HIDE DEF r
    <2> QED BY <1>6, <2>1, <2>2, <2>3
  <1> QED BY <1>7, <1>8

\* A live message is written, or skipped.
LEMMA LiveStep ==
  ASSUME IInv, NEW c \in Conn, LiveWrite(c) \/ LiveSkip(c)
  PROVE  IInv'
  <1> DEFINE k == conn[c]
             m == Head(chan[c])
  <1>1. /\ k \in ConnType /\ Locals(k) /\ Window(k) /\ StartTaken(k)
        /\ k.pc \in {"live", "writeLive"} /\ chan[c] \in Seq(Msg) /\ chan[c] # <<>>
        /\ UNCHANGED <<redis, up, faults, queued, overlapped, dropped, discarded>>
    BY Handler DEF LiveWrite, LiveSkip, Deliver, history, IInv, TypeOK
  <1>2. m \in Msg /\ Tail(chan[c]) \in Seq(Msg) /\ k.box \in Box
    BY <1>1 DEF ConnType
  <1>3. chan' \in [Conn -> Seq(Msg)]
    BY <1>2 DEF LiveWrite, LiveSkip, Pop, IInv, TypeOK
  <1>4. /\ index' \in [Box -> SUBSET Sender] /\ faults' \in 0 .. MaxFaults
        /\ list' \in [Box -> [Sender -> Seq(Msg)]]
        /\ \A b \in Box, s \in Sender : list'[b][s] \in {list[b][s], <<>>}
        /\ UNCHANGED <<up, queued, overlapped>>
        /\ dropped' \subseteq Copy /\ discarded' \subseteq Copy
        /\ dropped \subseteq dropped' /\ discarded \subseteq discarded'
    BY <1>1 DEF IInv, TypeOK, redis
  <1>5. delivered \subseteq delivered' /\ delivered' \subseteq Copy
    <2>1. [box |-> k.box, msg |-> m] \in Copy /\ delivered \subseteq Copy
      BY <1>2 DEF Copy, IInv, TypeOK
    <2> QED BY <2>1 DEF LiveWrite, LiveSkip, Deliver, history
  <1>6. Hand(k) = {}
    BY <1>1 DEF Locals, Hand, Copies
  <1>7. \A x \in Copy : InList(x)' = InList(x)
    BY <1>1 DEF InList, redis
  <1>8. ASSUME NEW q \in ConnType, conn' = [conn EXCEPT ![c] = q],
               Locals(q), Window(q), StartTaken(q)
        PROVE  IInv'
    <2>1. \A x \in q.start :
            /\ x.box = q.box /\ x \in ToSet(queued)
            /\ q.caller = "all" /\ ~q.failed => Twice(x) \/ ~InList(x)' \/ Ahead(q, x)
      BY <1>7, <1>8 DEF StartTaken, ConnType
    <2> QED BY <1>3, <1>4, <1>5, <1>6, <1>7, <1>8, <2>1, HandlerStep
  <1>9. CASE LiveWrite(c)
    <2> DEFINE r == [k EXCEPT !.pc = "live", !.wrote = @ \cup {m}]
    <2>1. conn' = [conn EXCEPT ![c] = r]
      BY <1>9 DEF LiveWrite, Set
    <2>2. r \in ConnType
      BY <1>1, <1>2 DEF ConnType
    <2>3. Locals(r) /\ Window(r) /\ StartTaken(r)
      BY <1>1 DEF Locals, Window, Clearing, StartTaken, Ahead, ConnType
    <2> HIDE DEF r
    <2> QED BY <1>8, <2>1, <2>2, <2>3
  <1>10. CASE LiveSkip(c)
    <2>1. conn' = [conn EXCEPT ![c] = k]
      BY <1>10, Handler DEF LiveSkip
    <2> QED BY <1>1, <1>8, <2>1
  <1> QED BY <1>9, <1>10

\* A handler is cut off: what it held the client received, a list still has, or
\* is dropped.
LEMMA DisconnectStep ==
  ASSUME IInv, NEW c \in Conn, Disconnect(c)
  PROVE  IInv'
  <1> DEFINE k == conn[c]
  <1>1. /\ k \in ConnType /\ k.box \in Box /\ k.got \in Seq(Msg) /\ k.snap \in Seq(Msg)
        /\ conn' = [conn EXCEPT ![c] = Idle] /\ faults' \in 0 .. MaxFaults
        /\ UNCHANGED <<list, index, up, queued, overlapped, discarded>>
    BY Handler DEF Disconnect, Set, ConnType, redis
  <1>2. /\ index' \in [Box -> SUBSET Sender] /\ chan' \in [Conn -> Seq(Msg)]
        /\ list' \in [Box -> [Sender -> Seq(Msg)]] /\ discarded' \subseteq Copy
        /\ \A b \in Box, s \in Sender : list'[b][s] \in {list[b][s], <<>>}
    <2>1. chan' = [chan EXCEPT ![c] = <<>>]
      BY DEF Disconnect
    <2> QED BY <1>1, <2>1 DEF IInv, TypeOK
  <1>3. PICK n \in 0 .. (IF Drained(k) /\ k.kind = "stream" THEN Len(k.got) ELSE 0) :
          LET sent == Copies(k.box, SubSeq(k.got, 1, n)) IN
          /\ delivered' = delivered \cup sent
          /\ dropped' = dropped \cup ((InHand(c) \ sent) \ Queued(k.box))
    BY DEF Disconnect
  <1>4. InHand(c) = Hand(k)
    BY DEF InHand, Hand
  <1>5. Hand(k) \subseteq Copy
    BY <1>1, CopiesType DEF Hand
  <1>6. Copies(k.box, SubSeq(k.got, 1, n)) \subseteq Copy
    <2>1. n \in 0 .. Len(k.got)
      BY <1>1
    <2>2. SubSeq(k.got, 1, n) \in Seq(Msg)
      BY <1>1, <2>1
    <2> QED BY <1>1, <2>2, CopiesType
  <1>7. /\ delivered \subseteq delivered' /\ delivered' \subseteq Copy
        /\ dropped \subseteq dropped' /\ dropped' \subseteq Copy
    BY <1>3, <1>4, <1>5, <1>6 DEF IInv, TypeOK
  <1>8. \A x \in Copy : InList(x)' = InList(x)
    BY <1>1 DEF InList
  <1>9. ASSUME NEW x \in Copy, x \in Hand(k) PROVE InList(x)' \/ x \in delivered' \cup dropped'
    <2>1. x.box = k.box
      BY <1>9 DEF Hand, Copies
    <2>2. x \in Queued(k.box) => InList(x)
      BY <2>1, QueuedIsInList DEF IInv
    <2> QED BY <1>3, <1>4, <1>8, <1>9, <2>2
  <1>10. Idle \in ConnType /\ Locals(Idle) /\ Window(Idle) /\ Idle.start = {}
    BY Handler DEF Idle
  <1> HIDE DEF k
  <1> QED BY <1>1, <1>2, <1>7, <1>8, <1>9, <1>10, HandlerStep DEF k

-----------------------------------------------------------------------------
(* The steps of uploads, the index and the operator.                        *)

\* No handler, list or history changes.
LEMMA UploadStep ==
  ASSUME IInv, UNCHANGED <<list, conn, history>>,
         up' \in [Msg -> [pc : {"idle", "rpush", "sadd", "publish", "done"}, todo : Seq(Box)]],
         index' \in [Box -> SUBSET Sender], chan' \in [Conn -> Seq(Msg)],
         faults' \in 0 .. MaxFaults, UploadInv'
  PROVE  IInv'
  <1>1. UNCHANGED <<queued, delivered, overlapped, dropped, discarded>>
    BY DEF history
  <1>2. TypeOK'
    BY <1>1 DEF IInv, TypeOK
  <1>3. ListInv'
    <2>1. ListInv
      BY DEF IInv
    <2> QED BY <1>1, <2>1 DEF ListInv
  <1>4. ASSUME NEW c \in Conn
        PROVE  Locals(conn[c])' /\ Window(conn[c])' /\ StartTaken(conn[c])'
    <2>1. Locals(conn[c]) /\ Window(conn[c]) /\ StartTaken(conn[c])
      BY DEF IInv
    <2>2. conn' = conn /\ list' = list /\ queued' = queued /\ overlapped' = overlapped
      BY <1>1
    <2>3. Locals(conn[c])'
      BY <2>1, <2>2 DEF Locals
    <2>4. Window(conn[c])'
      BY <2>1, <2>2 DEF Window, Clearing, Hand
    <2>5. StartTaken(conn[c])'
      <3>1. \A x : Twice(x)' = Twice(x) /\ InList(x)' = InList(x)
        BY <2>2 DEF Twice, InList
      <3> QED BY <2>1, <2>2, <3>1 DEF StartTaken, Ahead
    <2> QED BY <2>3, <2>4, <2>5
  <1>5. LossOnlyInWindows'
    BY <1>1 DEF IInv, LossOnlyInWindows, Pending, Queued, InHand
  <1> QED BY <1>2, <1>3, <1>4, <1>5 DEF IInv

LEMMA ContinueType ==
  ASSUME IInv, NEW m \in Msg, NEW todo \in Seq(Box), Continue(m, todo)
  PROVE  /\ up' \in [Msg -> [pc : {"idle", "rpush", "sadd", "publish", "done"},
                             todo : Seq(Box)]]
         /\ UploadInv'
  <1>1. up \in [Msg -> [pc : {"idle", "rpush", "sadd", "publish", "done"}, todo : Seq(Box)]]
    BY DEF IInv, TypeOK
  <1>2. SenderOf[m] \in Sender \cup {NoSender}
    BY InboxAssumption
  <1> QED BY <1>1, <1>2 DEF Continue, IInv, UploadInv

\* Steps of one upload but RPUSH.
LEMMA UploadSteps ==
  ASSUME IInv, NEW m \in Msg, Upload(m), ~RPush(m)
  PROVE  IInv'
  <1>1. /\ up \in [Msg -> [pc : {"idle", "rpush", "sadd", "publish", "done"}, todo : Seq(Box)]]
        /\ index \in [Box -> SUBSET Sender] /\ chan \in [Conn -> Seq(Msg)]
        /\ faults \in 0 .. MaxFaults /\ (Fault => faults' \in 0 .. MaxFaults)
        /\ UploadInv
    BY InboxAssumption DEF IInv, TypeOK, Fault
  <1>2. up[m].pc \in {"rpush", "sadd", "publish"} =>
          Head(up[m].todo) \in Box /\ Tail(up[m].todo) \in Seq(Box)
    <2>1. up[m].todo \in Seq(Box)
      BY <1>1
    <2> QED BY <1>1, <2>1 DEF UploadInv
  <1>3. Announce(m) => chan' \in [Conn -> Seq(Msg)]
    BY <1>1 DEF Announce
  <1>4. CASE \E b \in Box : PostMessage(m, b)
    <2> SUFFICES ASSUME NEW b \in Box, PostMessage(m, b) PROVE IInv'
      BY <1>4
    <2>1. Targets[b] \in Seq(Box)
      BY InboxAssumption
    <2> QED BY <1>1, <2>1, ContinueType, UploadStep DEF PostMessage
  <1>5. CASE PostFails(m)
    <2>1. /\ up' \in [Msg -> [pc : {"idle", "rpush", "sadd", "publish", "done"},
                             todo : Seq(Box)]]
          /\ UploadInv'
      BY <1>1, <1>5 DEF PostFails, UploadInv
    <2> QED BY <1>1, <1>5, <2>1, UploadStep DEF PostFails, redis
  <1>6. CASE SAdd(m) \/ PipelineFails(m) \/ PipelineResent(m)
    <2>1. up[m].pc \in {"rpush", "sadd"} /\ UNCHANGED <<list, chan, conn, history>>
      BY <1>6 DEF SAdd, PipelineFails, PipelineResent, redis
    <2>2. \E p \in {"rpush", "publish"} : up' = [up EXCEPT ![m].pc = p]
      BY <1>6 DEF SAdd, PipelineFails, PipelineResent
    <2>3. /\ up' \in [Msg -> [pc : {"idle", "rpush", "sadd", "publish", "done"},
                             todo : Seq(Box)]]
          /\ UploadInv'
      BY <1>1, <2>1, <2>2 DEF UploadInv
    <2>4. faults' \in 0 .. MaxFaults
      BY <1>1, <1>6 DEF SAdd, PipelineFails, PipelineResent
    <2>5. \/ index' = index
          \/ index' = [index EXCEPT ![Head(up[m].todo)] = @ \cup {SenderOf[m]}]
      BY <1>6 DEF SAdd, PipelineFails, PipelineResent, redis
    <2>6. index' \in [Box -> SUBSET Sender]
      BY <1>1, <1>2, <2>1, <2>5 DEF UploadInv
    <2>7. chan' \in [Conn -> Seq(Msg)]
      BY <1>1, <1>6 DEF SAdd, PipelineFails, PipelineResent
    <2> QED BY <2>1, <2>3, <2>4, <2>6, <2>7, UploadStep
  <1>7. CASE Publish(m) \/ PublishFails(m)
    <2>1. /\ up[m].pc = "publish" /\ Continue(m, Tail(up[m].todo))
          /\ UNCHANGED <<list, index, conn, history>>
          /\ chan' \in [Conn -> Seq(Msg)] /\ faults' \in 0 .. MaxFaults
      BY <1>1, <1>3, <1>7 DEF Publish, PublishFails, redis
    <2> QED BY <1>1, <1>2, <2>1, ContinueType, UploadStep
  <1>8. CASE PublishResent(m)
    <2>1. UNCHANGED <<list, index, up, conn, history>> /\ UploadInv'
      BY <1>1, <1>8 DEF PublishResent, redis, UploadInv
    <2> QED BY <1>1, <1>3, <1>8, <2>1, UploadStep DEF PublishResent
  <1> QED BY <1>4, <1>5, <1>6, <1>7, <1>8 DEF Upload

LEMMA IndexExpiresStep ==
  ASSUME IInv, NEW b \in Box, IndexExpires(b)
  PROVE  IInv'
  <1>1. /\ UNCHANGED <<list, chan, up, conn, faults, history>>
        /\ index' \in [Box -> SUBSET Sender] /\ UploadInv'
    BY DEF IndexExpires, IInv, TypeOK, UploadInv
  <1> QED BY <1>1, UploadStep DEF IInv, TypeOK

\* RPUSH: the message is the last of its list and of the history.
LEMMA RPushStep ==
  ASSUME IInv, NEW m \in Msg, RPush(m)
  PROVE  IInv'
  <1>1. up[m].todo # <<>> /\ up[m].todo \in Seq(Box) /\ SenderOf[m] \in Sender
    BY DEF IInv, UploadInv, TypeOK, RPush
  <1>2. Head(up[m].todo) \in Box /\ [box |-> Head(up[m].todo), msg |-> m] \in Copy
    BY <1>1 DEF Copy
  <1> SUFFICES
        ASSUME NEW b \in Box, NEW s \in Sender, NEW new \in Copy,
               s = SenderOf[m], new = [box |-> b, msg |-> m],
               list' = [list EXCEPT ![b][s] = Append(@, m)],
               overlapped' = (IF Draining(b, s) THEN overlapped \cup {new} ELSE overlapped),
               queued' = Append(queued, new), up' = [up EXCEPT ![m].pc = "sadd"],
               UNCHANGED <<index, chan, conn, faults, delivered, dropped, discarded>>
        PROVE  IInv'
    BY <1>1, <1>2 DEF RPush
  <1>3. /\ list \in [Box -> [Sender -> Seq(Msg)]] /\ queued \in Seq(Copy)
        /\ conn \in [Conn -> ConnType] /\ overlapped \subseteq Copy
        /\ up \in [Msg -> [pc : {"idle", "rpush", "sadd", "publish", "done"},
                          todo : Seq(Box)]]
    BY DEF IInv, TypeOK
  <1>4. /\ list'[b][s] = Append(list[b][s], m) /\ list[b][s] \in Seq(Msg)
        /\ \A a \in Box, t \in Sender : ~(a = b /\ t = s) => list'[a][t] = list[a][t]
    BY <1>3
  <1>5. \A i \in DOMAIN list'[b][s] :
          \/ i \in DOMAIN list[b][s] /\ list'[b][s][i] = list[b][s][i]
          \/ list'[b][s][i] = m
    BY <1>4
  <1>6. /\ \A i \in DOMAIN list[b][s] :
             i \in DOMAIN list'[b][s] /\ list'[b][s][i] = list[b][s][i]
        /\ \E i \in DOMAIN list'[b][s] : list'[b][s][i] = m
    BY <1>4
  <1>7. /\ \A i \in DOMAIN queued : i \in DOMAIN queued' /\ queued'[i] = queued[i]
        /\ Len(queued) + 1 \in DOMAIN queued' /\ queued'[Len(queued) + 1] = new
        /\ Len(queued) + 1 \notin DOMAIN queued
        /\ ToSet(queued') = ToSet(queued) \cup {new}
    <2>1. DOMAIN queued' = 1 .. Len(queued) + 1 /\ DOMAIN queued = 1 .. Len(queued)
          /\ Len(queued) \in Nat
      BY <1>3
    <2>2. /\ \A i \in DOMAIN queued : queued'[i] = queued[i]
          /\ queued'[Len(queued) + 1] = new
      BY <1>3
    <2> QED BY <2>1, <2>2 DEF ToSet
  <1>8. overlapped \subseteq overlapped' /\ (Draining(b, s) => new \in overlapped')
    OBVIOUS
  <1>9. TypeOK'
    <2>1. list' \in [Box -> [Sender -> Seq(Msg)]]
      BY <1>3
    <2>2. /\ up' \in [Msg -> [pc : {"idle", "rpush", "sadd", "publish", "done"},
                             todo : Seq(Box)]]
      BY <1>3
    <2>3. queued' \in Seq(Copy) /\ overlapped' \subseteq Copy
      BY <1>3
    <2> QED BY <2>1, <2>2, <2>3 DEF IInv, TypeOK
  <1>10. UploadInv'
    <2>1. \A n \in Msg \ {m} : up'[n] = up[n]
      BY <1>3
    <2>2. up'[m].pc = "sadd" /\ up'[m].todo = up[m].todo
      BY <1>3
    <2> QED BY <1>1, <2>1, <2>2 DEF IInv, UploadInv
  <1>11. ListInv'
    <2> SUFFICES ASSUME NEW a \in Box, NEW t \in Sender, NEW i \in DOMAIN list'[a][t]
                 PROVE  /\ SenderOf[list'[a][t][i]] = t
                        /\ [box |-> a, msg |-> list'[a][t][i]] \in ToSet(queued')
      BY DEF ListInv
    <2>1. CASE a = b /\ t = s /\ list'[b][s][i] = m
      BY <1>7, <2>1
    <2>2. CASE i \in DOMAIN list[a][t] /\ list'[a][t][i] = list[a][t][i]
      <3>1. /\ SenderOf[list[a][t][i]] = t
            /\ [box |-> a, msg |-> list[a][t][i]] \in ToSet(queued)
        BY <2>2 DEF IInv, ListInv
      <3> QED BY <1>7, <2>2, <3>1
    <2> QED BY <1>4, <1>5, <2>1, <2>2
  <1>12. \A x \in Copy : /\ InList(x) => InList(x)'
                         /\ InList(x)' => InList(x) \/ x = new
    <2> SUFFICES ASSUME NEW x \in Copy
                 PROVE  /\ InList(x) => InList(x)'
                        /\ InList(x)' => InList(x) \/ x = new
      OBVIOUS
    <2>1. x.box \in Box /\ x = [box |-> x.box, msg |-> x.msg]
      BY DEF Copy
    <2>2. ASSUME InList(x) PROVE InList(x)'
      <3>1. PICK t \in Sender : \E i \in DOMAIN list[x.box][t] : list[x.box][t][i] = x.msg
        BY <2>2 DEF InList
      <3> QED BY <1>4, <1>6, <2>1, <3>1 DEF InList
    <2>3. ASSUME InList(x)' PROVE InList(x) \/ x = new
      <3>1. PICK t \in Sender : \E i \in DOMAIN list'[x.box][t] : list'[x.box][t][i] = x.msg
        BY <2>3 DEF InList
      <3> QED BY <1>4, <1>5, <2>1, <3>1 DEF InList
    <2> QED BY <2>2, <2>3
  <1>13. new \in Copy /\ InList(new)'
    BY <1>6 DEF InList
  <1>14. ASSUME NEW c \in Conn PROVE Window(conn[c])'
    <2>1. Window(conn[c]) /\ Locals(conn[c]) /\ conn[c] \in ConnType
      BY Handler
    <2>2. SUFFICES ASSUME Clearing(conn[c]), NEW i \in DOMAIN list'[conn[c].box][conn[c].from]
                   PROVE  [box |-> conn[c].box, msg |-> list'[conn[c].box][conn[c].from][i]]
                             \in Hand(conn[c]) \cup overlapped'
      <3>1. conn' = conn
        OBVIOUS
      <3> QED BY <3>1 DEF Window, Clearing, Hand
    <2>3. /\ conn[c].box \in Box /\ conn[c].from \in Sender
          /\ conn[c].pc \in {"del", "kdel"}
      BY <2>1, <2>2 DEF Clearing, Locals, ConnType
    <2>4. CASE conn[c].box = b /\ conn[c].from = s /\ list'[b][s][i] = m
      <3>1. Draining(b, s)
        BY <2>3, <2>4 DEF Draining
      <3> QED BY <1>8, <2>4, <3>1
    <2>5. CASE /\ i \in DOMAIN list[conn[c].box][conn[c].from]
               /\ list'[conn[c].box][conn[c].from][i] = list[conn[c].box][conn[c].from][i]
      BY <1>8, <2>1, <2>2, <2>5 DEF Window
    <2> QED BY <1>4, <1>5, <2>3, <2>4, <2>5
  <1>15. ASSUME NEW c \in Conn PROVE StartTaken(conn[c])'
    <2>1. StartTaken(conn[c]) /\ conn[c].start \subseteq Copy /\ conn'[c] = conn[c]
      BY Handler DEF ConnType
    <2>2. \A x \in Copy : Twice(x) => Twice(x)'
      BY <1>7 DEF Twice
    <2>3. new \in ToSet(queued) => Twice(new)'
      <3>1. ASSUME new \in ToSet(queued) PROVE \E i \in DOMAIN queued : queued[i] = new
        BY <3>1 DEF ToSet
      <3> QED BY <1>7, <3>1 DEF Twice
    <2>4. ASSUME NEW x \in conn[c].start
          PROVE  /\ x.box = conn[c].box /\ x \in ToSet(queued')
                 /\ conn[c].caller = "all" /\ ~conn[c].failed
                    => Twice(x)' \/ ~InList(x)' \/ Ahead(conn[c], x)
      <3>1. /\ x \in Copy /\ x.box = conn[c].box /\ x \in ToSet(queued)
            /\ conn[c].caller = "all" /\ ~conn[c].failed
               => Twice(x) \/ ~InList(x) \/ Ahead(conn[c], x)
        BY <2>1, <2>4 DEF StartTaken
      <3>2. x = new => Twice(x)'
        BY <2>3, <3>1
      <3> QED BY <1>7, <1>12, <2>2, <3>1, <3>2
    <2> QED BY <2>1, <2>4 DEF StartTaken, Ahead
  <1>16. LossOnlyInWindows'
    <2>1. ASSUME NEW x \in ToSet(queued') PROVE Safe(x)'
      <3>1. CASE x = new
        BY <1>13, <3>1 DEF Safe
      <3>2. CASE x \in ToSet(queued)
        <4>1. x \in Copy /\ Safe(x)
          BY <1>3, <3>2, LossIsSafe DEF IInv, AllSafe, ToSet
        <4>2. \A c \in Conn : Hand(conn[c])' = Hand(conn[c])
          BY DEF Hand
        <4> QED BY <1>8, <1>12, <4>1, <4>2 DEF Safe
      <3> QED BY <1>7, <3>1, <3>2
    <2>2. AllSafe'
      BY <2>1 DEF AllSafe
    <2> QED BY <1>9, <2>2, LossIsSafe, PTL
  <1>17. \A c \in Conn : Locals(conn[c])'
    BY DEF IInv, Locals
  <1> QED BY <1>9, <1>10, <1>11, <1>14, <1>15, <1>16, <1>17 DEF IInv

LEMMA FlushStep ==
  ASSUME IInv, FlushServer
  PROVE  IInv'
  <1>1. /\ list' = [b \in Box |-> [s \in Sender |-> <<>>]]
        /\ index' = [b \in Box |-> {}]
        /\ dropped' = dropped \cup UNION {Queued(b) : b \in Box}
        /\ UNCHANGED <<chan, up, conn, queued, delivered, overlapped, discarded>>
        /\ faults' \in 0 .. MaxFaults
    BY InboxAssumption DEF FlushServer, Fault, IInv, TypeOK
  <1>2. \A x \in Copy : ~InList(x)' /\ (InList(x) => x \in dropped')
    <2>1. ASSUME NEW x \in Copy PROVE ~InList(x)' /\ (InList(x) => x \in dropped')
      <3>1. x.box \in Box
        BY DEF Copy
      <3>2. ~InList(x)'
        BY <1>1, <3>1 DEF InList
      <3>3. InList(x) => x \in Queued(x.box)
        BY QueuedIsInList DEF IInv
      <3> QED BY <1>1, <3>1, <3>2, <3>3
    <2> QED BY <2>1
  <1>3. TypeOK'
    <2>1. \A b \in Box : Queued(b) \subseteq Copy
      <3>1. ASSUME NEW b \in Box, NEW s \in Sender PROVE Copies(b, list[b][s]) \subseteq Copy
        BY CopiesType DEF IInv, TypeOK
      <3> QED BY <3>1 DEF Queued
    <2> QED BY <1>1, <2>1 DEF IInv, TypeOK
  <1>4. UploadInv' /\ ListInv'
    BY <1>1 DEF IInv, UploadInv, ListInv
  <1>5. ASSUME NEW c \in Conn
        PROVE  Locals(conn[c])' /\ Window(conn[c])' /\ StartTaken(conn[c])'
    <2>1. /\ Locals(conn[c]) /\ StartTaken(conn[c]) /\ conn[c] \in ConnType
          /\ conn'[c] = conn[c] /\ queued' = queued
      BY <1>1, Handler
    <2>2. Locals(conn[c])'
      BY <2>1 DEF Locals
    <2>3. Clearing(conn[c]) => list'[conn[c].box][conn[c].from] = <<>>
      BY <1>1, <2>1 DEF Clearing, Locals, ConnType
    <2>4. Window(conn[c])'
      BY <2>1, <2>3 DEF Window, Clearing
    <2>5. StartTaken(conn[c])'
      BY <1>2, <2>1 DEF StartTaken, ConnType
    <2> QED BY <2>2, <2>4, <2>5
  <1>6. LossOnlyInWindows'
    <2>1. ASSUME NEW x \in ToSet(queued') PROVE Safe(x)'
      <3>1. x \in Copy /\ Safe(x)
        BY <1>1, LossIsSafe DEF IInv, TypeOK, AllSafe, ToSet
      <3>2. \A c \in Conn : Hand(conn[c])' = Hand(conn[c])
        BY <1>1 DEF Hand
      <3> QED BY <1>1, <1>2, <3>1, <3>2 DEF Safe
    <2>2. AllSafe'
      BY <2>1 DEF AllSafe
    <2> QED BY <1>3, <2>2, LossIsSafe, PTL
  <1> QED BY <1>3, <1>4, <1>5, <1>6 DEF IInv

-----------------------------------------------------------------------------
(* The theorems.                                                            *)

LEMMA NextIInv == IInv /\ [Next]_vars => IInv'
  <1> SUFFICES ASSUME IInv, [Next]_vars PROVE IInv'
    OBVIOUS
  <1>1. CASE \E m \in Msg : Upload(m)
    BY <1>1, RPushStep, UploadSteps
  <1>2. ASSUME NEW c \in Conn, Arrival(c) \/ Handle(c) \/ Failure(c) PROVE IInv'
    <2>1. CASE Arrival(c)
      BY <2>1, StartStep
    <2>2. CASE Handle(c)
      BY <2>2, LRangeStep, DelListStep, SRemStep, SMembersStep, DelIndexStep, KeysStep,
         ScanKeyStep, DelKeyStep, ReplyStep, StreamStep, LiveStep DEF Handle
    <2>3. CASE Failure(c)
      BY <2>3, LRangeStep, SRemStep, SMembersStep, DelIndexStep, KeysStep, ScanFailsStep,
         ClearResentStep, DisconnectStep DEF Failure
    <2> QED BY <1>2, <2>1, <2>2, <2>3
  <1>3. CASE \E b \in Box : IndexExpires(b)
    BY <1>3, IndexExpiresStep
  <1>4. CASE FlushServer
    BY <1>4, FlushStep
  <1>5. CASE UNCHANGED vars
    <2>1. UNCHANGED <<list, index, conn, up, chan, faults, history>>
      BY <1>5 DEF vars, redis
    <2>2. UploadInv'
      BY <2>1 DEF IInv, UploadInv
    <2> QED BY <2>1, <2>2, UploadStep DEF IInv, TypeOK
  <1> QED BY <1>1, <1>2, <1>3, <1>4, <1>5 DEF Next

LEMMA SpecIInv == Spec => []IInv
  BY InitIInv, NextIInv, PTL DEF Spec

\* Every list, set, channel and handler keeps its type, whatever interleaves.
THEOREM TypeCorrect == Spec => []TypeOK
  <1>1. IInv => TypeOK
    BY DEF IInv
  <1> QED BY <1>1, SpecIInv, PTL

\* Whatever requests, uploads, failing commands, lost answers and expiries of the
\* index interleave, a queued copy is lost only in the ways the property names.
THEOREM NothingElseIsLost == Spec => []LossOnlyInWindows
  <1>1. IInv => LossOnlyInWindows
    BY DEF IInv
  <1> QED BY <1>1, SpecIInv, PTL

\* A full drain that met no error leaves nothing of what was queued when it began,
\* but for copies appended twice: the pattern scan finds what the index forgot.
THEOREM DrainsAreComplete == Spec => []DrainComplete
  <1>1. IInv => DrainComplete
    <2> SUFFICES ASSUME IInv, NEW c \in Conn, Drained(conn[c]), conn[c].caller = "all",
                        ~conn[c].failed, NEW x \in conn[c].start \cap Queued(conn[c].box)
                 PROVE  \E i, j \in DOMAIN queued : i # j /\ queued[i] = x /\ queued[j] = x
      BY DEF DrainComplete
    <2>1. StartTaken(conn[c]) /\ x \in Copy
      BY Handler DEF ConnType
    <2>2. InList(x)
      BY <2>1, QueuedIsInList DEF StartTaken, IInv
    <2>3. ~Ahead(conn[c], x)
      BY DEF Drained, Ahead
    <2> QED BY <2>1, <2>2, <2>3 DEF StartTaken, Twice
  <1> QED BY <1>1, SpecIInv, PTL

-----------------------------------------------------------------------------
(* The order of drains.                                                     *)
(* DrainInOrder speaks of what a request has found when it has ended. What  *)
(* makes it true is that at every step the messages of a sender that it has *)
(* found, those it holds between reading and appending them, and those it   *)
(* may still read, stand in the history of pushes in this order. The places *)
(* in that history are witnessed by functions: one for what was found, and, *)
(* for each sender, one for what is held and one for what may follow.       *)

\* e[i] is the place in Q of the i-th message of seq, taken from box b.
Embeds(e, b, seq, Q) ==
    /\ e \in [DOMAIN seq -> DOMAIN Q]
    /\ \A i \in DOMAIN seq : Q[e[i]] = [box |-> b, msg |-> seq[i]]

Rises(e) == \A i, j \in DOMAIN e : i < j => e[i] < e[j]

\* What a handler has read of sender s and not appended yet.
Held(k, s) == IF k.pc \in {"del", "srem"} /\ s = k.from THEN k.snap ELSE <<>>

\* What a handler may still read of sender s in the lists L.
Later(k, s, L) ==
    IF \/ k.pc \in {"smembers", "lrange", "srem", "keys"}
       \/ k.pc = "del" /\ s # k.from
       \/ k.pc \in {"scan", "kdel"} /\ s \in k.senders
    THEN L[k.box][s] ELSE <<>>

\* The places f of what was found, h of what is held and e of what may follow:
\* of sender s they rise, one after the other.
Line(f, h, e, k, s, L, Q) ==
    /\ Embeds(h, k.box, Held(k, s), Q) /\ Rises(h)
    /\ Embeds(e, k.box, Later(k, s, L), Q) /\ Rises(e)
    /\ \A i \in DOMAIN h, j \in DOMAIN e : h[i] < e[j]
    /\ \A i \in DOMAIN k.got : SenderOf[k.got[i]] = s =>
          /\ \A j \in DOMAIN k.got : i < j /\ SenderOf[k.got[j]] = s => f[i] < f[j]
          /\ \A j \in DOMAIN h : f[i] < h[j]
          /\ \A j \in DOMAIN e : f[i] < e[j]

\* A handler with record k has found, holds and may find what was appended in
\* this order.
InLine(k, L, Q) ==
    /\ \A s \in Sender : \A i \in DOMAIN Held(k, s) : SenderOf[Held(k, s)[i]] = s
    /\ \E f : /\ Embeds(f, k.box, k.got, Q)
              /\ \A s \in Sender : \E h, e : Line(f, h, e, k, s, L, Q)

\* Every list is in the order of arrival.
ListsInLine(L, Q) ==
    \A b \in Box, s \in Sender : \E e : Embeds(e, b, L[b][s], Q) /\ Rises(e)

OrderInv ==
    /\ ListsInLine(list, queued)
    /\ \A c \in Conn : ~conn[c].failed => InLine(conn[c], list, queued)

Lists == [Box -> [Sender -> Seq(Msg)]]

\* Some lists of L are deleted in M, and nothing is appended.
Fewer(L, M) == \A b \in Box, s \in Sender : M[b][s] \in {L[b][s], <<>>}

-----------------------------------------------------------------------------
LEMMA EmbedsNothing ==
  ASSUME NEW b, NEW Q
  PROVE  Embeds(<<>>, b, <<>>, Q) /\ Rises(<<>>) /\ DOMAIN <<>> = {}
  BY DEF Embeds, Rises

\* A handler that has found and holds nothing.
LEMMA Afresh ==
  ASSUME NEW k \in ConnType, NEW L, NEW Q, ListsInLine(L, Q),
         k.got = <<>>, k.pc \notin {"del", "srem"}
  PROVE  InLine(k, L, Q)
  <1>1. \A s \in Sender : Held(k, s) = <<>>
    BY DEF Held
  <1>2. k.box \in Box
    BY DEF ConnType
  <1>3. ASSUME NEW s \in Sender PROVE \E h, e : Line(<<>>, h, e, k, s, L, Q)
    <2>1. PICK e : Embeds(e, k.box, Later(k, s, L), Q) /\ Rises(e)
      BY <1>2, EmbedsNothing DEF ListsInLine, Later
    <2>2. Line(<<>>, <<>>, e, k, s, L, Q)
      BY <1>1, <2>1, EmbedsNothing DEF Line
    <2> QED BY <2>2
  <1> QED BY <1>1, <1>3, EmbedsNothing DEF InLine

\* Lists that are deleted keep the order of the others.
LEMMA ListsShrink ==
  ASSUME NEW L, NEW M, NEW Q, ListsInLine(L, Q), Fewer(L, M)
  PROVE  ListsInLine(M, Q)
  <1> SUFFICES ASSUME NEW b \in Box, NEW s \in Sender
               PROVE  \E e : Embeds(e, b, M[b][s], Q) /\ Rises(e)
    BY DEF ListsInLine
  <1>1. PICK e : Embeds(e, b, L[b][s], Q) /\ Rises(e)
    BY DEF ListsInLine
  <1>2. M[b][s] \in {L[b][s], <<>>}
    BY DEF Fewer
  <1> QED BY <1>1, <1>2, EmbedsNothing

\* A handler that goes on with what it found, and holds and may still read what
\* it did before, or nothing.
LEMMA FewerLeft ==
  ASSUME NEW k \in ConnType, NEW r \in ConnType, NEW L, NEW M, NEW Q, InLine(k, L, Q),
         r.box = k.box, r.got = k.got,
         \A s \in Sender : /\ Held(r, s) \in {Held(k, s), <<>>}
                           /\ Later(r, s, M) \in {Later(k, s, L), <<>>}
  PROVE  InLine(r, M, Q)
  <1>1. PICK f : /\ Embeds(f, k.box, k.got, Q)
                 /\ \A s \in Sender : \E h, e : Line(f, h, e, k, s, L, Q)
    BY DEF InLine
  <1>2. ASSUME NEW s \in Sender PROVE \E h, e : Line(f, h, e, r, s, M, Q)
    <2>1. PICK h, e : Line(f, h, e, k, s, L, Q)
      BY <1>1
    <2>2. PICK hh : Embeds(hh, k.box, Held(r, s), Q) /\ Rises(hh) /\ hh \in {h, <<>>}
      <3>1. Held(r, s) \in {Held(k, s), <<>>}
        OBVIOUS
      <3> QED BY <2>1, <3>1, EmbedsNothing DEF Line
    <2>3. PICK ee : Embeds(ee, k.box, Later(r, s, M), Q) /\ Rises(ee) /\ ee \in {e, <<>>}
      <3>1. Later(r, s, M) \in {Later(k, s, L), <<>>}
        OBVIOUS
      <3> QED BY <2>1, <3>1, EmbedsNothing DEF Line
    <2>4. \A i \in DOMAIN hh, j \in DOMAIN ee : hh[i] < ee[j]
      BY <2>1, <2>2, <2>3 DEF Line
    <2>5. \A i \in DOMAIN r.got : SenderOf[r.got[i]] = s =>
             /\ \A j \in DOMAIN r.got : i < j /\ SenderOf[r.got[j]] = s => f[i] < f[j]
             /\ \A j \in DOMAIN hh : f[i] < hh[j]
             /\ \A j \in DOMAIN ee : f[i] < ee[j]
      BY <2>1, <2>2, <2>3 DEF Line
    <2>6. Line(f, hh, ee, r, s, M, Q)
      BY <2>2, <2>3, <2>4, <2>5 DEF Line
    <2> QED BY <2>6
  <1>3. \A s \in Sender : \A i \in DOMAIN Held(r, s) : SenderOf[Held(r, s)[i]] = s
    BY DEF InLine
  <1> QED BY <1>1, <1>2, <1>3 DEF InLine

\* A handler that reads the list of sender t holds what it could read of it.
LEMMA Read ==
  ASSUME NEW k \in ConnType, NEW r \in ConnType, NEW L, NEW Q, InLine(k, L, Q),
         NEW t \in Sender, \A i \in DOMAIN Later(k, t, L) : SenderOf[Later(k, t, L)[i]] = t,
         r.box = k.box, r.got = k.got,
         Held(r, t) = Later(k, t, L) /\ Later(r, t, L) = <<>>,
         \A s \in Sender \ {t} : Held(r, s) = <<>> /\ Later(r, s, L) = Later(k, s, L)
  PROVE  InLine(r, L, Q)
  <1>1. PICK f : /\ Embeds(f, k.box, k.got, Q)
                 /\ \A s \in Sender : \E h, e : Line(f, h, e, k, s, L, Q)
    BY DEF InLine
  <1>2. ASSUME NEW s \in Sender PROVE \E h, e : Line(f, h, e, r, s, L, Q)
    <2>1. PICK h, e : Line(f, h, e, k, s, L, Q)
      BY <1>1
    <2>2. /\ Embeds(e, k.box, Later(k, s, L), Q) /\ Rises(e)
          /\ \A i \in DOMAIN k.got : SenderOf[k.got[i]] = s =>
                /\ \A j \in DOMAIN k.got : i < j /\ SenderOf[k.got[j]] = s => f[i] < f[j]
                /\ \A j \in DOMAIN e : f[i] < e[j]
      BY <2>1 DEF Line
    <2>3. Embeds(<<>>, k.box, <<>>, Q) /\ Rises(<<>>) /\ DOMAIN <<>> = {}
      BY EmbedsNothing
    <2>4. CASE s = t
      <3>1. Line(f, e, <<>>, r, s, L, Q)
        BY <2>2, <2>3, <2>4 DEF Line
      <3> QED BY <3>1
    <2>5. CASE s # t
      <3>1. Line(f, <<>>, e, r, s, L, Q)
        BY <2>2, <2>3, <2>5 DEF Line
      <3> QED BY <3>1
    <2> QED BY <2>4, <2>5
  <1>3. \A s \in Sender : \A i \in DOMAIN Held(r, s) : SenderOf[Held(r, s)[i]] = s
    <2> TAKE s \in Sender
    <2>1. CASE s = t
      BY <2>1
    <2>2. CASE s # t
      BY <2>2
    <2> QED BY <2>1, <2>2
  <1> QED BY <1>1, <1>2, <1>3 DEF InLine

\* A handler that appends q, all of sender t, which is what it held of t, or what
\* it could still read of t and cannot read again.
LEMMA Taken ==
  ASSUME NEW k \in ConnType, NEW r \in ConnType, NEW L, NEW Q, InLine(k, L, Q),
         NEW t \in Sender, NEW q \in Seq(Msg), \A i \in DOMAIN q : SenderOf[q[i]] = t,
         r.box = k.box, r.got = k.got \o q,
         \A s \in Sender : Held(r, s) = <<>> /\ Later(r, s, L) \in {Later(k, s, L), <<>>},
         q = Held(k, t) \/ (q = Later(k, t, L) /\ Later(r, t, L) = <<>>)
  PROVE  InLine(r, L, Q)
  <1>1. PICK f : /\ Embeds(f, k.box, k.got, Q)
                 /\ \A s \in Sender : \E h, e : Line(f, h, e, k, s, L, Q)
    BY DEF InLine
  <1>2. \E g : /\ Embeds(g, k.box, q, Q) /\ Rises(g)
               /\ \A i \in DOMAIN k.got : SenderOf[k.got[i]] = t =>
                     \A j \in DOMAIN g : f[i] < g[j]
               /\ \E e : /\ Embeds(e, k.box, Later(r, t, L), Q) /\ Rises(e)
                         /\ \A i \in DOMAIN g, j \in DOMAIN e : g[i] < e[j]
                         /\ \A i \in DOMAIN k.got : SenderOf[k.got[i]] = t =>
                               \A j \in DOMAIN e : f[i] < e[j]
    <2>1. PICK h, e : Line(f, h, e, k, t, L, Q)
      BY <1>1
    <2>2. Later(r, t, L) \in {Later(k, t, L), <<>>}
      OBVIOUS
    <2>3. CASE q = Held(k, t)
      <3>1. CASE Later(r, t, L) = Later(k, t, L)
        BY <2>1, <2>3, <3>1 DEF Line
      <3>2. CASE Later(r, t, L) = <<>>
        <4>1. Embeds(<<>>, k.box, Later(r, t, L), Q) /\ Rises(<<>>) /\ DOMAIN <<>> = {}
          BY <3>2, EmbedsNothing
        <4> QED BY <2>1, <2>3, <4>1 DEF Line
      <3> QED BY <2>2, <3>1, <3>2
    <2>4. CASE q = Later(k, t, L) /\ Later(r, t, L) = <<>>
      <3>1. Embeds(<<>>, k.box, Later(r, t, L), Q) /\ Rises(<<>>) /\ DOMAIN <<>> = {}
        BY <2>4, EmbedsNothing
      <3> QED BY <2>1, <2>4, <3>1 DEF Line
    <2> QED BY <2>3, <2>4
  <1>3. PICK g : /\ Embeds(g, k.box, q, Q) /\ Rises(g)
                 /\ \A i \in DOMAIN k.got : SenderOf[k.got[i]] = t =>
                       \A j \in DOMAIN g : f[i] < g[j]
                 /\ \E e : /\ Embeds(e, k.box, Later(r, t, L), Q) /\ Rises(e)
                           /\ \A i \in DOMAIN g, j \in DOMAIN e : g[i] < e[j]
                           /\ \A i \in DOMAIN k.got : SenderOf[k.got[i]] = t =>
                                 \A j \in DOMAIN e : f[i] < e[j]
    BY <1>2
  <1> DEFINE n == Len(k.got)
             m == Len(q)
             w == [i \in 1 .. (n + m) |-> IF i <= n THEN f[i] ELSE g[i - n]]
  <1>4. k.got \in Seq(Msg) /\ n \in Nat /\ m \in Nat /\ DOMAIN k.got = 1 .. n
        /\ DOMAIN q = 1 .. m /\ DOMAIN r.got = 1 .. (n + m)
    BY DEF ConnType
  <1>5. /\ \A i \in 1 .. n : r.got[i] = k.got[i] /\ w[i] = f[i]
        /\ \A i \in (n + 1) .. (n + m) : /\ i - n \in 1 .. m
                                         /\ r.got[i] = q[i - n] /\ w[i] = g[i - n]
                                         /\ SenderOf[r.got[i]] = t
        /\ \A i \in 1 .. (n + m) : i \in 1 .. n \/ i \in (n + 1) .. (n + m)
    <2>1. \A i \in 1 .. n : r.got[i] = k.got[i] /\ w[i] = f[i]
      BY <1>4
    <2>2. \A i \in (n + 1) .. (n + m) : i - n \in 1 .. m /\ r.got[i] = q[i - n] /\ w[i] = g[i - n]
      BY <1>4
    <2>3. \A i \in 1 .. (n + m) : i \in 1 .. n \/ i \in (n + 1) .. (n + m)
      BY <1>4
    <2> HIDE DEF w, n, m
    <2>4. \A j \in 1 .. m : SenderOf[q[j]] = t
      BY <1>4
    <2>5. ASSUME NEW i \in (n + 1) .. (n + m) PROVE SenderOf[r.got[i]] = t
      <3>1. i - n \in 1 .. m /\ r.got[i] = q[i - n]
        BY <2>2
      <3>2. SenderOf[q[i - n]] = t
        BY <2>4, <3>1
      <3> QED BY <3>1, <3>2
    <2> QED BY <2>1, <2>2, <2>3, <2>5
  <1>6. DOMAIN g = 1 .. m /\ DOMAIN w = 1 .. (n + m)
        /\ (\A i \in 1 .. n : f[i] \in DOMAIN Q)
        /\ (\A i \in 1 .. m : g[i] \in DOMAIN Q)
    BY <1>1, <1>3, <1>4 DEF Embeds
  <1>7. w = [i \in 1 .. (n + m) |-> w[i]]
    OBVIOUS
  <1> HIDE DEF n, m, w
  <1>8. Embeds(w, r.box, r.got, Q)
    <2>1. \A i \in 1 .. (n + m) : w[i] \in DOMAIN Q
      BY <1>5, <1>6
    <2>2. \A i \in 1 .. (n + m) : Q[w[i]] = [box |-> r.box, msg |-> r.got[i]]
      <3>1. ASSUME NEW i \in 1 .. n PROVE Q[w[i]] = [box |-> r.box, msg |-> r.got[i]]
        BY <1>1, <1>4, <1>5 DEF Embeds
      <3>2. ASSUME NEW i \in (n + 1) .. (n + m)
            PROVE  Q[w[i]] = [box |-> r.box, msg |-> r.got[i]]
        <4>1. \A j \in 1 .. m : Q[g[j]] = [box |-> k.box, msg |-> q[j]]
          BY <1>3, <1>4 DEF Embeds
        <4> QED BY <1>5, <4>1
      <3> QED BY <1>5, <3>1, <3>2
    <2> QED BY <1>4, <1>7, <2>1, <2>2 DEF Embeds
  <1>9. ASSUME NEW s \in Sender PROVE \E h, e : Line(w, h, e, r, s, L, Q)
    <2>1. \A i \in DOMAIN r.got : SenderOf[r.got[i]] = s =>
             \A j \in DOMAIN r.got : i < j /\ SenderOf[r.got[j]] = s => w[i] < w[j]
      <3> SUFFICES ASSUME NEW i \in 1 .. (n + m), SenderOf[r.got[i]] = s,
                          NEW j \in 1 .. (n + m), SenderOf[r.got[j]] = s, i < j
                   PROVE  w[i] < w[j]
        BY <1>4
      <3>1. PICK h, e : Line(f, h, e, k, s, L, Q)
        BY <1>1
      <3>2. CASE j \in 1 .. n
        <4>1. i \in 1 .. n
          BY <1>4, <3>2
        <4> QED BY <1>4, <1>5, <3>1, <3>2, <4>1 DEF Line
      <3>3. CASE j \in (n + 1) .. (n + m)
        <4>1. j - n \in 1 .. m /\ s = t /\ w[j] = g[j - n]
          BY <1>4, <1>5, <3>3
        <4>2. CASE i \in 1 .. n
          BY <1>3, <1>4, <1>5, <1>6, <4>1, <4>2
        <4>3. CASE i \in (n + 1) .. (n + m)
          <5>1. i - n \in 1 .. m /\ w[i] = g[i - n] /\ i - n < j - n
            BY <1>4, <1>5, <4>3
          <5> QED BY <1>3, <1>6, <4>1, <5>1 DEF Rises
        <4> QED BY <1>5, <4>2, <4>3
      <3> QED BY <1>5, <3>2, <3>3
    <2>2. \E e : /\ Embeds(e, r.box, Later(r, s, L), Q) /\ Rises(e)
                 /\ \A i \in DOMAIN r.got : SenderOf[r.got[i]] = s =>
                       \A j \in DOMAIN e : w[i] < e[j]
      <3>1. CASE s = t
        <4>1. PICK e : /\ Embeds(e, k.box, Later(r, t, L), Q) /\ Rises(e)
                       /\ \A i \in DOMAIN g, j \in DOMAIN e : g[i] < e[j]
                       /\ \A i \in DOMAIN k.got : SenderOf[k.got[i]] = t =>
                             \A j \in DOMAIN e : f[i] < e[j]
          BY <1>3
        <4>2. \A i \in 1 .. (n + m) : SenderOf[r.got[i]] = s => \A j \in DOMAIN e : w[i] < e[j]
          <5> SUFFICES ASSUME NEW i \in 1 .. (n + m), SenderOf[r.got[i]] = t,
                              NEW j \in DOMAIN e
                       PROVE  w[i] < e[j]
            BY <3>1
          <5>1. CASE i \in 1 .. n
            <6>1. i \in DOMAIN k.got /\ r.got[i] = k.got[i] /\ w[i] = f[i]
              BY <1>4, <1>5, <5>1
            <6> QED BY <4>1, <6>1
          <5>2. CASE i \in (n + 1) .. (n + m)
            <6>1. i - n \in 1 .. m /\ w[i] = g[i - n]
              BY <1>4, <1>5, <5>2
            <6> QED BY <1>6, <4>1, <6>1
          <5> QED BY <1>5, <5>1, <5>2
        <4> QED BY <1>4, <3>1, <4>1, <4>2
      <3>2. CASE s # t
        <4>1. PICK h, e : Line(f, h, e, k, s, L, Q)
          BY <1>1
        <4>2. PICK ee : Embeds(ee, k.box, Later(r, s, L), Q) /\ Rises(ee) /\ ee \in {e, <<>>}
          <5>1. Later(r, s, L) \in {Later(k, s, L), <<>>}
            OBVIOUS
          <5>2. Embeds(e, k.box, Later(k, s, L), Q) /\ Rises(e)
            BY <4>1 DEF Line
          <5>3. CASE Later(r, s, L) = Later(k, s, L)
            BY <5>2, <5>3
          <5>4. CASE Later(r, s, L) = <<>>
            <6>1. Embeds(<<>>, k.box, <<>>, Q) /\ Rises(<<>>)
              BY EmbedsNothing
            <6> QED BY <5>4, <6>1
          <5> QED BY <5>1, <5>3, <5>4
        <4>3. \A i \in 1 .. (n + m) : SenderOf[r.got[i]] = s => i \in 1 .. n
          BY <1>4, <1>5, <3>2
        <4>4. \A i \in 1 .. (n + m) : SenderOf[r.got[i]] = s => \A j \in DOMAIN ee : w[i] < ee[j]
          <5>1. \A i \in 1 .. n : SenderOf[k.got[i]] = s => \A j \in DOMAIN e : f[i] < e[j]
            BY <1>4, <4>1 DEF Line
          <5>2. \A j \in DOMAIN ee : j \in DOMAIN e /\ ee[j] = e[j]
            BY <4>2
          <5> QED BY <1>5, <4>3, <5>1, <5>2
        <4> QED BY <1>4, <4>2, <4>4
      <3> QED BY <3>1, <3>2
    <2>3. PICK e : /\ Embeds(e, r.box, Later(r, s, L), Q) /\ Rises(e)
                   /\ \A i \in DOMAIN r.got : SenderOf[r.got[i]] = s =>
                         \A j \in DOMAIN e : w[i] < e[j]
      BY <2>2
    <2>4. Held(r, s) = <<>> /\ Embeds(<<>>, r.box, <<>>, Q) /\ Rises(<<>>) /\ DOMAIN <<>> = {}
      BY EmbedsNothing
    <2>5. Line(w, <<>>, e, r, s, L, Q)
      BY <2>1, <2>3, <2>4 DEF Line
    <2> QED BY <2>5
  <1>10. \A s \in Sender : \A i \in DOMAIN Held(r, s) : SenderOf[Held(r, s)[i]] = s
    OBVIOUS
  <1> QED BY <1>8, <1>9, <1>10 DEF InLine

-----------------------------------------------------------------------------
(* An append.                                                               *)

LEMMA OldPlaces ==
  ASSUME NEW e, NEW b, NEW seq, NEW Q \in Seq(Copy), Embeds(e, b, seq, Q),
         NEW x \in Copy, NEW P, P = Append(Q, x)
  PROVE  Embeds(e, b, seq, P) /\ \A i \in DOMAIN e : e[i] < Len(P)
  <1>1. /\ DOMAIN Q = 1 .. Len(Q) /\ DOMAIN P = 1 .. (Len(Q) + 1)
        /\ Len(P) = Len(Q) + 1 /\ Len(Q) \in Nat
        /\ \A i \in DOMAIN Q : P[i] = Q[i]
    OBVIOUS
  <1> QED BY <1>1 DEF Embeds

LEMMA NewPlace ==
  ASSUME NEW e, NEW b \in Box, NEW seq \in Seq(Msg), NEW m \in Msg, NEW Q \in Seq(Copy),
         NEW P, P = Append(Q, [box |-> b, msg |-> m]), Embeds(e, b, seq, Q), Rises(e)
  PROVE  \E ee : /\ Embeds(ee, b, Append(seq, m), P) /\ Rises(ee)
                 /\ \A i \in DOMAIN ee : \/ i \in DOMAIN e /\ ee[i] = e[i]
                                         \/ ee[i] = Len(P)
  <1> DEFINE n == Len(seq)
             ee == [i \in 1 .. (n + 1) |-> IF i = n + 1 THEN Len(Q) + 1 ELSE e[i]]
             new == Append(seq, m)
  <1>1. /\ n \in Nat /\ DOMAIN seq = 1 .. n /\ DOMAIN new = 1 .. (n + 1)
        /\ new[n + 1] = m /\ \A i \in 1 .. n : new[i] = seq[i]
    OBVIOUS
  <1>2. /\ ee[n + 1] = Len(Q) + 1 /\ DOMAIN ee = 1 .. (n + 1)
        /\ \A i \in 1 .. n : ee[i] = e[i]
        /\ \A i \in 1 .. (n + 1) : i \in 1 .. n \/ i = n + 1
        /\ ee = [i \in 1 .. (n + 1) |-> ee[i]]
    BY <1>1
  <1>3. /\ DOMAIN Q = 1 .. Len(Q) /\ DOMAIN P = 1 .. (Len(Q) + 1)
        /\ Len(P) = Len(Q) + 1 /\ Len(Q) \in Nat
        /\ P[Len(Q) + 1] = [box |-> b, msg |-> m]
        /\ \A i \in DOMAIN Q : P[i] = Q[i]
    BY DEF Copy
  <1>4. /\ DOMAIN e = 1 .. n
        /\ \A i \in 1 .. n : /\ e[i] \in 1 .. Len(Q)
                             /\ Q[e[i]] = [box |-> b, msg |-> seq[i]]
    BY <1>1, <1>3 DEF Embeds
  <1> HIDE DEF n, ee, new
  <1>5. ASSUME NEW i \in 1 .. n
        PROVE  ee[i] \in DOMAIN Q /\ ee[i] < Len(Q) + 1
    <2>1. ee[i] = e[i]
      BY <1>2
    <2>2. e[i] \in 1 .. Len(Q)
      BY <1>4
    <2> QED BY <1>3, <2>1, <2>2
  <1>6. ASSUME NEW i \in 1 .. (n + 1)
        PROVE  ee[i] \in DOMAIN P /\ P[ee[i]] = [box |-> b, msg |-> new[i]]
    <2>1. CASE i \in 1 .. n
      <3>1. Q[ee[i]] = [box |-> b, msg |-> new[i]] /\ ee[i] \in DOMAIN Q
        BY <1>1, <1>2, <1>4, <1>5, <2>1
      <3>2. \A j \in DOMAIN Q : j \in DOMAIN P /\ P[j] = Q[j]
        BY <1>3
      <3> QED BY <3>1, <3>2
    <2>2. CASE i = n + 1
      BY <1>1, <1>2, <1>3, <2>2
    <2> QED BY <1>2, <2>1, <2>2
  <1>7. \A i, j \in 1 .. (n + 1) : i < j => ee[i] < ee[j]
    <2> SUFFICES ASSUME NEW i \in 1 .. (n + 1), NEW j \in 1 .. (n + 1), i < j
                 PROVE  ee[i] < ee[j]
      OBVIOUS
    <2>1. i \in 1 .. n
      BY <1>1
    <2>2. CASE j \in 1 .. n
      BY <1>2, <1>4, <2>1, <2>2 DEF Rises
    <2>3. CASE j = n + 1
      BY <1>2, <1>5, <2>1, <2>3
    <2> QED BY <1>2, <2>2, <2>3
  <1>8. Embeds(ee, b, new, P) /\ Rises(ee)
    BY <1>1, <1>2, <1>6, <1>7 DEF Embeds, Rises
  <1>9. \A i \in DOMAIN ee : (i \in DOMAIN e /\ ee[i] = e[i]) \/ ee[i] = Len(P)
    BY <1>2, <1>3, <1>4
  <1> QED BY <1>8, <1>9 DEF new

\* Whatever a handler has found, or has to find, an append comes last.
LEMMA Pushed ==
  ASSUME NEW k \in ConnType, NEW L \in Lists, NEW M, NEW Q \in Seq(Copy), NEW P,
         InLine(k, L, Q), NEW b \in Box, NEW t \in Sender, NEW m \in Msg,
         P = Append(Q, [box |-> b, msg |-> m]),
         M = [L EXCEPT ![b][t] = Append(@, m)]
  PROVE  InLine(k, M, P)
  <1>1. PICK f : /\ Embeds(f, k.box, k.got, Q)
                 /\ \A s \in Sender : \E h, e : Line(f, h, e, k, s, L, Q)
    BY DEF InLine
  <1>2. [box |-> b, msg |-> m] \in Copy /\ k.box \in Box
    BY DEF Copy, ConnType
  <1>3. \A s \in Sender : \/ Later(k, s, M) = Later(k, s, L)
                          \/ Later(k, s, M) = Append(Later(k, s, L), m) /\ k.box = b
    BY <1>2 DEF Later, Lists
  <1>4. \A s \in Sender : Later(k, s, L) \in Seq(Msg)
    BY <1>2 DEF Later, Lists
  <1>5. ASSUME NEW s \in Sender PROVE \E h, e : Line(f, h, e, k, s, M, P)
    <2>1. PICK h, e : Line(f, h, e, k, s, L, Q)
      BY <1>1
    <2>2. /\ Embeds(h, k.box, Held(k, s), Q) /\ Rises(h)
          /\ Embeds(e, k.box, Later(k, s, L), Q) /\ Rises(e)
          /\ \A i \in DOMAIN h, j \in DOMAIN e : h[i] < e[j]
          /\ \A i \in DOMAIN k.got : SenderOf[k.got[i]] = s =>
                /\ \A j \in DOMAIN k.got : i < j /\ SenderOf[k.got[j]] = s => f[i] < f[j]
                /\ \A j \in DOMAIN h : f[i] < h[j]
                /\ \A j \in DOMAIN e : f[i] < e[j]
      BY <2>1 DEF Line
    <2>3. /\ \A i \in DOMAIN h : h[i] < Len(P)
          /\ \A i \in DOMAIN f : f[i] < Len(P)
          /\ Embeds(h, k.box, Held(k, s), P)
      BY <1>1, <1>2, <2>2, OldPlaces
    <2>4. DOMAIN f = DOMAIN k.got
      BY <1>1 DEF Embeds
    <2>5. PICK ee : /\ Embeds(ee, k.box, Later(k, s, M), P) /\ Rises(ee)
                    /\ \A i \in DOMAIN ee : \/ i \in DOMAIN e /\ ee[i] = e[i]
                                            \/ ee[i] = Len(P)
      <3>1. CASE Later(k, s, M) = Later(k, s, L)
        <4>1. Embeds(e, k.box, Later(k, s, M), P)
          BY <1>2, <2>2, <3>1, OldPlaces
        <4> QED BY <2>2, <4>1
      <3>2. CASE Later(k, s, M) = Append(Later(k, s, L), m) /\ k.box = b
        <4>1. Later(k, s, L) \in Seq(Msg) /\ Embeds(e, b, Later(k, s, L), Q) /\ Rises(e)
          BY <1>4, <2>2, <3>2
        <4>2. \A q \in Seq(Msg) : Embeds(e, b, q, Q) =>
                 \E ee : /\ Embeds(ee, b, Append(q, m), P) /\ Rises(ee)
                         /\ \A i \in DOMAIN ee : \/ i \in DOMAIN e /\ ee[i] = e[i]
                                                 \/ ee[i] = Len(P)
          <5>1. Rises(e) /\ Q \in Seq(Copy) /\ P = Append(Q, [box |-> b, msg |-> m])
            BY <4>1
          <5> QED BY <5>1, NewPlace, ZenonT(60)
        <4> QED BY <3>2, <4>1, <4>2
      <3> QED BY <1>3, <3>1, <3>2
    <2>6. \A i \in DOMAIN h, j \in DOMAIN ee : h[i] < ee[j]
      BY <2>2, <2>3, <2>5
    <2>7. \A i \in DOMAIN k.got : SenderOf[k.got[i]] = s =>
             /\ \A j \in DOMAIN k.got : i < j /\ SenderOf[k.got[j]] = s => f[i] < f[j]
             /\ \A j \in DOMAIN h : f[i] < h[j]
             /\ \A j \in DOMAIN ee : f[i] < ee[j]
      BY <2>2, <2>3, <2>4, <2>5
    <2>8. Line(f, h, ee, k, s, M, P)
      BY <2>2, <2>3, <2>5, <2>6, <2>7 DEF Line
    <2> QED BY <2>8
  <1>6. Embeds(f, k.box, k.got, P)
    BY <1>1, <1>2, OldPlaces
  <1> QED BY <1>5, <1>6 DEF InLine

\* The lists keep their order, too.
LEMMA ListsPushed ==
  ASSUME NEW L \in Lists, NEW M, NEW Q \in Seq(Copy), NEW P, ListsInLine(L, Q),
         NEW b \in Box, NEW t \in Sender, NEW m \in Msg,
         P = Append(Q, [box |-> b, msg |-> m]),
         M = [L EXCEPT ![b][t] = Append(@, m)]
  PROVE  ListsInLine(M, P)
  <1> SUFFICES ASSUME NEW bb \in Box, NEW s \in Sender
               PROVE  \E e : Embeds(e, bb, M[bb][s], P) /\ Rises(e)
    BY DEF ListsInLine
  <1>1. PICK e : Embeds(e, bb, L[bb][s], Q) /\ Rises(e)
    BY DEF ListsInLine
  <1>2. [box |-> b, msg |-> m] \in Copy /\ L[bb][s] \in Seq(Msg)
    BY DEF Copy, Lists
  <1>3. CASE bb = b /\ s = t
    <2>1. \A q \in Seq(Msg) : Embeds(e, b, q, Q) =>
             \E ee : /\ Embeds(ee, b, Append(q, m), P) /\ Rises(ee)
                     /\ \A i \in DOMAIN ee : \/ i \in DOMAIN e /\ ee[i] = e[i]
                                             \/ ee[i] = Len(P)
      <3>1. Rises(e) /\ Q \in Seq(Copy) /\ P = Append(Q, [box |-> b, msg |-> m])
        BY <1>1
      <3> QED BY <3>1, NewPlace, ZenonT(60)
    <2>2. M[bb][s] = Append(L[bb][s], m)
      BY <1>3 DEF Lists
    <2> QED BY <1>1, <1>2, <1>3, <2>1, <2>2
  <1>4. CASE ~(bb = b /\ s = t)
    <2>1. M[bb][s] = L[bb][s]
      BY <1>4 DEF Lists
    <2> QED BY <1>1, <1>2, <2>1, OldPlaces
  <1> QED BY <1>3, <1>4

-----------------------------------------------------------------------------
(* The steps.                                                               *)

\* A step of handler c, which has record r then.
LEMMA OrderStep ==
  ASSUME IInv, IInv', OrderInv, UNCHANGED queued, Fewer(list, list'),
         NEW c \in Conn, \A q \in Conn \ {c} : conn'[q] = conn[q],
         ~conn'[c].failed => InLine(conn'[c], list', queued)
  PROVE  OrderInv'
  <1>1. ListsInLine(list', queued)
    BY ListsShrink DEF OrderInv
  <1>2. ASSUME NEW q \in Conn, ~conn'[q].failed PROVE InLine(conn'[q], list', queued)
    <2>1. CASE q = c
      BY <1>2, <2>1
    <2>2. CASE q # c
      <3>1. conn[q] \in ConnType /\ InLine(conn[q], list, queued) /\ conn'[q] = conn[q]
        BY <1>2, <2>2 DEF IInv, TypeOK, OrderInv
      <3>2. \A s \in Sender : Later(conn[q], s, list') \in {Later(conn[q], s, list), <<>>}
        BY <3>1 DEF Later, Fewer, ConnType
      <3>3. InLine(conn[q], list', queued)
        BY <3>1, <3>2, FewerLeft
      <3> QED BY <3>1, <3>3
    <2> QED BY <2>1, <2>2
  <1> QED BY <1>1, <1>2 DEF OrderInv

\* What a step that leaves the lists alone may change.
LEMMA SameLists == ASSUME UNCHANGED list PROVE Fewer(list, list')
  BY DEF Fewer

\* A handler that has found nothing afterwards.
LEMMA FreshStep ==
  ASSUME IInv, IInv', OrderInv, UNCHANGED <<queued, list>>,
         NEW c \in Conn, \A q \in Conn \ {c} : conn'[q] = conn[q],
         \/ conn'[c].failed
         \/ conn'[c].got = <<>> /\ conn'[c].pc \notin {"del", "srem"}
  PROVE  OrderInv'
  <1>1. conn'[c] \in ConnType
    BY DEF IInv, TypeOK
  <1>2. ~conn'[c].failed => InLine(conn'[c], list', queued)
    BY <1>1, Afresh DEF OrderInv
  <1> QED BY <1>2, SameLists, OrderStep

\* A handler that goes on with what it has and may find less.
LEMMA LessStep ==
  ASSUME IInv, IInv', OrderInv, UNCHANGED queued, Fewer(list, list'),
         NEW c \in Conn, \A q \in Conn \ {c} : conn'[q] = conn[q],
         \/ conn'[c].failed
         \/ /\ conn'[c].box = conn[c].box /\ conn'[c].got = conn[c].got
            /\ conn'[c].failed = conn[c].failed
            /\ \A s \in Sender :
                  /\ Held(conn'[c], s) \in {Held(conn[c], s), <<>>}
                  /\ Later(conn'[c], s, list') \in {Later(conn[c], s, list), <<>>}
  PROVE  OrderInv'
  <1>1. conn[c] \in ConnType /\ conn'[c] \in ConnType
    BY DEF IInv, TypeOK
  <1>2. ASSUME ~conn'[c].failed PROVE InLine(conn'[c], list', queued)
    <2>1. InLine(conn[c], list, queued)
      BY <1>2 DEF OrderInv
    <2> QED BY <1>1, <1>2, <2>1, FewerLeft
  <1> QED BY <1>2, OrderStep

\* Nobody goes on, but lists may be deleted.
LEMMA StillStep ==
  ASSUME IInv, OrderInv, UNCHANGED <<conn, queued>>, Fewer(list, list')
  PROVE  OrderInv'
  <1>1. ListsInLine(list', queued)
    BY ListsShrink DEF OrderInv
  <1>2. ASSUME NEW q \in Conn, ~conn'[q].failed PROVE InLine(conn'[q], list', queued)
    <2>1. conn[q] \in ConnType /\ InLine(conn[q], list, queued) /\ conn'[q] = conn[q]
      BY <1>2 DEF IInv, TypeOK, OrderInv
    <2>2. \A s \in Sender : Later(conn[q], s, list') \in {Later(conn[q], s, list), <<>>}
      BY <2>1 DEF Later, Fewer, ConnType
    <2>3. InLine(conn[q], list', queued)
      BY <2>1, <2>2, FewerLeft
    <2> QED BY <2>1, <2>3
  <1> QED BY <1>1, <1>2 DEF OrderInv

LEMMA ListSenders ==
  ASSUME IInv, NEW b \in Box, NEW s \in Sender
  PROVE  \A i \in DOMAIN list[b][s] : SenderOf[list[b][s][i]] = s
  BY DEF IInv, ListInv

LEMMA OrderLRange ==
  ASSUME IInv, IInv', OrderInv, NEW c \in Conn, LRange(c)
  PROVE  OrderInv'
  <1> DEFINE k == conn[c]
  <1>1. /\ k \in ConnType /\ k.pc = "lrange" /\ k.caller \in {"all", "with", "live"}
        /\ k.box \in Box /\ k.senders \subseteq Sender /\ conn \in [Conn -> ConnType]
        /\ UNCHANGED <<list, queued>>
    BY Handler DEF LRange, redis, history, Locals, ConnType
  <1>2. PICK t \in k.senders :
          conn' = [conn EXCEPT ![c] =
            IF list[k.box][t] # <<>>
            THEN [k EXCEPT !.pc = "del", !.from = t, !.snap = list[k.box][t]]
            ELSE [k EXCEPT !.pc = After(k.caller), !.senders = @ \ {t}]]
    BY DEF LRange, Set
  <1>3. \A q \in Conn \ {c} : conn'[q] = conn[q]
    BY <1>1, <1>2
  <1>4. CASE list[k.box][t] # <<>>
    <2>1. /\ conn'[c].pc = "del" /\ conn'[c].from = t /\ conn'[c].snap = list[k.box][t]
          /\ conn'[c].box = k.box /\ conn'[c].got = k.got /\ conn'[c].failed = k.failed
      BY <1>1, <1>2, <1>4 DEF ConnType
    <2>2. ASSUME ~conn'[c].failed PROVE InLine(conn'[c], list', queued)
      <3>1. InLine(k, list, queued) /\ conn'[c] \in ConnType /\ t \in Sender
        BY <1>1, <2>1, <2>2 DEF OrderInv, IInv, TypeOK
      <3>2. \A s \in Sender : Later(k, s, list) = list[k.box][s]
        BY <1>1 DEF Later
      <3>3. \A i \in DOMAIN list[k.box][t] : SenderOf[list[k.box][t][i]] = t
        BY <1>1, <3>1, ListSenders
      <3>4. /\ Held(conn'[c], t) = list[k.box][t] /\ Later(conn'[c], t, list) = <<>>
            /\ \A s \in Sender \ {t} : /\ Held(conn'[c], s) = <<>>
                                       /\ Later(conn'[c], s, list) = list[k.box][s]
        BY <2>1 DEF Held, Later
      <3> QED BY <1>1, <2>1, <3>1, <3>2, <3>3, <3>4, Read
    <2> QED BY <1>1, <1>3, <2>2, SameLists, OrderStep
  <1>5. CASE list[k.box][t] = <<>>
    <2>1. /\ conn'[c].pc = After(k.caller) /\ conn'[c].senders = k.senders \ {t}
          /\ conn'[c].box = k.box /\ conn'[c].got = k.got /\ conn'[c].failed = k.failed
      BY <1>1, <1>2, <1>5 DEF ConnType
    <2>2. After(k.caller) \in {"lrange", "scan", "writeLive"}
      BY <1>1 DEF After
    <2>3. \A s \in Sender : /\ Held(conn'[c], s) = <<>>
                            /\ Later(conn'[c], s, list') \in {Later(k, s, list), <<>>}
      BY <1>1, <2>1, <2>2 DEF Held, Later
    <2> QED BY <1>1, <1>3, <2>1, <2>3, SameLists, LessStep
  <1> QED BY <1>4, <1>5

LEMMA OrderSRem ==
  ASSUME IInv, IInv', OrderInv, NEW c \in Conn, SRem(c) \/ SRemFails(c)
  PROVE  OrderInv'
  <1> DEFINE k == conn[c]
  <1>1. /\ k \in ConnType /\ k.pc = "srem" /\ k.caller \in {"all", "with", "live"}
        /\ k.box \in Box /\ k.from \in Sender /\ conn \in [Conn -> ConnType]
        /\ k.snap \in Seq(Msg) /\ k.got \in Seq(Msg)
        /\ UNCHANGED <<list, queued>> /\ conn'[c] \in ConnType
    BY Handler DEF SRem, SRemFails, redis, history, Locals, ConnType, IInv, TypeOK
  <1>2. conn' = [conn EXCEPT ![c] =
          [k EXCEPT !.pc = After(k.caller), !.senders = @ \ {k.from},
                    !.got = IF k.caller = "live" THEN @ ELSE @ \o k.snap,
                    !.from = NoSender, !.snap = <<>>]]
    BY DEF SRem, SRemFails, Return, Set
  <1>3. /\ \A q \in Conn \ {c} : conn'[q] = conn[q]
        /\ conn'[c].pc = After(k.caller) /\ conn'[c].senders = k.senders \ {k.from}
        /\ conn'[c].got = (IF k.caller = "live" THEN k.got ELSE k.got \o k.snap)
        /\ conn'[c].box = k.box /\ conn'[c].failed = k.failed
    BY <1>1, <1>2 DEF ConnType
  <1>4. After(k.caller) \in {"lrange", "scan", "writeLive"}
    BY <1>1 DEF After
  <1>5. \A s \in Sender : /\ Held(conn'[c], s) = <<>>
                          /\ Later(conn'[c], s, list) \in {Later(k, s, list), <<>>}
    BY <1>1, <1>3, <1>4 DEF Held, Later
  <1>6. CASE k.caller = "live"
    <2>1. conn'[c].got = k.got
      BY <1>3, <1>6
    <2> QED BY <1>1, <1>3, <1>5, <2>1, SameLists, LessStep
  <1>7. CASE k.caller # "live"
    <2>1. conn'[c].got = k.got \o k.snap /\ Held(k, k.from) = k.snap
      BY <1>1, <1>3, <1>7 DEF Held
    <2>2. ASSUME ~conn'[c].failed PROVE InLine(conn'[c], list', queued)
      <3>1. InLine(k, list, queued)
        BY <1>3, <2>2 DEF OrderInv
      <3>2. \A i \in DOMAIN k.snap : SenderOf[k.snap[i]] = k.from
        BY <1>1, <2>1, <3>1 DEF InLine
      <3> HIDE DEF k
      <3>3. /\ k \in ConnType /\ conn'[c] \in ConnType /\ k.from \in Sender
            /\ k.snap \in Seq(Msg) /\ k.snap = Held(k, k.from)
            /\ conn'[c].box = k.box /\ conn'[c].got = k.got \o k.snap
        BY <1>1, <1>3, <2>1
      <3>4. InLine(conn'[c], list, queued)
        BY <1>5, <3>1, <3>2, <3>3, Taken
      <3> QED BY <1>1, <3>4
    <2> QED BY <1>1, <1>3, <2>2, SameLists, OrderStep
  <1> QED BY <1>6, <1>7

LEMMA OrderScanKey ==
  ASSUME IInv, IInv', OrderInv, NEW c \in Conn, ScanKey(c)
  PROVE  OrderInv'
  <1> DEFINE k == conn[c]
  <1>1. /\ k \in ConnType /\ k.pc = "scan" /\ k.box \in Box /\ k.senders \subseteq Sender
        /\ conn \in [Conn -> ConnType] /\ list \in [Box -> [Sender -> Seq(Msg)]]
        /\ UNCHANGED <<list, queued>> /\ conn'[c] \in ConnType
    BY Handler DEF ScanKey, redis, history, ConnType, IInv, TypeOK
  <1>2. PICK t \in k.senders : conn' = [conn EXCEPT ![c] =
                        [k EXCEPT !.pc = IF list[k.box][t] = <<>> THEN "scan" ELSE "kdel",
                                  !.from = t, !.senders = @ \ {t},
                                  !.got = @ \o list[k.box][t]]]
    BY DEF ScanKey, Set
  <1>3. /\ \A q \in Conn \ {c} : conn'[q] = conn[q]
        /\ conn'[c].pc \in {"scan", "kdel"} /\ conn'[c].senders = k.senders \ {t}
        /\ conn'[c].got = k.got \o list[k.box][t]
        /\ conn'[c].box = k.box /\ conn'[c].failed = k.failed
    <2> DEFINE r == [k EXCEPT !.pc = IF list[k.box][t] = <<>> THEN "scan" ELSE "kdel",
                              !.from = t, !.senders = @ \ {t},
                              !.got = @ \o list[k.box][t]]
    <2>1. /\ r.pc \in {"scan", "kdel"} /\ r.senders = k.senders \ {t}
          /\ r.got = k.got \o list[k.box][t] /\ r.box = k.box /\ r.failed = k.failed
      <3> HIDE DEF k
      <3> QED BY <1>1 DEF ConnType
    <2>2. conn' = [conn EXCEPT ![c] = r]
      BY <1>2
    <2> HIDE DEF r
    <2>3. conn'[c] = r /\ \A q \in Conn \ {c} : conn'[q] = conn[q]
      BY <1>1, <2>2
    <2> QED BY <2>1, <2>3
  <1>4. /\ \A s \in Sender : /\ Held(conn'[c], s) = <<>>
                             /\ Later(conn'[c], s, list) \in {Later(k, s, list), <<>>}
        /\ t \in Sender /\ Later(k, t, list) = list[k.box][t] /\ Later(conn'[c], t, list) = <<>>
    BY <1>1, <1>3 DEF Held, Later
  <1>5. ASSUME ~conn'[c].failed PROVE InLine(conn'[c], list', queued)
    <2>1. InLine(k, list, queued)
      BY <1>3, <1>5 DEF OrderInv
    <2>2. \A i \in DOMAIN list[k.box][t] : SenderOf[list[k.box][t][i]] = t
      BY <1>1, <1>4, ListSenders
    <2>3. list[k.box][t] \in Seq(Msg)
      BY <1>1, <1>4
    <2> HIDE DEF k
    <2>4. /\ k \in ConnType /\ conn'[c] \in ConnType /\ t \in Sender
          /\ conn'[c].box = k.box /\ conn'[c].got = k.got \o list[k.box][t]
          /\ \A s \in Sender : /\ Held(conn'[c], s) = <<>>
                               /\ Later(conn'[c], s, list) \in {Later(k, s, list), <<>>}
          /\ list[k.box][t] = Later(k, t, list) /\ Later(conn'[c], t, list) = <<>>
      BY <1>1, <1>3, <1>4
    <2>5. InLine(conn'[c], list, queued)
      BY <2>1, <2>2, <2>3, <2>4, Taken
    <2> QED BY <1>1, <2>5
  <1> QED BY <1>1, <1>3, <1>5, SameLists, OrderStep

\* The other commands of a drain.
LEMMA OrderDrain ==
  ASSUME IInv, IInv', OrderInv, NEW c \in Conn,
         SMembers(c) \/ DelIndex(c) \/ DelIndexFails(c) \/ Keys(c) \/ DelList(c) \/ DelKey(c)
  PROVE  OrderInv'
  <1> DEFINE k == conn[c]
  <1>1. /\ k \in ConnType /\ Locals(k) /\ conn \in [Conn -> ConnType]
        /\ list \in [Box -> [Sender -> Seq(Msg)]]
    BY Handler
  <1>2. CASE SMembers(c) \/ DelIndex(c) \/ DelIndexFails(c) \/ Keys(c)
    <2>1. /\ UNCHANGED <<list, queued>> /\ \A q \in Conn \ {c} : conn'[q] = conn[q]
          /\ conn'[c].box = k.box /\ conn'[c].got = k.got /\ conn'[c].failed = k.failed
          /\ k.pc \in {"smembers", "lrange", "keys"} /\ conn'[c].pc \in {"lrange", "keys", "scan"}
      <3>1. CASE SMembers(c)
        BY <1>1, <3>1 DEF SMembers, Set, redis, history, ConnType
      <3>2. CASE DelIndex(c) \/ DelIndexFails(c)
        BY <1>1, <3>2 DEF DelIndex, DelIndexFails, IndexDone, Set, redis, history, ConnType
      <3>3. CASE Keys(c)
        BY <1>1, <3>3 DEF Keys, Set, redis, history, ConnType
      <3> QED BY <1>2, <3>1, <3>2, <3>3
    <2>2. \A s \in Sender : /\ Held(conn'[c], s) = <<>>
                            /\ Later(conn'[c], s, list') \in {Later(k, s, list), <<>>}
      BY <2>1 DEF Held, Later
    <2> QED BY <2>1, <2>2, SameLists, LessStep
  <1>3. CASE DelList(c) \/ DelKey(c)
    <2>1. /\ k.pc \in {"del", "kdel"} /\ queued' = queued /\ Empty(k.box, k.from)
          /\ conn' = [conn EXCEPT ![c].pc = IF k.pc = "del" THEN "srem" ELSE "scan"]
      BY <1>3 DEF DelList, Del, DelKey, Set, history
    <2>2. k.box \in Box /\ k.from \in Sender
      BY <1>1, <2>1 DEF Locals, ConnType
    <2>3. Fewer(list, list') /\ list'[k.box][k.from] = <<>>
      BY <2>1, <2>2, EmptyEffect DEF Fewer
    <2>4. /\ \A q \in Conn \ {c} : conn'[q] = conn[q]
          /\ conn'[c].box = k.box /\ conn'[c].got = k.got /\ conn'[c].failed = k.failed
          /\ conn'[c].from = k.from /\ conn'[c].snap = k.snap /\ conn'[c].senders = k.senders
          /\ conn'[c].pc = (IF k.pc = "del" THEN "srem" ELSE "scan")
      BY <1>1, <2>1 DEF ConnType
    <2>5. \A s \in Sender : list'[k.box][s] \in {list[k.box][s], <<>>}
      BY <2>2, <2>3 DEF Fewer
    <2>6. \A s \in Sender : /\ Held(conn'[c], s) \in {Held(k, s), <<>>}
                            /\ Later(conn'[c], s, list') \in {Later(k, s, list), <<>>}
      <3>1. \A s \in Sender : Held(conn'[c], s) \in {Held(k, s), <<>>}
        BY <2>1, <2>4 DEF Held
      <3>2. CASE k.pc = "del"
        BY <2>3, <2>4, <2>5, <3>1, <3>2 DEF Later
      <3>3. CASE k.pc = "kdel"
        BY <2>3, <2>4, <2>5, <3>1, <3>3 DEF Later
      <3> QED BY <2>1, <3>2, <3>3
    <2> HIDE DEF k
    <2>7. conn[c] = k
      BY DEF k
    <2> QED BY <2>1, <2>3, <2>4, <2>6, <2>7, LessStep
  <1> QED BY <1>2, <1>3

\* The failing commands of a drain, but for that of SREM and of the index.
LEMMA OrderFails ==
  ASSUME IInv, IInv', OrderInv, NEW c \in Conn,
         \/ LRangeFails(c) \/ DelListFails(c) \/ SMembersFails(c) \/ KeysFails(c)
         \/ ScanKeyFails(c) \/ DelKeyFails(c)
  PROVE  OrderInv'
  <1> DEFINE k == conn[c]
  <1>1. k \in ConnType /\ conn \in [Conn -> ConnType]
    BY Handler
  <1>2. Idle.got = <<>> /\ Idle.pc = "idle"
    BY DEF Idle
  <1>3. CASE LRangeFails(c)
    <2>1. PICK s \in k.senders :
            conn' = [conn EXCEPT ![c] =
              IF k.caller = "with" /\ k.kind = "fetch" THEN Idle
              ELSE [k EXCEPT !.pc = After(k.caller), !.failed = TRUE, !.senders = @ \ {s}]]
      BY <1>3 DEF LRangeFails, Set
    <2>2. conn'[c] = Idle \/ conn'[c].failed
      <3>1. CASE k.caller = "with" /\ k.kind = "fetch"
        BY <1>1, <2>1, <3>1
      <3>2. CASE ~(k.caller = "with" /\ k.kind = "fetch")
        BY <1>1, <2>1, <3>2 DEF ConnType
      <3> QED BY <3>1, <3>2
    <2>3. UNCHANGED <<queued, list>> /\ \A q \in Conn \ {c} : conn'[q] = conn[q]
      BY <1>1, <1>3, <2>1 DEF LRangeFails, redis, history
    <2> QED BY <1>2, <2>2, <2>3, FreshStep
  <1>4. CASE DelListFails(c) \/ KeysFails(c) \/ DelKeyFails(c)
    <2>1. /\ UNCHANGED <<queued, list>> /\ conn'[c].failed
          /\ \A q \in Conn \ {c} : conn'[q] = conn[q]
      <3>1. CASE DelListFails(c)
        BY <1>1, <3>1 DEF DelListFails, Set, redis, history, ConnType
      <3>2. CASE KeysFails(c)
        BY <1>1, <3>2 DEF KeysFails, Set, redis, history, ConnType
      <3>3. CASE DelKeyFails(c)
        BY <1>1, <3>3 DEF DelKeyFails, Set, redis, history, ConnType
      <3> QED BY <1>4, <3>1, <3>2, <3>3
    <2> QED BY <2>1, FreshStep
  <1>5. CASE SMembersFails(c)
    <2>1. /\ UNCHANGED <<queued, list>> /\ (conn'[c] = Idle \/ conn'[c].failed)
          /\ \A q \in Conn \ {c} : conn'[q] = conn[q]
      <3>1. CASE conn[c].kind = "fetch"
        BY <1>1, <1>5, <3>1 DEF SMembersFails, Set, redis, history
      <3>2. CASE conn[c].kind # "fetch"
        <4>1. conn' = [conn EXCEPT ![c] = [conn[c] EXCEPT !.pc = "scan", !.failed = TRUE]]
              /\ UNCHANGED <<queued, list>>
          BY <1>5, <3>2 DEF SMembersFails, Set, redis, history
        <4> QED BY <1>1, <4>1 DEF ConnType
      <3> QED BY <3>1, <3>2
    <2> QED BY <1>2, <2>1, FreshStep
  <1>6. CASE ScanKeyFails(c)
    <2>1. PICK s \in k.senders :
            conn' = [conn EXCEPT ![c] = [k EXCEPT !.senders = @ \ {s}, !.failed = TRUE]]
      BY <1>6 DEF ScanKeyFails, Set
    <2>2. /\ UNCHANGED <<queued, list>> /\ conn'[c].failed
          /\ \A q \in Conn \ {c} : conn'[q] = conn[q]
      BY <1>1, <1>6, <2>1 DEF ScanKeyFails, redis, history, ConnType
    <2> QED BY <2>2, FreshStep
  <1> QED BY <1>3, <1>4, <1>5, <1>6

\* A DEL or SREM that is sent again.
LEMMA OrderResent ==
  ASSUME IInv, OrderInv, NEW c \in Conn, ClearResent(c)
  PROVE  OrderInv'
  <1> DEFINE k == conn[c]
  <1>1. UNCHANGED <<conn, queued>>
    BY DEF ClearResent
  <1>2. Fewer(list, list')
    <2>1. CASE k.pc \in {"del", "kdel"} /\ Del(k)
      <3>1. k.box \in Box /\ k.from \in Sender /\ Empty(k.box, k.from)
        BY <2>1, Handler DEF Locals, ConnType, Del
      <3> QED BY <3>1, EmptyEffect DEF Fewer
    <2>2. CASE UNCHANGED list
      BY <2>2, SameLists
    <2> QED BY <2>1, <2>2 DEF ClearResent
  <1> QED BY <1>1, <1>2, StillStep

\* The handlers around a drain: they begin and end with nothing found.
LEMMA OrderAround ==
  ASSUME IInv, IInv', OrderInv, NEW c \in Conn,
         \/ Arrival(c) \/ FetchReply(c) \/ StreamFlush(c) \/ Subscribe(c)
         \/ LiveWrite(c) \/ LiveSkip(c) \/ LiveClear(c) \/ Disconnect(c)
  PROVE  OrderInv'
  <1> DEFINE k == conn[c]
  <1>1. k \in ConnType /\ Locals(k) /\ conn \in [Conn -> ConnType]
    BY Handler
  <1>2. Idle.got = <<>> /\ Idle.pc = "idle"
    BY DEF Idle
  <1>3. CASE Arrival(c)
    <2>1. PICK q \in Requests : Start(c, q)
      BY <1>3 DEF Arrival
    <2>2. /\ conn'[c].got = <<>> /\ conn'[c].pc \in {"smembers", "lrange"}
          /\ \A a \in Conn \ {c} : conn'[a] = conn[a]
      BY <1>1, <2>1 DEF Start, Set, Idle
    <2>3. UNCHANGED <<queued, list>>
      BY <2>1 DEF Start, redis, history
    <2> QED BY <2>2, <2>3, FreshStep
  <1>4. CASE FetchReply(c)
    <2>1. /\ conn'[c] = Idle /\ UNCHANGED <<queued, list>>
          /\ \A a \in Conn \ {c} : conn'[a] = conn[a]
      BY <1>1, <1>4 DEF FetchReply, Deliver, Set, redis
    <2> QED BY <1>2, <2>1, FreshStep
  <1>5. CASE StreamFlush(c)
    <2>1. /\ conn'[c].got = <<>> /\ conn'[c].pc = "subscribe" /\ UNCHANGED <<queued, list>>
          /\ \A a \in Conn \ {c} : conn'[a] = conn[a]
      BY <1>1, <1>5 DEF StreamFlush, Deliver, Set, redis, ConnType
    <2> QED BY <2>1, FreshStep
  <1>6. CASE Subscribe(c) \/ LiveClear(c)
    <2>1. /\ conn'[c].got = k.got /\ conn'[c].pc \in {"live", "lrange"}
          /\ k.pc \in {"subscribe", "live"} /\ UNCHANGED <<queued, list>>
          /\ \A a \in Conn \ {c} : conn'[a] = conn[a]
      <3>1. CASE Subscribe(c)
        BY <1>1, <3>1 DEF Subscribe, Set, redis, history, ConnType
      <3>2. CASE LiveClear(c)
        BY <1>1, <3>2 DEF LiveClear, Set, redis, history, ConnType
      <3> QED BY <1>6, <3>1, <3>2
    <2>2. k.got = <<>>
      BY <1>1, <2>1 DEF Locals
    <2> QED BY <2>1, <2>2, FreshStep
  <1>7. CASE LiveWrite(c)
    <2>1. /\ conn'[c].got = k.got /\ conn'[c].pc = "live"
          /\ k.pc \in {"live", "writeLive"} /\ UNCHANGED <<queued, list>>
          /\ \A a \in Conn \ {c} : conn'[a] = conn[a]
      BY <1>1, <1>7 DEF LiveWrite, Deliver, Set, redis, ConnType
    <2>2. k.got = <<>>
      BY <1>1, <2>1 DEF Locals
    <2> QED BY <2>1, <2>2, FreshStep
  <1>8. CASE LiveSkip(c)
    <2>1. UNCHANGED <<conn, queued, list>>
      BY <1>8 DEF LiveSkip, redis, history
    <2> QED BY <2>1, SameLists, StillStep
  <1>9. CASE Disconnect(c)
    <2>1. /\ conn'[c] = Idle /\ UNCHANGED <<queued, list>>
          /\ \A a \in Conn \ {c} : conn'[a] = conn[a]
      BY <1>1, <1>9 DEF Disconnect, Set, redis
    <2> QED BY <1>2, <2>1, FreshStep
  <1> QED BY <1>3, <1>4, <1>5, <1>6, <1>7, <1>8, <1>9

LEMMA OrderRPush ==
  ASSUME IInv, OrderInv, NEW m \in Msg, RPush(m)
  PROVE  OrderInv'
  <1> DEFINE b == Head(up[m].todo)
             t == SenderOf[m]
  <1>1. /\ up[m].todo \in Seq(Box) /\ up[m].todo # <<>> /\ t \in Sender
        /\ list \in Lists /\ queued \in Seq(Copy) /\ conn' = conn
        /\ list' = [list EXCEPT ![b][t] = Append(@, m)]
        /\ queued' = Append(queued, [box |-> b, msg |-> m])
    BY DEF IInv, TypeOK, UploadInv, RPush, Lists
  <1>2. b \in Box
    BY <1>1
  <1> HIDE DEF b, t
  <1>3. ListsInLine(list', queued')
    BY <1>1, <1>2, ListsPushed DEF OrderInv
  <1>4. ASSUME NEW q \in Conn, ~conn'[q].failed PROVE InLine(conn'[q], list', queued')
    <2>1. conn[q] \in ConnType /\ InLine(conn[q], list, queued)
      BY <1>1, <1>4 DEF IInv, TypeOK, OrderInv
    <2> QED BY <1>1, <1>2, <2>1, Pushed
  <1> QED BY <1>3, <1>4 DEF OrderInv

\* The other steps of uploads, and those of nobody's.
LEMMA OrderElse ==
  ASSUME IInv, OrderInv,
         \/ \E m \in Msg : Upload(m) /\ ~RPush(m)
         \/ \E b \in Box : IndexExpires(b)
         \/ FlushServer
         \/ UNCHANGED vars
  PROVE  OrderInv'
  <1>1. CASE \E m \in Msg : Upload(m) /\ ~RPush(m)
    <2>1. UNCHANGED <<conn, queued, list>>
      BY <1>1 DEF Upload, PostMessage, PostFails, SAdd, PipelineFails, PipelineResent, Publish,
                  PublishFails, PublishResent, redis, history
    <2> QED BY <2>1, SameLists, StillStep
  <1>2. CASE \E b \in Box : IndexExpires(b)
    <2>1. UNCHANGED <<conn, queued, list>>
      BY <1>2 DEF IndexExpires, history
    <2> QED BY <2>1, SameLists, StillStep
  <1>3. CASE FlushServer
    <2>1. UNCHANGED <<conn, queued>> /\ Fewer(list, list')
      BY <1>3 DEF FlushServer, Fewer
    <2> QED BY <2>1, StillStep
  <1>4. CASE UNCHANGED vars
    <2>1. UNCHANGED <<conn, queued, list>>
      BY <1>4 DEF vars, redis, history
    <2> QED BY <2>1, SameLists, StillStep
  <1> QED BY <1>1, <1>2, <1>3, <1>4

LEMMA NextOrderInv == IInv /\ OrderInv /\ [Next]_vars => OrderInv'
  <1> SUFFICES ASSUME IInv, OrderInv, [Next]_vars PROVE OrderInv'
    OBVIOUS
  <1>1. IInv'
    BY NextIInv
  <1>2. ASSUME NEW c \in Conn, Arrival(c) \/ Handle(c) \/ Failure(c) PROVE OrderInv'
    <2>1. CASE Arrival(c)
      BY <1>1, <2>1, OrderAround
    <2>2. CASE Handle(c)
      BY <1>1, <2>2, OrderLRange, OrderSRem, OrderScanKey, OrderDrain, OrderAround DEF Handle
    <2>3. CASE Failure(c)
      BY <1>1, <2>3, OrderSRem, OrderDrain, OrderFails, OrderResent, OrderAround DEF Failure
    <2> QED BY <1>2, <2>1, <2>2, <2>3
  <1>3. CASE \E m \in Msg : RPush(m)
    BY <1>3, OrderRPush
  <1>4. CASE ~(\E m \in Msg : RPush(m)) /\ \E m \in Msg : Upload(m)
    BY <1>4, OrderElse
  <1>5. CASE (\E b \in Box : IndexExpires(b)) \/ FlushServer \/ UNCHANGED vars
    BY <1>5, OrderElse
  <1> QED BY <1>2, <1>3, <1>4, <1>5 DEF Next

LEMMA InitOrderInv == Init => OrderInv
  <1> SUFFICES ASSUME Init PROVE OrderInv
    OBVIOUS
  <1>1. ListsInLine(list, queued)
    <2>1. \A b \in Box, s \in Sender : list[b][s] = <<>>
      BY DEF Init
    <2> QED BY <2>1, EmbedsNothing DEF ListsInLine
  <1>2. ASSUME NEW c \in Conn PROVE InLine(conn[c], list, queued)
    <2>1. conn[c] = Idle /\ Idle \in ConnType /\ Idle.got = <<>> /\ Idle.pc = "idle"
      BY InitIInv, Handler DEF Init, Idle
    <2> QED BY <1>1, <2>1, Afresh
  <1> QED BY <1>1, <1>2 DEF OrderInv

LEMMA SpecOrderInv == Spec => [](IInv /\ OrderInv)
  BY InitIInv, NextIInv, InitOrderInv, NextOrderInv, PTL DEF Spec

\* What one drain that met no error returns of a sender is in the order of arrival,
\* whatever other drains, appends and expiries of the index came in between.
THEOREM DrainsAreInOrder == Spec => []DrainInOrder
  <1>1. IInv /\ OrderInv => DrainInOrder
    <2> SUFFICES ASSUME IInv, OrderInv, NEW c \in Conn, NEW s \in Sender, ~conn[c].failed
                 PROVE  Subsequence(Keep(conn[c].got, {m \in Msg : SenderOf[m] = s}),
                                    [i \in DOMAIN queued |-> IF queued[i].box = conn[c].box
                                                             THEN queued[i].msg ELSE NoSender])
      BY DEF DrainInOrder
    <2> DEFINE k == conn[c]
               S == {m \in Msg : SenderOf[m] = s}
               kept == Keep(k.got, S)
               target == [i \in DOMAIN queued |-> IF queued[i].box = k.box
                                                  THEN queued[i].msg ELSE NoSender]
    <2>1. InLine(k, list, queued) /\ k.got \in Seq(Msg)
      BY Handler DEF OrderInv, ConnType
    <2>2. PICK f : /\ Embeds(f, k.box, k.got, queued)
                   /\ \A a \in Sender : \E h, e : Line(f, h, e, k, a, list, queued)
      BY <2>1 DEF InLine
    <2>3. \A i, j \in DOMAIN k.got :
             SenderOf[k.got[i]] = s /\ SenderOf[k.got[j]] = s /\ i < j => f[i] < f[j]
      BY <2>2 DEF Line
    <2>4. PICK h : Places(k.got, S, Len(k.got), kept, h)
      BY <2>1, KeepPlaces
    <2> DEFINE g == [i \in DOMAIN kept |-> f[h[i]]]
    <2>5. DOMAIN k.got = 1 .. Len(k.got)
      BY <2>1
    <2>6. ASSUME NEW i \in DOMAIN kept
          PROVE  /\ h[i] \in DOMAIN k.got /\ SenderOf[k.got[h[i]]] = s
                 /\ kept[i] = k.got[h[i]]
      BY <2>4, <2>5 DEF Places
    <2>7. ASSUME NEW i \in DOMAIN kept
          PROVE  f[h[i]] \in DOMAIN queued /\ target[f[h[i]]] = kept[i]
      <3>1. f[h[i]] \in DOMAIN queued
            /\ queued[f[h[i]]] = [box |-> k.box, msg |-> k.got[h[i]]]
        BY <2>2, <2>6 DEF Embeds
      <3> QED BY <2>6, <3>1
    <2>8. \A i, j \in DOMAIN kept : i < j => f[h[i]] < f[h[j]]
      BY <2>3, <2>4, <2>6 DEF Places
    <2>9. DOMAIN target = DOMAIN queued
      OBVIOUS
    <2> HIDE DEF kept, target
    <2>10. /\ g \in [DOMAIN kept -> DOMAIN target]
           /\ \A i \in DOMAIN kept : kept[i] = target[g[i]]
           /\ \A i, j \in DOMAIN kept : i < j => g[i] < g[j]
      BY <2>7, <2>8, <2>9
    <2>11. Subsequence(kept, target)
      BY <2>10 DEF Subsequence
    <2> QED BY <2>11 DEF kept, target
  <1> QED BY <1>1, SpecOrderInv, PTL

-----------------------------------------------------------------------------
(* What a live stream of one sender writes is cleared (LiveNotRequeued).    *)
(* Without failures a copy is appended once and then published to the       *)
(* stream, so a copy that the stream has written under another spelling and *)
(* that is still in the list is about to be announced, is announced, or is  *)
(* about to be cleared on behalf of the message the stream works on.        *)

\* m was appended to the list of box b.
Was(b, m, Q) == \E i \in DOMAIN Q : Q[i] = [box |-> b, msg |-> m]

\* m is in the list of box b.
Stays(b, m, L) == \E i \in DOMAIN L[b][SenderOf[m]] : L[b][SenderOf[m]][i] = m

\* m was appended to the list of b and is no longer there.
Gone(b, m, L, Q) == Was(b, m, Q) /\ ~Stays(b, m, L)

\* An upload with record u has appended to the list of b, or given up, and will
\* publish to the streams of b next.
Coming(u, b) == u.pc \in {"sadd", "publish"} /\ Head(u.todo) = b

\* An upload has still to append to the list of b.
ToPush(u, b) == \E i \in DOMAIN u.todo : u.todo[i] = b /\ (i > 1 \/ u.pc = "rpush")

\* An upload appends once to each list it fans out to.
PushedOnce(u, m, Q) ==
    /\ \A i, j \in DOMAIN u.todo : u.todo[i] = u.todo[j] => i = j
    /\ \A b \in Box : Was(b, m, Q) => u.pc # "idle" /\ ~ToPush(u, b)

\* A handler clears a list on behalf of a live message.
ForLive(k) == k.pc \in {"lrange", "del", "srem"} /\ k.caller = "live"

\* A handler reads a list for its answer or its flush.
ForFlush(k) == k.pc \in {"lrange", "del", "srem"} /\ k.caller = "with"

\* The handler of one sender, with what its stream has buffered: it knows but
\* that sender's list, is subscribed after its flush, and works on the first
\* message of the buffer while it clears.
OneSender(k, ch) ==
    k.with \in Sender =>
        /\ \/ ForLive(k) \/ ForFlush(k)
           \/ k.pc \in {"scan", "subscribe", "live", "writeLive"}
        /\ k.pc = "lrange" => k.senders = {k.with}
        /\ k.pc \in {"del", "srem"} => k.from = k.with /\ k.senders \subseteq {k.with}
        /\ k.pc = "scan" => k.senders = {}
        /\ k.pc = "writeLive" => k.caller = "live"
        /\ ForLive(k) \/ k.pc = "writeLive" => ch # <<>>
        /\ k.subscribed <=> ForLive(k) \/ k.pc \in {"live", "writeLive"}
        /\ ForFlush(k) => k.got = <<>> /\ k.wrote = {}
        /\ k.pc = "scan" => k.wrote = {}

\* What such a handler has read and written of message m is gone from the list
\* until it has subscribed.  Later it is gone, will be announced, or is to be
\* cleared by the handler; and once the handler has cleared, only what is or will
\* be announced behind the message it works on can be in the list.
Cleared(k, ch, u, m, L, Q) ==
    SenderOf[m] = k.with /\ k.with \in Sender =>
        /\ k.pc = "del" /\ m \in ToSet(k.snap) => Was(k.box, m, Q)
        /\ k.pc = "srem" /\ ForFlush(k) /\ m \in ToSet(k.snap) => Gone(k.box, m, L, Q)
        /\ k.pc = "scan" /\ m \in ToSet(k.got) => Gone(k.box, m, L, Q)
        /\ k.pc = "subscribe" /\ m \in k.wrote => Gone(k.box, m, L, Q)
        /\ k.subscribed /\ m \in k.wrote /\ Stays(k.box, m, L)
              => Coming(u, k.box) \/ m \in ToSet(ch) \/ k.pc \in {"lrange", "del"}
        /\ (k.pc = "srem" /\ ForLive(k)) \/ k.pc = "writeLive"
              => (Stays(k.box, m, L) => Coming(u, k.box) \/ m \in ToSet(Tail(ch)))

LiveInv ==
    faults = 0 =>
        /\ \A m \in Msg : PushedOnce(up[m], m, queued)
        /\ \A c \in Conn : OneSender(conn[c], chan[c])
        /\ \A c \in Conn, m \in Msg : Cleared(conn[c], chan[c], up[m], m, list, queued)

-----------------------------------------------------------------------------
LEMMA Buffered ==
  ASSUME NEW s \in Seq(Msg), NEW m \in Msg
  PROVE  /\ s # <<>> => ToSet(s) = {Head(s)} \cup ToSet(Tail(s))
         /\ ToSet(Append(s, m)) = ToSet(s) \cup {m}
         /\ s # <<>> => ToSet(Tail(Append(s, m))) = ToSet(Tail(s)) \cup {m}
  <1>1. ASSUME NEW t \in Seq(Msg), t # <<>> PROVE ToSet(t) = {Head(t)} \cup ToSet(Tail(t))
    <2>1. t[1] = Head(t) /\ 1 \in DOMAIN t
      BY <1>1
    <2>2. \A i \in DOMAIN Tail(t) : i + 1 \in DOMAIN t /\ Tail(t)[i] = t[i + 1]
      BY <1>1
    <2>3. \A i \in DOMAIN t : i = 1 \/ (i - 1 \in DOMAIN Tail(t) /\ t[i] = Tail(t)[i - 1])
      BY <1>1
    <2>4. ToSet(t) \subseteq {Head(t)} \cup ToSet(Tail(t))
      <3> SUFFICES ASSUME NEW x \in ToSet(t) PROVE x \in {Head(t)} \cup ToSet(Tail(t))
        OBVIOUS
      <3>1. PICK i \in DOMAIN t : x = t[i]
        BY DEF ToSet
      <3>2. i - 1 \in DOMAIN Tail(t) => Tail(t)[i - 1] \in ToSet(Tail(t))
        BY DEF ToSet
      <3> QED BY <2>1, <2>3, <3>1, <3>2
    <2>5. Head(t) \in ToSet(t) /\ ToSet(Tail(t)) \subseteq ToSet(t)
      BY <2>1, <2>2 DEF ToSet
    <2> QED BY <2>4, <2>5
  <1>2. ASSUME NEW t \in Seq(Msg) PROVE ToSet(Append(t, m)) = ToSet(t) \cup {m}
    <2>1. /\ Len(t) + 1 \in DOMAIN Append(t, m) /\ Append(t, m)[Len(t) + 1] = m
          /\ \A i \in DOMAIN t : i \in DOMAIN Append(t, m) /\ Append(t, m)[i] = t[i]
          /\ \A i \in DOMAIN Append(t, m) : i = Len(t) + 1 \/ i \in DOMAIN t
      OBVIOUS
    <2> QED BY <2>1 DEF ToSet
  <1>3. s # <<>> => Tail(Append(s, m)) = Append(Tail(s), m) /\ Tail(s) \in Seq(Msg)
    OBVIOUS
  <1> QED BY <1>1, <1>2, <1>3

\* Lists that are deleted hold no more than before.
LEMMA StaysLess ==
  ASSUME NEW m \in Msg, NEW b \in Box, SenderOf[m] \in Sender,
         NEW L, NEW M, Fewer(L, M), Stays(b, m, M)
  PROVE  Stays(b, m, L)
  <1>1. M[b][SenderOf[m]] \in {L[b][SenderOf[m]], <<>>}
    BY DEF Fewer
  <1> QED BY <1>1 DEF Stays

LEMMA ClearedLess ==
  ASSUME NEW k \in ConnType, NEW ch, NEW u, NEW m \in Msg, NEW L, NEW M, NEW Q,
         Fewer(L, M), Cleared(k, ch, u, m, L, Q)
  PROVE  Cleared(k, ch, u, m, M, Q)
  <1> SUFFICES ASSUME SenderOf[m] = k.with, k.with \in Sender
               PROVE  Cleared(k, ch, u, m, M, Q)
    BY DEF Cleared
  <1>1. Stays(k.box, m, M) => Stays(k.box, m, L)
    BY StaysLess DEF ConnType
  <1> QED BY <1>1 DEF Cleared, Gone

\* A step of one handler: it deletes lists at most.
LEMMA OneStep ==
  ASSUME IInv, LiveInv, faults = 0, NEW c \in Conn, NEW r,
         conn' = [conn EXCEPT ![c] = r], UNCHANGED <<up, queued>>, Fewer(list, list'),
         \A d \in Conn \ {c} : chan'[d] = chan[d],
         OneSender(r, chan'[c]),
         \A m \in Msg : Cleared(r, chan'[c], up[m], m, list', queued)
  PROVE  LiveInv'
  <1>1. conn \in [Conn -> ConnType]
    BY DEF IInv, TypeOK
  <1>2. conn'[c] = r /\ \A d \in Conn \ {c} : conn'[d] = conn[d] /\ conn[d] \in ConnType
    BY <1>1
  <1>3. \A m \in Msg : PushedOnce(up'[m], m, queued')
    BY DEF LiveInv
  <1>4. \A d \in Conn : OneSender(conn'[d], chan'[d])
    BY <1>2 DEF LiveInv
  <1>5. ASSUME NEW d \in Conn, NEW m \in Msg
        PROVE  Cleared(conn'[d], chan'[d], up'[m], m, list', queued')
    <2>1. CASE d = c
      BY <1>2, <2>1
    <2>2. CASE d # c
      <3>1. Cleared(conn[d], chan[d], up[m], m, list, queued)
        BY DEF LiveInv
      <3>2. Cleared(conn[d], chan[d], up[m], m, list', queued)
        BY <1>2, <2>2, <3>1, ClearedLess
      <3> QED BY <1>2, <2>2, <3>2
    <2> QED BY <2>1, <2>2
  <1> QED BY <1>3, <1>4, <1>5 DEF LiveInv

\* A handler that goes on for no sender in particular.
LEMMA NoOne ==
  ASSUME NEW r, r.with \notin Sender
  PROVE  \A ch, L, Q, u, m : OneSender(r, ch) /\ Cleared(r, ch, u, m, L, Q)
  BY DEF OneSender, Cleared

\* Only failures count as failures.
LEMMA FaultIsLate ==
  ASSUME IInv, Fault
  PROVE  LiveInv'
  <1>1. faults \in Nat /\ faults' = faults + 1
    BY InboxAssumption DEF IInv, TypeOK, Fault
  <1> QED BY <1>1 DEF LiveInv

-----------------------------------------------------------------------------
\* What is known of a handler of one sender when it takes a step.
LEMMA AtWork ==
  ASSUME IInv, LiveInv, faults = 0, NEW c \in Conn
  PROVE  /\ conn[c] \in ConnType /\ chan[c] \in Seq(Msg)
         /\ list \in Lists
         /\ OneSender(conn[c], chan[c])
         /\ \A m \in Msg : Cleared(conn[c], chan[c], up[m], m, list, queued)
  BY DEF IInv, TypeOK, LiveInv, Lists

LEMMA LiveLRange ==
  ASSUME IInv, LiveInv, faults = 0, NEW c \in Conn, LRange(c)
  PROVE  LiveInv'
  <1> DEFINE k == conn[c]
             found == list[k.box][k.with]
  <1>1. /\ k \in ConnType /\ chan[c] \in Seq(Msg) /\ list \in Lists
        /\ OneSender(k, chan[c]) /\ k.pc = "lrange"
        /\ \A m \in Msg : Cleared(k, chan[c], up[m], m, list, queued)
        /\ UNCHANGED <<list, up, chan, queued>>
    BY AtWork DEF LRange, redis, history
  <1>2. PICK s \in k.senders :
          conn' = [conn EXCEPT ![c] =
            IF list[k.box][s] # <<>>
            THEN [k EXCEPT !.pc = "del", !.from = s, !.snap = list[k.box][s]]
            ELSE [k EXCEPT !.pc = After(k.caller), !.senders = @ \ {s}]]
    BY DEF LRange, Set
  <1> DEFINE r == IF list[k.box][s] # <<>>
                  THEN [k EXCEPT !.pc = "del", !.from = s, !.snap = list[k.box][s]]
                  ELSE [k EXCEPT !.pc = After(k.caller), !.senders = @ \ {s}]
  <1>3. CASE k.with \notin Sender
    <2>1. r.with \notin Sender
      BY <1>1, <1>3 DEF ConnType
    <2>2. conn' = [conn EXCEPT ![c] = r]
      BY <1>2
    <2> HIDE DEF r
    <2>3. OneSender(r, chan'[c]) /\ \A m \in Msg : Cleared(r, chan'[c], up[m], m, list', queued)
      BY <2>1, NoOne
    <2>4. Fewer(list, list') /\ UNCHANGED <<up, queued>> /\ chan' = chan
      BY <1>1, SameLists
    <2> QED BY <2>2, <2>3, <2>4, OneStep
  <1>4. CASE k.with \in Sender
    <2>1. s = k.with /\ k.senders = {k.with} /\ (ForLive(k) \/ ForFlush(k))
      BY <1>1, <1>4 DEF OneSender, ForLive, ForFlush
    <2>2. \A m \in Msg : m \in ToSet(found) => Was(k.box, m, queued)
      <3>1. k.box \in Box
        BY <1>1 DEF ConnType
      <3>2. \A i \in DOMAIN found : [box |-> k.box, msg |-> found[i]] \in ToSet(queued)
        BY <1>4, <3>1 DEF IInv, ListInv
      <3> QED BY <3>2 DEF ToSet, Was
    <2>3. \A m \in Msg : SenderOf[m] = k.with => (found = <<>> => ~Stays(k.box, m, list))
      BY DEF Stays
    <2>4. CASE found # <<>>
      <3> DEFINE q == [k EXCEPT !.pc = "del", !.from = k.with, !.snap = found]
      <3>1. conn' = [conn EXCEPT ![c] = q]
        BY <1>2, <2>1, <2>4
      <3>2. /\ q.pc = "del" /\ q.from = k.with /\ q.snap = found /\ q.senders = k.senders
            /\ q.with = k.with /\ q.box = k.box /\ q.caller = k.caller /\ q.got = k.got
            /\ q.wrote = k.wrote /\ q.subscribed = k.subscribed
        BY <1>1 DEF ConnType
      <3> HIDE DEF q, found
      <3>3. OneSender(q, chan'[c])
        BY <1>1, <1>4, <2>1, <3>2 DEF OneSender, ForLive, ForFlush
      <3>4. ASSUME NEW m \in Msg PROVE Cleared(q, chan'[c], up[m], m, list', queued)
        BY <1>1, <1>4, <2>1, <2>2, <3>2 DEF Cleared, ForLive, ForFlush
      <3> HIDE DEF k
      <3> QED BY <1>1, <3>1, <3>3, <3>4, SameLists, OneStep
    <2>5. CASE found = <<>>
      <3> DEFINE q == [k EXCEPT !.pc = After(k.caller), !.senders = @ \ {k.with}]
      <3>1. conn' = [conn EXCEPT ![c] = q]
        BY <1>2, <2>1, <2>5
      <3>2. /\ q.pc = (IF k.caller = "live" THEN "writeLive" ELSE "scan")
            /\ q.senders = {} /\ q.snap = k.snap
            /\ q.with = k.with /\ q.box = k.box /\ q.caller = k.caller /\ q.got = k.got
            /\ q.wrote = k.wrote /\ q.subscribed = k.subscribed
        BY <1>1, <2>1 DEF ConnType, After, ForLive, ForFlush
      <3> HIDE DEF q, found
      <3>3. OneSender(q, chan'[c])
        BY <1>1, <1>4, <2>1, <3>2 DEF OneSender, ForLive, ForFlush
      <3>4. ASSUME NEW m \in Msg PROVE Cleared(q, chan'[c], up[m], m, list', queued)
        <4>1. q.pc = "scan" => q.got = <<>> /\ ~q.subscribed
          BY <1>1, <1>4, <2>1, <3>2 DEF OneSender, ForLive, ForFlush
        <4>2. ToSet(<<>>) = {}
          BY DEF ToSet
        <4> QED BY <1>1, <2>3, <2>5, <3>2, <4>1, <4>2 DEF Cleared, ForLive, ForFlush
      <3> HIDE DEF k
      <3> QED BY <1>1, <3>1, <3>3, <3>4, SameLists, OneStep
    <2> QED BY <2>4, <2>5
  <1> QED BY <1>3, <1>4


\* A step of a handler of no sender in particular: it stays one.
LEMMA NobodysStep ==
  ASSUME IInv, LiveInv, faults = 0, NEW c \in Conn, NEW r, r.with \notin Sender,
         conn' = [conn EXCEPT ![c] = r], UNCHANGED <<up, queued>>, Fewer(list, list'),
         \A d \in Conn \ {c} : chan'[d] = chan[d]
  PROVE  LiveInv'
  <1>1. OneSender(r, chan'[c]) /\ \A m \in Msg : Cleared(r, chan'[c], up[m], m, list', queued)
    BY NoOne
  <1> QED BY <1>1, OneStep

LEMMA LiveDel ==
  ASSUME IInv, LiveInv, faults = 0, NEW c \in Conn, DelList(c)
  PROVE  LiveInv'
  <1> DEFINE k == conn[c]
             r == [k EXCEPT !.pc = "srem"]
  <1>1. /\ k \in ConnType /\ list \in Lists
        /\ OneSender(k, chan[c]) /\ k.pc = "del"
        /\ \A m \in Msg : Cleared(k, chan[c], up[m], m, list, queued)
        /\ UNCHANGED <<up, chan, queued>>
        /\ conn' = [conn EXCEPT ![c] = r]
        /\ list' = [list EXCEPT ![k.box][k.from] = <<>>]
    BY AtWork DEF DelList, Del, Empty, Set
  <1>2. /\ r.pc = "srem" /\ r.from = k.from /\ r.snap = k.snap /\ r.senders = k.senders
        /\ r.with = k.with /\ r.box = k.box /\ r.caller = k.caller /\ r.got = k.got
        /\ r.wrote = k.wrote /\ r.subscribed = k.subscribed
    BY <1>1 DEF ConnType
  <1>3. Fewer(list, list')
    BY <1>1 DEF Fewer, Lists
  <1> HIDE DEF r
  <1>4. CASE k.with \notin Sender
    BY <1>1, <1>2, <1>3, <1>4, NobodysStep
  <1>5. CASE k.with \in Sender
    <2>1. k.from = k.with /\ k.box \in Box
      BY <1>1, <1>5 DEF OneSender, ConnType
    <2>2. list'[k.box][k.with] = <<>>
      BY <1>1, <1>5, <2>1 DEF Lists
    <2>3. \A m \in Msg : SenderOf[m] = k.with => ~Stays(k.box, m, list')
      BY <2>2 DEF Stays
    <2>4. OneSender(r, chan'[c])
      BY <1>1, <1>2, <1>5 DEF OneSender, ForLive, ForFlush
    <2>5. ASSUME NEW m \in Msg PROVE Cleared(r, chan'[c], up[m], m, list', queued)
      BY <1>1, <1>2, <1>5, <2>3 DEF Cleared, Gone, ForLive, ForFlush
    <2> QED BY <1>1, <1>3, <2>4, <2>5, OneStep
  <1> QED BY <1>4, <1>5

LEMMA LiveSRem ==
  ASSUME IInv, LiveInv, faults = 0, NEW c \in Conn, SRem(c)
  PROVE  LiveInv'
  <1> DEFINE k == conn[c]
             r == [k EXCEPT !.pc = After(k.caller), !.senders = @ \ {k.from},
                            !.got = IF k.caller = "live" THEN @ ELSE @ \o k.snap,
                            !.from = NoSender, !.snap = <<>>]
  <1>1. /\ k \in ConnType /\ list \in Lists
        /\ OneSender(k, chan[c]) /\ k.pc = "srem"
        /\ \A m \in Msg : Cleared(k, chan[c], up[m], m, list, queued)
        /\ UNCHANGED <<list, up, chan, queued>>
        /\ conn' = [conn EXCEPT ![c] = r]
    BY AtWork DEF SRem, Return, Set, history
  <1>2. /\ r.pc = After(k.caller) /\ r.from = NoSender /\ r.snap = <<>>
        /\ r.senders = k.senders \ {k.from}
        /\ r.with = k.with /\ r.box = k.box /\ r.caller = k.caller
        /\ r.got = IF k.caller = "live" THEN k.got ELSE k.got \o k.snap
        /\ r.wrote = k.wrote /\ r.subscribed = k.subscribed
    BY <1>1 DEF ConnType
  <1>3. Fewer(list, list')
    BY <1>1, SameLists
  <1> HIDE DEF r
  <1>4. CASE k.with \notin Sender
    BY <1>1, <1>2, <1>3, <1>4, NobodysStep
  <1>5. CASE k.with \in Sender
    <2>1. k.senders \subseteq {k.with} => r.senders = {}
      BY <1>1, <1>2, <1>5 DEF OneSender
    <2>2. k.caller = "with" => r.got = k.snap
      <3>1. k.caller = "with" => k.got = <<>> /\ k.snap \in Seq(Msg)
        BY <1>1, <1>5 DEF OneSender, ForFlush, ConnType
      <3>2. \A t \in Seq(Msg) : <<>> \o t = t
        OBVIOUS
      <3> HIDE DEF k
      <3> QED BY <1>2, <3>1, <3>2
    <2>3. r.pc = IF k.caller = "live" THEN "writeLive" ELSE "scan"
      BY <1>1, <1>2, <1>5 DEF OneSender, ForLive, ForFlush, After
    <2>4. OneSender(r, chan'[c])
      BY <1>1, <1>2, <1>5, <2>1, <2>3 DEF OneSender, ForLive, ForFlush
    <2>5. ASSUME NEW m \in Msg PROVE Cleared(r, chan'[c], up[m], m, list', queued)
      BY <1>1, <1>2, <1>5, <2>2, <2>3 DEF Cleared, OneSender, ForLive, ForFlush
    <2> QED BY <1>1, <1>3, <2>4, <2>5, OneStep
  <1> QED BY <1>4, <1>5

\* The steps of drains of all senders.
LEMMA LiveDrains ==
  ASSUME IInv, LiveInv, faults = 0, NEW c \in Conn,
         SMembers(c) \/ DelIndex(c) \/ Keys(c) \/ ScanKey(c) \/ DelKey(c)
  PROVE  LiveInv'
  <1> DEFINE k == conn[c]
  <1>1. k \in ConnType /\ list \in Lists /\ OneSender(k, chan[c])
    BY AtWork
  <1>2. k.with \notin Sender
    <2> SUFFICES ASSUME k.with \in Sender PROVE FALSE
      OBVIOUS
    <2>1. SMembers(c) \/ Keys(c) \/ DelKey(c) => k.pc \in {"smembers", "keys", "kdel"}
      BY DEF SMembers, Keys, DelKey
    <2>2. DelIndex(c) => k.pc = "lrange" /\ k.senders = {}
      BY DEF DelIndex, IndexDone
    <2>3. ScanKey(c) => k.pc = "scan" /\ k.senders # {}
      BY DEF ScanKey
    <2> QED BY <1>1, <2>1, <2>2, <2>3 DEF OneSender, ForLive, ForFlush
  <1>3. Fewer(list, list')
    <2>1. SMembers(c) \/ DelIndex(c) \/ Keys(c) \/ ScanKey(c) => list' = list
      BY DEF SMembers, DelIndex, Keys, ScanKey, redis
    <2>2. CASE DelKey(c)
      <3>1. list' = [list EXCEPT ![k.box][k.from] = <<>>]
        BY <2>2 DEF DelKey, Empty
      <3> QED BY <1>1, <3>1 DEF Fewer, Lists
    <2>3. CASE list' = list
      BY <2>3, SameLists
    <2> QED BY <2>1, <2>2, <2>3
  <1>4. UNCHANGED <<up, chan, queued>>
    BY DEF SMembers, DelIndex, Keys, ScanKey, DelKey, history
  <1>5. \E r : r.with = k.with /\ conn' = [conn EXCEPT ![c] = r]
    <2>1. CASE SMembers(c)
      <3> DEFINE r == [k EXCEPT !.pc = "lrange", !.senders = index[k.box]]
      <3>1. r.with = k.with /\ conn' = [conn EXCEPT ![c] = r]
        BY <1>1, <2>1 DEF SMembers, Set, ConnType
      <3> QED BY <3>1
    <2>2. CASE DelIndex(c)
      <3> DEFINE r == [k EXCEPT !.pc = "keys"]
      <3>1. r.with = k.with /\ conn' = [conn EXCEPT ![c] = r]
        BY <1>1, <2>2 DEF DelIndex, Set, ConnType
      <3> QED BY <3>1
    <2>3. CASE Keys(c)
      <3> DEFINE r == [k EXCEPT !.pc = "scan", !.senders = KeysOf(k.box)]
      <3>1. r.with = k.with /\ conn' = [conn EXCEPT ![c] = r]
        BY <1>1, <2>3 DEF Keys, Set, ConnType
      <3> QED BY <3>1
    <2>4. CASE ScanKey(c)
      <3>1. PICK s \in k.senders : conn' = [conn EXCEPT ![c] =
              [k EXCEPT !.pc = IF list[k.box][s] = <<>> THEN "scan" ELSE "kdel",
                        !.from = s, !.senders = @ \ {s}, !.got = @ \o list[k.box][s]]]
        BY <2>4 DEF ScanKey, Set
      <3> DEFINE r == [k EXCEPT !.pc = IF list[k.box][s] = <<>> THEN "scan" ELSE "kdel",
                        !.from = s, !.senders = @ \ {s}, !.got = @ \o list[k.box][s]]
      <3>2. r.with = k.with
        BY <1>1 DEF ConnType
      <3> QED BY <3>1, <3>2
    <2>5. CASE DelKey(c)
      <3> DEFINE r == [k EXCEPT !.pc = "scan"]
      <3>1. r.with = k.with /\ conn' = [conn EXCEPT ![c] = r]
        BY <1>1, <2>5 DEF DelKey, Set, ConnType
      <3> QED BY <3>1
    <2> QED BY <2>1, <2>2, <2>3, <2>4, <2>5
  <1> HIDE DEF k
  <1> QED BY <1>2, <1>3, <1>4, <1>5, NobodysStep

\* A request begins or is answered.
LEMMA LiveAround ==
  ASSUME IInv, LiveInv, faults = 0, NEW c \in Conn, Arrival(c) \/ FetchReply(c)
  PROVE  LiveInv'
  <1>1. /\ UNCHANGED <<list, up, chan>> /\ queued' = queued
        /\ list \in Lists /\ Fewer(list, list')
    BY AtWork, SameLists DEF Arrival, Start, FetchReply, Deliver, redis, history
  <1>2. Idle.with \notin Sender /\ Idle \in ConnType
    BY InboxAssumption, Handler DEF Idle
  <1>3. CASE FetchReply(c)
    <2>1. conn' = [conn EXCEPT ![c] = Idle]
      BY <1>3 DEF FetchReply, Set
    <2> QED BY <1>1, <1>2, <2>1, NobodysStep
  <1>4. CASE Arrival(c)
    <2>1. PICK q \in Requests :
            conn' = [conn EXCEPT ![c] = [Idle EXCEPT
                 !.kind = q.kind, !.box = q.box, !.with = q.with,
                 !.pc = IF q.with = NoSender THEN "smembers" ELSE "lrange",
                 !.senders = {q.with} \ {NoSender},
                 !.caller = IF q.with = NoSender THEN "all" ELSE "with",
                 !.start = IF q.with = NoSender THEN Queued(q.box) ELSE {}]]
      BY <1>4 DEF Arrival, Start, Set
    <2> DEFINE r == [Idle EXCEPT
                 !.kind = q.kind, !.box = q.box, !.with = q.with,
                 !.pc = IF q.with = NoSender THEN "smembers" ELSE "lrange",
                 !.senders = {q.with} \ {NoSender},
                 !.caller = IF q.with = NoSender THEN "all" ELSE "with",
                 !.start = IF q.with = NoSender THEN Queued(q.box) ELSE {}]
    <2>2. /\ r.with = q.with /\ r.pc = (IF q.with = NoSender THEN "smembers" ELSE "lrange")
          /\ r.senders = {q.with} \ {NoSender}
          /\ r.caller = (IF q.with = NoSender THEN "all" ELSE "with")
          /\ r.got = <<>> /\ r.snap = <<>> /\ ~r.subscribed /\ r.wrote = {}
      BY DEF Idle
    <2>3. conn' = [conn EXCEPT ![c] = r]
      BY <2>1
    <2> HIDE DEF r
    <2>4. CASE q.with \notin Sender
      BY <1>1, <2>2, <2>3, <2>4, NobodysStep
    <2>5. CASE q.with \in Sender
      <3>1. q.with # NoSender
        BY <2>5, InboxAssumption
      <3>2. OneSender(r, chan'[c])
        BY <2>2, <3>1 DEF OneSender, ForLive, ForFlush
      <3>3. \A m \in Msg : Cleared(r, chan'[c], up[m], m, list', queued)
        BY <2>2, <3>1 DEF Cleared, ForLive, ForFlush
      <3> QED BY <1>1, <2>3, <3>2, <3>3, OneStep
    <2> QED BY <2>4, <2>5
  <1> QED BY <1>3, <1>4

LEMMA LiveFlush ==
  ASSUME IInv, LiveInv, faults = 0, NEW c \in Conn, StreamFlush(c) \/ Subscribe(c)
  PROVE  LiveInv'
  <1> DEFINE k == conn[c]
  <1>1. /\ k \in ConnType /\ OneSender(k, chan[c])
        /\ \A m \in Msg : Cleared(k, chan[c], up[m], m, list, queued)
        /\ UNCHANGED <<list, up, chan>> /\ queued' = queued /\ Fewer(list, list')
    BY AtWork, SameLists DEF StreamFlush, Subscribe, Deliver, redis, history
  <1>2. CASE StreamFlush(c)
    <2> DEFINE r == [k EXCEPT !.pc = "subscribe", !.got = <<>>, !.start = {},
                              !.wrote = ToSet(k.got)]
    <2>1. conn' = [conn EXCEPT ![c] = r] /\ k.pc = "scan"
      BY <1>2 DEF StreamFlush, Set, Drained
    <2>2. /\ r.pc = "subscribe" /\ r.got = <<>> /\ r.wrote = ToSet(k.got)
          /\ r.with = k.with /\ r.box = k.box /\ r.subscribed = k.subscribed
      BY <1>1 DEF ConnType
    <2> HIDE DEF r
    <2>3. CASE k.with \notin Sender
      BY <1>1, <2>1, <2>2, <2>3, NobodysStep
    <2>4. CASE k.with \in Sender
      <3>1. OneSender(r, chan'[c])
        BY <1>1, <2>1, <2>2, <2>4 DEF OneSender, ForLive, ForFlush
      <3>2. ASSUME NEW m \in Msg PROVE Cleared(r, chan'[c], up[m], m, list', queued)
        BY <1>1, <2>1, <2>2, <2>4 DEF Cleared, OneSender, ForLive, ForFlush
      <3> QED BY <1>1, <2>1, <3>1, <3>2, OneStep
    <2> QED BY <2>3, <2>4
  <1>3. CASE Subscribe(c)
    <2> DEFINE r == [k EXCEPT !.pc = "live", !.subscribed = TRUE]
    <2>1. conn' = [conn EXCEPT ![c] = r] /\ k.pc = "subscribe"
      BY <1>3 DEF Subscribe, Set
    <2>2. /\ r.pc = "live" /\ r.got = k.got /\ r.wrote = k.wrote
          /\ r.with = k.with /\ r.box = k.box /\ r.subscribed
      BY <1>1 DEF ConnType
    <2> HIDE DEF r
    <2>3. CASE k.with \notin Sender
      BY <1>1, <2>1, <2>2, <2>3, NobodysStep
    <2>4. CASE k.with \in Sender
      <3>1. OneSender(r, chan'[c])
        BY <1>1, <2>1, <2>2, <2>4 DEF OneSender, ForLive, ForFlush
      <3>2. ASSUME NEW m \in Msg PROVE Cleared(r, chan'[c], up[m], m, list', queued)
        BY <1>1, <2>1, <2>2, <2>4 DEF Cleared, Gone, ForLive, ForFlush
      <3> QED BY <1>1, <2>1, <3>1, <3>2, OneStep
    <2> QED BY <2>3, <2>4
  <1> QED BY <1>2, <1>3

LEMMA LiveWrites ==
  ASSUME IInv, LiveInv, faults = 0, NEW c \in Conn, LiveWrite(c)
  PROVE  LiveInv'
  <1> DEFINE k == conn[c]
             h == Head(chan[c])
             r == [k EXCEPT !.pc = "live", !.wrote = @ \cup {h}]
  <1>1. /\ k \in ConnType /\ chan[c] \in Seq(Msg) /\ OneSender(k, chan[c])
        /\ \A m \in Msg : Cleared(k, chan[c], up[m], m, list, queued)
        /\ chan \in [Conn -> Seq(Msg)]
    BY AtWork DEF IInv, TypeOK
  <1>2. /\ chan[c] # <<>>
        /\ \/ k.pc = "live" /\ ~Filtered(c, h)
           \/ k.pc = "writeLive"
        /\ chan' = [chan EXCEPT ![c] = Tail(@)]
        /\ conn' = [conn EXCEPT ![c] = r]
        /\ UNCHANGED <<list, up>> /\ queued' = queued /\ Fewer(list, list')
    BY SameLists DEF LiveWrite, Pop, Set, Deliver, redis
  <1>3. chan'[c] = Tail(chan[c]) /\ \A d \in Conn \ {c} : chan'[d] = chan[d]
    BY <1>1, <1>2
  <1>4. h \in Msg
    BY <1>1, <1>2
  <1>5. ToSet(chan[c]) = {h} \cup ToSet(Tail(chan[c]))
    BY <1>1, <1>2, <1>4, Buffered
  <1>6. /\ r.pc = "live" /\ r.got = k.got /\ r.wrote = k.wrote \cup {h}
        /\ r.with = k.with /\ r.box = k.box /\ r.subscribed = k.subscribed
    BY <1>1 DEF ConnType
  <1>7. Filtered(c, h) <=> k.with # NoSender /\ SenderOf[h] # NoSender
    BY DEF Filtered
  <1> HIDE DEF k, h, r
  <1>8. CASE k.with \notin Sender
    BY <1>2, <1>3, <1>6, <1>8, NobodysStep
  <1>9. CASE k.with \in Sender
    <2>1. OneSender(r, chan'[c])
      BY <1>1, <1>2, <1>6, <1>9 DEF OneSender, ForLive, ForFlush
    <2>2. k.with # NoSender
      BY <1>9, InboxAssumption
    <2>3. ASSUME NEW m \in Msg PROVE Cleared(r, chan'[c], up[m], m, list', queued)
      <3> SUFFICES ASSUME SenderOf[m] = k.with, m \in r.wrote, Stays(k.box, m, list)
                   PROVE  Coming(up[m], k.box) \/ m \in ToSet(Tail(chan[c]))
        BY <1>2, <1>3, <1>6 DEF Cleared, ForLive, ForFlush
      <3>1. CASE k.pc = "writeLive"
        BY <1>1, <1>9, <3>1 DEF Cleared
      <3>2. CASE k.pc = "live"
        <4>1. m # h
          BY <1>2, <1>7, <2>2, <3>2
        <4>2. k.subscribed
          BY <1>1, <1>9, <3>2 DEF OneSender
        <4> QED BY <1>1, <1>5, <1>6, <1>9, <3>2, <4>1, <4>2 DEF Cleared
      <3> QED BY <1>2, <3>1, <3>2
    <2> QED BY <1>2, <1>3, <2>1, <2>3, OneStep
  <1> QED BY <1>8, <1>9

LEMMA LiveTurns ==
  ASSUME IInv, LiveInv, faults = 0, NEW c \in Conn, LiveSkip(c) \/ LiveClear(c)
  PROVE  LiveInv'
  <1> DEFINE k == conn[c]
             h == Head(chan[c])
  <1>1. /\ k \in ConnType /\ chan[c] \in Seq(Msg) /\ OneSender(k, chan[c])
        /\ \A m \in Msg : Cleared(k, chan[c], up[m], m, list, queued)
        /\ chan \in [Conn -> Seq(Msg)] /\ conn \in [Conn -> ConnType]
    BY AtWork DEF IInv, TypeOK
  <1>2. /\ chan[c] # <<>> /\ k.pc = "live"
        /\ UNCHANGED <<list, up>> /\ queued' = queued /\ Fewer(list, list')
    BY SameLists DEF LiveSkip, LiveClear, redis, history
  <1>3. CASE LiveSkip(c)
    <2>1. /\ chan' = [chan EXCEPT ![c] = Tail(@)] /\ conn' = conn
          /\ ~(Fold[SenderOf[h]] = Fold[k.with])
      BY <1>3 DEF LiveSkip, Pop, Wanted
    <2>2. chan'[c] = Tail(chan[c]) /\ \A d \in Conn \ {c} : chan'[d] = chan[d]
      BY <1>1, <2>1
    <2>3. ToSet(chan[c]) = {h} \cup ToSet(Tail(chan[c])) /\ h \in Msg
      BY <1>1, <1>2, Buffered
    <2>4. conn' = [conn EXCEPT ![c] = k]
      BY <1>1, <2>1
    <2> HIDE DEF k, h
    <2>5. OneSender(k, chan'[c])
      BY <1>1, <1>2 DEF OneSender, ForLive, ForFlush
    <2>6. ASSUME NEW m \in Msg PROVE Cleared(k, chan'[c], up[m], m, list', queued)
      <3>1. SenderOf[m] = k.with => m # h
        BY <2>1
      <3> QED BY <1>1, <1>2, <2>2, <2>3, <3>1 DEF Cleared, ForLive, ForFlush
    <2> QED BY <1>2, <2>2, <2>4, <2>5, <2>6, OneStep
  <1>4. CASE LiveClear(c)
    <2> DEFINE r == [k EXCEPT !.pc = "lrange", !.caller = "live", !.senders = {k.with}]
    <2>1. conn' = [conn EXCEPT ![c] = r] /\ chan' = chan
      BY <1>4 DEF LiveClear, Set
    <2>2. /\ r.pc = "lrange" /\ r.caller = "live" /\ r.senders = {k.with}
          /\ r.wrote = k.wrote /\ r.with = k.with /\ r.box = k.box
          /\ r.subscribed = k.subscribed
      BY <1>1 DEF ConnType
    <2> HIDE DEF k, r
    <2>3. CASE k.with \notin Sender
      BY <1>2, <2>1, <2>2, <2>3, NobodysStep
    <2>4. CASE k.with \in Sender
      <3>1. OneSender(r, chan'[c])
        BY <1>1, <1>2, <2>1, <2>2, <2>4 DEF OneSender, ForLive, ForFlush
      <3>2. ASSUME NEW m \in Msg PROVE Cleared(r, chan'[c], up[m], m, list', queued)
        BY <1>1, <1>2, <2>1, <2>2, <2>4 DEF Cleared, ForLive, ForFlush
      <3> QED BY <1>2, <2>1, <3>1, <3>2, OneStep
    <2> QED BY <2>3, <2>4
  <1> QED BY <1>3, <1>4

-----------------------------------------------------------------------------
(* The steps of uploads.                                                    *)

LEMMA UploadAtWork ==
  ASSUME IInv, LiveInv, faults = 0, NEW m \in Msg
  PROVE  /\ up \in [Msg -> [pc : {"idle", "rpush", "sadd", "publish", "done"},
                            todo : Seq(Box)]]
         /\ up[m] \in [pc : {"idle", "rpush", "sadd", "publish", "done"}, todo : Seq(Box)]
         /\ up[m].todo \in Seq(Box)
         /\ PushedOnce(up[m], m, queued)
         /\ conn \in [Conn -> ConnType] /\ chan \in [Conn -> Seq(Msg)]
         /\ \A c \in Conn : OneSender(conn[c], chan[c])
         /\ \A c \in Conn, n \in Msg : Cleared(conn[c], chan[c], up[n], n, list, queued)
  BY DEF IInv, TypeOK, LiveInv

\* A step of an upload that appends nothing: it may publish what was to come.
LEMMA UploadQuiet ==
  ASSUME IInv, LiveInv, faults = 0, NEW m \in Msg, NEW v,
         up' = [up EXCEPT ![m] = v], UNCHANGED <<list, queued, conn>>,
         PushedOnce(v, m, queued),
         \A c \in Conn : \/ chan'[c] = chan[c]
                         \/ chan'[c] = Append(chan[c], m),
         \A c \in Conn : Coming(up[m], conn[c].box) =>
             Coming(v, conn[c].box) \/ (conn[c].subscribed => chan'[c] = Append(chan[c], m))
  PROVE  LiveInv'
  <1>1. /\ up'[m] = v /\ \A n \in Msg \ {m} : up'[n] = up[n]
        /\ \A c \in Conn : conn[c] \in ConnType /\ chan[c] \in Seq(Msg)
        /\ \A c \in Conn : OneSender(conn[c], chan[c])
        /\ \A c \in Conn, n \in Msg : Cleared(conn[c], chan[c], up[n], n, list, queued)
    BY UploadAtWork
  <1>2. \A n \in Msg : PushedOnce(up'[n], n, queued')
    BY <1>1 DEF LiveInv
  <1>3. ASSUME NEW c \in Conn
        PROVE  /\ OneSender(conn'[c], chan'[c])
               /\ \A n \in Msg : Cleared(conn'[c], chan'[c], up'[n], n, list', queued')
    <2> DEFINE k == conn[c]
               ch == chan[c]
               nh == chan'[c]
    <2>1. /\ k \in ConnType /\ ch \in Seq(Msg) /\ OneSender(k, ch)
          /\ \A n \in Msg : Cleared(k, ch, up[n], n, list, queued)
          /\ nh = ch \/ nh = Append(ch, m)
          /\ Coming(up[m], k.box) => Coming(v, k.box) \/ (k.subscribed => nh = Append(ch, m))
      BY <1>1
    <2>2. conn'[c] = k /\ chan'[c] = nh
      OBVIOUS
    <2> HIDE DEF k, ch, nh
    <2>3. /\ ToSet(Append(ch, m)) = ToSet(ch) \cup {m} /\ Append(ch, m) # <<>>
          /\ ch # <<>> => ToSet(Tail(Append(ch, m))) = ToSet(Tail(ch)) \cup {m}
      <3>1. ch \in Seq(Msg)
        BY <2>1
      <3>2. Append(ch, m) # <<>>
        BY <3>1
      <3> QED BY <3>1, <3>2, Buffered
    <2>4. OneSender(k, nh)
      BY <2>1, <2>3 DEF OneSender
    <2>5. ASSUME NEW n \in Msg PROVE Cleared(k, nh, up'[n], n, list, queued)
      <3> SUFFICES ASSUME SenderOf[n] = k.with, k.with \in Sender
                   PROVE  Cleared(k, nh, up'[n], n, list, queued)
        BY DEF Cleared
      <3>1. ToSet(ch) \subseteq ToSet(nh)
        BY <2>1, <2>3
      <3>2. ASSUME k.subscribed, n \in k.wrote, Stays(k.box, n, list), k.pc \notin {"lrange", "del"}
            PROVE  Coming(up'[n], k.box) \/ n \in ToSet(nh)
        <4>1. Coming(up[n], k.box) \/ n \in ToSet(ch)
          BY <2>1, <3>2 DEF Cleared
        <4>2. CASE n = m
          BY <1>1, <2>1, <2>3, <3>1, <3>2, <4>1, <4>2
        <4>3. CASE n # m
          BY <1>1, <3>1, <4>1, <4>3
        <4> QED BY <4>2, <4>3
      <3>3. ASSUME (k.pc = "srem" /\ ForLive(k)) \/ k.pc = "writeLive", Stays(k.box, n, list)
            PROVE  Coming(up'[n], k.box) \/ n \in ToSet(Tail(nh))
        <4>1. ch # <<>> /\ k.subscribed
          BY <2>1, <3>3 DEF OneSender
        <4>2. Coming(up[n], k.box) \/ n \in ToSet(Tail(ch))
          BY <2>1, <3>3 DEF Cleared
        <4>3. ToSet(Tail(ch)) \subseteq ToSet(Tail(nh))
          BY <2>1, <2>3, <4>1
        <4>4. CASE n = m
          BY <1>1, <2>1, <2>3, <4>1, <4>2, <4>3, <4>4
        <4>5. CASE n # m
          BY <1>1, <4>2, <4>3, <4>5
        <4> QED BY <4>4, <4>5
      <3> QED BY <2>1, <3>2, <3>3 DEF Cleared
    <2> QED BY <2>2, <2>4, <2>5
  <1> QED BY <1>2, <1>3 DEF LiveInv

\* An upload goes on to the next spelling.
LEMMA NextTarget ==
  ASSUME NEW m \in Msg, NEW u, u.todo \in Seq(Box), u.todo # <<>>, NEW v,
         u.pc # "idle", v.pc # "idle", v.todo = Tail(u.todo), NEW Q, PushedOnce(u, m, Q)
  PROVE  PushedOnce(v, m, Q)
  <1>1. \A i \in DOMAIN v.todo : /\ i + 1 \in DOMAIN u.todo /\ v.todo[i] = u.todo[i + 1]
                                 /\ i \in Nat /\ i > 0
    OBVIOUS
  <1>2. ASSUME NEW i \in DOMAIN v.todo, NEW j \in DOMAIN v.todo, v.todo[i] = v.todo[j]
        PROVE  i = j
    <2>1. i + 1 = j + 1
      BY <1>1, <1>2 DEF PushedOnce
    <2> QED BY <1>1, <2>1
  <1>3. ASSUME NEW b, ToPush(v, b) PROVE ToPush(u, b)
    <2>1. PICK i \in DOMAIN v.todo : v.todo[i] = b
      BY <1>3 DEF ToPush
    <2>2. i + 1 \in DOMAIN u.todo /\ u.todo[i + 1] = b /\ i + 1 > 1
      BY <1>1, <2>1
    <2> QED BY <2>2 DEF ToPush
  <1> QED BY <1>2, <1>3 DEF PushedOnce

LEMMA LivePost ==
  ASSUME IInv, LiveInv, faults = 0, NEW m \in Msg, NEW b \in Box, PostMessage(m, b)
  PROVE  LiveInv'
  <1> DEFINE t == Targets[b]
             v == [pc |-> IF t = <<>> THEN "done"
                          ELSE IF SenderOf[m] = NoSender THEN "publish" ELSE "rpush",
                   todo |-> t]
  <1>1. /\ up' = [up EXCEPT ![m] = v] /\ UNCHANGED <<list, queued, conn, chan>>
        /\ up[m].pc = "idle"
    BY DEF PostMessage, Continue, history
  <1>2. \A c \in Box : ~Was(c, m, queued)
    BY <1>1, UploadAtWork DEF PushedOnce
  <1>3. t \in Seq(Box) /\ IsInjective(t)
    BY InboxAssumption
  <1>4. v.todo = t
    OBVIOUS
  <1> HIDE DEF v, t
  <1>5. \A i, j \in DOMAIN t : t[i] = t[j] => i = j
    BY <1>3 DEF IsInjective
  <1>6. PushedOnce(v, m, queued)
    BY <1>2, <1>4, <1>5 DEF PushedOnce
  <1>7. \A c : ~Coming(up[m], c)
    BY <1>1 DEF Coming
  <1> QED BY <1>1, <1>6, <1>7, UploadQuiet

LEMMA LiveSAdd ==
  ASSUME IInv, LiveInv, faults = 0, NEW m \in Msg, SAdd(m)
  PROVE  LiveInv'
  <1> DEFINE v == [up[m] EXCEPT !.pc = "publish"]
  <1>1. /\ up' = [up EXCEPT ![m] = v] /\ UNCHANGED <<list, queued, conn, chan>>
        /\ up[m].pc = "sadd"
    BY UploadAtWork DEF SAdd, history
  <1>2. v.pc = "publish" /\ v.todo = up[m].todo
    BY UploadAtWork
  <1> HIDE DEF v
  <1>3. PushedOnce(v, m, queued)
    BY <1>1, <1>2, UploadAtWork DEF PushedOnce, ToPush
  <1>4. \A c : Coming(up[m], c) => Coming(v, c)
    BY <1>2 DEF Coming
  <1> QED BY <1>1, <1>3, <1>4, UploadQuiet

LEMMA LivePublish ==
  ASSUME IInv, LiveInv, faults = 0, NEW m \in Msg, Publish(m)
  PROVE  LiveInv'
  <1> DEFINE t == Tail(up[m].todo)
             v == [pc |-> IF t = <<>> THEN "done"
                          ELSE IF SenderOf[m] = NoSender THEN "publish" ELSE "rpush",
                   todo |-> t]
             b == Head(up[m].todo)
  <1>1. /\ up' = [up EXCEPT ![m] = v] /\ UNCHANGED <<list, queued, conn>>
        /\ up[m].pc = "publish"
        /\ chan' = [c \in Conn |-> IF c \in Subscribed(b) THEN Append(chan[c], m) ELSE chan[c]]
    BY DEF Publish, Continue, Announce, history, redis
  <1>2. up[m].todo # <<>>
    BY <1>1 DEF IInv, UploadInv
  <1>3. v.pc # "idle" /\ v.todo = t
    OBVIOUS
  <1> HIDE DEF v
  <1>4. PushedOnce(v, m, queued)
    BY <1>1, <1>2, <1>3, UploadAtWork, NextTarget
  <1>5. ASSUME NEW c \in Conn, Coming(up[m], conn[c].box), conn[c].subscribed
        PROVE  chan'[c] = Append(chan[c], m)
    <2>1. b = conn[c].box /\ b \in Box
      BY <1>5, UploadAtWork DEF Coming, ConnType
    <2>2. b \in ToSet(Targets[b])
      BY <2>1, InboxAssumption
    <2>3. c \in Subscribed(b)
      BY <1>5, <2>1, <2>2 DEF Subscribed
    <2> QED BY <1>1, <2>3
  <1>6. \A c \in Conn : chan'[c] = chan[c] \/ chan'[c] = Append(chan[c], m)
    BY <1>1
  <1> QED BY <1>1, <1>4, <1>5, <1>6, UploadQuiet

\* An append is the first of its message to that list, and is announced next.
LEMMA LiveRPush ==
  ASSUME IInv, LiveInv, faults = 0, NEW m \in Msg, RPush(m)
  PROVE  LiveInv'
  <1> DEFINE b == Head(up[m].todo)
             s == SenderOf[m]
             v == [up[m] EXCEPT !.pc = "sadd"]
  <1>1. /\ up' = [up EXCEPT ![m] = v] /\ UNCHANGED <<conn, chan>>
        /\ up[m].pc = "rpush" /\ up[m].todo # <<>> /\ up[m].todo \in Seq(Box)
        /\ s \in Sender
        /\ list' = [list EXCEPT ![b][s] = Append(@, m)] /\ list \in Lists
        /\ queued' = Append(queued, [box |-> b, msg |-> m]) /\ queued \in Seq(Copy)
    BY UploadAtWork DEF RPush, IInv, UploadInv, TypeOK, Lists
  <1>2. /\ v.pc = "sadd" /\ v.todo = up[m].todo
        /\ up'[m] = v /\ \A n \in Msg \ {m} : up'[n] = up[n]
    BY <1>1, UploadAtWork
  <1>3. b \in Box /\ 1 \in DOMAIN up[m].todo /\ b = up[m].todo[1]
    BY <1>1
  <1>4. ~Was(b, m, queued)
    BY <1>1, <1>3, UploadAtWork DEF PushedOnce, ToPush
  <1>5. ASSUME NEW n \in Msg, NEW c \in Box, ~(n = m /\ c = b)
        PROVE  /\ Was(c, n, queued') <=> Was(c, n, queued)
               /\ SenderOf[n] \in Sender => (Stays(c, n, list') => Stays(c, n, list))
    <2>1. [box |-> c, msg |-> n] # [box |-> b, msg |-> m]
      BY <1>5
    <2>2. /\ \A i \in DOMAIN queued : i \in DOMAIN queued' /\ queued'[i] = queued[i]
          /\ \A i \in DOMAIN queued' : \/ i \in DOMAIN queued
                                       \/ queued'[i] = [box |-> b, msg |-> m]
      BY <1>1
    <2>3. Was(c, n, queued') <=> Was(c, n, queued)
      BY <2>1, <2>2 DEF Was
    <2>4. ASSUME SenderOf[n] \in Sender, Stays(c, n, list') PROVE Stays(c, n, list)
      <3> DEFINE new == list'[c][SenderOf[n]]
                 old == list[c][SenderOf[n]]
      <3>1. PICK i \in DOMAIN new : new[i] = n
        BY <2>4 DEF Stays
      <3>2. old \in Seq(Msg) /\ (new = old \/ (n # m /\ new = Append(old, m)))
        <4>1. CASE c = b /\ SenderOf[n] = s
          BY <1>1, <1>3, <1>5, <4>1 DEF Lists
        <4>2. CASE ~(c = b /\ SenderOf[n] = s)
          BY <1>1, <1>3, <2>4, <4>2 DEF Lists
        <4> QED BY <4>1, <4>2
      <3> HIDE DEF new, old
      <3>3. i \in DOMAIN old /\ old[i] = n
        BY <3>1, <3>2
      <3> QED BY <3>3 DEF Stays, old
    <2> QED BY <2>3, <2>4
  <1> HIDE DEF v
  <1>6. ASSUME NEW n \in Msg PROVE PushedOnce(up'[n], n, queued')
    <2>1. PushedOnce(up[n], n, queued)
      BY DEF LiveInv
    <2>2. CASE n # m
      BY <1>2, <1>5, <2>1, <2>2 DEF PushedOnce
    <2>3. CASE n = m
      <3>1. ASSUME NEW c \in Box, ToPush(v, c) PROVE ToPush(up[m], c) /\ c # b
        <4>1. PICK i \in DOMAIN up[m].todo : up[m].todo[i] = c /\ i > 1
          BY <1>2, <3>1 DEF ToPush
        <4>2. ToPush(up[m], c)
          BY <4>1 DEF ToPush
        <4>3. c # b
          BY <1>1, <1>3, <2>1, <2>3, <4>1 DEF PushedOnce
        <4> QED BY <4>2, <4>3
      <3>2. ASSUME NEW c \in Box, Was(c, m, queued') PROVE ~ToPush(v, c)
        <4>1. CASE c = b
          BY <3>1, <4>1
        <4>2. CASE c # b
          BY <1>5, <2>1, <2>3, <3>1, <3>2, <4>2 DEF PushedOnce
        <4> QED BY <4>1, <4>2
      <3> QED BY <1>2, <2>1, <2>3, <3>2 DEF PushedOnce
    <2> QED BY <2>2, <2>3
  <1>7. ASSUME NEW c \in Conn, NEW n \in Msg
        PROVE  Cleared(conn'[c], chan'[c], up'[n], n, list', queued')
    <2> DEFINE k == conn[c]
    <2>1. /\ k \in ConnType /\ conn'[c] = k /\ chan'[c] = chan[c]
          /\ Cleared(k, chan[c], up[n], n, list, queued)
      BY <1>1, UploadAtWork
    <2>2. k.box \in Box
      BY <2>1 DEF ConnType
    <2> HIDE DEF k
    <2>3. CASE ~(n = m /\ k.box = b)
      <3>1. /\ Was(k.box, n, queued') <=> Was(k.box, n, queued)
            /\ SenderOf[n] \in Sender => (Stays(k.box, n, list') => Stays(k.box, n, list))
        BY <1>5, <2>2, <2>3
      <3>2. Coming(up[n], k.box) => Coming(up'[n], k.box)
        BY <1>1, <1>2 DEF Coming
      <3> QED BY <2>1, <3>1, <3>2 DEF Cleared, Gone
    <2>4. CASE n = m /\ k.box = b
      <3>1. Coming(up'[n], k.box)
        BY <1>2, <2>4 DEF Coming
      <3> QED BY <1>4, <2>1, <2>4, <3>1 DEF Cleared, Gone
    <2> QED BY <2>3, <2>4
  <1>8. \A c \in Conn : OneSender(conn'[c], chan'[c])
    BY <1>1, UploadAtWork
  <1> QED BY <1>6, <1>7, <1>8 DEF LiveInv

-----------------------------------------------------------------------------
LEMMA NextLiveInv == IInv /\ LiveInv /\ [Next]_vars => LiveInv'
  <1> SUFFICES ASSUME IInv, LiveInv, [Next]_vars PROVE LiveInv'
    OBVIOUS
  <1>1. CASE UNCHANGED vars
    BY <1>1 DEF vars, redis, history, LiveInv
  <1>2. CASE Fault
    BY <1>2, FaultIsLate
  <1>3. CASE faults # 0 /\ ~Fault /\ Next
    <2>1. ASSUME NEW m \in Msg, Upload(m) PROVE faults' = faults
      BY <1>3, <2>1 DEF Upload, PostMessage, PostFails, RPush, SAdd, PipelineFails,
                        PipelineResent, Publish, PublishFails, PublishResent
    <2>2. ASSUME NEW c \in Conn, Arrival(c) \/ Handle(c) PROVE faults' = faults
      BY <2>2 DEF Arrival, Handle, Start, LRange, DelList, SRem, SMembers, DelIndex, Keys,
                  ScanKey, DelKey, FetchReply, StreamFlush, Subscribe, LiveWrite, LiveSkip,
                  LiveClear
    <2>3. ASSUME NEW c \in Conn, Failure(c) PROVE faults' = faults
      BY <1>3, <2>3 DEF Failure, LRangeFails, DelListFails, SRemFails, SMembersFails,
                        DelIndexFails, KeysFails, ScanKeyFails, DelKeyFails, ClearResent,
                        Disconnect
    <2>4. FlushServer \/ (\E b \in Box : IndexExpires(b)) => faults' = faults
      BY <1>3 DEF FlushServer, IndexExpires
    <2>5. faults' = faults
      BY <1>3, <2>1, <2>2, <2>3, <2>4 DEF Next
    <2> QED BY <1>3, <2>5 DEF LiveInv
  <1>4. CASE faults = 0 /\ ~Fault /\ Next
    <2>1. ASSUME NEW m \in Msg, Upload(m) PROVE LiveInv'
      <3>1. (\E b \in Box : PostMessage(m, b)) \/ RPush(m) \/ SAdd(m) \/ Publish(m)
        BY <1>4, <2>1 DEF Upload, PostFails, PipelineFails, PipelineResent, PublishFails,
                          PublishResent
      <3>2. ASSUME NEW b \in Box, PostMessage(m, b) PROVE LiveInv'
        BY <1>4, <3>2, LivePost
      <3>3. ASSUME RPush(m) PROVE LiveInv'
        BY <1>4, <3>3, LiveRPush
      <3>4. ASSUME SAdd(m) \/ Publish(m) PROVE LiveInv'
        BY <1>4, <3>4, LiveSAdd, LivePublish
      <3> QED BY <3>1, <3>2, <3>3, <3>4
    <2>2. ASSUME NEW c \in Conn, Failure(c) PROVE FALSE
      BY <1>4, <2>2 DEF Failure, LRangeFails, DelListFails, SRemFails, SMembersFails,
            DelIndexFails, KeysFails, ScanKeyFails, DelKeyFails, ClearResent, Disconnect
    <2>3. ASSUME NEW c \in Conn, Arrival(c) \/ Handle(c) PROVE LiveInv'
      BY <1>4, <2>3, LiveLRange, LiveDel, LiveSRem, LiveDrains, LiveAround, LiveFlush, LiveWrites,
         LiveTurns DEF Handle
    <2>4. ASSUME NEW b \in Box, IndexExpires(b) PROVE LiveInv'
      <3>1. UNCHANGED <<list, chan, up, conn, faults, queued>>
        BY <2>4 DEF IndexExpires, history
      <3> QED BY <3>1 DEF LiveInv
    <2>5. ~FlushServer
      BY <1>4 DEF FlushServer
    <2> QED BY <1>4, <2>1, <2>2, <2>3, <2>4, <2>5 DEF Next
  <1> QED BY <1>1, <1>2, <1>3, <1>4

LEMMA InitLiveInv == Init => LiveInv
  <1> SUFFICES ASSUME Init PROVE LiveInv
    OBVIOUS
  <1>1. \A m \in Msg : PushedOnce(up[m], m, queued)
    BY DEF Init, PushedOnce, Was
  <1>2. ASSUME NEW c \in Conn
        PROVE  /\ OneSender(conn[c], chan[c])
               /\ \A m \in Msg : Cleared(conn[c], chan[c], up[m], m, list, queued)
    <2>1. conn[c].with \notin Sender
      BY InboxAssumption DEF Init, Idle
    <2> QED BY <2>1, NoOne
  <1> QED BY <1>1, <1>2 DEF LiveInv

LEMMA SpecLiveInv == Spec => [](IInv /\ LiveInv)
  BY InitIInv, NextIInv, InitLiveInv, NextLiveInv, PTL DEF Spec

\* When all is quiet and nothing has failed, what a stream of one sender has
\* written is not queued any more, however push, publish, flush and clearing met.
THEOREM WrittenIsNotRequeued == Spec => []LiveNotRequeued
  <1>1. IInv /\ LiveInv => LiveNotRequeued
    <2> SUFFICES ASSUME IInv, LiveInv, faults = 0, NEW c \in Conn, NEW m \in conn[c].wrote,
                        \A n \in Msg : up[n].pc \in {"idle", "done"},
                        conn[c].pc = "live", chan[c] = <<>>,
                        conn[c].with = SenderOf[m],
                        [box |-> conn[c].box, msg |-> m] \in Queued(conn[c].box)
                 PROVE  FALSE
      BY DEF LiveNotRequeued
    <2> DEFINE k == conn[c]
               x == [box |-> k.box, msg |-> m]
    <2>1. /\ k \in ConnType /\ m \in Msg /\ OneSender(k, chan[c])
          /\ Cleared(k, chan[c], up[m], m, list, queued)
      <3>1. k \in ConnType
        BY AtWork
      <3>2. m \in Msg
        BY <3>1 DEF ConnType
      <3> QED BY <3>1, <3>2, AtWork
    <2>2. x \in Copy /\ x.box = k.box /\ x.msg = m
      BY <2>1 DEF Copy, ConnType
    <2>3. InList(x)
      BY <2>2, QueuedIsInList DEF IInv
    <2>4. PICK s \in Sender : \E i \in DOMAIN list[k.box][s] : list[k.box][s][i] = m
      BY <2>2, <2>3 DEF InList
    <2>5. s = SenderOf[m] /\ k.box \in Box
      <3>1. k.box \in Box
        BY <2>1 DEF ConnType
      <3>2. PICK i \in DOMAIN list[k.box][s] : list[k.box][s][i] = m
        BY <2>4
      <3>3. SenderOf[list[k.box][s][i]] = s
        BY <3>1 DEF IInv, ListInv
      <3> QED BY <3>1, <3>2, <3>3
    <2>6. Stays(k.box, m, list) /\ k.with \in Sender
      BY <2>4, <2>5 DEF Stays
    <2>7. k.subscribed
      BY <2>1, <2>6 DEF OneSender
    <2>8. ~Coming(up[m], k.box) /\ m \notin ToSet(chan[c])
      BY <2>1 DEF Coming, ToSet
    <2> QED BY <2>1, <2>6, <2>7, <2>8 DEF Cleared
  <1> QED BY <1>1, SpecLiveInv, PTL

-----------------------------------------------------------------------------
(* The inbox implements the abstract mailbox.                               *)

\* The copies that wait, those an accident befell, and where a copy waits.
Waiting == UNION ({Queued(b) : b \in Box} \cup {InHand(c) : c \in Conn})

Lost == overlapped \cup dropped \cup discarded

Waits(x) == InList(x) \/ \E c \in Conn : x \in Hand(conn[c])

\* What is in the buffer of a stream was uploaded.
ChanInv == \A c \in Conn : \A i \in DOMAIN chan[c] : chan[c][i] \in Msg /\ up[chan[c][i]].pc # "idle"

LEMMA HandOf == \A c \in Conn : InHand(c) = Hand(conn[c])
  BY DEF InHand, Hand

LEMMA HandIsCopy ==
  ASSUME NEW k \in ConnType
  PROVE  Hand(k) \subseteq Copy
  BY CopiesType DEF Hand, ConnType

LEMMA WaitingWaits == TypeOK => Waiting \subseteq Copy /\ \A x \in Copy : x \in Waiting <=> Waits(x)
  <1> SUFFICES ASSUME TypeOK
               PROVE  Waiting \subseteq Copy /\ \A x \in Copy : x \in Waiting <=> Waits(x)
    OBVIOUS
  <1>1. ASSUME NEW b \in Box PROVE Queued(b) \subseteq Copy /\ \A x \in Queued(b) : x.box = b
    <2>1. \A s \in Sender : list[b][s] \in Seq(Msg)
      BY DEF TypeOK
    <2>2. \A s \in Sender : /\ Copies(b, list[b][s]) \subseteq Copy
                            /\ \A x \in Copies(b, list[b][s]) : x.box = b
      BY <2>1, CopiesType DEF Copies
    <2> QED BY <2>2 DEF Queued
  <1>2. \A c \in Conn : InHand(c) \subseteq Copy
    BY HandOf, HandIsCopy DEF TypeOK
  <1>3. ASSUME NEW x \in Copy PROVE x \in Waiting <=> Waits(x)
    <2>1. x.box \in Box
      BY DEF Copy
    <2>2. x \in Queued(x.box) <=> InList(x)
      BY QueuedIsInList
    <2>3. x \in Waiting <=> (x \in Queued(x.box) \/ \E c \in Conn : x \in InHand(c))
      BY <1>1, <2>1 DEF Waiting
    <2> QED BY <2>2, <2>3, HandOf DEF Waits
  <1> QED BY <1>1, <1>2, <1>3 DEF Waiting

\* The same of the state after a step.
LEMMA WaitingWaitsNext ==
  ASSUME TypeOK'
  PROVE  Waiting' \subseteq Copy /\ \A x \in Copy : x \in Waiting' <=> Waits(x)'
  <1>1. (TypeOK => Waiting \subseteq Copy /\ \A x \in Copy : x \in Waiting <=> Waits(x))'
    BY WaitingWaits, PTL
  <1> QED BY <1>1

\* What a step has to show: each copy that waited still waits, was given, or had
\* an accident.
LEMMA ServeStep ==
  ASSUME TypeOK, TypeOK', UNCHANGED up,
         \A x \in Copy : Waits(x)' => Waits(x),
         \A x \in Copy : Waits(x) => Waits(x)' \/ x \in delivered' \cup Lost',
         delivered \subseteq delivered', \A x \in delivered' : x \in delivered \/ (x \in Copy /\ Waits(x)),
         Lost \subseteq Lost', \A x \in Lost' : x \in Lost \/ (x \in Copy /\ Waits(x))
  PROVE  Mail!Serve
  <1>1. Waiting' \subseteq Waiting /\ Waiting \ Waiting' \subseteq delivered' \cup Lost'
    BY WaitingWaits, WaitingWaitsNext
  <1>2. delivered' \subseteq delivered \cup Waiting /\ Lost' \subseteq Lost \cup Waiting
    BY WaitingWaits
  <1> QED BY <1>1, <1>2 DEF Mail!Serve, Waiting, Lost

\* The handler c goes on with record k.
LEMMA HandlerServes ==
  ASSUME TypeOK, TypeOK', NEW c \in Conn, NEW k, conn' = [conn EXCEPT ![c] = k], UNCHANGED up,
         \A x \in Copy : InList(x)' => InList(x),
         \A x \in Hand(k) : x \in Hand(conn[c]) \/ InList(x),
         \A x \in Copy : InList(x) \/ x \in Hand(conn[c])
                           => InList(x)' \/ x \in Hand(k) \cup delivered' \cup Lost',
         delivered \subseteq delivered',
         \A x \in delivered' : x \in delivered \/ (x \in Copy /\ (InList(x) \/ x \in Hand(conn[c]))),
         Lost \subseteq Lost',
         \A x \in Lost' : x \in Lost \/ (x \in Copy /\ (InList(x) \/ x \in Hand(conn[c])))
  PROVE  Mail!Serve
  <1>1. conn'[c] = k /\ \A q \in Conn \ {c} : conn'[q] = conn[q]
    BY DEF TypeOK
  <1>2. /\ Hand(conn[c])' = Hand(k)
        /\ \A q \in Conn \ {c} : Hand(conn[q])' = Hand(conn[q])
    BY <1>1 DEF Hand
  <1>3. \A x \in Copy : /\ Waits(x) <=> InList(x) \/ \E q \in Conn : x \in Hand(conn[q])
                        /\ Waits(x)' <=> InList(x)' \/ \E q \in Conn : x \in Hand(conn[q])'
    BY DEF Waits
  <1>4. /\ \A x \in Copy : Waits(x)' => Waits(x)
        /\ \A x \in Copy : Waits(x) => Waits(x)' \/ x \in delivered' \cup Lost'
    BY <1>2, <1>3
  <1> QED BY <1>3, <1>4, ServeStep

\* No list and no history changes, and the handler has in its hands what it had,
\* or copies from a list.
LEMMA QuietServes ==
  ASSUME TypeOK, TypeOK', NEW c \in Conn, NEW k, conn' = [conn EXCEPT ![c] = k],
         UNCHANGED <<list, up, history>>,
         Hand(conn[c]) \subseteq Hand(k), \A x \in Hand(k) : x \in Hand(conn[c]) \/ InList(x)
  PROVE  Mail!Serve
  <1>1. \A x \in Copy : InList(x)' <=> InList(x)
    BY DEF InList
  <1>2. delivered' = delivered /\ Lost' = Lost
    BY DEF history, Lost
  <1> QED BY <1>1, <1>2, HandlerServes

\* The steps of a handler that leave lists and histories alone.
LEMMA ReadServes ==
  ASSUME IInv, TypeOK', NEW c \in Conn, LRange(c) \/ LRangeFails(c)
  PROVE  Mail!Serve
  <1> DEFINE k == conn[c]
  <1>1. /\ k \in ConnType /\ Locals(k) /\ k.pc = "lrange" /\ TypeOK
        /\ UNCHANGED <<list, up, history>>
    BY Handler DEF LRange, LRangeFails, redis, IInv
  <1>2. k.caller \in {"all", "with", "live"} /\ (k.got # <<>> => k.caller = "all")
        /\ k.box \in Box /\ k.senders \subseteq Sender
    BY <1>1 DEF Locals, ConnType
  <1>3. CASE LRange(c)
    <2>1. PICK s \in k.senders :
            conn' = [conn EXCEPT ![c] =
              IF list[k.box][s] # <<>>
              THEN [k EXCEPT !.pc = "del", !.from = s, !.snap = list[k.box][s]]
              ELSE [k EXCEPT !.pc = After(k.caller), !.senders = @ \ {s}]]
      BY <1>3 DEF LRange, Set
    <2>2. CASE list[k.box][s] # <<>>
      <3> DEFINE r == [k EXCEPT !.pc = "del", !.from = s, !.snap = list[k.box][s]]
      <3>1. conn' = [conn EXCEPT ![c] = r]
        BY <2>1, <2>2
      <3>2. /\ Hand(k) = Copies(k.box, k.got)
            /\ Hand(r) \in {Hand(k), Hand(k) \cup Copies(k.box, list[k.box][s])}
        BY <1>1 DEF Hand, ConnType
      <3>3. \A x \in Copies(k.box, list[k.box][s]) : InList(x)
        BY <1>2 DEF Copies, InList
      <3> HIDE DEF r
      <3> QED BY <1>1, <3>1, <3>2, <3>3, QuietServes
    <2>3. CASE list[k.box][s] = <<>>
      <3> DEFINE r == [k EXCEPT !.pc = After(k.caller), !.senders = @ \ {s}]
      <3>1. conn' = [conn EXCEPT ![c] = r]
        BY <2>1, <2>3
      <3>2. Hand(r) = Hand(k)
        BY <1>1, <1>2 DEF Hand, After, ConnType
      <3> HIDE DEF r
      <3> QED BY <1>1, <3>1, <3>2, QuietServes
    <2> QED BY <2>2, <2>3
  <1>4. CASE LRangeFails(c)
    <2>1. PICK s \in k.senders :
            conn' = [conn EXCEPT ![c] =
              IF k.caller = "with" /\ k.kind = "fetch" THEN Idle
              ELSE [k EXCEPT !.pc = After(k.caller), !.failed = TRUE, !.senders = @ \ {s}]]
      BY <1>4 DEF LRangeFails, Set
    <2>2. CASE k.caller = "with" /\ k.kind = "fetch"
      <3>1. Hand(k) = {} /\ Hand(Idle) = {}
        BY <1>1, <1>2, <2>2 DEF Hand, Copies, Idle
      <3> QED BY <1>1, <2>1, <2>2, <3>1, QuietServes
    <2>3. CASE ~(k.caller = "with" /\ k.kind = "fetch")
      <3> DEFINE r == [k EXCEPT !.pc = After(k.caller), !.failed = TRUE, !.senders = @ \ {s}]
      <3>1. conn' = [conn EXCEPT ![c] = r]
        BY <2>1, <2>3
      <3>2. Hand(r) = Hand(k)
        BY <1>1, <1>2 DEF Hand, After, ConnType
      <3> HIDE DEF r
      <3> QED BY <1>1, <3>1, <3>2, QuietServes
    <2> QED BY <2>2, <2>3
  <1> QED BY <1>3, <1>4

LEMMA ReturnServes ==
  ASSUME IInv, TypeOK', NEW c \in Conn, SRem(c) \/ SRemFails(c)
  PROVE  Mail!Serve
  <1> DEFINE k == conn[c]
             r == [k EXCEPT !.pc = After(k.caller), !.senders = @ \ {k.from},
                            !.got = IF k.caller = "live" THEN @ ELSE @ \o k.snap,
                            !.from = NoSender, !.snap = <<>>]
  <1>1. /\ k \in ConnType /\ Locals(k) /\ k.pc = "srem" /\ TypeOK
        /\ UNCHANGED <<list, up, history>> /\ conn' = [conn EXCEPT ![c] = r]
    BY Handler DEF SRem, SRemFails, Return, Set, redis, IInv
  <1>2. /\ k.caller \in {"all", "with", "live"}
        /\ k.got \in Seq(Msg) /\ k.snap \in Seq(Msg)
    BY <1>1 DEF Locals, ConnType
  <1>3. Hand(k) = Hand(r)
    <2>1. /\ r.box = k.box /\ r.pc \notin {"del", "srem"}
          /\ r.got = (IF k.caller = "live" THEN k.got ELSE k.got \o k.snap)
      BY <1>1, <1>2 DEF ConnType, After
    <2>2. Copies(k.box, k.got \o k.snap) = Copies(k.box, k.got) \cup Copies(k.box, k.snap)
      BY <1>2, CopiesOfConcat
    <2> HIDE DEF r
    <2> QED BY <1>1, <2>1, <2>2 DEF Hand
  <1> HIDE DEF r
  <1> QED BY <1>1, <1>3, QuietServes

LEMMA ScanServes ==
  ASSUME IInv, TypeOK', NEW c \in Conn, ScanKey(c)
  PROVE  Mail!Serve
  <1> DEFINE k == conn[c]
  <1>1. k \in ConnType /\ k.pc = "scan" /\ TypeOK /\ UNCHANGED <<list, up, history>>
    BY Handler DEF ScanKey, redis, IInv
  <1>2. PICK s \in k.senders :
          conn' = [conn EXCEPT ![c] =
            [k EXCEPT !.pc = IF list[k.box][s] = <<>> THEN "scan" ELSE "kdel",
                      !.from = s, !.senders = @ \ {s}, !.got = @ \o list[k.box][s]]]
    BY DEF ScanKey, Set
  <1> DEFINE r == [k EXCEPT !.pc = IF list[k.box][s] = <<>> THEN "scan" ELSE "kdel",
                            !.from = s, !.senders = @ \ {s}, !.got = @ \o list[k.box][s]]
  <1>3. s \in Sender /\ k.box \in Box /\ list[k.box][s] \in Seq(Msg) /\ k.got \in Seq(Msg)
    BY <1>1, Handler DEF ConnType
  <1>4. r.box = k.box /\ r.pc \in {"scan", "kdel"} /\ r.got = k.got \o list[k.box][s]
    BY <1>1 DEF ConnType
  <1>5. conn' = [conn EXCEPT ![c] = r]
    BY <1>2
  <1> HIDE DEF r
  <1>6. Hand(k) = Copies(k.box, k.got)
        /\ Hand(r) = Copies(k.box, k.got) \cup Copies(k.box, list[k.box][s])
    BY <1>1, <1>3, <1>4, CopiesOfConcat DEF Hand
  <1>7. \A x \in Copies(k.box, list[k.box][s]) : InList(x)
    BY <1>3 DEF Copies, InList
  <1> QED BY <1>1, <1>5, <1>6, <1>7, QuietServes

\* The handler goes on, and has in its hands what it had.
LEMMA SameHandServes ==
  ASSUME IInv, TypeOK', NEW c \in Conn,
         \/ \E q \in Requests : Start(c, q)
         \/ SMembers(c) \/ SMembersFails(c) \/ DelIndex(c) \/ DelIndexFails(c)
         \/ Keys(c) \/ KeysFails(c) \/ ScanKeyFails(c) \/ DelKeyFails(c) \/ DelListFails(c)
         \/ Subscribe(c) \/ LiveClear(c) \/ LiveSkip(c)
  PROVE  Mail!Serve
  <1> DEFINE k == conn[c]
  <1>1. k \in ConnType /\ Locals(k) /\ TypeOK /\ UNCHANGED <<list, up, history>>
    BY Handler DEF Start, SMembers, SMembersFails, DelIndex, DelIndexFails, Keys, KeysFails,
       ScanKeyFails, DelKeyFails, DelListFails, Subscribe, LiveClear, LiveSkip, redis, IInv
  <1>2. ASSUME NEW r, conn' = [conn EXCEPT ![c] = r], Hand(r) = Hand(k)
        PROVE  Mail!Serve
    BY <1>1, <1>2, QuietServes
  <1>3. ASSUME NEW r, conn' = [conn EXCEPT ![c] = r], r.box = k.box, r.got = k.got, r.snap = k.snap,
               r.caller = k.caller, r.pc = k.pc \/ {r.pc, k.pc} \cap {"del", "srem"} = {}
                                    \/ {r.pc, k.pc} \subseteq {"del", "srem"}
        PROVE  Mail!Serve
    BY <1>2, <1>3 DEF Hand
  <1>4. Hand(Idle) = {}
    BY DEF Idle, Hand, Copies
  <1>5. ASSUME NEW q \in Requests, Start(c, q) PROVE Mail!Serve
    <2> DEFINE r == [Idle EXCEPT
                     !.kind = q.kind, !.box = q.box, !.with = q.with,
                     !.pc = IF q.with = NoSender THEN "smembers" ELSE "lrange",
                     !.senders = {q.with} \ {NoSender},
                     !.caller = IF q.with = NoSender THEN "all" ELSE "with",
                     !.start = IF q.with = NoSender THEN Queued(q.box) ELSE {}]
    <2>1. conn' = [conn EXCEPT ![c] = r] /\ k.pc = "idle"
      BY <1>5 DEF Start, Set
    <2>2. r.got = <<>> /\ r.pc \notin {"del", "srem"}
      BY DEF Idle
    <2> HIDE DEF r
    <2>3. Hand(r) = {} /\ Hand(k) = {}
      BY <1>1, <2>1, <2>2 DEF Hand, Copies, Locals
    <2> QED BY <1>2, <2>1, <2>3
  <1>6. CASE SMembersFails(c)
    <2>1. k.pc = "smembers" /\ k.got = <<>> /\ Hand(k) = {}
      BY <1>1, <1>6 DEF SMembersFails, Locals, Hand, Copies
    <2>2. \/ conn' = [conn EXCEPT ![c] = Idle]
          \/ conn' = [conn EXCEPT ![c] = [k EXCEPT !.pc = "scan", !.failed = TRUE]]
      BY <1>6 DEF SMembersFails, Set
    <2>3. Hand([k EXCEPT !.pc = "scan", !.failed = TRUE]) = {}
      BY <1>1, <2>1 DEF Hand, Copies, ConnType
    <2> QED BY <1>2, <1>4, <2>1, <2>2, <2>3
  <1>7. CASE SMembers(c)
    <2> DEFINE r == [k EXCEPT !.pc = "lrange", !.senders = index[k.box]]
    <2>1. conn' = [conn EXCEPT ![c] = r] /\ k.pc = "smembers"
      BY <1>7 DEF SMembers, Set
    <2>2. r.box = k.box /\ r.got = k.got /\ r.snap = k.snap /\ r.caller = k.caller /\ r.pc = "lrange"
      BY <1>1 DEF ConnType
    <2> HIDE DEF r
    <2> QED BY <1>3, <2>1, <2>2
  <1>8. CASE DelIndex(c) \/ DelIndexFails(c)
    <2> DEFINE r == [k EXCEPT !.pc = "keys"]
    <2>1. conn' = [conn EXCEPT ![c] = r] /\ k.pc = "lrange"
      BY <1>8 DEF DelIndex, DelIndexFails, IndexDone, Set
    <2>2. r.box = k.box /\ r.got = k.got /\ r.snap = k.snap /\ r.caller = k.caller /\ r.pc = "keys"
      BY <1>1 DEF ConnType
    <2> HIDE DEF r
    <2> QED BY <1>3, <2>1, <2>2
  <1>9. CASE Keys(c) \/ KeysFails(c)
    <2>1. PICK S, f : conn' = [conn EXCEPT ![c] = [k EXCEPT !.pc = "scan", !.senders = S, !.failed = f]]
      <3>1. CASE Keys(c)
        <4>1. conn' = [conn EXCEPT ![c] = [k EXCEPT !.pc = "scan", !.senders = KeysOf(k.box)]]
          BY <3>1 DEF Keys, Set
        <4>2. [k EXCEPT !.pc = "scan", !.senders = KeysOf(k.box)]
                = [k EXCEPT !.pc = "scan", !.senders = KeysOf(k.box), !.failed = k.failed]
          BY <1>1 DEF ConnType
        <4> QED BY <4>1, <4>2
      <3>2. CASE KeysFails(c)
        <4>1. conn' = [conn EXCEPT ![c] = [k EXCEPT !.pc = "scan", !.failed = TRUE]]
          BY <3>2 DEF KeysFails, Set
        <4>2. [k EXCEPT !.pc = "scan", !.failed = TRUE]
                = [k EXCEPT !.pc = "scan", !.senders = k.senders, !.failed = TRUE]
          BY <1>1 DEF ConnType
        <4> QED BY <4>1, <4>2
      <3> QED BY <1>9, <3>1, <3>2
    <2> DEFINE r == [k EXCEPT !.pc = "scan", !.senders = S, !.failed = f]
    <2>2. conn' = [conn EXCEPT ![c] = r] /\ k.pc = "keys"
      BY <1>9, <2>1 DEF Keys, KeysFails
    <2>3. r.box = k.box /\ r.got = k.got /\ r.snap = k.snap /\ r.caller = k.caller /\ r.pc = "scan"
      BY <1>1 DEF ConnType
    <2> HIDE DEF r
    <2> QED BY <1>3, <2>2, <2>3
  <1>10. CASE ScanKeyFails(c)
    <2>1. PICK s \in k.senders :
             conn' = [conn EXCEPT ![c] = [k EXCEPT !.senders = @ \ {s}, !.failed = TRUE]]
      BY <1>10 DEF ScanKeyFails, Set
    <2> DEFINE r == [k EXCEPT !.senders = @ \ {s}, !.failed = TRUE]
    <2>2. conn' = [conn EXCEPT ![c] = r]
      BY <2>1
    <2>3. r.box = k.box /\ r.got = k.got /\ r.snap = k.snap /\ r.caller = k.caller /\ r.pc = k.pc
      BY <1>1 DEF ConnType
    <2> HIDE DEF r
    <2> QED BY <1>3, <2>2, <2>3
  <1>11. CASE DelKeyFails(c)
    <2> DEFINE r == [k EXCEPT !.pc = "scan", !.failed = TRUE]
    <2>1. conn' = [conn EXCEPT ![c] = r] /\ k.pc = "kdel"
      BY <1>11 DEF DelKeyFails, Set
    <2>2. r.box = k.box /\ r.got = k.got /\ r.snap = k.snap /\ r.caller = k.caller /\ r.pc = "scan"
      BY <1>1 DEF ConnType
    <2> HIDE DEF r
    <2> QED BY <1>3, <2>1, <2>2
  <1>12. CASE DelListFails(c)
    <2> DEFINE r == [k EXCEPT !.pc = "srem", !.failed = TRUE]
    <2>1. conn' = [conn EXCEPT ![c] = r] /\ k.pc = "del"
      BY <1>12 DEF DelListFails, Set
    <2>2. r.box = k.box /\ r.got = k.got /\ r.snap = k.snap /\ r.caller = k.caller /\ r.pc = "srem"
      BY <1>1 DEF ConnType
    <2> HIDE DEF r
    <2> QED BY <1>3, <2>1, <2>2
  <1>13. CASE Subscribe(c)
    <2> DEFINE r == [k EXCEPT !.pc = "live", !.subscribed = TRUE]
    <2>1. conn' = [conn EXCEPT ![c] = r] /\ k.pc = "subscribe"
      BY <1>13 DEF Subscribe, Set
    <2>2. r.box = k.box /\ r.got = k.got /\ r.snap = k.snap /\ r.caller = k.caller /\ r.pc = "live"
      BY <1>1 DEF ConnType
    <2> HIDE DEF r
    <2> QED BY <1>3, <2>1, <2>2
  <1>14. CASE LiveClear(c)
    <2> DEFINE r == [k EXCEPT !.pc = "lrange", !.caller = "live", !.senders = {k.with}]
    <2>1. conn' = [conn EXCEPT ![c] = r] /\ k.pc = "live"
      BY <1>14 DEF LiveClear, Set
    <2>2. r.box = k.box /\ r.got = k.got /\ r.pc = "lrange"
      BY <1>1 DEF ConnType
    <2> HIDE DEF r
    <2>3. Hand(r) = Hand(k)
      BY <2>1, <2>2 DEF Hand
    <2> QED BY <1>2, <2>1, <2>3
  <1>15. CASE LiveSkip(c)
    <2>1. conn' = [conn EXCEPT ![c] = k]
      BY <1>15, Handler DEF LiveSkip
    <2> QED BY <1>2, <2>1
  <1> QED BY <1>5, <1>6, <1>7, <1>8, <1>9, <1>10, <1>11, <1>12, <1>13, <1>14, <1>15

\* DEL of a list: what it held is in the handler's hands, was at risk, or is.
LEMMA DelServes ==
  ASSUME IInv, TypeOK', NEW c \in Conn, DelList(c) \/ DelKey(c)
  PROVE  Mail!Serve
  <1> DEFINE k == conn[c]
             r == [k EXCEPT !.pc = IF DelList(c) THEN "srem" ELSE "scan"]
  <1>1. /\ k \in ConnType /\ Locals(k) /\ Window(k) /\ TypeOK
        /\ UNCHANGED <<up, overlapped, delivered, dropped>>
    BY Handler DEF DelList, DelKey, history, IInv
  <1>2. conn' = [conn EXCEPT ![c] = r] /\ k.pc = (IF DelList(c) THEN "del" ELSE "kdel")
    BY DEF DelList, DelKey, Set
  <1>3. k.box \in Box /\ k.from \in Sender /\ Empty(k.box, k.from)
    BY <1>1, <1>2 DEF Locals, ConnType, DelList, DelKey, Del
  <1>4. Hand(r) = Hand(k)
    <2>1. r.box = k.box /\ r.got = k.got /\ r.snap = k.snap /\ r.caller = k.caller
          /\ r.pc = (IF DelList(c) THEN "srem" ELSE "scan")
      BY <1>1 DEF ConnType
    <2> HIDE DEF r
    <2> QED BY <1>2, <2>1 DEF Hand
  <1> HIDE DEF r
  <1>5. discarded' = IF DelList(c) /\ k.caller = "live"
                     THEN discarded \cup Copies(k.box, list[k.box][k.from])
                     ELSE discarded
    BY <1>2 DEF DelList, DelKey, Del, history
  <1>6. \A x \in Copies(k.box, list[k.box][k.from]) : x \in Copy /\ InList(x)
    <2>1. list[k.box][k.from] \in Seq(Msg)
      BY <1>1, <1>3 DEF TypeOK
    <2> QED BY <1>3, <2>1, CopiesType DEF Copies, InList
  <1>7. Copies(k.box, list[k.box][k.from]) \subseteq Hand(r) \cup overlapped \cup discarded'
    <2>1. CASE DelList(c) /\ k.caller = "live"
      BY <1>5, <2>1
    <2>2. CASE ~(DelList(c) /\ k.caller = "live")
      <3>1. Clearing(k)
        BY <1>2, <2>2 DEF Clearing
      <3> QED BY <1>1, <1>4, <3>1 DEF Window, Copies
    <2> QED BY <2>1, <2>2
  <1>8. /\ Lost \subseteq Lost' /\ overlapped \cup discarded' \subseteq Lost'
        /\ \A x \in Lost' : x \in Lost \/ x \in Copies(k.box, list[k.box][k.from])
    BY <1>1, <1>5 DEF Lost
  <1>9. /\ \A x \in Copy : InList(x)' => InList(x)
        /\ \A x \in Copy : InList(x) => InList(x)' \/ x \in Copies(k.box, list[k.box][k.from])
    BY <1>3, EmptyEffect
  <1> HIDE DEF k
  <1>10. \A x \in Copy : InList(x) \/ x \in Hand(conn[c])
                           => InList(x)' \/ x \in Hand(r) \cup delivered' \cup Lost'
    BY <1>4, <1>7, <1>8, <1>9 DEF k
  <1> QED BY <1>1, <1>2, <1>4, <1>6, <1>8, <1>9, <1>10, HandlerServes DEF k

LEMMA ClearResentServes ==
  ASSUME IInv, TypeOK', NEW c \in Conn, ClearResent(c)
  PROVE  Mail!Serve
  <1> DEFINE k == conn[c]
  <1>1. /\ k \in ConnType /\ Locals(k) /\ Window(k) /\ TypeOK /\ conn' = [conn EXCEPT ![c] = k]
        /\ UNCHANGED <<up, queued, overlapped, delivered, dropped>>
    BY Handler DEF ClearResent, IInv
  <1>2. CASE UNCHANGED <<list, discarded>>
    BY <1>1, <1>2, QuietServes DEF history
  <1>3. CASE k.pc \in {"del", "kdel"} /\ Del(k)
    <2>1. k.box \in Box /\ k.from \in Sender /\ Empty(k.box, k.from)
      BY <1>1, <1>3 DEF Locals, ConnType, Del
    <2>2. discarded' = IF k.caller = "live"
                       THEN discarded \cup Copies(k.box, list[k.box][k.from])
                       ELSE discarded
      BY <1>3 DEF Del
    <2>3. \A x \in Copies(k.box, list[k.box][k.from]) : x \in Copy /\ InList(x)
      <3>1. list[k.box][k.from] \in Seq(Msg)
        BY <1>1, <2>1 DEF TypeOK
      <3> QED BY <2>1, <3>1, CopiesType DEF Copies, InList
    <2>4. Copies(k.box, list[k.box][k.from]) \subseteq Hand(k) \cup overlapped \cup discarded'
      <3>1. CASE k.caller = "live"
        BY <2>2, <3>1
      <3>2. CASE k.caller # "live"
        <4>1. Window(k) /\ Clearing(k)
          BY <1>1, <1>3, <3>2 DEF Clearing
        <4> QED BY <4>1 DEF Window, Copies
      <3> QED BY <3>1, <3>2
    <2>5. /\ Lost \subseteq Lost' /\ overlapped \cup discarded' \subseteq Lost'
          /\ \A x \in Lost' : x \in Lost \/ x \in Copies(k.box, list[k.box][k.from])
      BY <1>1, <2>2 DEF Lost
    <2>6. /\ \A x \in Copy : InList(x)' => InList(x)
          /\ \A x \in Copy : InList(x) => InList(x)' \/ x \in Copies(k.box, list[k.box][k.from])
      BY <2>1, EmptyEffect
    <2> HIDE DEF k
    <2>7. \A x \in Copy : InList(x) \/ x \in Hand(conn[c])
                            => InList(x)' \/ x \in Hand(k) \cup delivered' \cup Lost'
      BY <2>4, <2>5, <2>6 DEF k
    <2> QED BY <1>1, <2>3, <2>5, <2>6, <2>7, HandlerServes DEF k
  <1> QED BY <1>2, <1>3 DEF ClearResent

\* What was drained is given to the client.
LEMMA ReplyServes ==
  ASSUME IInv, TypeOK', NEW c \in Conn, FetchReply(c) \/ StreamFlush(c)
  PROVE  Mail!Serve
  <1> DEFINE k == conn[c]
             r == [k EXCEPT !.pc = "subscribe", !.got = <<>>, !.start = {},
                            !.wrote = ToSet(k.got)]
  <1>1. /\ k \in ConnType /\ k.pc = "scan" /\ TypeOK
        /\ delivered' = delivered \cup Copies(k.box, k.got)
        /\ UNCHANGED <<list, up, overlapped, dropped, discarded>>
    BY Handler DEF FetchReply, StreamFlush, Deliver, Drained, redis, IInv
  <1>2. Hand(k) = Copies(k.box, k.got) /\ Hand(k) \subseteq Copy
    BY <1>1, HandIsCopy DEF Hand
  <1>3. Hand(Idle) = {} /\ Hand(r) = {}
    BY <1>1 DEF Hand, Copies, Idle, ConnType
  <1>4. conn' = [conn EXCEPT ![c] = Idle] \/ conn' = [conn EXCEPT ![c] = r]
    BY DEF FetchReply, StreamFlush, Set
  <1>5. /\ \A x \in Copy : InList(x)' <=> InList(x)
        /\ Lost' = Lost
    BY <1>1 DEF InList, Lost
  <1> HIDE DEF k, r
  <1> QED BY <1>1, <1>2, <1>3, <1>4, <1>5, HandlerServes DEF k

\* A handler is cut off.
LEMMA DisconnectServes ==
  ASSUME IInv, TypeOK', NEW c \in Conn, Disconnect(c)
  PROVE  Mail!Serve
  <1> DEFINE k == conn[c]
  <1>1. /\ k \in ConnType /\ k.box \in Box /\ k.got \in Seq(Msg) /\ TypeOK
        /\ conn' = [conn EXCEPT ![c] = Idle]
        /\ UNCHANGED <<list, up, overlapped, discarded>>
    BY Handler DEF Disconnect, Set, ConnType, redis, IInv
  <1>2. PICK n \in 0 .. (IF Drained(k) /\ k.kind = "stream" THEN Len(k.got) ELSE 0) :
          LET sent == Copies(k.box, SubSeq(k.got, 1, n)) IN
          /\ delivered' = delivered \cup sent
          /\ dropped' = dropped \cup ((InHand(c) \ sent) \ Queued(k.box))
    BY DEF Disconnect
  <1> DEFINE sent == Copies(k.box, SubSeq(k.got, 1, n))
  <1>3. /\ delivered' = delivered \cup sent
        /\ dropped' = dropped \cup ((Hand(k) \ sent) \ Queued(k.box))
    BY <1>2, HandOf
  <1>4. sent \subseteq Hand(k) /\ Hand(k) \subseteq Copy
    <2>1. n \in 0 .. Len(k.got)
      BY <1>1
    <2>2. \A i \in DOMAIN SubSeq(k.got, 1, n) : i \in DOMAIN k.got /\ SubSeq(k.got, 1, n)[i] = k.got[i]
      BY <1>1, <2>1
    <2>3. sent \subseteq Copies(k.box, k.got)
      BY <2>2 DEF Copies
    <2> QED BY <1>1, <2>3, HandIsCopy DEF Hand
  <1> HIDE DEF sent
  <1>5. \A x \in Hand(k) : x \in Queued(k.box) => InList(x)
    <2>1. \A x \in Hand(k) : x.box = k.box
      BY DEF Hand, Copies
    <2> QED BY <1>1, <1>4, <2>1, QueuedIsInList
  <1>6. /\ Lost \subseteq Lost' /\ dropped' \subseteq Lost'
        /\ \A x \in Lost' : x \in Lost \/ x \in Hand(k)
    BY <1>1, <1>3 DEF Lost
  <1>7. \A x \in Copy : InList(x)' <=> InList(x)
    BY <1>1 DEF InList
  <1>8. Hand(Idle) = {}
    BY DEF Hand, Copies, Idle
  <1> HIDE DEF k
  <1>9. /\ \A x \in Copy : InList(x) \/ x \in Hand(k) => InList(x)' \/ x \in delivered' \cup Lost'
        /\ delivered \subseteq delivered' /\ \A x \in delivered' : x \in delivered \/ x \in Hand(k)
    BY <1>3, <1>4, <1>5, <1>6, <1>7
  <1> QED BY <1>1, <1>4, <1>6, <1>7, <1>8, <1>9, HandlerServes DEF k

\* /admin/clear
LEMMA FlushServes ==
  ASSUME IInv, TypeOK', FlushServer
  PROVE  Mail!Serve
  <1>1. /\ TypeOK /\ UNCHANGED <<conn, up, delivered, overlapped, discarded>>
        /\ dropped' = dropped \cup UNION {Queued(b) : b \in Box}
        /\ list' = [b \in Box |-> [s \in Sender |-> <<>>]]
    BY DEF FlushServer, IInv
  <1>2. ASSUME NEW x \in Copy
        PROVE  /\ ~InList(x)' /\ (Waits(x)' <=> \E c \in Conn : x \in Hand(conn[c]))
               /\ InList(x) <=> x \in UNION {Queued(b) : b \in Box}
    <2>1. x.box \in Box
      BY DEF Copy
    <2>2. ~InList(x)'
      BY <1>1, <2>1 DEF InList
    <2>3. \A b \in Box : x \in Queued(b) => x.box = b
      BY DEF Queued, Copies
    <2> QED BY <1>1, <2>1, <2>2, <2>3, QueuedIsInList DEF Waits, Hand
  <1>3. UNION {Queued(b) : b \in Box} \subseteq Copy
    BY <1>1, WaitingWaits DEF Waiting
  <1>4. /\ Lost \subseteq Lost' /\ dropped' \subseteq Lost'
        /\ \A x \in Lost' : x \in Lost \/ x \in UNION {Queued(b) : b \in Box}
    BY <1>1 DEF Lost
  <1>5. \A x \in Copy : /\ Waits(x)' => Waits(x)
                        /\ Waits(x) => Waits(x)' \/ x \in Lost'
                        /\ x \in UNION {Queued(b) : b \in Box} => Waits(x)
    BY <1>1, <1>2, <1>4 DEF Waits
  <1> QED BY <1>1, <1>3, <1>4, <1>5, ServeStep

\* A live message is written.
LEMMA MailWrites ==
  ASSUME IInv, ChanInv, TypeOK', NEW c \in Conn, LiveWrite(c)
  PROVE  \E x \in Copy : Mail!Write(x)
  <1> DEFINE k == conn[c]
             m == Head(chan[c])
             r == [k EXCEPT !.pc = "live", !.wrote = @ \cup {m}]
             z == [box |-> k.box, msg |-> m]
  <1>1. /\ k \in ConnType /\ k.pc \in {"live", "writeLive"} /\ TypeOK
        /\ chan[c] \in Seq(Msg) /\ chan[c] # <<>>
        /\ delivered' = delivered \cup {z} /\ conn' = [conn EXCEPT ![c] = r]
        /\ UNCHANGED <<list, up, overlapped, dropped, discarded>>
    BY Handler DEF LiveWrite, Deliver, Set, redis, IInv, TypeOK
  <1>2. m \in Msg /\ up[m].pc # "idle" /\ z \in Copy
    <2>1. m = chan[c][1] /\ 1 \in DOMAIN chan[c]
      BY <1>1
    <2> QED BY <1>1, <2>1 DEF ChanInv, Copy, ConnType
  <1>3. Hand(r) = Hand(k)
    BY <1>1 DEF Hand, ConnType
  <1> HIDE DEF r, z, m
  <1>4. \A q \in Conn : Hand(conn[q])' = Hand(conn[q])
    <2>1. conn'[c] = r /\ \A q \in Conn \ {c} : conn'[q] = conn[q]
      BY <1>1 DEF TypeOK
    <2> QED BY <1>3, <2>1 DEF Hand
  <1>5. \A y \in Copy : Waits(y)' <=> Waits(y)
    <2>1. \A y \in Copy : InList(y)' <=> InList(y)
      BY <1>1 DEF InList
    <2> QED BY <1>4, <2>1 DEF Waits
  <1>6. Waiting' = Waiting
    BY <1>1, <1>5, WaitingWaits, WaitingWaitsNext
  <1>7. z.msg = m
    BY DEF z
  <1>8. Mail!Write(z)
    BY <1>1, <1>2, <1>6, <1>7 DEF Mail!Write, Waiting, Lost
  <1> QED BY <1>2, <1>8

-----------------------------------------------------------------------------
(* Buffers hold what was uploaded.                                          *)

LEMMA InitChanInv == Init => ChanInv
  BY DEF Init, ChanInv

\* An upload that began is never forgotten.
LEMMA StaysUploaded ==
  ASSUME TypeOK, [Next]_vars
  PROVE  \A m \in Msg : up[m].pc # "idle" => up'[m].pc # "idle"
  <1>1. ASSUME NEW m \in Msg, Upload(m)
        PROVE  \A n \in Msg : up[n].pc # "idle" => up'[n].pc # "idle"
    <2>1. CASE \E todo : Continue(m, todo)
      BY <2>1 DEF Continue, TypeOK
    <2>2. CASE UNCHANGED up \/ \E p \in {"sadd", "rpush", "publish"} : up' = [up EXCEPT ![m].pc = p]
      BY <2>2 DEF TypeOK
    <2>3. CASE up' = [up EXCEPT ![m] = [pc |-> "done", todo |-> <<>>]]
      BY <2>3 DEF TypeOK
    <2> QED BY <1>1, <2>1, <2>2, <2>3 DEF Upload, PostMessage, PostFails, RPush, SAdd, PipelineFails,
          PipelineResent, Publish, PublishFails, PublishResent
  <1>2. ASSUME NEW c \in Conn, Arrival(c) \/ Handle(c) \/ Failure(c) PROVE up' = up
    BY <1>2 DEF Arrival, Handle, Failure, Start, LRange, LRangeFails, DelList, DelListFails, SRem,
       SRemFails, SMembers, SMembersFails, DelIndex, DelIndexFails, Keys, KeysFails, ScanKey,
       ScanKeyFails, DelKey, DelKeyFails, ClearResent, FetchReply, StreamFlush, Subscribe,
       LiveWrite, LiveSkip, LiveClear, Disconnect
  <1>3. ASSUME (\E b \in Box : IndexExpires(b)) \/ FlushServer \/ UNCHANGED vars PROVE up' = up
    BY <1>3 DEF IndexExpires, FlushServer, vars
  <1> QED BY <1>1, <1>2, <1>3 DEF Next

\* A buffer gets the message that is published, or loses its first, or is gone.
LEMMA Buffers ==
  ASSUME TypeOK, [Next]_vars, NEW c \in Conn
  PROVE  \/ chan'[c] = chan[c]
         \/ \E m \in Msg : up[m].pc # "idle" /\ chan'[c] = Append(chan[c], m)
         \/ chan[c] # <<>> /\ chan'[c] = Tail(chan[c])
         \/ chan'[c] = <<>>
  <1>1. ASSUME NEW m \in Msg, Upload(m)
        PROVE  \/ chan'[c] = chan[c]
               \/ up[m].pc # "idle" /\ chan'[c] = Append(chan[c], m)
    <2>1. CASE UNCHANGED chan
      BY <2>1
    <2>2. CASE Announce(m) /\ up[m].pc = "publish"
      BY <2>2 DEF Announce
    <2> QED BY <1>1, <2>1, <2>2 DEF Upload, PostMessage, PostFails, RPush, SAdd, PipelineFails,
          PipelineResent, Publish, PublishFails, PublishResent
  <1>2. ASSUME NEW q \in Conn, Arrival(q) \/ Handle(q) \/ Failure(q)
        PROVE  \/ chan'[c] = chan[c]
               \/ chan[c] # <<>> /\ chan'[c] = Tail(chan[c])
               \/ chan'[c] = <<>>
    <2>1. CASE UNCHANGED chan
      BY <2>1
    <2>2. CASE chan[q] # <<>> /\ Pop(q)
      BY <2>2 DEF Pop, TypeOK
    <2>3. CASE Disconnect(q)
      BY <2>3 DEF Disconnect, TypeOK
    <2> QED BY <1>2, <2>1, <2>2, <2>3 DEF Arrival, Handle, Failure, Start, LRange, LRangeFails,
       DelList, DelListFails, SRem, SRemFails, SMembers, SMembersFails, DelIndex, DelIndexFails,
       Keys, KeysFails, ScanKey, ScanKeyFails, DelKey, DelKeyFails, ClearResent, FetchReply,
       StreamFlush, Subscribe, LiveWrite, LiveSkip, LiveClear
  <1>3. ASSUME (\E b \in Box : IndexExpires(b)) \/ FlushServer \/ UNCHANGED vars PROVE chan' = chan
    BY <1>3 DEF IndexExpires, FlushServer, vars
  <1> QED BY <1>1, <1>2, <1>3 DEF Next

LEMMA NextChanInv == IInv /\ ChanInv /\ [Next]_vars => ChanInv'
  <1> SUFFICES ASSUME IInv, ChanInv, [Next]_vars, NEW c \in Conn, NEW i \in DOMAIN chan'[c]
               PROVE  chan'[c][i] \in Msg /\ up'[chan'[c][i]].pc # "idle"
    BY DEF ChanInv
  <1>1. TypeOK /\ chan[c] \in Seq(Msg)
    BY DEF IInv, TypeOK
  <1>2. \E m \in Msg : up[m].pc # "idle" /\ chan'[c][i] = m
    <2>1. \A j \in DOMAIN chan[c] : \E m \in Msg : up[m].pc # "idle" /\ chan[c][j] = m
      BY DEF ChanInv
    <2>2. CASE chan'[c] = chan[c]
      BY <2>1, <2>2
    <2>3. ASSUME NEW m \in Msg, up[m].pc # "idle", chan'[c] = Append(chan[c], m)
          PROVE  \E n \in Msg : up[n].pc # "idle" /\ chan'[c][i] = n
      <3>1. \/ i \in DOMAIN chan[c] /\ chan'[c][i] = chan[c][i]
            \/ chan'[c][i] = m
        BY <1>1, <2>3
      <3> QED BY <2>1, <2>3, <3>1
    <2>4. CASE chan[c] # <<>> /\ chan'[c] = Tail(chan[c])
      <3>1. i + 1 \in DOMAIN chan[c] /\ chan'[c][i] = chan[c][i + 1]
        BY <1>1, <2>4
      <3> QED BY <2>1, <3>1
    <2>5. CASE chan'[c] = <<>>
      BY <2>5
    <2> QED BY <1>1, <2>2, <2>3, <2>4, <2>5, Buffers
  <1> QED BY <1>1, <1>2, StaysUploaded

-----------------------------------------------------------------------------
(* The steps of uploads.                                                    *)

\* A message is posted, stored or not.
LEMMA PostPosts ==
  ASSUME IInv, TypeOK', NEW m \in Msg,
         (\E b \in Box : PostMessage(m, b)) \/ PostFails(m)
  PROVE  Mail!Post(m)
  <1>1. TypeOK /\ UNCHANGED <<list, conn, history>>
    BY DEF IInv, PostMessage, PostFails, redis
  <1>2. \A n \in Msg : up'[n].pc # "idle" <=> up[n].pc # "idle" \/ n = m
    BY <1>1 DEF PostMessage, PostFails, Continue, TypeOK
  <1>3. {n \in Msg : up'[n].pc # "idle"} = {n \in Msg : up[n].pc # "idle"} \cup {m}
    BY <1>2
  <1>4. UNCHANGED <<Waiting, delivered, Lost>>
    <2>1. \A x \in Copy : Waits(x)' <=> Waits(x)
      BY <1>1 DEF Waits, InList, Hand
    <2> QED BY <1>1, <2>1, WaitingWaits, WaitingWaitsNext DEF history, Lost
  <1> QED BY <1>3, <1>4 DEF Mail!Post, Waiting, Lost

\* What an upload does besides that and RPUSH is not seen by the mailbox.
LEMMA UploadQuietMail ==
  ASSUME IInv, NEW m \in Msg,
         \/ SAdd(m) \/ PipelineFails(m) \/ PipelineResent(m)
         \/ Publish(m) \/ PublishFails(m) \/ PublishResent(m)
  PROVE  UNCHANGED Mail!vars
  <1>1. TypeOK /\ UNCHANGED <<list, conn, history>>
    BY DEF IInv, SAdd, PipelineFails, PipelineResent, Publish, PublishFails, PublishResent, redis
  <1>2. \A n \in Msg : up'[n].pc # "idle" <=> up[n].pc # "idle"
    <2>1. up[m].pc # "idle"
      BY DEF SAdd, PipelineFails, PipelineResent, Publish, PublishFails, PublishResent
    <2>2. CASE \E todo : Continue(m, todo)
      BY <1>1, <2>1, <2>2 DEF Continue, TypeOK
    <2>3. CASE UNCHANGED up \/ \E p \in {"rpush", "publish"} : up' = [up EXCEPT ![m].pc = p]
      BY <1>1, <2>1, <2>3 DEF TypeOK
    <2> QED BY <2>2, <2>3 DEF SAdd, PipelineFails, PipelineResent, Publish, PublishFails,
          PublishResent
  <1>3. {n \in Msg : up'[n].pc # "idle"} = {n \in Msg : up[n].pc # "idle"}
    BY <1>2
  <1>4. UNCHANGED <<Waiting, delivered, Lost>>
    BY <1>1 DEF Waiting, Lost, history, Queued, InHand, Copies
  <1> QED BY <1>3, <1>4 DEF Mail!vars, Waiting, Lost

\* RPUSH puts the copy into its box, perhaps while a handler drains the list.
LEMMA RPushPuts ==
  ASSUME IInv, TypeOK', NEW m \in Msg, RPush(m)
  PROVE  \E x \in Copy : Mail!Put(x)
  <1>1. up[m].todo # <<>> /\ up[m].todo \in Seq(Box) /\ SenderOf[m] \in Sender /\ TypeOK
    BY DEF IInv, UploadInv, TypeOK, RPush
  <1>2. Head(up[m].todo) \in Box /\ [box |-> Head(up[m].todo), msg |-> m] \in Copy
    BY <1>1 DEF Copy
  <1> SUFFICES
        ASSUME NEW b \in Box, NEW s \in Sender, NEW new \in Copy, up[m].pc = "rpush",
               s = SenderOf[m], new = [box |-> b, msg |-> m],
               list' = [list EXCEPT ![b][s] = Append(@, m)],
               overlapped' = (IF Draining(b, s) THEN overlapped \cup {new} ELSE overlapped),
               up' = [up EXCEPT ![m].pc = "sadd"],
               UNCHANGED <<conn, delivered, dropped, discarded>>
        PROVE  Mail!Put(new)
    BY <1>1, <1>2 DEF RPush
  <1>3. {n \in Msg : up'[n].pc # "idle"} = {n \in Msg : up[n].pc # "idle"}
        /\ m \in {n \in Msg : up[n].pc # "idle"} /\ new.msg = m
    <2>1. \A n \in Msg : up'[n].pc # "idle" <=> up[n].pc # "idle"
      BY <1>1 DEF TypeOK
    <2> QED BY <2>1
  <1>4. /\ list'[b][s] = Append(list[b][s], m) /\ list[b][s] \in Seq(Msg)
        /\ \A a \in Box, t \in Sender : ~(a = b /\ t = s) => list'[a][t] = list[a][t]
    BY <1>1 DEF TypeOK
  <1>5. /\ \A i \in DOMAIN list'[b][s] :
             \/ i \in DOMAIN list[b][s] /\ list'[b][s][i] = list[b][s][i]
             \/ list'[b][s][i] = m
        /\ \A i \in DOMAIN list[b][s] :
             i \in DOMAIN list'[b][s] /\ list'[b][s][i] = list[b][s][i]
        /\ \E i \in DOMAIN list'[b][s] : list'[b][s][i] = m
    BY <1>4
  <1>6. ASSUME NEW x \in Copy PROVE InList(x)' <=> InList(x) \/ x = new
    <2>1. x.box \in Box /\ x = [box |-> x.box, msg |-> x.msg]
      BY DEF Copy
    <2>2. CASE x.box = b
      <3>1. \A t \in Sender \ {s} : list'[x.box][t] = list[x.box][t]
        BY <1>4, <2>2
      <3>2. (\E i \in DOMAIN list'[b][s] : list'[b][s][i] = x.msg)
              <=> (\E i \in DOMAIN list[b][s] : list[b][s][i] = x.msg) \/ x.msg = m
        BY <1>5
      <3>3. x = new <=> x.msg = m
        BY <2>1, <2>2
      <3> QED BY <2>2, <3>1, <3>2, <3>3 DEF InList
    <2>3. CASE x.box # b
      <3>1. \A t \in Sender : list'[x.box][t] = list[x.box][t]
        BY <1>4, <2>1, <2>3
      <3> QED BY <2>3, <3>1 DEF InList
    <2> QED BY <2>2, <2>3
  <1>7. \A x \in Copy : Waits(x)' <=> Waits(x) \/ x = new
    BY <1>6 DEF Waits, Hand
  <1>8. Waiting' = Waiting \cup {new}
    BY <1>1, <1>7, WaitingWaits, WaitingWaitsNext
  <1>9. Lost' \in {Lost, Lost \cup {new}}
    BY DEF Lost
  <1> QED BY <1>3, <1>8, <1>9 DEF Mail!Put, Waiting, Lost

-----------------------------------------------------------------------------
LEMMA MailInit == Init => Mail!Init
  <1> SUFFICES ASSUME Init PROVE Mail!Init
    OBVIOUS
  <1>1. {m \in Msg : up[m].pc # "idle"} = {}
    BY DEF Init
  <1>2. \A b \in Box : Queued(b) = {}
    BY DEF Init, Queued, Copies
  <1>3. \A c \in Conn : InHand(c) = {}
    <2>1. Idle.got = <<>> /\ Idle.pc = "idle" /\ \A c \in Conn : conn[c] = Idle
      BY DEF Init, Idle
    <2> QED BY <2>1 DEF InHand, Copies
  <1>4. UNION ({Queued(b) : b \in Box} \cup {InHand(c) : c \in Conn}) = {}
    BY <1>2, <1>3
  <1>5. delivered = {} /\ overlapped \cup dropped \cup discarded = {}
    BY DEF Init
  <1> QED BY <1>1, <1>4, <1>5 DEF Mail!Init

LEMMA MailNext == IInv /\ ChanInv /\ [Next]_vars => [Mail!Next]_(Mail!vars)
  <1> SUFFICES ASSUME IInv, ChanInv, [Next]_vars PROVE [Mail!Next]_(Mail!vars)
    OBVIOUS
  <1>1. TypeOK'
    BY NextIInv DEF IInv
  <1>2. ASSUME NEW m \in Msg, Upload(m) PROVE [Mail!Next]_(Mail!vars)
    <2>1. CASE (\E b \in Box : PostMessage(m, b)) \/ PostFails(m)
      BY <1>1, <2>1, PostPosts DEF Mail!Next
    <2>2. CASE RPush(m)
      BY <1>1, <2>2, RPushPuts DEF Mail!Next
    <2>3. CASE \/ SAdd(m) \/ PipelineFails(m) \/ PipelineResent(m)
               \/ Publish(m) \/ PublishFails(m) \/ PublishResent(m)
      BY <2>3, UploadQuietMail
    <2> QED BY <1>2, <2>1, <2>2, <2>3 DEF Upload
  <1>3. ASSUME NEW c \in Conn, Arrival(c) \/ Handle(c) \/ Failure(c)
        PROVE  Mail!Serve \/ \E x \in Copy : Mail!Write(x)
    <2>1. CASE Arrival(c)
      BY <1>1, <2>1, SameHandServes DEF Arrival
    <2>2. CASE Handle(c)
      BY <1>1, <2>2, ReadServes, ReturnServes, ScanServes, SameHandServes, DelServes, ReplyServes,
         MailWrites DEF Handle
    <2>3. CASE Failure(c)
      BY <1>1, <2>3, ReadServes, ReturnServes, SameHandServes, ClearResentServes,
         DisconnectServes DEF Failure
    <2> QED BY <1>3, <2>1, <2>2, <2>3
  <1>4. CASE FlushServer
    BY <1>1, <1>4, FlushServes DEF Mail!Next
  <1>5. CASE (\E b \in Box : IndexExpires(b)) \/ UNCHANGED vars
    <2>1. UNCHANGED <<list, conn, up, history>>
      BY <1>5 DEF IndexExpires, vars, redis
    <2>2. UNCHANGED <<Waiting, Lost, delivered>>
      BY <2>1 DEF Waiting, Lost, history, Queued, InHand, Copies
    <2> QED BY <2>1, <2>2 DEF Mail!vars, Waiting, Lost
  <1> QED BY <1>2, <1>3, <1>4, <1>5 DEF Next, Mail!Next

\* Whatever commands of uploads, drains and streams interleave or fail, the relay
\* is a mailbox to the recipient: a copy that waits goes only by being given to a
\* client or by an accident in one of the named windows, and no client is given
\* what nobody uploaded.
THEOREM ImplementsMailbox == Spec => MailboxSpec
  BY InitIInv, NextIInv, InitChanInv, NextChanInv, MailInit, MailNext, PTL
  DEF Spec, MailboxSpec, Mail!Spec

-----------------------------------------------------------------------------
(* The life of one list, module InboxLifetime.                              *)

LifeTypes ==
    /\ shelf \in Seq(Item) /\ ttl \in (Nat \ {0}) \cup {Unlimited}
    /\ pc \in [Item -> {"rpush", "expire", "done"}] /\ left \in [Item -> Nat]
    /\ broken \in Nat /\ overlap \in BOOLEAN

\* The lifetime of a message runs from its append on, and no time passes between
\* an append and its EXPIRE.
NotYetAged == \A m \in Item : pc[m] \in {"rpush", "expire"} => left[m] = Lifetime[m]

\* What is listed was appended.
Appended == \A i \in DOMAIN shelf : pc[shelf[i]] # "rpush"

\* Uploads that do not overlap have one EXPIRE to send at most, that of the
\* message appended last.
OnePending ==
    ~overlap =>
        /\ \A m, n \in Item : pc[m] = "expire" /\ pc[n] = "expire" => m = n
        /\ \A m \in Item : pc[m] = "expire" /\ shelf # <<>> => Last(shelf) = m

LifeInv == LifeTypes /\ NotYetAged /\ Appended /\ OnePending /\ LivesAsTheLast

LEMMA LastOf ==
  ASSUME NEW s \in Seq(Item), s # <<>>
  PROVE  Last(s) \in Item /\ \E i \in DOMAIN s : s[i] = Last(s)
  <1>1. Len(s) \in DOMAIN s
    OBVIOUS
  <1> QED BY <1>1 DEF Last

LEMMA LastAppended ==
  ASSUME NEW s \in Seq(Item), NEW m \in Item
  PROVE  /\ Append(s, m) \in Seq(Item) /\ Append(s, m) # <<>> /\ Last(Append(s, m)) = m
         /\ \A i \in DOMAIN Append(s, m) : Append(s, m)[i] = m \/ (i \in DOMAIN s /\ Append(s, m)[i] = s[i])
  BY DEF Last

LEMMA InitLifeInv ==
  ASSUME LifeInit
  PROVE  LifeInv
  <1>1. /\ shelf = <<>> /\ ttl = Unlimited /\ left = Lifetime
        /\ pc = [m \in Item |-> "rpush"] /\ overlap = FALSE /\ broken = 0
    BY DEF LifeInit
  <1>2. LifeTypes
    <2>1. shelf \in Seq(Item)
      BY <1>1
    <2>2. broken \in Nat /\ overlap \in BOOLEAN
      BY <1>1
    <2>3. left \in [Item -> Nat]
      BY <1>1, LifetimeAssumption
    <2>4. pc \in [Item -> {"rpush", "expire", "done"}]
      BY <1>1
    <2> QED BY <1>1, <2>1, <2>3, <2>4, <2>2 DEF LifeTypes
  <1>3. NotYetAged /\ OnePending
    BY <1>1 DEF NotYetAged, OnePending
  <1>4. Appended
    BY <1>1 DEF Appended
  <1> QED BY <1>1, <1>2, <1>3, <1>4 DEF LifeInv, LivesAsTheLast

LEMMA NextLifeInv ==
  LifeInv /\ [LifeNext]_lifeVars => LifeInv'
  <1> SUFFICES ASSUME LifeInv, [LifeNext]_lifeVars PROVE LifeInv'
    OBVIOUS
  <1>0. LifeTypes /\ NotYetAged /\ Appended /\ OnePending /\ LivesAsTheLast
    BY DEF LifeInv
  <1>1. ASSUME NEW m \in Item, Push(m) PROVE LifeInv'
    <2>1. /\ pc[m] = "rpush" /\ shelf' = Append(shelf, m)
          /\ pc' = [pc EXCEPT ![m] = "expire"] /\ UNCHANGED <<ttl, left, broken>>
          /\ overlap' = (overlap \/ \E n \in Item : pc[n] = "expire")
      BY <1>1 DEF Push
    <2>2. /\ shelf' \in Seq(Item) /\ shelf' # <<>> /\ Last(shelf') = m
          /\ \A i \in DOMAIN shelf' : shelf'[i] = m \/ (i \in DOMAIN shelf /\ shelf'[i] = shelf[i])
      BY <1>0, <2>1, LastAppended DEF LifeTypes
    <2>3. \A n \in Item : pc'[n] = IF n = m THEN "expire" ELSE pc[n]
      BY <1>0, <2>1 DEF LifeTypes
    <2>4. LifeTypes'
      BY <1>0, <2>1, <2>2 DEF LifeTypes
    <2>5. NotYetAged' /\ Appended'
      <3>1. NotYetAged'
        BY <1>0, <2>1, <2>3 DEF NotYetAged
      <3>2. \A i \in DOMAIN shelf : shelf[i] \in Item
        BY <1>0 DEF LifeTypes
      <3> QED BY <1>0, <2>2, <2>3, <3>1, <3>2 DEF Appended
    <2>6. OnePending' /\ LivesAsTheLast'
      BY <2>1, <2>2, <2>3 DEF OnePending, LivesAsTheLast
    <2> QED BY <2>4, <2>5, <2>6 DEF LifeInv
  <1>2. ASSUME NEW m \in Item, Expire(m) PROVE LifeInv'
    <2>1. /\ pc[m] = "expire" /\ ttl' = (IF shelf = <<>> THEN Unlimited ELSE Lifetime[m])
          /\ pc' = [pc EXCEPT ![m] = "done"] /\ UNCHANGED <<shelf, left, overlap, broken>>
      BY <1>2 DEF Expire, SetTTL
    <2>2. \A n \in Item : pc'[n] = IF n = m THEN "done" ELSE pc[n]
      BY <1>0, <2>1 DEF LifeTypes
    <2>3. LifeTypes'
      BY <1>0, <2>1, LifetimeAssumption DEF LifeTypes
    <2>4. NotYetAged' /\ Appended' /\ OnePending'
      <3>1. \A i \in DOMAIN shelf : shelf[i] \in Item
        BY <1>0 DEF LifeTypes
      <3> QED BY <1>0, <2>1, <2>2, <3>1 DEF NotYetAged, Appended, OnePending
    <2>5. LivesAsTheLast'
      BY <1>0, <2>1 DEF NotYetAged, OnePending, LivesAsTheLast
    <2> QED BY <2>3, <2>4, <2>5 DEF LifeInv
  <1>3. ASSUME NEW m \in Item, PipelineBreaks(m) PROVE LifeInv'
    <2>1. /\ pc' = [pc EXCEPT ![m] = "done"] /\ broken' = broken + 1
          /\ UNCHANGED <<shelf, ttl, left, overlap>>
      BY <1>3 DEF PipelineBreaks
    <2>2. \A n \in Item : pc'[n] = IF n = m THEN "done" ELSE pc[n]
      BY <1>0, <2>1 DEF LifeTypes
    <2>3. LifeTypes' /\ broken' # 0
      BY <1>0, <2>1 DEF LifeTypes
    <2>4. NotYetAged' /\ Appended' /\ OnePending'
      <3>1. \A i \in DOMAIN shelf : shelf[i] \in Item
        BY <1>0 DEF LifeTypes
      <3> QED BY <1>0, <2>1, <2>2, <3>1 DEF NotYetAged, Appended, OnePending
    <2> QED BY <2>3, <2>4 DEF LifeInv, LivesAsTheLast
  <1>4. CASE Drain
    BY <1>0, <1>4 DEF Drain, LifeInv, LifeTypes, NotYetAged, Appended, OnePending, LivesAsTheLast
  <1>5. CASE Tick
    <2>1. /\ shelf # <<>> /\ \A m \in Item : pc[m] # "expire"
          /\ left' = [m \in Item |-> IF pc[m] # "rpush" /\ left[m] > 0 THEN left[m] - 1 ELSE left[m]]
          /\ UNCHANGED <<pc, overlap, broken>>
      BY <1>5 DEF Tick
    <2>2. \/ ttl = Unlimited /\ UNCHANGED <<shelf, ttl>>
          \/ ttl \in Nat /\ ttl > 1 /\ ttl' = ttl - 1 /\ shelf' = shelf
          \/ shelf' = <<>> /\ ttl' = Unlimited
      BY <1>0, <1>5, LifetimeAssumption DEF Tick, LifeTypes
    <2>3. LifeTypes'
      <3>1. left' \in [Item -> Nat]
        BY <1>0, <2>1 DEF LifeTypes
      <3>2. ttl' \in (Nat \ {0}) \cup {Unlimited}
        BY <1>0, <2>2 DEF LifeTypes
      <3>3. shelf' \in Seq(Item)
        <4>1. CASE shelf' = shelf
          BY <1>0, <4>1 DEF LifeTypes
        <4>2. CASE shelf' = <<>>
          BY <4>2
        <4> QED BY <2>2, <4>1, <4>2
      <3>4. UNCHANGED <<pc, overlap, broken>>
        BY <2>1
      <3> QED BY <1>0, <3>1, <3>2, <3>3, <3>4 DEF LifeTypes
    <2>4. NotYetAged' /\ Appended' /\ OnePending'
      BY <1>0, <2>1, <2>2 DEF NotYetAged, Appended, OnePending
    <2>5. LivesAsTheLast'
      <3> SUFFICES ASSUME broken = 0, ~overlap, shelf' # <<>> PROVE ttl' = left'[Last(shelf')]
        BY <2>1 DEF LivesAsTheLast
      <3>1. ttl = left[Last(shelf)] /\ shelf' = shelf
        BY <1>0, <2>1, <2>2 DEF LivesAsTheLast
      <3>2. Last(shelf) \in Item /\ pc[Last(shelf)] # "rpush"
        BY <1>0, <2>1, LastOf DEF LifeTypes, Appended
      <3>3. ttl \in Nat /\ ttl > 1 /\ ttl' = ttl - 1
        BY <1>0, <2>2, <3>1, <3>2, LifetimeAssumption DEF LifeTypes
      <3> QED BY <2>1, <3>1, <3>2, <3>3
    <2> QED BY <2>3, <2>4, <2>5 DEF LifeInv
  <1>6. CASE UNCHANGED lifeVars
    BY <1>0, <1>6 DEF lifeVars, LifeInv, LifeTypes, NotYetAged, Appended, OnePending, LivesAsTheLast
  <1> QED BY <1>1, <1>2, <1>3, <1>4, <1>5, <1>6 DEF LifeNext

\* For any messages with any lifetimes: while nothing fails and uploads do not
\* overlap, a shelf lives as long as the message appended last.
THEOREM LivesLikeTheLast ==
  LifeSpec => []LivesAsTheLast
  <1>1. LifeInv => LivesAsTheLast
    BY DEF LifeInv
  <1>2. LifeInit => LifeInv
    BY InitLifeInv
  <1>3. LifeInv /\ [LifeNext]_lifeVars => LifeInv'
    BY NextLifeInv
  <1> QED BY <1>1, <1>2, <1>3, PTL DEF LifeSpec

=============================================================================
