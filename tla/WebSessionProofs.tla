-------------------------- MODULE WebSessionProofs --------------------------
(* Proofs about the web dashboard: its pages and the session file, for any    *)
(* number of tabs, handles, messages, accounts, saves and failures, and what  *)
(* it verifies and sends, for any devices, sends and recipients.              *)
EXTENDS WebSession, SendRouting, FilterProofs, TLAPS

-----------------------------------------------------------------------------
(* The inductive invariant.                                                  *)

\* A daemon is started, and a read fails, only within the bounds.
Bounds ==
    /\ daemon <= faults
    /\ saves + faults <= MaxSave

\* A page that has not loaded the session shows nothing and hears nothing.
Hidden ==
    \A t \in Tab :
        page[t].mode # "ready" => page[t].data = Empty /\ page[t].listens = 0

\* No handle has two spellings among the contacts.
Distinct(data) ==
    \A i, j \in DOMAIN data.contacts :
        SameHandle(data.contacts[i], data.contacts[j]) => i = j

DistinctInv ==
    /\ Distinct(file.data)
    /\ \A t \in Tab : Distinct(page[t].data)
    /\ \A t \in Tab : \A s \in flight[t] : Distinct(s.data)

\* The same contacts, and the same messages but for those that have expired.
Alike(a, b) ==
    /\ a.contacts = b.contacts
    /\ \A k \in Key : a.conv[k] \ expired = b.conv[k] \ expired

\* A version names the contents of one save; 0 names those of the empty file.
VersionInv ==
    /\ file.version <= saves
    /\ file.version = 0 => file.data = Empty
    /\ \A t \in Tab : \A s \in flight[t] :
          /\ s.version <= saves
          /\ s.version = file.version => s.data = file.data
    /\ \A t, u \in Tab : \A s \in flight[t], r \in flight[u] :
          s.version = r.version => s.data = r.data

\* A page that waits for nothing agrees with the version it is based on,
\* wherever that is now: in the file, on its way there, or nowhere.
BaseInv ==
    \A t \in Tab :
        /\ page[t].base <= saves
        /\ Ready(t) /\ ~page[t].due =>
              /\ page[t].base = 0 => Alike(page[t].data, Empty)
              /\ page[t].base = file.version => Alike(page[t].data, file.data)
              /\ \A u \in Tab : \A s \in flight[u] :
                    page[t].base = s.version => Alike(page[t].data, s.data)

\* Only messages of the present account.
OfAccount(data) == \A k \in Key : \A id \in data.conv[k] : origin[id] = account

\* Nothing of an earlier account is in the file, on a page, on its way to the
\* file or can come from a stream.
CleanInv ==
    account # 0 /\ ~straggler =>
        /\ OfAccount(file.data)
        /\ \A t \in Tab : OfAccount(page[t].data) /\ page[t].listens \in {0, account}
        /\ \A t \in Tab : \A s \in flight[t] : OfAccount(s.data)

IInv ==
    /\ TypeOK /\ Bounds /\ Hidden
    /\ DistinctInv /\ VersionInv /\ BaseInv /\ CleanInv

-----------------------------------------------------------------------------
(* What becomes of contacts and messages.                                    *)

LEMMA EmptyFacts ==
  /\ Empty \in Session /\ Distinct(Empty)
  /\ \A k \in Key : Empty.conv[k] = {}
  BY DEF Empty, Session, Distinct

LEMMA FirstFacts ==
  ASSUME NEW data \in Session
  PROVE  First(data) \in Key \cup {None}
  BY DEF First, Session

\* What is rendered keeps its contacts, and loses expired messages only.
LEMMA RenderFacts ==
  ASSUME NEW data \in Session, NEW k \in Key \cup {None}
  PROVE  /\ Render(data, k) \in Session
         /\ Render(data, k).contacts = data.contacts
         /\ Alike(Render(data, k), data)
         /\ \A j \in Key : Render(data, k).conv[j] \subseteq data.conv[j]
  <1>1. CASE k = None \/ data.contacts = <<>>
    BY <1>1 DEF Render, Alike
  <1>2. CASE ~(k = None \/ data.contacts = <<>>)
    <2>1. Render(data, k) = [data EXCEPT !.conv[k] = @ \ expired]
      BY <1>2 DEF Render
    <2>2. k \in Key
      BY <1>2
    <2> QED BY <2>1, <2>2 DEF Session, Alike
  <1> QED BY <1>1, <1>2

LEMMA FreshFacts ==
  ASSUME NEW data \in Session
  PROVE  /\ Fresh(data) \in Session
         /\ Fresh(data).contacts = data.contacts
         /\ \A j \in Key : Fresh(data).conv[j] = data.conv[j] \ expired
  BY DEF Fresh, Session

\* Two sessions are alike just if they are the same without what has expired.
LEMMA AlikeIsFresh ==
  ASSUME NEW a \in Session, NEW b \in Session
  PROVE  Alike(a, b) <=> Fresh(a) = Fresh(b)
  <1>1. ASSUME Alike(a, b) PROVE Fresh(a) = Fresh(b)
    <2>1. Fresh(a).contacts = Fresh(b).contacts
      BY <1>1, FreshFacts DEF Alike
    <2>2. Fresh(a).conv = Fresh(b).conv
      <3>1. \A k \in Key : Fresh(a).conv[k] = Fresh(b).conv[k]
        BY <1>1, FreshFacts DEF Alike
      <3>2. Fresh(a).conv \in [Key -> SUBSET Id] /\ Fresh(b).conv \in [Key -> SUBSET Id]
        BY FreshFacts DEF Session
      <3> QED BY <3>1, <3>2
    <2>3. Fresh(a) \in Session /\ Fresh(b) \in Session
      BY FreshFacts
    <2> QED BY <2>1, <2>2, <2>3 DEF Session
  <1>2. ASSUME Fresh(a) = Fresh(b) PROVE Alike(a, b)
    BY <1>2, FreshFacts DEF Alike
  <1> QED BY <1>1, <1>2

\* The spellings of a handle are no spellings of any other.
LEMMA OtherSpellings ==
  ASSUME NEW j \in Key, NEW k \in Key
  PROVE  /\ j \in Spellings(k) <=> SameHandle(j, k)
         /\ j \in Key \ Spellings(k) <=> ~SameHandle(j, k)
  BY DEF Spellings

LEMMA KeepDistinct ==
  ASSUME NEW data \in Session, Distinct(data), NEW S
  PROVE  /\ Keep(data.contacts, S) \in Seq(Key)
         /\ \A i, j \in DOMAIN Keep(data.contacts, S) :
               SameHandle(Keep(data.contacts, S)[i], Keep(data.contacts, S)[j]) => i = j
  <1> DEFINE c == data.contacts
             kept == Keep(c, S)
  <1>1. c \in Seq(Key)
    BY DEF Session
  <1>2. \A i, j \in DOMAIN c : SameHandle(c[i], c[j]) => i = j
    BY DEF Distinct
  <1> HIDE DEF c
  <1>3. kept \in Seq(Key)
    BY <1>1, KeepPlaces
  <1>4. PICK h : Places(c, S, Len(c), kept, h)
    BY <1>1, KeepPlaces
  <1> HIDE DEF kept
  <1>5. ASSUME NEW i \in DOMAIN kept, NEW j \in DOMAIN kept, SameHandle(kept[i], kept[j])
        PROVE  i = j
    <2>1. h[i] \in DOMAIN c /\ h[j] \in DOMAIN c /\ kept[i] = c[h[i]] /\ kept[j] = c[h[j]]
      BY <1>1, <1>4 DEF Places
    <2>2. h[i] = h[j]
      BY <2>1, <1>2, <1>5
    <2>3. i \in Nat /\ j \in Nat /\ h[i] \in Nat
      BY <1>3, <1>4, <1>1 DEF Places
    <2> QED BY <2>2, <2>3, <1>4 DEF Places
  <1> QED BY <1>3, <1>5 DEF c, kept

LEMMA TouchFacts ==
  ASSUME NEW data \in Session, Distinct(data), NEW k \in Key
  PROVE  /\ Touch(data, k) \in Session /\ Distinct(Touch(data, k))
         /\ Touch(data, k).conv = data.conv
  <1> DEFINE c == data.contacts
             known == Keep(c, Spellings(k))
             others == Keep(c, Key \ Spellings(k))
             front == IF known = <<>> THEN k ELSE Head(known)
             new == <<front>> \o others
  <1>1. c \in Seq(Key)
    BY DEF Session
  <1>2. Touch(data, k) = [data EXCEPT !.contacts = new]
    BY DEF Touch
  <1>3. /\ others \in Seq(Key)
        /\ \A i, j \in DOMAIN others : SameHandle(others[i], others[j]) => i = j
    BY KeepDistinct
  <1>4. \A i \in DOMAIN others : others[i] \in Key /\ ~SameHandle(others[i], k)
    <2>1. \A i \in DOMAIN others : others[i] \in Key \cap (Key \ Spellings(k))
      BY <1>1, KeepMembers
    <2> QED BY <2>1, OtherSpellings
  <1>5. front \in Key /\ SameHandle(front, k)
    <2>1. CASE known = <<>>
      BY <2>1 DEF SameHandle
    <2>2. CASE known # <<>>
      <3>1. known \in Seq(Key)
        BY <1>1, KeepPlaces
      <3>2. \A i \in DOMAIN known : known[i] \in Key \cap Spellings(k)
        BY <1>1, KeepMembers
      <3> HIDE DEF known
      <3>3. Head(known) = known[1] /\ 1 \in DOMAIN known
        BY <2>2, <3>1
      <3> QED BY <2>2, <3>2, <3>3, OtherSpellings
    <2> QED BY <2>1, <2>2
  <1> HIDE DEF others, front, c, known
  <1>6. new \in Seq(Key) /\ DOMAIN new = 1 .. (Len(others) + 1)
    BY <1>3, <1>5
  <1>7. new[1] = front /\ \A i \in 2 .. (Len(others) + 1) :
                             i - 1 \in DOMAIN others /\ new[i] = others[i - 1]
    BY <1>3, <1>5
  <1>8. ASSUME NEW i \in DOMAIN new, NEW j \in DOMAIN new, SameHandle(new[i], new[j])
        PROVE  i = j
    <2>1. \A x \in DOMAIN new : x = 1 \/ x \in 2 .. (Len(others) + 1)
      BY <1>3, <1>6
    <2> HIDE DEF new
    <2>2. CASE i = 1 /\ j # 1
      BY <2>1, <2>2, <1>4, <1>5, <1>7, <1>8 DEF SameHandle
    <2>3. CASE i # 1 /\ j = 1
      BY <2>1, <2>3, <1>4, <1>5, <1>7, <1>8 DEF SameHandle
    <2>4. CASE i # 1 /\ j # 1
      <3>1. i - 1 = j - 1
        BY <2>1, <2>4, <1>3, <1>7, <1>8
      <3> QED BY <3>1, <2>1, <2>4, <1>3
    <2> QED BY <2>2, <2>3, <2>4
  <1> HIDE DEF new
  <1> QED BY <1>2, <1>6, <1>8 DEF Session, Distinct

\* A message that was filed is the only new one.
LEMMA PushFacts ==
  ASSUME NEW data \in Session, Distinct(data), NEW k \in Key, NEW id \in Id
  PROVE  /\ Push(data, k, id) \in Session /\ Distinct(Push(data, k, id))
         /\ \A j \in Key : Push(data, k, id).conv[j] \subseteq data.conv[j] \cup {id}
  <1> DEFINE filed == [data EXCEPT !.conv[k] = @ \cup {id}]
  <1>1. filed \in Session /\ filed.contacts = data.contacts
    BY DEF Session
  <1>2. \A j \in Key : filed.conv[j] \subseteq data.conv[j] \cup {id}
    BY DEF Session
  <1>3. Distinct(filed)
    BY <1>1 DEF Distinct
  <1>4. Push(data, k, id) = Touch(filed, k)
    BY DEF Push
  <1> HIDE DEF filed
  <1> QED BY <1>1, <1>2, <1>3, <1>4, TouchFacts

LEMMA DiscardFacts ==
  ASSUME NEW data \in Session, Distinct(data), NEW k \in Key
  PROVE  /\ Discard(data, k) \in Session /\ Distinct(Discard(data, k))
         /\ \A j \in Key : Discard(data, k).conv[j] \subseteq data.conv[j]
  <1> DEFINE kept == Keep(data.contacts, Key \ Spellings(k))
             left == [data.conv EXCEPT ![k] = {}]
  <1>1. Discard(data, k) = [contacts |-> kept, conv |-> left]
    BY DEF Discard
  <1>2. kept \in Seq(Key) /\ \A i, j \in DOMAIN kept : SameHandle(kept[i], kept[j]) => i = j
    BY KeepDistinct
  <1>3. left \in [Key -> SUBSET Id] /\ \A j \in Key : left[j] \subseteq data.conv[j]
    BY DEF Session
  <1> HIDE DEF kept, left
  <1> QED BY <1>1, <1>2, <1>3 DEF Session, Distinct

-----------------------------------------------------------------------------
(* The steps, one lemma for each kind.                                       *)

LEMMA InitIInv == Init => IInv
  <1> SUFFICES ASSUME Init PROVE IInv
    OBVIOUS
  <1> USE DEF Init
  <1>1. Closed \in Page
    BY WebSessionAssumption, EmptyFacts DEF Closed, Page, Unread
  <1>2. Blank \in Stored
    BY WebSessionAssumption, EmptyFacts DEF Blank, Stored
  <1>3. TypeOK
    <2>1. /\ account \in 0 .. made /\ made \in 0 .. MaxAccount
          /\ daemon \in 0 .. MaxSave /\ opened \in 0 .. MaxOpen
          /\ saves \in 0 .. MaxSave /\ faults \in 0 .. MaxSave
      BY WebSessionAssumption
    <2>2. /\ expired \subseteq Id /\ straggler \in BOOLEAN
          /\ origin \in [Id -> 0 .. MaxAccount]
      <3>1. 0 \in 0 .. MaxAccount
        BY WebSessionAssumption
      <3> QED BY <3>1
    <2>3. file \in Stored /\ page \in [Tab -> Page]
      BY <1>1, <1>2
    <2>4. flight \in [Tab -> SUBSET [data : Session, version : 1 .. MaxSave,
                                    token : 0 .. MaxSave]]
      OBVIOUS
    <2> QED BY <2>1, <2>2, <2>3, <2>4 DEF TypeOK
  <1>4. Bounds /\ Hidden
    BY WebSessionAssumption DEF Bounds, Hidden, Closed
  <1>5. DistinctInv
    BY EmptyFacts DEF DistinctInv, Blank, Closed
  <1>6. VersionInv /\ BaseInv
    BY DEF VersionInv, BaseInv, Blank, Closed, Ready, Unread
  <1>7. CleanInv
    BY DEF CleanInv
  <1> QED BY <1>3, <1>4, <1>5, <1>6, <1>7 DEF IInv

\* A step that leaves the file and the saves alone leaves the versions alone.
LEMMA VersionsKept ==
  ASSUME VersionInv, UNCHANGED <<file, flight, saves>>
  PROVE  VersionInv'
  BY DEF VersionInv

\* A change of a ready page, which then waits for a save.
LEMMA ChangeStep ==
  ASSUME IInv, NEW t \in Tab, Ready(t),
         NEW data \in Session, Distinct(data), NEW k \in Key \cup {None},
         Change(t, data, k),
         UNCHANGED <<account, made, daemon, file, opened, flight, saves,
                     expired, faults, straggler>>,
         origin' \in [Id -> 0 .. MaxAccount],
         \A id \in Id : origin[id] # 0 => origin'[id] = origin[id],
         account # 0 /\ ~straggler =>
            \A j \in Key : \A id \in data.conv[j] : origin'[id] = account
  PROVE  IInv'
  <1> USE DEF IInv
  <1>1. /\ page' = [page EXCEPT ![t] = page'[t]]
        /\ page'[t] \in Page /\ page'[t].data = data /\ page'[t].due = TRUE
        /\ page'[t].mode = "ready" /\ page'[t].base = page[t].base
        /\ page'[t].listens = page[t].listens
    <2> DEFINE p == page[t]
               new == [p EXCEPT !.data = data, !.active = k, !.due = TRUE]
    <2>1. p \in Page /\ page \in [Tab -> Page]
      BY DEF TypeOK
    <2>2. page' = [page EXCEPT ![t] = new]
      BY <2>1 DEF Change
    <2>3. /\ new \in Page /\ new.data = data /\ new.due = TRUE
          /\ new.mode = p.mode /\ new.base = p.base /\ new.listens = p.listens
      BY <2>1 DEF Page
    <2> HIDE DEF new
    <2> QED BY <2>1, <2>2, <2>3 DEF Ready
  <1>2. \A u \in Tab : u # t => page'[u] = page[u]
    BY DEF TypeOK, Change
  <1>3. TypeOK'
    <2>1. page' \in [Tab -> Page]
      BY <1>1 DEF TypeOK
    <2> QED BY <2>1 DEF TypeOK
  <1>4. Bounds' /\ Hidden'
    BY <1>1, <1>2 DEF Bounds, Hidden
  <1>5. DistinctInv'
    BY <1>1, <1>2 DEF DistinctInv, Distinct, SameHandle
  <1>6. VersionInv'
    BY VersionsKept
  <1>7. BaseInv'
    BY <1>1, <1>2 DEF BaseInv, Ready, Alike
  <1>8. CleanInv'
    <2> SUFFICES ASSUME account # 0, ~straggler
                 PROVE  /\ OfAccount(file.data)'
                        /\ \A u \in Tab : OfAccount(page[u].data)' /\ page'[u].listens \in {0, account}
                        /\ \A u \in Tab : \A s \in flight[u] : OfAccount(s.data)'
      BY DEF CleanInv
    <2>1. ASSUME NEW d \in Session, OfAccount(d)
          PROVE  \A j \in Key : \A id \in d.conv[j] : origin'[id] = account
      BY <2>1 DEF OfAccount, Session
    <2>2. file.data \in Session /\ \A u \in Tab : page[u].data \in Session
      BY DEF TypeOK, Stored, Page
    <2>3. \A u \in Tab : \A s \in flight[u] : s.data \in Session
      BY DEF TypeOK
    <2> QED BY <1>1, <1>2, <2>1, <2>2, <2>3 DEF CleanInv, OfAccount
  <1> QED BY <1>3, <1>4, <1>5, <1>6, <1>7, <1>8

\* What the types say of a page, of the file and of a save on its way.
LEMMA TypeFacts ==
  ASSUME TypeOK
  PROVE  /\ file \in Stored /\ file.data \in Session
         /\ \A t \in Tab :
               /\ page[t] \in Page /\ page[t].data \in Session
               /\ page[t].active \in Key \cup {None}
               /\ page[t].listens \in 0 .. MaxAccount
         /\ \A t \in Tab : \A s \in flight[t] :
               /\ s.data \in Session /\ s.version \in 1 .. MaxSave
               /\ s.token \in 0 .. MaxSave
         /\ saves \in Nat /\ faults \in Nat /\ daemon \in Nat /\ made \in Nat
  BY WebSessionAssumption DEF TypeOK, Stored, Page

\* What a message that is drawn changes.
LEMMA DrawFacts ==
  ASSUME TypeOK, NEW id \in Id, NEW a \in 0 .. MaxAccount, Draw(id, a)
  PROVE  /\ origin' \in [Id -> 0 .. MaxAccount]
         /\ origin'[id] = a
         /\ \A i \in Id : origin[i] # 0 => origin'[i] = origin[i]
  BY DEF TypeOK, Draw

\* What a page may show before and after a message of account a was added.
LEMMA OwnGrows ==
  ASSUME IInv, NEW d \in Session, NEW data \in Session, NEW id \in Id,
         NEW a \in 0 .. MaxAccount, Draw(id, a),
         \A j \in Key : data.conv[j] \subseteq d.conv[j] \cup {id},
         account # 0, OfAccount(d), a = account
  PROVE  \A j \in Key : \A i \in data.conv[j] : origin'[i] = account
  <1>1. \A j \in Key : \A i \in d.conv[j] : i \in Id /\ origin[i] = account
    BY DEF OfAccount, Session
  <1>2. origin'[id] = a /\ \A i \in Id : origin[i] # 0 => origin'[i] = origin[i]
    BY DrawFacts DEF IInv
  <1> QED BY <1>1, <1>2

\* A page that hears something is ready.
LEMMA HearsFacts ==
  ASSUME IInv, NEW t \in Tab, page[t].listens # 0
  PROVE  Ready(t)
  BY DEF IInv, Hidden, Ready

LEMMA ReceiveStep ==
  ASSUME IInv, NEW t \in Tab, NEW k \in Used, NEW id \in Id, Receive(t, k, id)
  PROVE  IInv'
  <1> DEFINE p == page[t]
             data == Push(p.data, k, id)
  <1>1. /\ p.data \in Session /\ p.active \in Key \cup {None}
        /\ p.listens \in 0 .. MaxAccount /\ Distinct(p.data)
    BY TypeFacts DEF IInv, DistinctInv
  <1>2. k \in Key
    BY WebSessionAssumption
  <1>3. /\ data \in Session /\ Distinct(data)
        /\ \A j \in Key : data.conv[j] \subseteq p.data.conv[j] \cup {id}
    BY <1>1, <1>2, PushFacts
  <1>4. Ready(t) /\ Draw(id, p.listens)
    BY HearsFacts DEF Receive
  <1>5. PICK new \in Session, l \in Key \cup {None} :
          /\ Change(t, new, l) /\ Distinct(new)
          /\ \A j \in Key : new.conv[j] \subseteq data.conv[j]
    <2>1. CASE p.active = None
      <3> DEFINE new == Render(data, k)
      <3>1. Change(t, new, k)
        BY <2>1 DEF Receive
      <3>2. /\ new \in Session /\ new.contacts = data.contacts
            /\ \A j \in Key : new.conv[j] \subseteq data.conv[j]
        BY <1>2, <1>3, RenderFacts
      <3> HIDE DEF new, data
      <3>3. Distinct(new)
        BY <1>3, <3>2 DEF Distinct
      <3> QED BY <3>1, <3>2, <3>3, <1>2
    <2>2. CASE p.active # None
      <3>1. Change(t, data, p.active)
        BY <2>2 DEF Receive
      <3> HIDE DEF data
      <3> QED BY <1>1, <1>3, <3>1
    <2> QED BY <2>1, <2>2
  <1> HIDE DEF data
  <1>6. \A j \in Key : new.conv[j] \subseteq p.data.conv[j] \cup {id}
    BY <1>3, <1>5
  <1>7. ASSUME account # 0, ~straggler
        PROVE  \A j \in Key : \A i \in new.conv[j] : origin'[i] = account
    <2>1. OfAccount(p.data) /\ p.listens = account
      BY <1>7 DEF IInv, CleanInv, Receive
    <2> QED BY <1>1, <1>4, <1>6, <1>7, <2>1, OwnGrows
  <1>8. /\ origin' \in [Id -> 0 .. MaxAccount]
        /\ \A i \in Id : origin[i] # 0 => origin'[i] = origin[i]
    BY <1>1, <1>4, DrawFacts DEF IInv
  <1>9. UNCHANGED <<account, made, daemon, file, opened, flight, saves,
                    expired, faults, straggler>>
    BY DEF Receive
  <1> QED BY <1>4, <1>5, <1>7, <1>8, <1>9, ChangeStep

LEMMA TypeMessageStep ==
  ASSUME IInv, NEW t \in Tab, NEW id \in Id, TypeMessage(t, id)
  PROVE  IInv'
  <1> DEFINE p == page[t]
             data == Push(p.data, p.active, id)
             a == IF account = 0 THEN made ELSE account
  <1>1. /\ p.data \in Session /\ Distinct(p.data)
        /\ p.active \in Key
    BY TypeFacts DEF IInv, DistinctInv, TypeMessage
  <1>2. /\ data \in Session /\ Distinct(data)
        /\ \A j \in Key : data.conv[j] \subseteq p.data.conv[j] \cup {id}
    BY <1>1, PushFacts
  <1>3. a \in 0 .. MaxAccount
    BY WebSessionAssumption DEF IInv, TypeOK
  <1>4. Ready(t) /\ Draw(id, a) /\ Change(t, data, p.active)
    BY DEF TypeMessage
  <1> HIDE DEF data
  <1>5. ASSUME account # 0, ~straggler
        PROVE  \A j \in Key : \A i \in data.conv[j] : origin'[i] = account
    <2>1. OfAccount(p.data) /\ a = account
      BY <1>5 DEF IInv, CleanInv
    <2> QED BY <1>1, <1>2, <1>3, <1>4, <1>5, <2>1, OwnGrows
  <1>6. /\ origin' \in [Id -> 0 .. MaxAccount]
        /\ \A i \in Id : origin[i] # 0 => origin'[i] = origin[i]
    BY <1>3, <1>4, DrawFacts DEF IInv
  <1>7. UNCHANGED <<account, made, daemon, file, opened, flight, saves,
                    expired, faults, straggler>>
    BY DEF TypeMessage
  <1> QED BY <1>1, <1>2, <1>4, <1>5, <1>6, <1>7, ChangeStep

\* A change that adds no message.
LEMMA LesserStep ==
  ASSUME IInv, NEW t \in Tab, Ready(t),
         NEW data \in Session, Distinct(data), NEW k \in Key \cup {None},
         Change(t, data, k),
         \A j \in Key : data.conv[j] \subseteq page[t].data.conv[j],
         UNCHANGED <<account, made, daemon, file, opened, flight, saves,
                     expired, faults, origin, straggler>>
  PROVE  IInv'
  <1>1. account # 0 /\ ~straggler =>
           \A j \in Key : \A id \in data.conv[j] : origin'[id] = account
    BY DEF IInv, CleanInv, OfAccount
  <1>2. /\ origin' \in [Id -> 0 .. MaxAccount]
        /\ \A id \in Id : origin[id] # 0 => origin'[id] = origin[id]
    BY DEF IInv, TypeOK
  <1> QED BY <1>1, <1>2, ChangeStep

LEMMA AddContactStep ==
  ASSUME IInv, NEW t \in Tab, NEW k \in Entered, AddContact(t, k)
  PROVE  IInv'
  <1> DEFINE touched == Touch(page[t].data, k)
             data == Render(touched, k)
  <1>1. k \in Key /\ page[t].data \in Session /\ Distinct(page[t].data)
    BY WebSessionAssumption, TypeFacts DEF IInv, DistinctInv
  <1>2. touched \in Session /\ Distinct(touched) /\ touched.conv = page[t].data.conv
    BY <1>1, TouchFacts
  <1>3. /\ data \in Session /\ data.contacts = touched.contacts
        /\ \A j \in Key : data.conv[j] \subseteq touched.conv[j]
    BY <1>1, <1>2, RenderFacts
  <1>4. Ready(t) /\ Change(t, data, k)
    BY DEF AddContact
  <1> HIDE DEF touched, data
  <1>5. Distinct(data)
    BY <1>2, <1>3 DEF Distinct
  <1>6. UNCHANGED <<account, made, daemon, file, opened, flight, saves,
                    expired, faults, origin, straggler>>
    BY DEF AddContact
  <1> QED BY <1>1, <1>2, <1>3, <1>4, <1>5, <1>6, LesserStep

LEMMA RemoveStep ==
  ASSUME IInv, NEW t \in Tab, RemoveCorrespondence(t)
  PROVE  IInv'
  <1> DEFINE p == page[t]
             left == Discard(p.data, p.active)
             first == First(left)
             data == Render(left, first)
  <1>1. p.active \in Key /\ p.data \in Session /\ Distinct(p.data)
    BY TypeFacts DEF IInv, DistinctInv, RemoveCorrespondence
  <1>2. /\ left \in Session /\ Distinct(left)
        /\ \A j \in Key : left.conv[j] \subseteq p.data.conv[j]
    BY <1>1, DiscardFacts
  <1>3. first \in Key \cup {None}
    BY <1>2, FirstFacts
  <1>4. /\ data \in Session /\ data.contacts = left.contacts
        /\ \A j \in Key : data.conv[j] \subseteq left.conv[j]
    BY <1>2, <1>3, RenderFacts
  <1>5. Ready(t) /\ Change(t, data, first)
    BY DEF RemoveCorrespondence
  <1> HIDE DEF left, first, data
  <1>6. Distinct(data)
    BY <1>2, <1>4 DEF Distinct
  <1>7. UNCHANGED <<account, made, daemon, file, opened, flight, saves,
                    expired, faults, origin, straggler>>
    BY DEF RemoveCorrespondence
  <1>8. \A j \in Key : data.conv[j] \subseteq page[t].data.conv[j]
    BY <1>2, <1>4
  <1> QED BY <1>3, <1>4, <1>5, <1>6, <1>7, <1>8, LesserStep

LEMMA PruneStep ==
  ASSUME IInv, NEW t \in Tab, Prune(t)
  PROVE  IInv'
  <1> DEFINE data == Fresh(page[t].data)
  <1>1. /\ page[t].active \in Key \cup {None} /\ page[t].data \in Session
        /\ Distinct(page[t].data)
    BY TypeFacts DEF IInv, DistinctInv
  <1>2. /\ data \in Session /\ data.contacts = page[t].data.contacts
        /\ \A j \in Key : data.conv[j] \subseteq page[t].data.conv[j]
    BY <1>1, FreshFacts
  <1>3. Ready(t) /\ Change(t, data, page[t].active)
    BY DEF Prune
  <1> HIDE DEF data
  <1>4. Distinct(data)
    BY <1>1, <1>2 DEF Distinct
  <1>5. UNCHANGED <<account, made, daemon, file, opened, flight, saves,
                    expired, faults, origin, straggler>>
    BY DEF Prune
  <1> QED BY <1>1, <1>2, <1>3, <1>4, <1>5, LesserStep

\* The page of a tab is replaced by p, which has nothing of its own: it shows
\* nothing and waits for nothing, and is based on no version.
LEMMA NewPageStep ==
  ASSUME IInv, NEW t \in Tab, NEW p \in Page,
         page' = [page EXCEPT ![t] = p],
         p.mode # "ready", p.data = Empty, p.listens = 0, p.base = Unread,
         opened' \in 0 .. MaxOpen,
         UNCHANGED <<account, made, daemon, file, flight, saves, expired, faults,
                     origin, straggler>>
  PROVE  IInv'
  <1> USE DEF IInv
  <1>1. page'[t] = p /\ \A u \in Tab : u # t => page'[u] = page[u]
    BY DEF TypeOK
  <1>2. page' \in [Tab -> Page]
    BY DEF TypeOK
  <1>3. TypeOK'
    BY <1>2 DEF TypeOK
  <1>4. Bounds' /\ Hidden'
    BY <1>1 DEF Bounds, Hidden
  <1>5. DistinctInv'
    BY <1>1, EmptyFacts DEF DistinctInv, Distinct, SameHandle
  <1>6. VersionInv'
    BY VersionsKept
  <1>7. BaseInv'
    <2>1. p.base <= saves
      BY TypeFacts DEF Unread
    <2> QED BY <1>1, <2>1 DEF BaseInv, Ready, Alike
  <1>8. CleanInv'
    BY <1>1, EmptyFacts DEF CleanInv, OfAccount
  <1> QED BY <1>3, <1>4, <1>5, <1>6, <1>7, <1>8

LEMMA ClosedFacts ==
  ASSUME TypeOK
  PROVE  /\ Closed \in Page
         /\ \A m \in {"overlay", "loading"}, b \in BOOLEAN :
               LET p == [Closed EXCEPT !.mode = m, !.pruner = b, !.token = daemon] IN
               /\ p \in Page /\ p.mode = m /\ p.data = Empty /\ p.listens = 0
               /\ p.base = Unread
  <1>1. Closed \in Page
    BY WebSessionAssumption, EmptyFacts DEF Closed, Page, Unread
  <1>2. daemon \in 0 .. MaxSave
    BY DEF TypeOK
  <1> QED BY <1>1, <1>2 DEF Closed, Page

LEMMA OpenStep ==
  ASSUME IInv, NEW t \in Tab, Open(t)
  PROVE  IInv'
  <1> DEFINE m == IF account = 0 THEN "overlay" ELSE "loading"
             p == [Closed EXCEPT !.mode = m, !.pruner = account # 0, !.token = daemon]
  <1>1. page' = [page EXCEPT ![t] = p]
    BY DEF Open
  <1>2. /\ p \in Page /\ p.mode # "ready" /\ p.data = Empty /\ p.listens = 0
        /\ p.base = Unread
    BY ClosedFacts DEF IInv
  <1> HIDE DEF p
  <1>3. opened' \in 0 .. MaxOpen
    BY WebSessionAssumption DEF Open, IInv, TypeOK
  <1>4. UNCHANGED <<account, made, daemon, file, flight, saves, expired, faults,
                    origin, straggler>>
    BY DEF Open
  <1> QED BY <1>1, <1>2, <1>3, <1>4, NewPageStep

LEMMA CloseStep ==
  ASSUME IInv, NEW t \in Tab, Close(t)
  PROVE  IInv'
  <1>1. /\ Closed \in Page /\ Closed.mode # "ready" /\ Closed.data = Empty
        /\ Closed.listens = 0 /\ Closed.base = Unread
    BY ClosedFacts DEF IInv, Closed
  <1>2. opened' \in 0 .. MaxOpen
    BY DEF Close, IInv, TypeOK
  <1>3. page' = [page EXCEPT ![t] = Closed]
    BY DEF Close
  <1>4. UNCHANGED <<account, made, daemon, file, flight, saves, expired, faults,
                    origin, straggler>>
    BY DEF Close
  <1> QED BY <1>1, <1>2, <1>3, <1>4, NewPageStep

\* Fields of the page of a tab change that the invariant does not relate to
\* anything: the copy it shows stays.
LEMMA FlagStep ==
  ASSUME IInv, NEW t \in Tab, NEW p \in Page,
         page' = [page EXCEPT ![t] = p],
         p.mode = page[t].mode \/ (page[t].mode # "ready" /\ p.mode # "ready"),
         p.data = page[t].data, p.base = page[t].base,
         p.due = page[t].due \/ p.due = TRUE,
         p.listens = page[t].listens
  PROVE  /\ page' \in [Tab -> Page]
         /\ \A u \in Tab : /\ page'[u].data = page[u].data
                           /\ page'[u].base = page[u].base
                           /\ page'[u].listens = page[u].listens
                           /\ page'[u].mode = "ready" <=> page[u].mode = "ready"
                           /\ ~page'[u].due => ~page[u].due
  BY DEF IInv, TypeOK

\* An account is made, or there is one already.
LEMMA InitializeStep ==
  ASSUME IInv, Initialize,
         page' \in [Tab -> Page],
         \A u \in Tab : /\ page'[u].data = page[u].data
                        /\ page'[u].base = page[u].base
                        /\ page'[u].listens = page[u].listens
                        /\ page'[u].mode = "ready" <=> page[u].mode = "ready"
                        /\ ~page'[u].due => ~page[u].due,
         UNCHANGED <<daemon, opened, flight, saves, expired, faults, origin>>
  PROVE  IInv'
  <1> USE DEF IInv
  <1>1. CASE UNCHANGED <<account, made, file, straggler>>
    <2>1. TypeOK'
      BY <1>1 DEF TypeOK
    <2>2. Bounds' /\ Hidden'
      BY <1>1 DEF Bounds, Hidden
    <2>3. DistinctInv'
      BY <1>1 DEF DistinctInv, Distinct, SameHandle
    <2>4. VersionInv'
      BY <1>1, VersionsKept
    <2>5. BaseInv'
      BY <1>1 DEF BaseInv, Ready, Alike
    <2>6. CleanInv'
      BY <1>1 DEF CleanInv, OfAccount
    <2> QED BY <2>1, <2>2, <2>3, <2>4, <2>5, <2>6
  <1>2. CASE /\ account = 0 /\ made < MaxAccount
             /\ made' = made + 1 /\ account' = made + 1
             /\ file' = Blank
             /\ straggler' = \E u \in Tab : \/ page[u].mode \in {"loading", "ready"}
                                            \/ flight[u] # {}
    <2>1. file'.data = Empty /\ file'.version = 0 /\ file' \in Stored
      BY <1>2, WebSessionAssumption, EmptyFacts DEF Blank, Stored
    <2>2. TypeOK'
      BY <1>2, <2>1, WebSessionAssumption DEF TypeOK
    <2>3. Bounds' /\ Hidden'
      BY <1>2 DEF Bounds, Hidden
    <2>4. DistinctInv'
      BY <2>1, EmptyFacts DEF DistinctInv, Distinct, SameHandle
    <2>5. VersionInv'
      BY <2>1, TypeFacts DEF VersionInv
    <2>6. BaseInv'
      BY <2>1 DEF BaseInv, Ready, Alike
    <2>7. CleanInv'
      <3> SUFFICES ASSUME ~straggler' PROVE CleanInv'
        BY DEF CleanInv
      <3>1. \A u \in Tab : page[u].mode # "ready" /\ flight[u] = {}
        BY <1>2
      <3>2. \A u \in Tab : page[u].data = Empty /\ page[u].listens = 0
        BY <3>1 DEF Hidden
      <3> QED BY <2>1, <3>1, <3>2, EmptyFacts DEF CleanInv, OfAccount
    <2> QED BY <2>2, <2>3, <2>4, <2>5, <2>6, <2>7
  <1> QED BY <1>1, <1>2 DEF Initialize

LEMMA SubmitInitStep ==
  ASSUME IInv, NEW t \in Tab, SubmitInit(t)
  PROVE  IInv'
  <1> DEFINE p == [page[t] EXCEPT !.mode = "loading"]
  <1>1. page[t] \in Page /\ page[t].mode = "overlay"
    BY TypeFacts DEF IInv, SubmitInit
  <1>2. page' = [page EXCEPT ![t] = p]
    BY DEF SubmitInit
  <1>3. /\ p \in Page /\ p.mode # "ready" /\ p.data = page[t].data
        /\ p.base = page[t].base /\ p.due = page[t].due /\ p.listens = page[t].listens
    BY <1>1 DEF Page
  <1> HIDE DEF p
  <1>4. Initialize /\ UNCHANGED <<daemon, opened, flight, saves, expired, faults, origin>>
    BY DEF SubmitInit
  <1>5. page[t].mode # "ready"
    BY <1>1
  <1> QED BY <1>2, <1>3, <1>4, <1>5, FlagStep, InitializeStep

LEMMA ChangeHandleStep ==
  ASSUME IInv, NEW t \in Tab, ChangeHandle(t)
  PROVE  IInv'
  <1> DEFINE p == [page[t] EXCEPT !.due = TRUE]
  <1>1. page[t] \in Page
    BY TypeFacts DEF IInv
  <1>2. page' = [page EXCEPT ![t] = p]
    BY DEF ChangeHandle
  <1>3. /\ p \in Page /\ p.mode = page[t].mode /\ p.data = page[t].data
        /\ p.base = page[t].base /\ p.due = TRUE /\ p.listens = page[t].listens
    BY <1>1 DEF Page
  <1> HIDE DEF p
  <1>4. Initialize /\ UNCHANGED <<daemon, opened, flight, saves, expired, faults, origin>>
    BY DEF ChangeHandle
  <1> QED BY <1>2, <1>3, <1>4, FlagStep, InitializeStep

\* The account is deleted, unless the daemon refuses the page.
LEMMA DeleteAccountStep ==
  ASSUME IInv, NEW t \in Tab, DeleteAccount(t)
  PROVE  IInv'
  <1> USE DEF IInv
  <1> DEFINE p == [page[t] EXCEPT !.leaving = TRUE]
  <1>1. page[t] \in Page
    BY TypeFacts
  <1>2. page' = [page EXCEPT ![t] = p]
    BY DEF DeleteAccount
  <1>3. /\ p \in Page /\ p.mode = page[t].mode /\ p.data = page[t].data
        /\ p.base = page[t].base /\ p.due = page[t].due /\ p.listens = page[t].listens
    BY <1>1 DEF Page
  <1> HIDE DEF p
  <1>4. /\ page' \in [Tab -> Page]
        /\ \A u \in Tab : /\ page'[u].data = page[u].data
                          /\ page'[u].base = page[u].base
                          /\ page'[u].listens = page[u].listens
                          /\ page'[u].mode = "ready" <=> page[u].mode = "ready"
                          /\ ~page'[u].due => ~page[u].due
    BY <1>2, <1>3, FlagStep
  <1>5. \/ UNCHANGED <<account, file>>
        \/ account' = 0 /\ file'.data = Empty /\ file'.version = 0 /\ file' \in Stored
    BY WebSessionAssumption, EmptyFacts DEF DeleteAccount, Blank, Stored
  <1>6. UNCHANGED <<made, daemon, opened, flight, saves, expired, faults, origin, straggler>>
    BY DEF DeleteAccount
  <1>7. TypeOK'
    BY <1>4, <1>5, <1>6 DEF TypeOK
  <1>8. Bounds' /\ Hidden'
    BY <1>4, <1>6 DEF Bounds, Hidden
  <1>9. DistinctInv'
    BY <1>4, <1>5, <1>6, EmptyFacts DEF DistinctInv, Distinct, SameHandle
  <1>10. VersionInv'
    BY <1>5, <1>6, TypeFacts DEF VersionInv
  <1>11. BaseInv'
    BY <1>4, <1>5, <1>6 DEF BaseInv, Ready, Alike
  <1>12. CleanInv'
    BY <1>4, <1>5, <1>6 DEF CleanInv, OfAccount
  <1> QED BY <1>7, <1>8, <1>9, <1>10, <1>11, <1>12

\* A page shows the file, or an empty session that is no version of it.
LEMMA ShowStep ==
  ASSUME IInv, NEW t \in Tab, NEW data \in Session, NEW version \in Unread .. MaxSave,
         \/ data = file.data /\ version = file.version
         \/ data = Empty /\ version = Unread,
         Show(t, [data |-> data, version |-> version]),
         faults' \in Nat, faults <= faults', saves + faults' <= MaxSave,
         UNCHANGED <<account, made, daemon, file, opened, flight, saves,
                     expired, origin, straggler>>
  PROVE  IInv'
  <1> USE DEF IInv
  <1> DEFINE first == First(data)
             visible == Render(data, first)
             hears == IF Accepted(t) THEN account ELSE 0
             p == [page[t] EXCEPT !.mode = "ready", !.active = first, !.data = visible,
                                  !.base = version, !.listens = hears]
  <1>1. first \in Key \cup {None}
    BY FirstFacts
  <1>2. /\ visible \in Session /\ visible.contacts = data.contacts /\ Alike(visible, data)
        /\ \A j \in Key : visible.conv[j] \subseteq data.conv[j]
    BY <1>1, RenderFacts
  <1>3. page' = [page EXCEPT ![t] = p]
    BY DEF Show
  <1>4. hears \in 0 .. MaxAccount /\ hears \in {0, account}
    BY WebSessionAssumption DEF TypeOK
  <1>5. page[t] \in Page
    BY TypeFacts
  <1> HIDE DEF first, visible, hears
  <1>6. /\ p \in Page /\ p.mode = "ready" /\ p.data = visible /\ p.base = version
        /\ p.listens = hears /\ p.due = page[t].due
    BY <1>1, <1>2, <1>4, <1>5 DEF Page
  <1> HIDE DEF p
  <1>7. page'[t] = p /\ \A u \in Tab : u # t => page'[u] = page[u]
    BY <1>3 DEF TypeOK
  <1>8. TypeOK'
    <2>1. page' \in [Tab -> Page]
      BY <1>3, <1>6 DEF TypeOK
    <2>2. faults' \in 0 .. MaxSave
      BY TypeFacts, WebSessionAssumption
    <2> QED BY <2>1, <2>2 DEF TypeOK
  <1>9. Bounds'
    BY TypeFacts DEF Bounds
  <1>10. Hidden'
    BY <1>6, <1>7 DEF Hidden
  <1>11. DistinctInv'
    <2>1. Distinct(visible)
      BY <1>2, EmptyFacts DEF DistinctInv, Distinct
    <2> QED BY <1>6, <1>7, <2>1 DEF DistinctInv, Distinct, SameHandle
  <1>12. VersionInv'
    BY VersionsKept
  <1>13. BaseInv'
    <2>1. version <= saves
      BY TypeFacts DEF VersionInv, Unread
    <2>2. version = 0 => Alike(visible, Empty)
      BY <1>2 DEF VersionInv, Unread
    <2>3. version = file.version => Alike(visible, file.data)
      BY <1>2, TypeFacts DEF Unread, Stored
    <2>4. \A u \in Tab : \A s \in flight[u] : version = s.version => Alike(visible, s.data)
      BY <1>2, TypeFacts DEF VersionInv, Unread
    <2> QED BY <1>6, <1>7, <2>1, <2>2, <2>3, <2>4 DEF BaseInv, Ready, Alike
  <1>14. CleanInv'
    <2>1. account # 0 /\ ~straggler => OfAccount(visible)
      BY <1>2, EmptyFacts DEF CleanInv, OfAccount
    <2> QED BY <1>4, <1>6, <1>7, <2>1 DEF CleanInv, OfAccount
  <1> QED BY <1>8, <1>9, <1>10, <1>11, <1>12, <1>13, <1>14

LEMMA LoadStep ==
  ASSUME IInv, NEW t \in Tab, Load(t)
  PROVE  IInv'
  <1>1. file = [data |-> file.data, version |-> file.version]
    BY TypeFacts DEF IInv, Stored
  <1>2. file.data \in Session /\ file.version \in Unread .. MaxSave
    BY TypeFacts, WebSessionAssumption DEF IInv, Stored, Unread
  <1>3. Show(t, [data |-> file.data, version |-> file.version])
    BY <1>1 DEF Load
  <1>4. faults' \in Nat /\ faults <= faults' /\ saves + faults' <= MaxSave
    BY TypeFacts DEF Load, IInv, Bounds
  <1>5. UNCHANGED <<account, made, daemon, file, opened, flight, saves,
                    expired, origin, straggler>>
    BY DEF Load
  <1> QED BY <1>2, <1>3, <1>4, <1>5, ShowStep

LEMMA LoadFailsStep ==
  ASSUME IInv, NEW t \in Tab, LoadFails(t)
  PROVE  IInv'
  <1>1. Empty \in Session /\ Unread \in Unread .. MaxSave
    BY EmptyFacts, WebSessionAssumption DEF Unread
  <1>2. Show(t, [data |-> Empty, version |-> Unread])
    BY DEF LoadFails
  <1>3. faults' \in Nat /\ faults <= faults' /\ saves + faults' <= MaxSave
    BY TypeFacts, WebSessionAssumption DEF LoadFails, Fault, IInv, Bounds
  <1>4. UNCHANGED <<account, made, daemon, file, opened, flight, saves,
                    expired, origin, straggler>>
    BY DEF LoadFails
  <1> QED BY <1>1, <1>2, <1>3, <1>4, ShowStep

\* Another conversation is visible: nothing is to be saved, although what has
\* expired in it disappears.
LEMMA SelectContactStep ==
  ASSUME IInv, NEW t \in Tab, NEW k \in Key, SelectContact(t, k)
  PROVE  IInv'
  <1> USE DEF IInv
  <1> DEFINE data == page[t].data
             visible == Render(data, k)
             p == [page[t] EXCEPT !.active = k, !.data = visible]
  <1>1. page[t] \in Page /\ data \in Session
    BY TypeFacts
  <1>2. /\ visible \in Session /\ visible.contacts = data.contacts /\ Alike(visible, data)
        /\ \A j \in Key : visible.conv[j] \subseteq data.conv[j]
    BY <1>1, RenderFacts
  <1>3. page' = [page EXCEPT ![t] = p]
    BY DEF SelectContact, TypeOK
  <1> HIDE DEF visible
  <1>4. /\ p \in Page /\ p.mode = page[t].mode /\ p.data = visible
        /\ p.base = page[t].base /\ p.due = page[t].due /\ p.listens = page[t].listens
    BY <1>1, <1>2 DEF Page
  <1> HIDE DEF p
  <1>5. page'[t] = p /\ \A u \in Tab : u # t => page'[u] = page[u]
    BY <1>3 DEF TypeOK
  <1>6. UNCHANGED <<account, made, daemon, file, opened, flight, saves,
                    expired, faults, origin, straggler>> /\ page[t].mode = "ready"
    BY DEF SelectContact, Ready
  <1>7. TypeOK'
    <2>1. page' \in [Tab -> Page]
      BY <1>3, <1>4 DEF TypeOK
    <2> QED BY <1>6, <2>1 DEF TypeOK
  <1>8. Bounds' /\ Hidden'
    BY <1>4, <1>5, <1>6 DEF Bounds, Hidden
  <1>9. DistinctInv'
    <2>1. Distinct(visible)
      BY <1>2 DEF DistinctInv, Distinct
    <2> QED BY <1>4, <1>5, <1>6, <2>1 DEF DistinctInv, Distinct, SameHandle
  <1>10. VersionInv'
    BY <1>6, VersionsKept
  <1>11. BaseInv'
    BY <1>2, <1>4, <1>5, <1>6 DEF BaseInv, Ready, Alike
  <1>12. CleanInv'
    <2>1. account # 0 /\ ~straggler => OfAccount(visible)
      BY <1>2 DEF CleanInv, OfAccount
    <2> QED BY <1>4, <1>5, <1>6, <2>1 DEF CleanInv, OfAccount
  <1> QED BY <1>7, <1>8, <1>9, <1>10, <1>11, <1>12

LEMMA ExpireStep ==
  ASSUME IInv, NEW id \in Id, Expire(id)
  PROVE  IInv'
  <1> USE DEF IInv
  <1>1. expired \subseteq expired' /\ expired' \subseteq Id
    BY DEF Expire, TypeOK
  <1>2. UNCHANGED <<account, made, daemon, file, page, opened, flight, saves,
                    faults, origin, straggler>>
    BY DEF Expire
  <1>3. TypeOK'
    BY <1>1, <1>2 DEF TypeOK
  <1>4. Bounds' /\ Hidden'
    BY <1>2 DEF Bounds, Hidden
  <1>5. DistinctInv'
    BY <1>2 DEF DistinctInv, Distinct, SameHandle
  <1>6. VersionInv'
    BY <1>2, VersionsKept
  <1>7. BaseInv'
    <2>1. \A a, b : Alike(a, b) => Alike(a, b)'
      BY <1>1 DEF Alike
    <2> QED BY <1>2, <2>1 DEF BaseInv, Ready
  <1>8. CleanInv'
    BY <1>2 DEF CleanInv, OfAccount
  <1> QED BY <1>3, <1>4, <1>5, <1>6, <1>7, <1>8

\* A page sends what it shows: a version of its own, on which it is based.
LEMMA SendSaveStep ==
  ASSUME IInv, NEW t \in Tab, SendSave(t)
  PROVE  IInv'
  <1> USE DEF IInv
  <1> DEFINE old == page[t]
             save == [data |-> old.data, version |-> saves + 1, token |-> old.token]
             p == [old EXCEPT !.due = FALSE, !.base = saves + 1]
  <1>1. /\ old \in Page /\ old.data \in Session /\ saves + 1 \in 1 .. MaxSave
        /\ saves \in Nat /\ faults \in Nat
    BY TypeFacts, WebSessionAssumption DEF SendSave
  <1>2. /\ save \in [data : Session, version : 1 .. MaxSave, token : 0 .. MaxSave]
        /\ save.data = old.data /\ save.version = saves + 1
    BY <1>1 DEF Page
  <1>3. /\ p \in Page /\ p.mode = old.mode /\ p.data = old.data
        /\ p.base = saves + 1 /\ p.due = FALSE /\ p.listens = old.listens
    <2>1. saves + 1 \in Unread .. MaxSave
      BY <1>1, WebSessionAssumption DEF Unread
    <2> QED BY <2>1, <1>1 DEF Page
  <1>4. page' = [page EXCEPT ![t] = p] /\ flight' = [flight EXCEPT ![t] = @ \cup {save}]
    BY DEF SendSave, TypeOK
  <1> HIDE DEF save, p
  <1>5. page'[t] = p /\ \A u \in Tab : u # t => page'[u] = page[u]
    BY <1>4 DEF TypeOK
  <1>6. \A u \in Tab : \A s \in flight'[u] : s \in flight[u] \/ s = save
    BY <1>4 DEF TypeOK
  <1>7. /\ UNCHANGED <<account, made, daemon, file, opened, expired, faults,
                       origin, straggler>>
        /\ saves' = saves + 1 /\ saves + faults < MaxSave
    BY DEF SendSave
  <1>8. /\ file.version <= saves
        /\ \A u \in Tab : page[u].base <= saves
        /\ \A u \in Tab : \A s \in flight[u] : s.version <= saves
    BY DEF VersionInv, BaseInv
  <1>9. TypeOK'
    <2>1. page' \in [Tab -> Page]
      BY <1>3, <1>4 DEF TypeOK
    <2>2. flight' \in [Tab -> SUBSET [data : Session, version : 1 .. MaxSave,
                                      token : 0 .. MaxSave]]
      BY <1>2, <1>4 DEF TypeOK
    <2>3. saves' \in 0 .. MaxSave
      BY <1>1, <1>7
    <2> QED BY <1>7, <2>1, <2>2, <2>3 DEF TypeOK
  <1>10. Bounds'
    BY <1>1, <1>7, WebSessionAssumption DEF Bounds
  <1>11. Hidden'
    BY <1>3, <1>5 DEF Hidden
  <1>12. DistinctInv'
    BY <1>2, <1>3, <1>5, <1>6, <1>7 DEF DistinctInv, Distinct, SameHandle
  <1>13. VersionInv'
    <2>1. file'.version <= saves' /\ (file'.version = 0 => file'.data = Empty)
      BY <1>1, <1>7, <1>8, TypeFacts DEF VersionInv, Stored
    <2>2. \A u \in Tab : \A s \in flight'[u] :
             /\ s.version <= saves'
             /\ s.version = file'.version => s.data = file'.data
      BY <1>1, <1>2, <1>6, <1>7, <1>8, TypeFacts DEF VersionInv, Stored
    <2>3. \A u, v \in Tab : \A s \in flight'[u], r \in flight'[v] :
             s.version = r.version => s.data = r.data
      BY <1>1, <1>2, <1>6, <1>8, TypeFacts DEF VersionInv
    <2> QED BY <2>1, <2>2, <2>3 DEF VersionInv
  <1>14. BaseInv'
    <2> SUFFICES ASSUME NEW u \in Tab
                 PROVE  /\ page'[u].base <= saves'
                        /\ page'[u].mode = "ready" /\ ~page'[u].due =>
                              /\ page'[u].base = 0 => Alike(page'[u].data, Empty)
                              /\ page'[u].base = file.version =>
                                    Alike(page'[u].data, file.data)
                              /\ \A v \in Tab : \A s \in flight'[v] :
                                    page'[u].base = s.version => Alike(page'[u].data, s.data)
      BY <1>7 DEF BaseInv, Ready, Alike
    <2>1. CASE u = t
      <3>1. page'[u].base = saves + 1 /\ page'[u].data = old.data
        BY <2>1, <1>3, <1>5
      <3>2. saves + 1 # 0 /\ saves + 1 # file.version
        BY <1>1, <1>8, TypeFacts DEF Stored
      <3>3. \A v \in Tab : \A s \in flight'[v] : s.version = saves + 1 => s.data = old.data
        BY <1>1, <1>2, <1>6, <1>8, TypeFacts
      <3> QED BY <3>1, <3>2, <3>3, <1>1, <1>7 DEF Alike
    <2>2. CASE u # t
      <3>1. page'[u] = page[u] /\ page[u].base <= saves /\ page[u].base \in Int
        BY <2>2, <1>5, <1>8, TypeFacts DEF Page, Unread
      <3>2. page[u].base # saves + 1
        BY <3>1, <1>1
      <3>3. page'[u].base <= saves'
        BY <3>1, <1>1, <1>7
      <3> QED BY <3>1, <3>2, <3>3, <1>2, <1>6 DEF BaseInv, Ready
    <2> QED BY <2>1, <2>2
  <1>15. CleanInv'
    BY <1>2, <1>3, <1>5, <1>6, <1>7 DEF CleanInv, OfAccount
  <1> QED BY <1>9, <1>10, <1>11, <1>12, <1>13, <1>14, <1>15

\* Some saves disappear, and the file holds what it held, or one of them, or
\* nothing; streams may break.
LEMMA FileStep ==
  ASSUME IInv,
         flight' \in [Tab -> SUBSET [data : Session, version : 1 .. MaxSave,
                                     token : 0 .. MaxSave]],
         \A u \in Tab : flight'[u] \subseteq flight[u],
         \/ UNCHANGED file
         \/ file' = Blank
         \/ \E u \in Tab : \E s \in flight[u] :
               file' = [data |-> s.data, version |-> s.version],
         page' \in [Tab -> Page],
         \A u \in Tab : /\ page'[u].data = page[u].data
                        /\ page'[u].base = page[u].base
                        /\ page'[u].listens \in {0, page[u].listens}
                        /\ page'[u].mode = page[u].mode
                        /\ page'[u].due = page[u].due,
         daemon' \in 0 .. MaxSave, faults' \in Nat,
         daemon' <= faults', saves + faults' <= MaxSave,
         UNCHANGED <<account, made, opened, saves, expired, origin, straggler>>
  PROVE  IInv'
  <1> USE DEF IInv
  <1>1. \/ UNCHANGED file
        \/ file'.data = Empty /\ file'.version = 0 /\ file' \in Stored
        \/ \E u \in Tab : \E s \in flight[u] :
              file'.data = s.data /\ file'.version = s.version /\ file' \in Stored
    <2>1. ASSUME file' = Blank
          PROVE  file'.data = Empty /\ file'.version = 0 /\ file' \in Stored
      BY <2>1, EmptyFacts, WebSessionAssumption DEF Blank, Stored
    <2>2. ASSUME NEW u \in Tab, NEW s \in flight[u],
                 file' = [data |-> s.data, version |-> s.version]
          PROVE  file'.data = s.data /\ file'.version = s.version /\ file' \in Stored
      BY <2>2, TypeFacts, WebSessionAssumption DEF Stored
    <2> QED BY <2>1, <2>2
  <1>2. TypeOK'
    <2>1. faults' \in 0 .. MaxSave
      BY TypeFacts, WebSessionAssumption
    <2> QED BY <1>1, <2>1 DEF TypeOK
  <1>3. Bounds' /\ Hidden'
    BY DEF Bounds, Hidden
  <1>4. DistinctInv'
    BY <1>1, EmptyFacts DEF DistinctInv, Distinct, SameHandle
  <1>5. VersionInv'
    BY <1>1, TypeFacts DEF VersionInv
  <1>6. BaseInv'
    BY <1>1 DEF BaseInv, Ready, Alike
  <1>7. CleanInv'
    BY <1>1, EmptyFacts DEF CleanInv, OfAccount
  <1> QED BY <1>2, <1>3, <1>4, <1>5, <1>6, <1>7

LEMMA LandedFacts ==
  ASSUME TypeOK, NEW t \in Tab, NEW s \in flight[t], Landed(t, s)
  PROVE  /\ flight' \in [Tab -> SUBSET [data : Session, version : 1 .. MaxSave,
                                        token : 0 .. MaxSave]]
         /\ \A u \in Tab : flight'[u] \subseteq flight[u]
  BY DEF TypeOK, Landed

LEMMA SaveStep ==
  ASSUME IInv, NEW t \in Tab, NEW s \in flight[t],
         SaveArrives(t, s) \/ SaveFails(t, s)
  PROVE  IInv'
  <1>1. Landed(t, s)
    BY DEF SaveArrives, SaveFails
  <1>2. \/ UNCHANGED file
        \/ file' = Blank
        \/ file' = [data |-> s.data, version |-> s.version]
    BY DEF SaveArrives, SaveFails
  <1>3. /\ faults' \in Nat /\ daemon \in Nat /\ daemon <= faults'
        /\ saves + faults' <= MaxSave
    BY TypeFacts, WebSessionAssumption DEF SaveArrives, SaveFails, Fault, IInv, Bounds
  <1>4. UNCHANGED <<account, made, daemon, page, opened, saves, expired, origin,
                    straggler>>
    BY DEF SaveArrives, SaveFails
  <1>5. page' \in [Tab -> Page] /\ daemon' \in 0 .. MaxSave
    BY <1>4 DEF IInv, TypeOK
  <1>6. TypeOK
    BY DEF IInv
  <1> QED BY <1>1, <1>2, <1>3, <1>4, <1>5, <1>6, LandedFacts, FileStep

LEMMA RestartStep ==
  ASSUME IInv, Restart
  PROVE  IInv'
  <1>1. flight' = [t \in Tab |-> {}]
    BY DEF Restart
  <1>2. UNCHANGED file \/ file' = Blank
    BY DEF Restart
  <1>3. /\ faults' \in Nat /\ daemon' \in 0 .. MaxSave /\ daemon' <= faults'
        /\ saves + faults' <= MaxSave
    BY TypeFacts, WebSessionAssumption DEF Restart, Fault, IInv, Bounds
  <1>4. UNCHANGED <<account, made, opened, saves, expired, origin, straggler>>
    BY DEF Restart
  <1>5. ASSUME NEW u \in Tab
        PROVE  /\ page'[u] \in Page
               /\ page'[u].data = page[u].data /\ page'[u].base = page[u].base
               /\ page'[u].listens = 0 /\ page'[u].mode = page[u].mode
               /\ page'[u].due = page[u].due
    <2>1. page'[u] = [page[u] EXCEPT !.listens = 0]
      BY DEF Restart
    <2>2. page[u] \in Page /\ 0 \in 0 .. MaxAccount
      BY TypeFacts, WebSessionAssumption DEF IInv
    <2> QED BY <2>1, <2>2 DEF Page
  <1>6. page' \in [Tab -> Page]
    BY <1>5 DEF Restart
  <1> QED BY <1>1, <1>2, <1>3, <1>4, <1>5, <1>6, FileStep

LEMMA StutterStep ==
  ASSUME IInv, UNCHANGED vars
  PROVE  IInv'
  <1> USE DEF IInv, vars
  <1>1. TypeOK' /\ Bounds' /\ Hidden'
    BY DEF TypeOK, Bounds, Hidden
  <1>2. DistinctInv' /\ VersionInv'
    BY DEF DistinctInv, Distinct, SameHandle, VersionInv
  <1>3. BaseInv' /\ CleanInv'
    BY DEF BaseInv, Ready, Alike, CleanInv, OfAccount
  <1> QED BY <1>1, <1>2, <1>3

LEMMA NextIInv == IInv /\ [Next]_vars => IInv'
  <1> SUFFICES ASSUME IInv, [Next]_vars PROVE IInv'
    OBVIOUS
  <1>1. ASSUME NEW t \in Tab, Open(t) PROVE IInv'
    BY <1>1, OpenStep
  <1>2. ASSUME NEW t \in Tab, SubmitInit(t) PROVE IInv'
    BY <1>2, SubmitInitStep
  <1>3. ASSUME NEW t \in Tab, ChangeHandle(t) PROVE IInv'
    BY <1>3, ChangeHandleStep
  <1>4. ASSUME NEW t \in Tab, Load(t) PROVE IInv'
    BY <1>4, LoadStep
  <1>5. ASSUME NEW t \in Tab, LoadFails(t) PROVE IInv'
    BY <1>5, LoadFailsStep
  <1>6. ASSUME NEW t \in Tab, NEW k \in Used, NEW id \in Id, Receive(t, k, id)
        PROVE  IInv'
    BY <1>6, ReceiveStep
  <1>7. ASSUME NEW t \in Tab, NEW k \in Entered, AddContact(t, k) PROVE IInv'
    BY <1>7, AddContactStep
  <1>8. ASSUME NEW t \in Tab, NEW k \in Key, SelectContact(t, k) PROVE IInv'
    BY <1>8, SelectContactStep
  <1>9. ASSUME NEW t \in Tab, NEW id \in Id, TypeMessage(t, id) PROVE IInv'
    BY <1>9, TypeMessageStep
  <1>10. ASSUME NEW t \in Tab, RemoveCorrespondence(t) PROVE IInv'
    BY <1>10, RemoveStep
  <1>11. ASSUME NEW t \in Tab, Prune(t) PROVE IInv'
    BY <1>11, PruneStep
  <1>12. ASSUME NEW t \in Tab, SendSave(t) PROVE IInv'
    BY <1>12, SendSaveStep
  <1>13. ASSUME NEW t \in Tab, NEW s \in flight[t], SaveArrives(t, s) \/ SaveFails(t, s)
         PROVE  IInv'
    BY <1>13, SaveStep
  <1>14. ASSUME NEW t \in Tab, DeleteAccount(t) PROVE IInv'
    BY <1>14, DeleteAccountStep
  <1>15. ASSUME NEW t \in Tab, Close(t) PROVE IInv'
    BY <1>15, CloseStep
  <1>16. ASSUME NEW id \in Id, Expire(id) PROVE IInv'
    BY <1>16, ExpireStep
  <1>17. ASSUME Restart PROVE IInv'
    BY <1>17, RestartStep
  <1>18. ASSUME UNCHANGED vars PROVE IInv'
    BY <1>18, StutterStep
  <1> QED BY <1>1, <1>2, <1>3, <1>4, <1>5, <1>6, <1>7, <1>8, <1>9, <1>10, <1>11,
             <1>12, <1>13, <1>14, <1>15, <1>16, <1>17, <1>18 DEF Next

LEMMA SpecIInv == Spec => []IInv
  BY InitIInv, NextIInv, PTL DEF Spec

-----------------------------------------------------------------------------
(* The theorems.                                                             *)

\* Every variable keeps its type: pages, saves and the file hold sessions, the
\* contacts of which are handles.
THEOREM TypeCorrect == Spec => []TypeOK
  <1>1. IInv => TypeOK
    BY DEF IInv
  <1> QED BY <1>1, SpecIInv, PTL

\* A page that waits for nothing agrees with the file, if the file is what the
\* page loaded or the last save it sent (app.js, syncServerSession).
THEOREM IdlePagesAreSaved == Spec => []IdlePageIsSaved
  <1>1. ASSUME IInv PROVE IdlePageIsSaved
    <2> SUFFICES ASSUME NEW t \in Tab, Ready(t), ~page[t].due,
                        page[t].base = file.version
                 PROVE  Fresh(page[t].data) = Fresh(file.data)
      BY DEF IdlePageIsSaved
    <2>1. Alike(page[t].data, file.data)
      BY <1>1 DEF IInv, BaseInv
    <2>2. page[t].data \in Session /\ file.data \in Session
      BY <1>1, TypeFacts DEF IInv
    <2> QED BY <2>1, <2>2, AlikeIsFresh
  <1> QED BY <1>1, SpecIInv, PTL

\* A new account starts with nothing of a deleted one, unless a page or a save
\* of that one was about when it was made (server.go, handleInit).
THEOREM DeletedIsOut == Spec => []DeletedStaysOut
  <1>1. ASSUME IInv PROVE DeletedStaysOut
    BY <1>1 DEF IInv, CleanInv, OfAccount, DeletedStaysOut, Held
  <1> QED BY <1>1, SpecIInv, PTL

\* No handle is in the contacts under two spellings (app.js, touchContact).
THEOREM ContactsAreDistinct == Spec => []ContactsDistinct
  <1>1. ASSUME IInv PROVE ContactsDistinct
    BY <1>1 DEF IInv, DistinctInv, Distinct, ContactsDistinct
  <1> QED BY <1>1, SpecIInv, PTL

-----------------------------------------------------------------------------
(* The daemon's other half, module SendRouting: what a page verifies and     *)
(* sends, with the chat session that sends as the daemon does.               *)
MembersOf(s) == Members(job[s])

Handle == Spelling \ {NoSpelling}

Pair == [device : Device, pair : Nat]

RouteTypes ==
    /\ registered \in [Device -> Nat] /\ keypair \in [Device -> Nat]
    /\ box \in [Device -> SUBSET Send] /\ shown \in [Device -> SUBSET Send]
    /\ pc \in [Send -> {"idle", "lookup", "resolve", "post"}]
    /\ job \in [Send -> Jobs]
    /\ at \in [Send -> [member : Nat, spelling : Nat]]
    /\ contact \in [Send -> Pair \cup {NoKey}]
    /\ keys \in [Send -> SUBSET Pair]
    /\ to \in [Send -> Seq(Spelling)]
    /\ stored \in [Send -> BOOLEAN]
    /\ result \in [Send -> {"none", "failed", "sent"}]
    /\ clean \in [Send -> BOOLEAN] /\ steady \in [Send -> BOOLEAN]

\* No key is used before it was made.
NoKeyOfTomorrow ==
    /\ \A d \in Device : registered[d] <= keypair[d]
    /\ \A s \in Send : \A k \in keys[s] : k.pair <= keypair[k.device]

\* The message of one page, to one contact.
Direct(s) == job[s].surface = "web" /\ ~job[s].group

Unbegun(s) == pc[s] = "lookup" \/ (pc[s] = "idle" /\ result[s] = "none")

\* From the lookup on, what the directory holds under the contact's handle as it
\* was typed is the key that was shown, or nothing.
Verified(s) ==
    LET m == job[s].members[1] IN
    /\ pc[s] = "lookup" \/ contact[s] # NoKey => Direct(s)
    /\ Unbegun(s) => contact[s] = NoKey /\ keys[s] = {}
    /\ pc[s] = "lookup" => /\ at[s].spelling # 0
                           /\ at[s].spelling # 1 /\ clean[s] /\ steady[s]
                              => Found(m) = {}
    /\ pc[s] = "resolve" /\ Direct(s)
       => keys[s] = {} /\ (clean[s] /\ steady[s] => Found(m) \subseteq {contact[s]})
    /\ contact[s] # NoKey /\ keys[s] # {} /\ clean[s] /\ steady[s]
       => keys[s] = {contact[s]}

\* A recipient of s, at handle h.
Awaits(d, s, h) == Own[d] = h /\ KeyOf(d) \in keys[s]

Sure(s, h) == clean[s] \/ InEveryFan(h)

\* The daemon and the chat session post to all members in turn, and what is posted
\* to a member has reached it, if no request failed, as soon as the first is
\* through, and if its handle is in every fan-out, as soon as any is.
OnItsWay(s) ==
    /\ pc[s] # "idle" => result[s] = "none"
    /\ Unbegun(s) \/ pc[s] = "resolve" => ~stored[s]
    /\ Unbegun(s) => to[s] = <<>> /\ (pc[s] = "idle" => at[s] = [member |-> 1, spelling |-> 1])
    /\ job[s].surface # "shell" =>
         /\ pc[s] = "resolve" => /\ at[s].spelling = 1 /\ Len(to[s]) = at[s].member - 1
                                 /\ MembersOf(s) # <<>> => at[s].member \in DOMAIN MembersOf(s)
                                 /\ \A p \in DOMAIN to[s] : to[s][p] = MembersOf(s)[p]
         /\ pc[s] = "post" =>
              /\ to[s] = MembersOf(s)
              /\ at[s].member \in DOMAIN to[s] /\ at[s].spelling \in 1 .. 5
              /\ at[s].spelling = 1 \/ Variants(to[s][at[s].member])[at[s].spelling] # NoSpelling
              /\ \A d \in Device : \A p \in DOMAIN to[s] :
                    /\ Awaits(d, s, to[s][p])
                    /\ \/ p < at[s].member /\ Sure(s, to[s][p])
                       \/ p = at[s].member /\ at[s].spelling # 1 /\ clean[s]
                       \/ p = at[s].member /\ stored[s] /\ InEveryFan(to[s][p])
                    => Reached(s, d)
         /\ result[s] = "sent" =>
              \A d \in Device : \A p \in DOMAIN MembersOf(s) :
                 Awaits(d, s, MembersOf(s)[p]) /\ Sure(s, MembersOf(s)[p]) => Reached(s, d)

RouteInv == RouteTypes /\ NoKeyOfTomorrow /\ \A s \in Send : Verified(s) /\ OnItsWay(s)

-----------------------------------------------------------------------------
(* Spellings and members.                                                    *)

LEMMA SpellingFacts ==
  /\ NoSpelling \in Spelling
  /\ \A h \in Spelling :
       /\ h.pre \in Seq({"PV", "pv"}) /\ h.name \in Name \cup {NoName}
       /\ h.case \in {"upper", "lower", "mixed", "none"}
       /\ h = [pre |-> h.pre, name |-> h.name, case |-> h.case]
       /\ Len(Variants(h)) = 5 /\ Variants(h)[1] = h
  <1>1. <<>> \in Seq({"PV", "pv"})
    OBVIOUS
  <1>2. NoSpelling \in Spelling
    BY <1>1 DEF NoSpelling, Spelling
  <1>3. \A h \in Spelling :
          /\ h.pre \in Seq({"PV", "pv"}) /\ h.name \in Name \cup {NoName}
          /\ h.case \in {"upper", "lower", "mixed", "none"}
          /\ h = [pre |-> h.pre, name |-> h.name, case |-> h.case]
    BY DEF Spelling
  <1>4. \A h : Len(Variants(h)) = 5 /\ Variants(h)[1] = h
    BY DEF Variants
  <1> QED BY <1>2, <1>3, <1>4

\* What the operators on spellings do to a name with one prefix or none.
LEMMA ShortSpellings ==
  ASSUME NEW n, NEW c, NEW u, u = (IF n = NoName THEN "none" ELSE "upper"),
         NEW l, l = (IF n = NoName THEN "none" ELSE "lower")
  PROVE  /\ ToUpper([pre |-> <<>>, name |-> n, case |-> c])
              = [pre |-> <<>>, name |-> n, case |-> u]
         /\ ToLower([pre |-> <<>>, name |-> n, case |-> c])
              = [pre |-> <<>>, name |-> n, case |-> l]
         /\ \A x \in {"PV", "pv"} :
              /\ ToUpper([pre |-> <<x>>, name |-> n, case |-> c])
                   = [pre |-> <<"PV">>, name |-> n, case |-> u]
              /\ ToLower([pre |-> <<x>>, name |-> n, case |-> c])
                   = [pre |-> <<"pv">>, name |-> n, case |-> l]
  <1>1. \A y : [i \in DOMAIN <<>> |-> y] = <<>>
    OBVIOUS
  <1>2. \A x, y : [i \in DOMAIN <<x>> |-> y] = <<y>>
    OBVIOUS
  <1>4. \A c1 : InCase([pre |-> <<>>, name |-> n, case |-> c], "PV", c1)
                  = [pre |-> <<>>, name |-> n, case |-> IF n = NoName THEN "none" ELSE c1]
    BY <1>1 DEF InCase
  <1>5. \A c1 : InCase([pre |-> <<>>, name |-> n, case |-> c], "pv", c1)
                  = [pre |-> <<>>, name |-> n, case |-> IF n = NoName THEN "none" ELSE c1]
    BY <1>1 DEF InCase
  <1>6. \A c1, x, y : InCase([pre |-> <<x>>, name |-> n, case |-> c], y, c1)
                  = [pre |-> <<y>>, name |-> n, case |-> IF n = NoName THEN "none" ELSE c1]
    BY <1>2 DEF InCase
  <1> QED BY <1>4, <1>5, <1>6 DEF ToUpper, ToLower

LEMMA ShortPrefixes ==
  ASSUME NEW n, NEW c
  PROVE  /\ TrimPV([pre |-> <<>>, name |-> n, case |-> c])
              = [pre |-> <<>>, name |-> n, case |-> c]
         /\ TrimPV([pre |-> <<"PV">>, name |-> n, case |-> c])
              = [pre |-> <<>>, name |-> n, case |-> c]
         /\ AddPV([pre |-> <<>>, name |-> n, case |-> c])
              = [pre |-> <<"PV">>, name |-> n, case |-> c]
  <1>1. <<"PV">> \o <<>> = <<"PV">> /\ Tail(<<"PV">>) = <<>>
    OBVIOUS
  <1> QED BY <1>1 DEF TrimPV, AddPV

LEMMA AtMostOne ==
  ASSUME NEW x, NEW y, NEW q \in Seq({x, y}), Len(q) <= 1
  PROVE  q \in {<<>>, <<x>>, <<y>>}
  <1>1. CASE Len(q) = 0
    BY <1>1
  <1>2. CASE Len(q) = 1
    <2>1. q[1] \in {x, y} /\ q = <<q[1]>>
      BY <1>2
    <2> QED BY <2>1
  <1>3. Len(q) = 0 \/ Len(q) = 1
    <2>1. Len(q) \in Nat /\ \A k \in Nat : k <= 1 => k = 0 \/ k = 1
      OBVIOUS
    <2> QED BY <2>1, Zenon
  <1> QED BY <1>1, <1>2, <1>3

\* A handle in every fan-out is in the fan-out of each of its spellings.
LEMMA InEachFan ==
  ASSUME NEW h \in Spelling, InEveryFan(h),
         NEW i \in 1 .. 5
  PROVE  h \in Fan(Variants(h)[i])
  <1> DEFINE n == h.name
             u == IF n = NoName THEN "none" ELSE "upper"
             l == IF n = NoName THEN "none" ELSE "lower"
             bare == [pre |-> <<>>, name |-> n, case |-> u]
             lower == [pre |-> <<>>, name |-> n, case |-> l]
             full == [pre |-> <<"PV">>, name |-> n, case |-> u]
             low == [pre |-> <<"pv">>, name |-> n, case |-> l]
  <1>1. h = [pre |-> h.pre, name |-> n, case |-> h.case]
        /\ h.pre \in {<<>>, <<"PV">>, <<"pv">>}
    BY SpellingFacts, AtMostOne DEF InEveryFan
  <1>2. h = ToUpper(h)
    BY DEF InEveryFan
  <1>3. \A c : /\ ToUpper([pre |-> <<>>, name |-> n, case |-> c]) = bare
               /\ ToLower([pre |-> <<>>, name |-> n, case |-> c]) = lower
               /\ \A x \in {"PV", "pv"} :
                    /\ ToUpper([pre |-> <<x>>, name |-> n, case |-> c]) = full
                    /\ ToLower([pre |-> <<x>>, name |-> n, case |-> c]) = low
    BY ShortSpellings
  <1>4. /\ TrimPV(bare) = bare /\ AddPV(bare) = full
        /\ TrimPV(full) = bare
    BY ShortPrefixes
  <1>5. h \in {bare, full}
    <2> HIDE DEF n, bare, full, lower, low
    <2> QED BY <1>1, <1>2, <1>3
  <1>9. /\ ToUpper(bare) = bare /\ ToLower(bare) = lower
        /\ ToUpper(full) = full /\ ToLower(full) = low
        /\ ToUpper(lower) = bare /\ ToUpper(low) = full
    BY <1>3
  <1> HIDE DEF bare, full, lower, low
  <1>10. Variants(h)[i] \in {Variants(h)[1], Variants(h)[2],
                                    Variants(h)[3], Variants(h)[4],
                                    Variants(h)[5]}
    OBVIOUS
  <1>6. \A g : {g, ToUpper(g), ToLower(g),
                AddPV(ToUpper(TrimPV(g))), TrimPV(ToUpper(g))}
                 \subseteq Fan(g)
    BY DEF Fan, Variants, ToSet
  <1>7. CASE h = bare
    <2>1. Variants(h)[i] \in {bare, lower, full}
      BY <1>4, <1>9, <1>10, <1>7 DEF Variants
    <2>2. bare \in Fan(bare) /\ bare \in Fan(lower) /\ bare \in Fan(full)
      BY <1>4, <1>6, <1>9
    <2> QED BY <1>7, <2>1, <2>2
  <1>8. CASE h = full
    <2>1. Variants(h)[i] \in {full, low, bare}
      BY <1>4, <1>9, <1>10, <1>8 DEF Variants
    <2>2. full \in Fan(full) /\ full \in Fan(low) /\ full \in Fan(bare)
      BY <1>4, <1>6, <1>9
    <2> QED BY <1>8, <2>1, <2>2
  <1> QED BY <1>5, <1>7, <1>8

\* Whatever letter case a user types a handle in, with the prefix or without: its form
\* in capitals is among the spellings that are looked up and those that are posted to,
\* with the prefix and without.
THEOREM CapitalsAreTried ==
  ASSUME NEW t \in Spelling, Len(t.pre) <= 1,
         NEW h \in Spelling, InEveryFan(h), h.name = t.name
  PROVE  /\ h \in Fan(t)
         /\ \E i \in DOMAIN Candidates(t) : Candidates(t)[i] = h
  <1> DEFINE n == t.name
             u == IF n = NoName THEN "none" ELSE "upper"
             l == IF n = NoName THEN "none" ELSE "lower"
             bare == [pre |-> <<>>, name |-> n, case |-> u]
             lower == [pre |-> <<>>, name |-> n, case |-> l]
             full == [pre |-> <<"PV">>, name |-> n, case |-> u]
             low == [pre |-> <<"pv">>, name |-> n, case |-> l]
  <1>1. /\ t = [pre |-> t.pre, name |-> n, case |-> t.case]
        /\ t.pre \in {<<>>, <<"PV">>, <<"pv">>}
    BY SpellingFacts, AtMostOne
  <1>2. /\ h = [pre |-> h.pre, name |-> n, case |-> h.case] /\ h = ToUpper(h)
        /\ h.pre \in {<<>>, <<"PV">>, <<"pv">>}
    BY SpellingFacts, AtMostOne DEF InEveryFan
  <1>3. \A c : /\ ToUpper([pre |-> <<>>, name |-> n, case |-> c]) = bare
               /\ ToLower([pre |-> <<>>, name |-> n, case |-> c]) = lower
               /\ \A x \in {"PV", "pv"} :
                    /\ ToUpper([pre |-> <<x>>, name |-> n, case |-> c]) = full
                    /\ ToLower([pre |-> <<x>>, name |-> n, case |-> c]) = low
    BY ShortSpellings
  <1>4. /\ AddPV(bare) = full /\ TrimPV(full) = bare
        /\ \A c : TrimPV([pre |-> <<>>, name |-> n, case |-> c])
                   = [pre |-> <<>>, name |-> n, case |-> c]
    BY ShortPrefixes
  <1> HIDE DEF bare, lower, full, low, n
  <1>5. h \in {bare, full}
    BY <1>2, <1>3
  <1>6. \/ /\ ToUpper(t) = bare
           /\ AddPV(ToUpper(TrimPV(t))) = full
        \/ ToUpper(t) = full /\ TrimPV(ToUpper(t)) = bare
    <2>1. CASE t.pre = <<>>
      BY <1>1, <1>3, <1>4, <2>1
    <2>2. CASE t.pre \in {<<"PV">>, <<"pv">>}
      BY <1>1, <1>3, <1>4, <2>2
    <2> QED BY <1>1, <2>1, <2>2
  <1>7. h \in {ToUpper(t), AddPV(ToUpper(TrimPV(t))),
               TrimPV(ToUpper(t))}
    BY <1>5, <1>6
  <1>8. {ToUpper(t), AddPV(ToUpper(TrimPV(t))),
         TrimPV(ToUpper(t))} \subseteq Fan(t)
    BY DEF Fan, Variants, ToSet
  <1>9. /\ {2, 4, 6} \subseteq DOMAIN Candidates(t)
        /\ Candidates(t)[2] = ToUpper(t)
        /\ Candidates(t)[4] = AddPV(ToUpper(TrimPV(t)))
        /\ Candidates(t)[6] = TrimPV(ToUpper(t))
    BY DEF Candidates
  <1> QED BY <1>7, <1>8, <1>9

LEMMA FirstOfFan ==
  ASSUME NEW h
  PROVE  h \in Fan(h)
  BY DEF Fan, Variants, ToSet

\* Where the next request goes.
LEMMA NextRequestIs ==
  ASSUME NEW v, Len(v) \in Nat, NEW i \in Nat
  PROVE  /\ NextRequest(v, i) \in Nat
         /\ NextRequest(v, i) <= Len(v) => /\ NextRequest(v, i) > i
                                           /\ v[NextRequest(v, i)] # NoSpelling
  <1> DEFINE fresh == {k \in (i + 1) .. Len(v) :
                         v[k] # NoSpelling /\ \A j \in 1 .. (k - 1) : v[j] # v[k]}
             T == fresh \cup {Len(v) + 1}
  <1>1. fresh \subseteq (i + 1) .. Len(v) /\ T \subseteq Nat /\ T # {}
    OBVIOUS
  <1>2. PICK k \in T : \A y \in T : k <= y
    BY <1>1, LeastNumber
  <1>3. NextRequest(v, i) = CHOOSE x \in T : \A l \in fresh : x <= l
    BY DEF NextRequest
  <1>4. \A x \in fresh : v[x] # NoSpelling
    OBVIOUS
  <1> HIDE DEF fresh
  <1>5. NextRequest(v, i) \in T
    BY <1>2, <1>3
  <1> QED BY <1>1, <1>4, <1>5

LEMMA NextFreshIs ==
  ASSUME NEW v, Len(v) \in Nat, NEW i \in Nat
  PROVE  /\ NextFresh(v, i) \in Nat
         /\ NextFresh(v, i) > i \/ NextFresh(v, i) > Len(v)
  <1> DEFINE fresh == {k \in (i + 1) .. Len(v) : \A j \in 1 .. (k - 1) : v[j] # v[k]}
             T == fresh \cup {Len(v) + 1}
  <1>1. fresh \subseteq (i + 1) .. Len(v) /\ T \subseteq Nat /\ T # {}
    OBVIOUS
  <1>2. PICK k \in T : \A y \in T : k <= y
    BY <1>1, LeastNumber
  <1>3. NextFresh(v, i) = CHOOSE x \in T : \A l \in fresh : x <= l
    BY DEF NextFresh
  <1> HIDE DEF fresh
  <1>4. NextFresh(v, i) \in T
    BY <1>2, <1>3
  <1> QED BY <1>1, <1>4

LEMMA MembersType ==
  ASSUME RouteTypes, NEW s \in Send
  PROVE  /\ job[s] \in Jobs /\ job[s].surface \in Surface /\ job[s].group \in BOOLEAN
         /\ MembersOf(s) \in Seq(Handle) /\ Len(MembersOf(s)) \in Nat
         /\ Direct(s) => Len(MembersOf(s)) = 1 /\ MembersOf(s)[1] = job[s].members[1]
  <1>1. /\ job[s] \in Jobs /\ job[s].members \in Seq(Handle)
        /\ job[s].surface \in Surface /\ job[s].group \in BOOLEAN
        /\ ~job[s].group => Len(job[s].members) = 1
    BY JobsAssumption DEF RouteTypes, Handle
  <1>2. \A S : Keep(job[s].members, S) \in Seq(Handle)
    BY <1>1, KeepPlaces
  <1>3. MembersOf(s) \in Seq(Handle)
    BY <1>1, <1>2 DEF MembersOf, Members
  <1>4. Direct(s) => MembersOf(s) = job[s].members
    BY DEF Direct, MembersOf, Members
  <1> QED BY <1>1, <1>3, <1>4 DEF Direct

LEMMA CandidatesOf == \A h : Len(Candidates(h)) = 6 /\ Candidates(h)[1] = h
  BY DEF Candidates

\* What the directory answers is a key that was made, and a handle has one.
LEMMA FoundIs ==
  ASSUME RouteTypes, NoKeyOfTomorrow, NEW h
  PROVE  /\ \A k \in Found(h) : /\ k \in Pair /\ k # NoKey
                                /\ k.pair <= keypair[k.device]
         /\ \A k, l \in Found(h) : k = l
  <1>1. \A k \in Found(h) : \E d \in Device :
           Own[d] = h /\ registered[d] # 0 /\ k = [device |-> d, pair |-> registered[d]]
    BY DEF Found
  <1>2. \A d, e \in Device : Own[d] = Own[e] => d = e
    BY OwnAssumption
  <1>3. \A d \in Device : registered[d] \in Nat /\ registered[d] <= keypair[d]
    BY DEF RouteTypes, NoKeyOfTomorrow
  <1>4. ASSUME NEW k \in Found(h)
        PROVE  k \in Pair /\ k # NoKey /\ k.pair <= keypair[k.device]
    BY <1>1, <1>3 DEF Pair, NoKey
  <1>5. ASSUME NEW k \in Found(h), NEW l \in Found(h) PROVE k = l
    BY <1>1, <1>2
  <1> QED BY <1>4, <1>5

LEMMA FirstMember ==
  ASSUME RouteTypes, NEW s \in Send, MembersOf(s) # <<>>
  PROVE  1 \in DOMAIN MembersOf(s)
  <1>1. MembersOf(s) \in Seq(Handle)
    BY MembersType
  <1>2. \A u \in Seq(Handle) : u # <<>> => 1 \in DOMAIN u
    OBVIOUS
  <1> QED BY <1>1, <1>2

-----------------------------------------------------------------------------
(* A step of one send.                                                       *)

SameLocals(q) ==
    /\ pc'[q] = pc[q] /\ at'[q] = at[q] /\ contact'[q] = contact[q] /\ keys'[q] = keys[q]
    /\ to'[q] = to[q] /\ stored'[q] = stored[q] /\ result'[q] = result[q]
    /\ clean'[q] = clean[q] /\ steady'[q] = steady[q]

LEMMA Untouched ==
  ASSUME RouteInv, NEW q \in Send, SameLocals(q), UNCHANGED <<registered, keypair, job>>,
         \A d \in Device : Reached(q, d) => Reached(q, d)'
  PROVE  Verified(q)' /\ OnItsWay(q)'
  <1>1. Verified(q) /\ OnItsWay(q)
    BY DEF RouteInv
  <1>2. \A h : Found(h)' = Found(h)
    BY DEF Found
  <1>3. MembersOf(q)' = MembersOf(q) /\ (Direct(q)' <=> Direct(q)) /\ (Unbegun(q)' <=> Unbegun(q))
    BY DEF SameLocals, MembersOf, Members, Direct, Unbegun
  <1>4. \A d \in Device : \A h : Awaits(d, q, h)' <=> Awaits(d, q, h)
    BY DEF SameLocals, Awaits, KeyOf
  <1>5. \A h : Sure(q, h)' <=> Sure(q, h)
    BY DEF SameLocals, Sure
  <1>6. Verified(q)'
    BY <1>1, <1>2, <1>3 DEF SameLocals, Verified
  <1>7. OnItsWay(q)'
    BY <1>1, <1>3, <1>4, <1>5 DEF SameLocals, OnItsWay
  <1> QED BY <1>6, <1>7

\* What remains to be shown of a step of s.
LEMMA StepOf ==
  ASSUME RouteInv, RouteTypes', NEW s \in Send, UNCHANGED <<registered, keypair, job>>,
         \A q \in Send \ {s} : SameLocals(q),
         \A q \in Send, d \in Device : Reached(q, d) => Reached(q, d)',
         \A k \in keys'[s] : k \in keys[s] \/ k.pair <= keypair[k.device],
         Verified(s)', OnItsWay(s)'
  PROVE  RouteInv'
  <1>1. NoKeyOfTomorrow'
    BY DEF RouteInv, NoKeyOfTomorrow, SameLocals
  <1>2. \A q \in Send \ {s} : Verified(q)' /\ OnItsWay(q)'
    BY Untouched
  <1> QED BY <1>1, <1>2 DEF RouteInv

\* Nothing arrives, and nothing is lost.
LEMMA SameDelivery ==
  ASSUME UNCHANGED <<box, shown>>
  PROVE  \A q \in Send, d \in Device : Reached(q, d) <=> Reached(q, d)'
  BY DEF Reached

\* A send that fails is over.
LEMMA FailStep ==
  ASSUME RouteInv, NEW s \in Send, Fail(s), result[s] = "none", pc[s] # "post",
         \/ UNCHANGED at
         \/ \E k \in Nat : at' = [at EXCEPT ![s] = [member |-> 1, spelling |-> k]],
         UNCHANGED <<registered, keypair, job, box, shown, contact, keys, to, stored, steady>>,
         \E ok \in BOOLEAN : Noted(s, ok)
  PROVE  RouteInv'
  <1>1. /\ RouteTypes /\ Verified(s) /\ OnItsWay(s)
        /\ pc' = [pc EXCEPT ![s] = "idle"] /\ result' = [result EXCEPT ![s] = "failed"]
    BY DEF RouteInv, Fail
  <1>2. RouteTypes' /\ \A q \in Send \ {s} : SameLocals(q)
    <2>1. at' \in [Send -> [member : Nat, spelling : Nat]] /\ \A q \in Send \ {s} : at'[q] = at[q]
      <3>1. at \in [Send -> [member : Nat, spelling : Nat]]
        BY <1>1 DEF RouteTypes
      <3>2. CASE UNCHANGED at
        BY <3>1, <3>2
      <3>3. ASSUME NEW k \in Nat, at' = [at EXCEPT ![s] = [member |-> 1, spelling |-> k]]
            PROVE  at' \in [Send -> [member : Nat, spelling : Nat]]
                   /\ \A q \in Send \ {s} : at'[q] = at[q]
        <4>1. [member |-> 1, spelling |-> k] \in [member : Nat, spelling : Nat]
          OBVIOUS
        <4> QED BY <3>1, <3>3, <4>1
      <3> QED BY <3>2, <3>3
    <2>2. clean' \in [Send -> BOOLEAN] /\ \A q \in Send \ {s} : clean'[q] = clean[q]
      BY <1>1 DEF RouteTypes, Noted
    <2> QED BY <1>1, <2>1, <2>2 DEF RouteTypes, SameLocals
  <1>3. pc'[s] = "idle" /\ result'[s] = "failed" /\ (clean'[s] => clean[s])
    BY <1>1 DEF RouteTypes, Noted
  <1>4. Verified(s)'
    BY <1>1, <1>3 DEF Verified, Unbegun, Direct, RouteTypes
  <1>5. OnItsWay(s)'
    BY <1>1, <1>3 DEF OnItsWay, Unbegun
  <1> QED BY <1>2, <1>4, <1>5, SameDelivery, StepOf

LEMMA BeginStep ==
  ASSUME RouteInv, NEW s \in Send, Begin(s)
  PROVE  RouteInv'
  <1>1. /\ RouteTypes /\ Verified(s) /\ OnItsWay(s) /\ Unbegun(s) /\ pc[s] = "idle" /\ result[s] = "none"
        /\ pc' = [pc EXCEPT ![s] = IF Direct(s) THEN "lookup" ELSE "resolve"]
        /\ UNCHANGED <<registered, keypair, box, shown, at, contact, keys, to, stored, result,
                       job, clean, steady>>
    BY DEF RouteInv, Unbegun, Begin, Direct, directory, delivery,
       history
  <1>2. RouteTypes' /\ \A q \in Send \ {s} : SameLocals(q)
    BY <1>1 DEF RouteTypes, SameLocals
  <1>3. /\ contact[s] = NoKey /\ keys[s] = {} /\ to[s] = <<>> /\ ~stored[s]
        /\ at[s].member = 1 /\ at[s].spelling = 1
    BY <1>1 DEF Verified, OnItsWay
  <1>4. pc'[s] = IF Direct(s) THEN "lookup" ELSE "resolve"
    BY <1>1 DEF RouteTypes
  <1>5. Verified(s)'
    BY <1>1, <1>3, <1>4 DEF Verified, Unbegun, Direct
  <1>6. OnItsWay(s)'
    <2>1. MembersOf(s)' = MembersOf(s) /\ (MembersOf(s) # <<>> => 1 \in DOMAIN MembersOf(s))
      BY <1>1, FirstMember DEF MembersOf
    <2> QED BY <1>1, <1>3, <1>4, <2>1 DEF OnItsWay, Unbegun
  <1> QED BY <1>1, <1>2, <1>5, <1>6, SameDelivery, StepOf

LEMMA LookupHitStep ==
  ASSUME RouteInv, NEW s \in Send, LookupHit(s)
  PROVE  RouteInv'
  <1> DEFINE m == job[s].members[1]
             h == Candidates(m)[at[s].spelling]
  <1>0. /\ RouteTypes /\ NoKeyOfTomorrow /\ Verified(s) /\ OnItsWay(s)
    BY DEF RouteInv
  <1>1. /\ RouteTypes /\ NoKeyOfTomorrow /\ Verified(s) /\ OnItsWay(s) /\ pc[s] = "lookup" /\ Unbegun(s)
        /\ pc' = [pc EXCEPT ![s] = "resolve"]
        /\ at' = [at EXCEPT ![s] = [member |-> 1, spelling |-> 1]]
        /\ UNCHANGED <<registered, keypair, box, shown, keys, to, stored, result,
                       job, clean, steady>>
    BY <1>0 DEF Unbegun, LookupHit, MoveTo, directory,
       delivery, history
  <1>2. PICK k \in Found(h) : contact' = [contact EXCEPT ![s] = k]
    BY DEF LookupHit
  <1>3. k \in Pair /\ k # NoKey
    BY <1>1, FoundIs
  <1>4. RouteTypes' /\ \A q \in Send \ {s} : SameLocals(q)
    BY <1>1, <1>2, <1>3 DEF RouteTypes, SameLocals
  <1>5. /\ pc'[s] = "resolve" /\ contact'[s] = k
        /\ at'[s].member = 1 /\ at'[s].spelling = 1
    BY <1>1, <1>2 DEF RouteTypes
  <1>6. /\ Direct(s) /\ keys[s] = {} /\ to[s] = <<>> /\ ~stored[s] /\ result[s] = "none"
        /\ at[s].spelling # 1 /\ clean[s] /\ steady[s] => Found(m) = {}
    BY <1>1 DEF Verified, OnItsWay
  <1>7. clean[s] /\ steady[s] => Found(m) \subseteq {k}
    BY <1>1, <1>6, FoundIs, CandidatesOf
  <1>8. Found(m)' = Found(m)
    BY <1>1 DEF Found
  <1>9. Verified(s)'
    BY <1>1, <1>5, <1>6, <1>7, <1>8 DEF Verified, Unbegun, Direct
  <1>10. OnItsWay(s)'
    <2>1. MembersOf(s)' = MembersOf(s) /\ (MembersOf(s) # <<>> => 1 \in DOMAIN MembersOf(s))
      BY <1>1, FirstMember DEF MembersOf
    <2> QED BY <1>1, <1>5, <1>6, <2>1 DEF OnItsWay, Unbegun
  <1> QED BY <1>1, <1>4, <1>9, <1>10, SameDelivery, StepOf

LEMMA LookupMissStep ==
  ASSUME RouteInv, NEW s \in Send, LookupMiss(s)
  PROVE  RouteInv'
  <1> DEFINE m == job[s].members[1]
             C == Candidates(m)
             k == NextFresh(C, at[s].spelling)
  <1>0. /\ RouteTypes /\ NoKeyOfTomorrow /\ Verified(s) /\ OnItsWay(s)
    BY DEF RouteInv
  <1>1. /\ RouteTypes /\ NoKeyOfTomorrow /\ Verified(s) /\ OnItsWay(s) /\ pc[s] = "lookup" /\ Unbegun(s)
        /\ \/ Found(C[at[s].spelling]) = {} /\ Noted(s, TRUE)
           \/ Noted(s, FALSE)
        /\ at' = [at EXCEPT ![s] = [member |-> 1, spelling |-> k]]
        /\ IF k > Len(C) THEN Fail(s) ELSE UNCHANGED <<pc, result>>
        /\ UNCHANGED <<registered, keypair, box, shown, contact, keys, to, stored, job, steady>>
    BY <1>0 DEF Unbegun, LookupMiss, MoveTo, directory,
       delivery
  <1>2. k \in Nat /\ (k > at[s].spelling \/ k > 6)
    <2>1. at[s].spelling \in Nat
      BY <1>1 DEF RouteTypes
    <2>2. Len(C) \in Nat /\ Len(C) = 6
      BY CandidatesOf
    <2> HIDE DEF C
    <2>3. k \in Nat /\ (k > at[s].spelling \/ k > Len(C))
      BY <2>1, <2>2, NextFreshIs
    <2> QED BY <2>2, <2>3
  <1>3. result[s] = "none"
    BY <1>1 DEF OnItsWay
  <1> HIDE DEF k
  <1>4. CASE k > Len(C)
    BY <1>1, <1>2, <1>3, <1>4, FailStep
  <1>5. CASE ~(k > Len(C))
    <2>1. RouteTypes' /\ \A q \in Send \ {s} : SameLocals(q)
      <3>1. clean' \in [Send -> BOOLEAN] /\ \A q \in Send \ {s} : clean'[q] = clean[q]
        BY <1>1 DEF RouteTypes, Noted
      <3> QED BY <1>1, <1>2, <1>5, <3>1 DEF RouteTypes, SameLocals
    <2>2. /\ pc'[s] = "lookup" /\ result'[s] = "none"
          /\ at'[s].spelling = k /\ k # 0
      BY <1>1, <1>2, <1>3, <1>5 DEF RouteTypes, Verified
    <2>3. clean'[s] => clean[s] /\ Found(C[at[s].spelling]) = {}
      BY <1>1 DEF RouteTypes, Noted
    <2>4. clean'[s] /\ steady[s] => Found(m) = {}
      BY <1>1, <2>3, CandidatesOf DEF Verified
    <2>5. Found(m)' = Found(m)
      BY <1>1 DEF Found
    <2>6. Verified(s)'
      BY <1>1, <2>2, <2>4, <2>5 DEF Verified, Unbegun, Direct
    <2>7. OnItsWay(s)'
      BY <1>1, <2>2 DEF OnItsWay, Unbegun
    <2> QED BY <1>1, <2>1, <2>6, <2>7, SameDelivery, StepOf
  <1> QED BY <1>4, <1>5

LEMMA NoRecipientStep ==
  ASSUME RouteInv, NEW s \in Send, NoRecipient(s)
  PROVE  RouteInv'
  <1>1. /\ pc[s] = "resolve" /\ Fail(s)
        /\ UNCHANGED <<registered, keypair, box, shown, at, contact, keys, to, stored, job, clean, steady>>
    BY DEF NoRecipient, directory, delivery, history
  <1>2. result[s] = "none" /\ clean \in [Send -> BOOLEAN]
    BY <1>1 DEF RouteInv, OnItsWay, RouteTypes
  <1>3. Noted(s, TRUE)
    BY <1>1, <1>2 DEF Noted
  <1> QED BY <1>1, <1>2, <1>3, FailStep

LEMMA ResolveHitStep ==
  ASSUME RouteInv, NEW s \in Send, ResolveHit(s)
  PROVE  RouteInv'
  <1> DEFINE h == Asked(s)[at[s].spelling]
             M == MembersOf(s)
             i == at[s].member
             more == i < Len(M)
  <1>0. /\ RouteTypes /\ NoKeyOfTomorrow /\ Verified(s) /\ OnItsWay(s)
    BY DEF RouteInv
  <1>1. /\ pc[s] = "resolve" /\ M # <<>>
        /\ UNCHANGED <<registered, keypair, box, shown, contact, stored, job, clean, steady>>
    BY DEF ResolveHit, MembersOf, directory, delivery, history
  <1>2. PICK k \in Found(h) :
          /\ keys' = [keys EXCEPT ![s] = @ \cup {k}]
          /\ to' = [to EXCEPT ![s] = Append(@, PostsTo(s))]
          /\ AfterMember(s, keys[s] \cup {k})
    BY DEF ResolveHit
  <1>3. k \in Pair /\ k # NoKey /\ k.pair <= keypair[k.device]
    BY <1>0, FoundIs
  <1>4. /\ M \in Seq(Handle) /\ Len(M) \in Nat /\ i \in Nat
        /\ (Direct(s) => Len(M) = 1 /\ M[1] = job[s].members[1])
    <2>1. i \in Nat
      BY <1>0 DEF RouteTypes
    <2> QED BY <1>0, <2>1, MembersType
  <1>5. job[s].surface # "shell" => /\ i \in DOMAIN M /\ at[s].spelling = 1
                                    /\ PostsTo(s) = M[i] /\ h = M[i]
    BY <1>0, <1>1 DEF OnItsWay, PostsTo, Asked, MembersOf
  <1>6. PostsTo(s) \in Spelling
    <2>1. CASE job[s].surface = "shell"
      BY <2>1, SpellingFacts DEF PostsTo
    <2>2. CASE job[s].surface # "shell"
      <3>1. M[i] \in Handle
        BY <1>4, <1>5, <2>2
      <3> QED BY <1>5, <2>2, <3>1 DEF Handle
    <2> QED BY <2>1, <2>2
  <1>7. /\ UNCHANGED result
        /\ IF more THEN at' = [at EXCEPT ![s] = [member |-> i + 1, spelling |-> 1]] /\ UNCHANGED pc
           ELSE at' = [at EXCEPT ![s] = [member |-> 1, spelling |-> 1]]
                /\ pc' = [pc EXCEPT ![s] = "post"]
    BY <1>2 DEF AfterMember, MoveTo, MembersOf
  <1> HIDE DEF h, M, i, more
  <1>8. RouteTypes' /\ \A q \in Send \ {s} : SameLocals(q)
    <2>1. keys' \in [Send -> SUBSET Pair] /\ \A q \in Send \ {s} : keys'[q] = keys[q]
      BY <1>0, <1>2, <1>3 DEF RouteTypes
    <2>2. to' \in [Send -> Seq(Spelling)] /\ \A q \in Send \ {s} : to'[q] = to[q]
      BY <1>0, <1>2, <1>6 DEF RouteTypes
    <2>3. /\ at' \in [Send -> [member : Nat, spelling : Nat]]
          /\ \A q \in Send \ {s} : at'[q] = at[q]
      <3>1. \E n \in Nat : at' = [at EXCEPT ![s] = [member |-> n, spelling |-> 1]]
        <4>1. CASE more
          <5>1. i + 1 \in Nat
            BY <1>4
          <5> QED BY <1>7, <4>1, <5>1
        <4>2. CASE ~more
          BY <1>7, <4>2
        <4> QED BY <4>1, <4>2
      <3> QED BY <1>0, <3>1 DEF RouteTypes
    <2>4. /\ pc' \in [Send -> {"idle", "lookup", "resolve", "post"}]
          /\ \A q \in Send \ {s} : pc'[q] = pc[q]
      BY <1>0, <1>7 DEF RouteTypes
    <2> QED BY <1>0, <1>1, <1>7, <2>1, <2>2, <2>3, <2>4 DEF RouteTypes, SameLocals
  <1>9. /\ keys'[s] = keys[s] \cup {k} /\ to'[s] = Append(to[s], PostsTo(s))
        /\ pc'[s] = (IF more THEN "resolve" ELSE "post")
        /\ at'[s].member = (IF more THEN i + 1 ELSE 1) /\ at'[s].spelling = 1
    BY <1>0, <1>1, <1>2, <1>7 DEF RouteTypes
  <1>10. Verified(s)'
    <2>1. Direct(s)' <=> Direct(s)
      BY <1>1 DEF Direct
    <2>2. CASE Direct(s)
      <3>1. M[i] = job[s].members[1] /\ ~more
        <4>1. i \in DOMAIN M /\ Len(M) = 1 /\ M[1] = job[s].members[1]
          BY <1>4, <1>5, <2>2 DEF Direct
        <4>2. i = 1
          BY <1>4, <4>1
        <4> QED BY <4>1, <4>2 DEF more
      <3>2. keys[s] = {} /\ (clean[s] /\ steady[s] => k = contact[s])
        BY <1>0, <1>1, <1>5, <2>2, <3>1 DEF Verified, Direct
      <3> QED BY <1>1, <1>9, <2>1, <2>2, <3>1, <3>2 DEF Verified, Unbegun
    <2>3. CASE ~Direct(s)
      BY <1>0, <1>1, <1>9, <2>1, <2>3 DEF Verified, Unbegun
    <2> QED BY <2>2, <2>3
  <1>11. OnItsWay(s)'
    <2>1. MembersOf(s)' = M
      BY <1>1 DEF M, MembersOf
    <2>2. ~Unbegun(s)' /\ ~stored'[s] /\ pc'[s] # "idle" /\ result'[s] = "none"
      BY <1>0, <1>1, <1>7, <1>9 DEF Unbegun, OnItsWay
    <2>3. CASE job[s].surface = "shell"
      BY <1>1, <2>2, <2>3 DEF OnItsWay
    <2>4. CASE job[s].surface # "shell"
      <3>1. /\ Len(to[s]) = i - 1 /\ \A p \in DOMAIN to[s] : to[s][p] = M[p]
            /\ to[s] \in Seq(Spelling) /\ i \in 1 .. Len(M)
        BY <1>0, <1>1, <1>4, <1>5, <2>4 DEF OnItsWay, RouteTypes, i, M
      <3>2. /\ Len(to'[s]) = i /\ to'[s] \in Seq(Spelling)
            /\ \A p \in DOMAIN to'[s] : to'[s][p] = M[p]
        BY <1>5, <1>6, <1>9, <2>4, <3>1
      <3>3. CASE more
        BY <1>1, <1>4, <1>9, <2>1, <2>2, <3>1, <3>2, <3>3 DEF OnItsWay, more
      <3>4. CASE ~more
        <4>1. i = Len(M)
          BY <1>4, <3>1, <3>4 DEF more
        <4>2. to'[s] = M
          BY <1>4, <3>2, <4>1
        <4>3. 1 \in DOMAIN to'[s]
          BY <3>1, <3>2
        <4>4. \A p \in DOMAIN to'[s] : ~(p < 1)
          BY <3>2
        <4> QED BY <1>1, <1>9, <2>1, <2>2, <3>4, <4>2, <4>3, <4>4 DEF OnItsWay
      <3> QED BY <3>3, <3>4
    <2> QED BY <2>3, <2>4
  <1>12. \A x \in keys'[s] : x \in keys[s] \/ x.pair <= keypair[x.device]
    BY <1>3, <1>9
  <1> QED BY <1>1, <1>8, <1>10, <1>11, <1>12, SameDelivery, StepOf

\* The shell server goes on to a spelling, a member, or the posting.
LEMMA ShellGoesOn ==
  ASSUME RouteInv, NEW s \in Send, job[s].surface = "shell", pc[s] = "resolve",
         NEW i \in Nat, NEW k \in Nat, at' = [at EXCEPT ![s] = [member |-> i, spelling |-> k]],
         UNCHANGED pc \/ pc' = [pc EXCEPT ![s] = "post"],
         UNCHANGED <<registered, keypair, job, box, shown, contact, keys, to, stored, result, steady>>,
         \E ok \in BOOLEAN : Noted(s, ok)
  PROVE  RouteInv'
  <1>1. /\ RouteTypes /\ Verified(s) /\ OnItsWay(s)
    BY DEF RouteInv
  <1>2. RouteTypes' /\ \A q \in Send \ {s} : SameLocals(q)
    <2>1. at' \in [Send -> [member : Nat, spelling : Nat]] /\ \A q \in Send \ {s} : at'[q] = at[q]
      BY <1>1 DEF RouteTypes
    <2>2. clean' \in [Send -> BOOLEAN] /\ \A q \in Send \ {s} : clean'[q] = clean[q]
      BY <1>1 DEF RouteTypes, Noted
    <2>3. /\ pc' \in [Send -> {"idle", "lookup", "resolve", "post"}]
          /\ \A q \in Send \ {s} : pc'[q] = pc[q]
      BY <1>1 DEF RouteTypes
    <2> QED BY <1>1, <2>1, <2>2, <2>3 DEF RouteTypes, SameLocals
  <1>3. pc'[s] \in {"resolve", "post"} /\ ~Direct(s)
    BY <1>1 DEF RouteTypes, Direct
  <1>4. Verified(s)'
    BY <1>1, <1>3 DEF Verified, Unbegun, Direct
  <1>5. OnItsWay(s)'
    BY <1>1, <1>3 DEF OnItsWay, Unbegun
  <1> QED BY <1>2, <1>4, <1>5, SameDelivery, StepOf

LEMMA ResolveMissStep ==
  ASSUME RouteInv, NEW s \in Send, ResolveMiss(s)
  PROVE  RouteInv'
  <1> DEFINE A == Asked(s)
             k == NextFresh(A, at[s].spelling)
             i == at[s].member
  <1>1. /\ RouteTypes /\ OnItsWay(s) /\ result[s] = "none" /\ pc[s] = "resolve" /\ MembersOf(s) # <<>>
        /\ UNCHANGED <<registered, keypair, box, shown, contact, keys, to, stored, job, steady>>
    BY DEF RouteInv, OnItsWay, ResolveMiss, MembersOf, directory, delivery
  <1>2. /\ \E ok \in BOOLEAN : Noted(s, ok)
        /\ IF k <= Len(A) THEN MoveTo(s, i, k) /\ UNCHANGED <<pc, result>>
           ELSE IF job[s].surface = "shell" /\ job[s].group
           THEN AfterMember(s, keys[s])
           ELSE Fail(s) /\ UNCHANGED at
    BY DEF ResolveMiss
  <1>3. Len(A) \in {1, 6} /\ (job[s].surface # "shell" => Len(A) = 1)
    BY CandidatesOf DEF Asked
  <1>4. i \in Nat /\ at[s].spelling \in Nat
    BY <1>1 DEF RouteTypes
  <1>5. k \in Nat /\ (k > at[s].spelling \/ k > Len(A))
    <2> HIDE DEF A
    <2> QED BY <1>3, <1>4, NextFreshIs
  <1> HIDE DEF A, k, i
  <1>6. CASE k <= Len(A)
    <2>1. job[s].surface = "shell"
      <3> SUFFICES ASSUME job[s].surface # "shell" PROVE FALSE
        OBVIOUS
      <3>1. at[s].spelling = 1 /\ Len(A) = 1
        BY <1>1, <1>3 DEF OnItsWay
      <3> QED BY <1>5, <1>6, <3>1
    <2>2. at' = [at EXCEPT ![s] = [member |-> i, spelling |-> k]] /\ UNCHANGED <<pc, result>>
      BY <1>2, <1>6 DEF MoveTo
    <2> QED BY <1>1, <1>2, <1>4, <1>5, <2>1, <2>2, ShellGoesOn
  <1>7. CASE ~(k <= Len(A)) /\ job[s].surface = "shell" /\ job[s].group
    <2>1. AfterMember(s, keys[s])
      BY <1>2, <1>7
    <2>2. CASE i < Len(MembersOf(s))
      <3>1. at' = [at EXCEPT ![s] = [member |-> i + 1, spelling |-> 1]] /\ UNCHANGED <<pc, result>>
        BY <2>1, <2>2 DEF AfterMember, MoveTo, MembersOf, i
      <3>2. i + 1 \in Nat
        BY <1>4
      <3> QED BY <1>1, <1>2, <1>7, <3>1, <3>2, ShellGoesOn
    <2>3. CASE ~(i < Len(MembersOf(s)))
      <3>1. /\ at' = [at EXCEPT ![s] = [member |-> 1, spelling |-> 1]]
            /\ IF keys[s] = {} THEN Fail(s)
               ELSE pc' = [pc EXCEPT ![s] = "post"] /\ UNCHANGED result
        BY <2>1, <2>3 DEF AfterMember, MoveTo, MembersOf, i
      <3>2. CASE keys[s] = {}
        BY <1>1, <1>2, <3>1, <3>2, FailStep
      <3>3. CASE keys[s] # {}
        BY <1>1, <1>2, <1>7, <3>1, <3>3, ShellGoesOn
      <3> QED BY <3>2, <3>3
    <2> QED BY <2>2, <2>3
  <1>8. CASE ~(k <= Len(A)) /\ ~(job[s].surface = "shell" /\ job[s].group)
    <2>1. Fail(s) /\ UNCHANGED at
      BY <1>2, <1>8
    <2> QED BY <1>1, <1>2, <2>1, FailStep
  <1> QED BY <1>6, <1>7, <1>8

-----------------------------------------------------------------------------
(* Posting.                                                                  *)

LEMMA UploadReaches ==
  ASSUME RouteTypes, NEW s \in Send, NEW g, Upload(s, g)
  PROVE  /\ box' \in [Device -> SUBSET Send] /\ shown' \in [Device -> SUBSET Send]
         /\ \A q \in Send, d \in Device : Reached(q, d) => Reached(q, d)'
         /\ \A d \in Device : Own[d] \in Fan(g) => Reached(s, d)'
  <1>1. \A d \in Device : Readable(d, {s}) \subseteq {s}
    BY DEF Readable
  <1>2. \A d \in Device : /\ box'[d] = IF Own[d] \in Fan(g) THEN box[d] \cup {s} ELSE box[d]
                          /\ shown'[d] \in {shown[d], shown[d] \cup Readable(d, {s})}
    BY DEF Upload
  <1>3. box' = [d \in Device |-> box'[d]] /\ shown' = [d \in Device |-> shown'[d]]
    BY DEF Upload
  <1>4. box \in [Device -> SUBSET Send] /\ shown \in [Device -> SUBSET Send]
    BY DEF RouteTypes
  <1>5. \A d \in Device : /\ box'[d] \subseteq Send /\ shown'[d] \subseteq Send
                          /\ box[d] \subseteq box'[d] /\ shown[d] \subseteq shown'[d]
    <2> SUFFICES ASSUME NEW d \in Device
                 PROVE  /\ box'[d] \subseteq Send /\ shown'[d] \subseteq Send
                        /\ box[d] \subseteq box'[d] /\ shown[d] \subseteq shown'[d]
      OBVIOUS
    <2>1. box[d] \subseteq Send /\ shown[d] \subseteq Send
      BY <1>4
    <2>2. box'[d] \in {box[d], box[d] \cup {s}}
      BY <1>2
    <2>3. shown'[d] \subseteq shown[d] \cup {s} /\ shown[d] \subseteq shown'[d]
      BY <1>1, <1>2
    <2> QED BY <2>1, <2>2, <2>3
  <1>6. box' \in [Device -> SUBSET Send] /\ shown' \in [Device -> SUBSET Send]
    BY <1>3, <1>5
  <1> QED BY <1>2, <1>5, <1>6 DEF Reached

\* One request of s was sent, and its answer was ok; e says whether no failure was
\* noted, and then it went through.
LEMMA PostStep ==
  ASSUME RouteInv, NEW s \in Send, pc[s] = "post",
         NEW ok \in BOOLEAN, NEW e \in BOOLEAN, Posted(s, ok),
         UNCHANGED <<registered, keypair, contact, keys, to, job, steady>>,
         box' \in [Device -> SUBSET Send], shown' \in [Device -> SUBSET Send],
         \A q \in Send, d \in Device : Reached(q, d) => Reached(q, d)',
         clean' = [clean EXCEPT ![s] = @ /\ e],
         e => ok, ok => e \/ stored[s],
         e => \A d \in Device :
                 Own[d] \in Fan(Variants(to[s][at[s].member])[Due(s)])
                 => Reached(s, d)'
  PROVE  RouteInv'
  <1> PICK i : i = at[s].member
    OBVIOUS
  <1> PICK n : n = at[s].spelling
    OBVIOUS
  <1> PICK h : h = to[s][i]
    OBVIOUS
  <1> PICK v : v = Variants(h)
    OBVIOUS
  <1> PICK M : M = MembersOf(s)
    OBVIOUS
  <1> PICK u : u = Due(s)
    OBVIOUS
  <1> PICK k : k = NextRequest(v, u)
    OBVIOUS
  <1> PICK z : z = Len(to[s])
    OBVIOUS
  <1> DEFINE more == k <= Len(v)
             last == i = z
  <1>1. RouteTypes /\ Verified(s) /\ OnItsWay(s) /\ result[s] = "none"
    BY DEF RouteInv, OnItsWay
  <1>2. i \in Nat /\ n \in Nat /\ Len(v) = 5 /\ v[1] = h
    <2>1. i \in Nat /\ n \in Nat
      BY <1>1 DEF RouteTypes
    <2>2. Len(v) = 5 /\ v[1] = h
      BY DEF Variants
    <2> QED BY <2>1, <2>2
  <1>3. u \in Nat /\ u = IF v[n] = NoSpelling THEN NextRequest(v, n) ELSE n
    <2>1. u = IF v[n] = NoSpelling THEN NextRequest(v, n) ELSE n
      BY DEF Due
    <2>2. Len(v) \in Nat
      BY <1>2
    <2>3. NextRequest(v, n) \in Nat
      BY <1>2, <2>2, NextRequestIs
    <2> QED BY <1>2, <2>1, <2>3
  <1>4. k \in Nat /\ (more => k > u /\ k <= 5 /\ v[k] # NoSpelling)
    <2>1. Len(v) \in Nat
      BY <1>2
    <2> QED BY <1>2, <1>3, <2>1, NextRequestIs
  <1>5. /\ stored' = [stored EXCEPT ![s] = more /\ ok]
        /\ CASE more -> MoveTo(s, i, k) /\ UNCHANGED <<pc, result>>
             [] ~more /\ ~ok -> Fail(s) /\ UNCHANGED at
             [] ~more /\ ok /\ ~last ->
                  MoveTo(s, i + 1, 1) /\ UNCHANGED <<pc, result>>
             [] OTHER -> /\ pc' = [pc EXCEPT ![s] = "idle"]
                         /\ result' = [result EXCEPT ![s] = "sent"]
                         /\ UNCHANGED at
    BY DEF Posted
  <1>6. more \in BOOLEAN /\ last \in BOOLEAN /\ (last => i = Len(to[s])) /\ (~last => i # Len(to[s]))
    OBVIOUS
  <1> HIDE DEF more, last
  <1>7. \/ /\ more /\ at' = [at EXCEPT ![s] = [member |-> i, spelling |-> k]]
           /\ UNCHANGED <<pc, result>>
        \/ /\ ~more /\ ~ok /\ UNCHANGED at
           /\ pc' = [pc EXCEPT ![s] = "idle"] /\ result' = [result EXCEPT ![s] = "failed"]
        \/ /\ ~more /\ ok /\ ~last /\ at' = [at EXCEPT ![s] = [member |-> i + 1, spelling |-> 1]]
           /\ UNCHANGED <<pc, result>>
        \/ /\ ~more /\ ok /\ last /\ UNCHANGED at
           /\ pc' = [pc EXCEPT ![s] = "idle"] /\ result' = [result EXCEPT ![s] = "sent"]
    BY <1>5, <1>6 DEF MoveTo, Fail
  <1>8. RouteTypes' /\ \A q \in Send \ {s} : SameLocals(q)
    <2>1. /\ at' \in [Send -> [member : Nat, spelling : Nat]]
          /\ \A q \in Send \ {s} : at'[q] = at[q]
      <3>1. at \in [Send -> [member : Nat, spelling : Nat]]
        BY <1>1 DEF RouteTypes
      <3>2. CASE UNCHANGED at
        BY <3>1, <3>2
      <3>3. ASSUME NEW m \in Nat, NEW l \in Nat, at' = [at EXCEPT ![s] = [member |-> m, spelling |-> l]]
            PROVE  /\ at' \in [Send -> [member : Nat, spelling : Nat]]
                   /\ \A q \in Send \ {s} : at'[q] = at[q]
        BY <3>1, <3>3
      <3>4. i + 1 \in Nat
        BY <1>2
      <3> QED BY <1>2, <1>4, <1>7, <3>2, <3>3, <3>4
    <2>2. /\ stored' \in [Send -> BOOLEAN] /\ \A q \in Send \ {s} : stored'[q] = stored[q]
          /\ clean' \in [Send -> BOOLEAN] /\ \A q \in Send \ {s} : clean'[q] = clean[q]
      BY <1>1, <1>5, <1>6 DEF RouteTypes
    <2>3. /\ pc' \in [Send -> {"idle", "lookup", "resolve", "post"}]
          /\ \A q \in Send \ {s} : pc'[q] = pc[q]
      <3>1. UNCHANGED pc \/ pc' = [pc EXCEPT ![s] = "idle"]
        BY <1>7
      <3>2. pc \in [Send -> {"idle", "lookup", "resolve", "post"}]
        BY <1>1 DEF RouteTypes
      <3> QED BY <3>1, <3>2
    <2>4. /\ result' \in [Send -> {"none", "failed", "sent"}]
          /\ \A q \in Send \ {s} : result'[q] = result[q]
      <3>1. \/ UNCHANGED result
            \/ \E r \in {"failed", "sent"} : result' = [result EXCEPT ![s] = r]
        BY <1>7
      <3>2. result \in [Send -> {"none", "failed", "sent"}]
        BY <1>1 DEF RouteTypes
      <3> QED BY <3>1, <3>2
    <2> QED BY <1>1, <2>1, <2>2, <2>3, <2>4 DEF RouteTypes, SameLocals
  <1>9. /\ (clean'[s] => clean[s] /\ e) /\ (stored'[s] <=> more /\ ok)
        /\ \/ more /\ pc'[s] = "post" /\ result'[s] = "none"
              /\ at'[s] = [member |-> i, spelling |-> k]
           \/ ~more /\ ~ok /\ pc'[s] = "idle" /\ result'[s] = "failed"
           \/ ~more /\ ok /\ ~last /\ pc'[s] = "post" /\ result'[s] = "none"
              /\ at'[s] = [member |-> i + 1, spelling |-> 1]
           \/ ~more /\ ok /\ last /\ pc'[s] = "idle" /\ result'[s] = "sent"
    <2>1. (clean'[s] => clean[s] /\ e) /\ (stored'[s] <=> more /\ ok)
      BY <1>1, <1>5, <1>6 DEF RouteTypes
    <2> QED BY <1>1, <1>7, <2>1 DEF RouteTypes
  <1>10. Verified(s)'
    <2>1. \A g : Found(g)' = Found(g)
      BY DEF Found
    <2>2. pc'[s] \in {"post", "idle"} /\ ~Unbegun(s)'
      BY <1>9 DEF Unbegun
    <2> QED BY <1>1, <1>9, <2>1, <2>2 DEF Verified, Direct
  <1>11. OnItsWay(s)'
    <2>1. ~Unbegun(s)' /\ pc'[s] # "resolve" /\ (pc'[s] # "idle" => result'[s] = "none")
      BY <1>9 DEF Unbegun
    <2>2. CASE job[s].surface = "shell"
      BY <2>1, <2>2 DEF OnItsWay
    <2>3. CASE job[s].surface # "shell"
      <3>1. /\ to[s] = M /\ i \in DOMAIN M /\ n \in 1 .. 5
            /\ n = 1 \/ v[n] # NoSpelling
        BY <1>1, <2>3 DEF OnItsWay
      <3>2. M \in Seq(Handle) /\ DOMAIN M = 1 .. Len(M) /\ Len(M) \in Nat
        <4>1. M \in Seq(Handle)
          BY <1>1, MembersType
        <4> QED BY <4>1
      <3>3. h \in Handle /\ h \in Spelling /\ h # NoSpelling
        BY <3>1, <3>2 DEF Handle
      <3>4. u = n
        BY <1>2, <1>3, <3>1, <3>3
      <3>5. \A d \in Device : \A g : Awaits(d, s, g)' <=> Awaits(d, s, g)
        BY DEF Awaits, KeyOf
      <3>6. ASSUME NEW d \in Device, Awaits(d, s, h), clean'[s] \/ (ok /\ InEveryFan(h))
            PROVE  Reached(s, d)'
        <4>1. CASE clean'[s] /\ n = 1
          <5>1. Own[d] \in Fan(v[n])
            BY <1>2, <3>6, <4>1, FirstOfFan DEF Awaits
          <5> QED BY <1>9, <3>4, <4>1, <5>1
        <4>2. CASE clean'[s] /\ n # 1
          <5>1. Reached(s, d)
            BY <1>1, <1>9, <2>3, <3>1, <3>6, <4>2 DEF OnItsWay
          <5> QED BY <5>1
        <4>3. CASE ok /\ InEveryFan(h) /\ e
          <5>1. Own[d] \in Fan(v[n])
            BY <3>1, <3>3, <3>6, <4>3, InEachFan DEF Awaits
          <5> QED BY <3>4, <4>3, <5>1
        <4>4. CASE ok /\ InEveryFan(h) /\ stored[s]
          <5>1. Reached(s, d)
            BY <1>1, <2>3, <3>1, <3>6, <4>4 DEF OnItsWay
          <5> QED BY <5>1
        <4> QED BY <3>6, <4>1, <4>2, <4>3, <4>4
      <3>7. ASSUME NEW d \in Device, NEW p \in DOMAIN M, p < i, Awaits(d, s, M[p]),
                   clean'[s] \/ InEveryFan(M[p])
            PROVE  Reached(s, d)'
        <4>1. Sure(s, M[p])
          BY <1>9, <3>7 DEF Sure
        <4>2. Reached(s, d)
          BY <1>1, <2>3, <3>1, <3>7, <4>1 DEF OnItsWay
        <4> QED BY <4>2
      <3>8. MembersOf(s)' = M /\ to'[s] = M
        BY <3>1 DEF MembersOf
      <3>9. CASE more /\ pc'[s] = "post" /\ at'[s] = [member |-> i, spelling |-> k]
        <4>1. at'[s].member = i /\ at'[s].spelling = k /\ k \in 1 .. 5 /\ v[k] # NoSpelling
          <5>1. k > n /\ k <= 5 /\ n \in 1 .. 5
            BY <1>4, <3>1, <3>4, <3>9
          <5> QED BY <1>4, <3>9, <5>1
        <4>2. ASSUME NEW d \in Device, NEW p \in DOMAIN M, Awaits(d, s, M[p]),
                     \/ p < i /\ (clean'[s] \/ InEveryFan(M[p]))
                     \/ p = i /\ clean'[s]
                     \/ p = i /\ stored'[s] /\ InEveryFan(M[p])
              PROVE  Reached(s, d)'
          BY <1>9, <3>1, <3>6, <3>7, <4>2
        <4>3. result'[s] = "none"
          BY <1>9, <3>9
        <4>4. Variants(to'[s][at'[s].member])[at'[s].spelling] # NoSpelling
          BY <3>1, <3>8, <4>1
        <4>5. \A d \in Device : \A p \in DOMAIN to'[s] :
                 /\ Awaits(d, s, to'[s][p])
                 /\ \/ p < at'[s].member /\ (clean'[s] \/ InEveryFan(to'[s][p]))
                    \/ p = at'[s].member /\ at'[s].spelling # 1 /\ clean'[s]
                    \/ p = at'[s].member /\ stored'[s] /\ InEveryFan(to'[s][p])
                 => Reached(s, d)'
          BY <3>8, <4>1, <4>2
        <4>6. at'[s].member \in DOMAIN to'[s] /\ at'[s].spelling \in 1 .. 5 /\ to'[s] = MembersOf(s)'
          BY <3>1, <3>8, <4>1
        <4> QED BY <2>1, <3>5, <3>9, <4>3, <4>4, <4>5, <4>6 DEF OnItsWay, Sure
      <3>10. CASE ok /\ ~more /\ ~last /\ pc'[s] = "post" /\ at'[s] = [member |-> i + 1, spelling |-> 1]
        <4>1. at'[s].member = i + 1 /\ at'[s].spelling = 1 /\ i + 1 \in DOMAIN M
          <5>1. i # Len(M)
            BY <1>6, <3>1, <3>10
          <5>2. i + 1 \in 1 .. Len(M)
            BY <1>2, <3>1, <3>2, <5>1
          <5> QED BY <3>2, <3>10, <5>2 
        <4>2. ASSUME NEW d \in Device, NEW p \in DOMAIN M, Awaits(d, s, M[p]),
                     p < i + 1, clean'[s] \/ InEveryFan(M[p])
              PROVE  Reached(s, d)'
          <5>1. p < i \/ p = i
            BY <1>2, <3>2, <4>2
          <5> QED BY <3>1, <3>6, <3>7, <3>10, <4>2, <5>1
        <4>3. result'[s] = "none" /\ ~stored'[s]
          BY <1>9, <3>10
        <4> QED BY <2>1, <3>5, <3>8, <3>10, <4>1, <4>2, <4>3 DEF OnItsWay, Sure
      <3>11. CASE ok /\ last /\ pc'[s] = "idle"
        <4>1. ASSUME NEW d \in Device, NEW p \in DOMAIN M, Awaits(d, s, M[p]),
                     clean'[s] \/ InEveryFan(M[p])
              PROVE  Reached(s, d)'
          <5>1. p < i \/ p = i
            <6>1. i = Len(M)
              BY <1>6, <3>1, <3>11
            <6> QED BY <1>2, <3>2, <6>1
          <5> QED BY <3>1, <3>6, <3>7, <3>11, <4>1, <5>1
        <4> QED BY <2>1, <3>5, <3>8, <3>11, <4>1 DEF OnItsWay, Sure
      <3>12. CASE pc'[s] = "idle" /\ result'[s] = "failed"
        BY <2>1, <3>12 DEF OnItsWay
      <3> QED BY <1>9, <3>9, <3>10, <3>11, <3>12
    <2> QED BY <2>2, <2>3
  <1> QED BY <1>8, <1>10, <1>11, StepOf

LEMMA PostStoredStep ==
  ASSUME RouteInv, NEW s \in Send, PostStored(s)
  PROVE  RouteInv'
  <1> DEFINE g == Variants(to[s][at[s].member])[Due(s)]
  <1>1. /\ pc[s] = "post" /\ Upload(s, g) /\ Posted(s, TRUE)
        /\ UNCHANGED <<registered, keypair, contact, keys, to, job, clean, steady>>
    BY DEF PostStored, Posting, directory, history
  <1>2. RouteTypes
    BY DEF RouteInv
  <1>3. clean' = [clean EXCEPT ![s] = @ /\ TRUE]
    BY <1>1, <1>2 DEF RouteTypes
  <1> QED BY <1>1, <1>2, <1>3, UploadReaches, PostStep

LEMMA PostFailsStep ==
  ASSUME RouteInv, NEW s \in Send, PostFails(s)
  PROVE  RouteInv'
  <1> DEFINE g == Variants(to[s][at[s].member])[Due(s)]
  <1>1. /\ pc[s] = "post" /\ Posted(s, stored[s])
        /\ Upload(s, g) \/ UNCHANGED <<box, shown>>
        /\ clean' = [clean EXCEPT ![s] = @ /\ FALSE]
        /\ UNCHANGED <<registered, keypair, contact, keys, to, job, steady>>
    BY DEF PostFails, Posting, Noted, directory
  <1>2. RouteTypes /\ stored[s] \in BOOLEAN
    BY DEF RouteInv, RouteTypes
  <1>3. /\ box' \in [Device -> SUBSET Send] /\ shown' \in [Device -> SUBSET Send]
        /\ \A q \in Send, d \in Device : Reached(q, d) => Reached(q, d)'
    <2>1. CASE Upload(s, g)
      BY <1>2, <2>1, UploadReaches
    <2>2. CASE UNCHANGED <<box, shown>>
      BY <1>2, <2>2, SameDelivery DEF RouteTypes
    <2> QED BY <1>1, <2>1, <2>2
  <1> QED BY <1>1, <1>2, <1>3, PostStep

\* Only the shell server has members to pass over.
LEMMA PassOverStep ==
  ASSUME RouteInv, NEW s \in Send, PassOver(s)
  PROVE  RouteInv'
  <1> DEFINE i == at[s].member
  <1>1. /\ RouteTypes /\ Verified(s) /\ OnItsWay(s) /\ pc[s] = "post" /\ result[s] = "none"
        /\ to[s][i] = NoSpelling
        /\ \/ at' = [at EXCEPT ![s] = [member |-> i + 1, spelling |-> 1]] /\ UNCHANGED <<pc, result>>
           \/ /\ UNCHANGED at /\ pc' = [pc EXCEPT ![s] = "idle"]
              /\ result' = [result EXCEPT ![s] = "sent"]
        /\ UNCHANGED <<registered, keypair, box, shown, contact, keys, to, stored, job, clean, steady>>
    BY DEF RouteInv, OnItsWay, PassOver, MoveTo, directory,
       delivery, history
  <1>2. job[s].surface = "shell"
    <2> SUFFICES ASSUME job[s].surface # "shell" PROVE FALSE
      OBVIOUS
    <2>1. to[s] = MembersOf(s) /\ i \in DOMAIN MembersOf(s) /\ MembersOf(s) \in Seq(Handle)
      BY <1>1, MembersType DEF OnItsWay
    <2>2. to[s][i] \in Handle
      BY <2>1
    <2> QED BY <1>1, <2>2 DEF Handle
  <1>3. RouteTypes' /\ \A q \in Send \ {s} : SameLocals(q)
    <2>1. i + 1 \in Nat
      BY <1>1 DEF RouteTypes
    <2>2. /\ at' \in [Send -> [member : Nat, spelling : Nat]]
          /\ \A q \in Send \ {s} : at'[q] = at[q]
      <3>1. at \in [Send -> [member : Nat, spelling : Nat]]
        BY <1>1 DEF RouteTypes
      <3>2. ASSUME NEW m \in Nat, at' = [at EXCEPT ![s] = [member |-> m, spelling |-> 1]]
            PROVE  /\ at' \in [Send -> [member : Nat, spelling : Nat]]
                   /\ \A q \in Send \ {s} : at'[q] = at[q]
        BY <3>1, <3>2
      <3>3. CASE UNCHANGED at
        BY <3>1, <3>3
      <3> QED BY <1>1, <2>1, <3>2, <3>3
    <2>3. /\ pc' \in [Send -> {"idle", "lookup", "resolve", "post"}]
          /\ result' \in [Send -> {"none", "failed", "sent"}]
          /\ \A q \in Send \ {s} : pc'[q] = pc[q] /\ result'[q] = result[q]
      <3>1. /\ pc \in [Send -> {"idle", "lookup", "resolve", "post"}]
            /\ result \in [Send -> {"none", "failed", "sent"}]
        BY <1>1 DEF RouteTypes
      <3>2. CASE UNCHANGED <<pc, result>>
        BY <3>1, <3>2
      <3>3. CASE pc' = [pc EXCEPT ![s] = "idle"] /\ result' = [result EXCEPT ![s] = "sent"]
        BY <3>1, <3>3
      <3> QED BY <1>1, <3>2, <3>3
    <2> QED BY <1>1, <2>2, <2>3 DEF RouteTypes, SameLocals
  <1>4. \/ pc'[s] = "post" /\ result'[s] = "none"
        \/ pc'[s] = "idle" /\ result'[s] = "sent"
    BY <1>1 DEF RouteTypes
  <1>5. Verified(s)'
    <2>1. ~Direct(s)
      BY <1>2 DEF Direct
    <2> QED BY <1>1, <1>4, <2>1 DEF Verified, Unbegun, Direct
  <1>6. OnItsWay(s)'
    BY <1>1, <1>2, <1>4 DEF OnItsWay, Unbegun
  <1> QED BY <1>1, <1>3, <1>5, <1>6, SameDelivery, StepOf

-----------------------------------------------------------------------------
(* The directory and the streams.                                            *)

\* What these do to every send.
LEMMA AroundSends ==
  ASSUME RouteInv, RouteTypes', NoKeyOfTomorrow',
         UNCHANGED <<pc, at, contact, keys, to, stored, result, job, clean>>,
         \A q \in Send : steady'[q] => /\ steady[q]
                                       /\ \/ pc[q] = "idle"
                                          \/ \A h \in Range(MembersOf(q)) :
                                                Found(h)' = Found(h),
         \A q \in Send, d \in Device :
            KeyOf(d)' \in keys[q] => /\ KeyOf(d) \in keys[q]
                                     /\ Reached(q, d) => Reached(q, d)'
  PROVE  RouteInv'
  <1> SUFFICES ASSUME NEW q \in Send PROVE Verified(q)' /\ OnItsWay(q)'
    BY DEF RouteInv
  <1>1. RouteTypes /\ Verified(q) /\ OnItsWay(q)
    BY DEF RouteInv
  <1>2. MembersOf(q)' = MembersOf(q) /\ (Direct(q)' <=> Direct(q)) /\ (Unbegun(q)' <=> Unbegun(q))
    BY DEF MembersOf, Members, Direct, Unbegun
  <1>3. Direct(q) /\ steady'[q] /\ pc[q] # "idle"
        => Found(job[q].members[1])' = Found(job[q].members[1])
    <2> SUFFICES ASSUME Direct(q), steady'[q], pc[q] # "idle"
                 PROVE  Found(job[q].members[1])' = Found(job[q].members[1])
      OBVIOUS
    <2>1. Len(MembersOf(q)) = 1 /\ MembersOf(q)[1] = job[q].members[1] /\ MembersOf(q) \in Seq(Handle)
      BY <1>1, MembersType
    <2>2. job[q].members[1] \in Range(MembersOf(q))
      BY <2>1 DEF Range
    <2> QED BY <2>2
  <1>4. Verified(q)'
    BY <1>1, <1>2, <1>3 DEF Verified
  <1>5. \A d \in Device : \A h : Awaits(d, q, h)'
           => Awaits(d, q, h) /\ (Reached(q, d) => Reached(q, d)')
    BY DEF Awaits
  <1>6. \A h : Sure(q, h)' <=> Sure(q, h)
    BY DEF Sure
  <1>7. OnItsWay(q)'
    BY <1>1, <1>2, <1>5, <1>6 DEF OnItsWay
  <1> QED BY <1>4, <1>7

\* A device that moves unsettles the sends to its handle only.
LEMMA MovedOnly ==
  ASSUME RouteTypes, NEW d \in Device, Moved(d), UNCHANGED <<pc, job>>,
         \A e \in Device \ {d} : registered'[e] = registered[e]
  PROVE  /\ steady' \in [Send -> BOOLEAN]
         /\ \A q \in Send : steady'[q] => /\ steady[q]
                                          /\ \/ pc[q] = "idle"
                                             \/ \A h \in Range(MembersOf(q)) :
                                                   Found(h)' = Found(h)
  <1>1. \A h : h # Own[d] => Found(h)' = Found(h)
    <2> SUFFICES ASSUME NEW h, h # Own[d] PROVE Found(h)' = Found(h)
      OBVIOUS
    <2>1. {e \in Device : Own[e] = h /\ registered'[e] # 0}
            = {e \in Device : Own[e] = h /\ registered[e] # 0}
      OBVIOUS
    <2>2. \A e \in {x \in Device : Own[x] = h /\ registered[x] # 0} : registered'[e] = registered[e]
      OBVIOUS
    <2> QED BY <2>1, <2>2 DEF Found
  <1>2. steady' = [s \in Send |-> steady[s] /\ (pc[s] = "idle" \/
                                    Own[d] \notin Range(MembersOf(s)))]
    BY DEF Moved, MembersOf
  <1>3. steady \in [Send -> BOOLEAN]
    BY DEF RouteTypes
  <1>4. steady' \in [Send -> BOOLEAN]
    BY <1>2
  <1>5. ASSUME NEW q \in Send, steady'[q]
        PROVE  steady[q] /\ (pc[q] = "idle" \/ Own[d] \notin Range(MembersOf(q)))
    BY <1>2, <1>3, <1>5
  <1> QED BY <1>1, <1>4, <1>5

LEMMA RegisterStep ==
  ASSUME RouteInv, NEW d \in Device, Register(d)
  PROVE  RouteInv'
  <1>1. /\ RouteTypes /\ NoKeyOfTomorrow /\ Moved(d)
        /\ registered' = [registered EXCEPT ![d] = keypair[d]]
        /\ UNCHANGED <<keypair, box, shown, pc, at, contact, keys, to, stored, result, job, clean>>
    BY DEF RouteInv, Register, delivery, locals
  <1>2. registered' \in [Device -> Nat] /\ registered'[d] = keypair[d]
        /\ \A e \in Device \ {d} : registered'[e] = registered[e]
    BY <1>1 DEF RouteTypes
  <1>3. RouteTypes'
    BY <1>1, <1>2, MovedOnly DEF RouteTypes
  <1>4. NoKeyOfTomorrow'
    <2>1. keypair[d] \in Nat
      BY <1>1 DEF RouteTypes
    <2>2. keypair[d] <= keypair[d]
      BY <2>1
    <2> QED BY <1>1, <1>2, <2>2 DEF NoKeyOfTomorrow
  <1>5. \A e \in Device : KeyOf(e)' = KeyOf(e)
    BY <1>1 DEF KeyOf
  <1> QED BY <1>1, <1>2, <1>3, <1>4, <1>5, MovedOnly, SameDelivery, AroundSends

\* Nobody has encrypted to a key of the next account.
LEMMA DeleteMovesStep ==
  ASSUME RouteInv, NEW d \in Device, DeleteKey(d)
  PROVE  RouteInv'
  <1>1. /\ RouteTypes /\ NoKeyOfTomorrow /\ Moved(d)
        /\ registered' = [registered EXCEPT ![d] = 0]
        /\ keypair' = [keypair EXCEPT ![d] = @ + 1]
        /\ UNCHANGED <<box, shown, pc, at, contact, keys, to, stored, result, job, clean>>
    BY DEF RouteInv, DeleteKey, locals
  <1>2. /\ registered' \in [Device -> Nat] /\ registered'[d] = 0
        /\ \A e \in Device \ {d} : registered'[e] = registered[e]
    BY <1>1 DEF RouteTypes
  <1>3. /\ keypair' \in [Device -> Nat] /\ keypair[d] \in Nat /\ keypair'[d] = keypair[d] + 1
        /\ \A e \in Device \ {d} : keypair'[e] = keypair[e]
    BY <1>1 DEF RouteTypes
  <1>4. RouteTypes'
    BY <1>1, <1>2, <1>3, MovedOnly DEF RouteTypes
  <1>5. NoKeyOfTomorrow'
    <2>1. \A e \in Device : keypair[e] \in Nat /\ keypair[e] <= keypair'[e]
      BY <1>1, <1>3 DEF RouteTypes
    <2>2. \A e \in Device : registered'[e] <= keypair'[e]
      BY <1>1, <1>2, <1>3 DEF NoKeyOfTomorrow, RouteTypes
    <2>3. ASSUME NEW s \in Send, NEW k \in keys'[s] PROVE k.pair <= keypair'[k.device]
      <3>1. k \in Pair /\ k.pair <= keypair[k.device]
        BY <1>1, <2>3 DEF NoKeyOfTomorrow, RouteTypes
      <3>2. k.device \in Device /\ k.pair \in Nat
        BY <3>1 DEF Pair
      <3>3. keypair[k.device] \in Nat /\ keypair'[k.device] \in Nat
            /\ keypair[k.device] <= keypair'[k.device]
        BY <1>3, <2>1, <3>2
      <3> QED BY <3>1, <3>2, <3>3
    <2> QED BY <2>2, <2>3 DEF NoKeyOfTomorrow
  <1>6. ASSUME NEW q \in Send, NEW e \in Device, KeyOf(e)' \in keys[q]
        PROVE  KeyOf(e) \in keys[q]
    <2>1. CASE e = d
      <3>1. KeyOf(e)'.pair = keypair[d] + 1 /\ KeyOf(e)'.device = d
        BY <1>3, <2>1 DEF KeyOf
      <3>2. keypair[d] + 1 <= keypair[d]
        BY <1>1, <1>6, <3>1 DEF NoKeyOfTomorrow
      <3> QED BY <1>3, <3>2
    <2>2. CASE e # d
      BY <1>3, <1>6, <2>2 DEF KeyOf
    <2> QED BY <2>1, <2>2
  <1> QED BY <1>1, <1>2, <1>4, <1>5, <1>6, MovedOnly, SameDelivery, AroundSends

\* What a stream begins with is shown, if the device can read it.
LEMMA StreamFlushStep ==
  ASSUME RouteInv, NEW d \in Device, StreamFlush(d)
  PROVE  RouteInv'
  <1>1. /\ RouteTypes /\ NoKeyOfTomorrow
        /\ shown' = [shown EXCEPT ![d] = @ \cup Readable(d, box[d])]
        /\ box' = [box EXCEPT ![d] = {}]
        /\ UNCHANGED <<registered, keypair, pc, at, contact, keys, to, stored, result, job,
                       clean, steady>>
    BY DEF RouteInv, StreamFlush, directory, locals, history
  <1>2. /\ shown'[d] = shown[d] \cup Readable(d, box[d]) /\ box'[d] = {}
        /\ \A e \in Device \ {d} : shown'[e] = shown[e] /\ box'[e] = box[e]
    BY <1>1 DEF RouteTypes
  <1>3. Readable(d, box[d]) \subseteq Send
    BY <1>1 DEF Readable, RouteTypes
  <1>4. RouteTypes'
    <2>1. box' \in [Device -> SUBSET Send] /\ shown' \in [Device -> SUBSET Send]
      BY <1>1, <1>3 DEF RouteTypes
    <2> QED BY <1>1, <2>1 DEF RouteTypes
  <1>5. NoKeyOfTomorrow' /\ (\A e \in Device : KeyOf(e)' = KeyOf(e))
        /\ \A h : Found(h)' = Found(h)
    BY <1>1 DEF NoKeyOfTomorrow, KeyOf, Found
  <1>6. ASSUME NEW q \in Send, NEW e \in Device, KeyOf(e) \in keys[q], Reached(q, e)
        PROVE  Reached(q, e)'
    <2>1. q \in box[e] \/ q \in shown[e]
      BY <1>6 DEF Reached
    <2>2. CASE e = d
      BY <1>2, <1>6, <2>1, <2>2 DEF Reached, Readable
    <2>3. CASE e # d
      BY <1>2, <2>1, <2>3 DEF Reached
    <2> QED BY <2>2, <2>3
  <1> QED BY <1>1, <1>4, <1>5, <1>6, AroundSends

\* The stream's own state is nothing the promises are about.
LEMMA StreamStep ==
  ASSUME RouteInv,
         UNCHANGED <<registered, keypair, box, shown, pc, at, contact, keys, to, stored, result,
                     job, clean, steady>>
  PROVE  RouteInv'
  <1>1. RouteTypes' /\ NoKeyOfTomorrow' /\ \A d \in Device : KeyOf(d)' = KeyOf(d)
    BY DEF RouteInv, RouteTypes, NoKeyOfTomorrow, KeyOf
  <1>2. \A h : Found(h)' = Found(h)
    BY DEF Found
  <1> QED BY <1>1, <1>2, SameDelivery, AroundSends

-----------------------------------------------------------------------------
(* Both promises.                                                            *)

LEMMA InitRouteInv ==
  ASSUME RouteInit
  PROVE  RouteInv
  <1>1. RouteTypes
    <2>1. <<>> \in Seq(Spelling)
      OBVIOUS
    <2> QED BY <2>1 DEF RouteInit, RouteTypes
  <1>2. NoKeyOfTomorrow
    BY DEF RouteInit, NoKeyOfTomorrow
  <1>3. \A s \in Send : Verified(s) /\ OnItsWay(s)
    BY DEF RouteInit, Verified, OnItsWay
  <1> QED BY <1>1, <1>2, <1>3 DEF RouteInv

LEMMA NextRouteInv ==
  ASSUME RouteInv, [RouteNext]_routeVars
  PROVE  RouteInv'
  <1>1. CASE UNCHANGED routeVars
    BY <1>1, StreamStep DEF routeVars, directory, delivery, locals,
       history
  <1>2. ASSUME NEW d \in Device, Receiving(d) PROVE RouteInv'
    <2>1. CASE Register(d)
      BY <2>1, RegisterStep
    <2>2. CASE DeleteKey(d)
      BY <2>2, DeleteMovesStep
    <2>3. CASE StreamFlush(d)
      BY <2>3, StreamFlushStep
    <2>4. CASE Subscribe(d) \/ StreamEnds(d)
      BY <2>4, StreamStep DEF Subscribe, StreamEnds, directory,
         locals, history
    <2> QED BY <1>2, <2>1, <2>2, <2>3, <2>4 DEF Receiving
  <1>3. ASSUME NEW s \in Send, Sending(s) PROVE RouteInv'
    <2>1. CASE Begin(s)
      BY <2>1, BeginStep
    <2>2. CASE LookupHit(s)
      BY <2>2, LookupHitStep
    <2>3. CASE LookupMiss(s)
      BY <2>3, LookupMissStep
    <2>4. CASE NoRecipient(s)
      BY <2>4, NoRecipientStep
    <2>5. CASE ResolveHit(s)
      BY <2>5, ResolveHitStep
    <2>6. CASE ResolveMiss(s)
      BY <2>6, ResolveMissStep
    <2>7. CASE PostStored(s)
      BY <2>7, PostStoredStep
    <2>8. CASE PostFails(s)
      BY <2>8, PostFailsStep
    <2>9. CASE PassOver(s)
      BY <2>9, PassOverStep
    <2> QED BY <1>3, <2>1, <2>2, <2>3, <2>4, <2>5, <2>6, <2>7, <2>8, <2>9 DEF Sending
  <1> QED BY <1>1, <1>2, <1>3 DEF RouteNext

LEMMA SpecRouteInv ==
  RouteSpec => []RouteInv
  <1>1. RouteInit => RouteInv
    BY InitRouteInv
  <1>2. RouteInv /\ [RouteNext]_routeVars => RouteInv'
    BY NextRouteInv
  <1> QED BY <1>1, <1>2, PTL DEF RouteSpec

\* The key the web page shows for a contact is the one its message is then encrypted
\* to, whichever spellings the lookup had to try first, unless a request failed or
\* the contact registered anew in between.
THEOREM VerifiedKeyIsUsed ==
  RouteSpec => []VerifiedIsUsed
  <1>1. RouteInv => VerifiedIsUsed
    BY DEF RouteInv, Verified, VerifiedIsUsed
  <1> QED BY <1>1, SpecRouteInv, PTL

\* What the web daemon and the chat session report as sent is queued for, or was
\* shown by, every recipient, whatever spelling of the handle was typed.
THEOREM SentReachesQueue ==
  RouteSpec => []SentIsQueued
  <1>1. RouteInv => SentIsQueued
    <2> SUFFICES ASSUME RouteInv, NEW s \in Send, result[s] = "sent", job[s].surface # "shell",
                        NEW d \in Recipients(s),
                        clean[s] \/ InEveryFan(Own[d])
                 PROVE  Reached(s, d)
      BY DEF SentIsQueued
    <2>1. d \in Device /\ KeyOf(d) \in keys[s] /\ OnItsWay(s)
      BY DEF RouteInv, Recipients
    <2>2. PICK p \in DOMAIN MembersOf(s) : Own[d] = MembersOf(s)[p]
      BY DEF Recipients, Range, MembersOf
    <2>3. Awaits(d, s, MembersOf(s)[p]) /\ Sure(s, MembersOf(s)[p])
      BY <2>1, <2>2 DEF Awaits, Sure
    <2> QED BY <2>1, <2>2, <2>3 DEF OnItsWay
  <1> QED BY <1>1, SpecRouteInv, PTL
=============================================================================
