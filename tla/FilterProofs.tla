---------------------------- MODULE FilterProofs ----------------------------
(* What Keep selects, for sequences of any length.  The induction theorems   *)
(* of the library take operators as parameters; induction over the members   *)
(* of a set serves as well, and follows from the least element of a set of   *)
(* numbers.                                                                  *)
EXTENDS Filter, WellFoundedInduction, TLAPS

Less == {ss \in Nat \X Nat : ss[1] < ss[2]}

LEMMA LessWellFounded == IsWellFoundedOn(Less, Nat)
  <1>1. IsWellFoundedOn({ss \in Nat \X Nat : ss[1] < ss[2]}, Nat)
    BY NatLessThanWellFounded DEF OpToRel
  <1> QED BY <1>1 DEF Less

\* Every set of natural numbers that is not empty has a least element.
LEMMA LeastNumber ==
  ASSUME NEW T, T \subseteq Nat, T # {}
  PROVE  \E x \in T : \A y \in T : x <= y
  <1>1. PICK x \in T : \A y \in T : <<y, x>> \notin Less
    BY LessWellFounded, WFMin
  <1>2. \A y \in T : ~(y < x)
    BY <1>1 DEF Less
  <1> QED BY <1>2

\* Induction: a set that holds 0, and n + 1 with every n, holds every number.
LEMMA InductiveSet ==
  ASSUME NEW S, 0 \in S, \A n \in Nat : n \in S => n + 1 \in S
  PROVE  Nat \subseteq S
  <1> SUFFICES ASSUME Nat \ S # {} PROVE FALSE
    OBVIOUS
  <1>1. PICK x \in Nat \ S : \A y \in Nat \ S : x <= y
    BY LeastNumber
  <1>2. x # 0 /\ x - 1 \in Nat
    BY <1>1
  <1>3. x - 1 \in S
    BY <1>1, <1>2
  <1> QED BY <1>1, <1>2, <1>3

-----------------------------------------------------------------------------
\* The recursive function exists, and satisfies its equation.
LEMMA KeptOfEquation ==
  ASSUME NEW T, NEW s \in Seq(T), NEW S
  PROVE  KeptOf(s, S) = [n \in 0 .. Len(s) |->
             IF n = 0 THEN <<>>
             ELSE IF s[n] \in S THEN Append(KeptOf(s, S)[n - 1], s[n])
                  ELSE KeptOf(s, S)[n - 1]]
  <1> DEFINE IsKept(f, m) == f = [n \in 0 .. m |->
                 IF n = 0 THEN <<>>
                 ELSE IF s[n] \in S THEN Append(f[n - 1], s[n]) ELSE f[n - 1]]
             Good == {m \in Nat : \E f : IsKept(f, m)}
  <1>1. 0 \in Good
    <2>1. IsKept([n \in 0 .. 0 |-> <<>>], 0)
      OBVIOUS
    <2> QED BY <2>1
  <1>2. ASSUME NEW m \in Nat, m \in Good
        PROVE  m + 1 \in Good
    <2>1. PICK f : IsKept(f, m)
      BY <1>2
    <2> DEFINE g == [n \in 0 .. (m + 1) |->
                       IF n = m + 1
                       THEN IF s[n] \in S THEN Append(f[m], s[n]) ELSE f[m]
                       ELSE f[n]]
    <2>2. \A n \in 0 .. m : g[n] = f[n]
      OBVIOUS
    <2>3. ASSUME NEW n \in 0 .. (m + 1)
          PROVE  g[n] = IF n = 0 THEN <<>>
                        ELSE IF s[n] \in S THEN Append(g[n - 1], s[n]) ELSE g[n - 1]
      <3>1. CASE n = 0
        BY <3>1, <2>1, <2>2
      <3>2. CASE n = m + 1
        <4>1. g[n - 1] = f[m]
          BY <3>2, <2>2
        <4> QED BY <3>2, <4>1
      <3>3. CASE n \in 1 .. m
        <4>1. g[n] = f[n] /\ g[n - 1] = f[n - 1]
          BY <3>3, <2>2
        <4>2. f[n] = IF s[n] \in S THEN Append(f[n - 1], s[n]) ELSE f[n - 1]
          <5>1. n \in 0 .. m /\ n # 0
            BY <3>3
          <5>2. \A x \in 0 .. m : f[x] = IF x = 0 THEN <<>>
                       ELSE IF s[x] \in S THEN Append(f[x - 1], s[x]) ELSE f[x - 1]
            BY <2>1
          <5> QED BY <5>1, <5>2
        <4> HIDE DEF g
        <4> QED BY <3>3, <4>1, <4>2
      <3> QED BY <3>1, <3>2, <3>3
    <2>4. g = [n \in 0 .. (m + 1) |-> g[n]]
      OBVIOUS
    <2> HIDE DEF g
    <2>5. IsKept(g, m + 1)
      BY <2>3, <2>4
    <2> HIDE DEF IsKept
    <2> QED BY <2>5
  <1> HIDE DEF Good
  <1>3. Len(s) \in Good
    BY <1>1, <1>2, InductiveSet
  <1>4. \E f : IsKept(f, Len(s))
    BY <1>3 DEF Good
  <1> QED BY <1>4 DEF KeptOf

LEMMA KeptOfAt ==
  ASSUME NEW T, NEW s \in Seq(T), NEW S
  PROVE  \A n \in 0 .. Len(s) :
            KeptOf(s, S)[n] =
                IF n = 0 THEN <<>>
                ELSE IF s[n] \in S THEN Append(KeptOf(s, S)[n - 1], s[n])
                     ELSE KeptOf(s, S)[n - 1]
  <1> DEFINE K == KeptOf(s, S)
  <1>1. K = [n \in 0 .. Len(s) |->
               IF n = 0 THEN <<>>
               ELSE IF s[n] \in S THEN Append(K[n - 1], s[n]) ELSE K[n - 1]]
    BY KeptOfEquation
  <1> HIDE DEF K
  <1>2. \A n \in 0 .. Len(s) :
           K[n] = IF n = 0 THEN <<>>
                  ELSE IF s[n] \in S THEN Append(K[n - 1], s[n]) ELSE K[n - 1]
    BY <1>1
  <1> QED BY <1>2 DEF K

-----------------------------------------------------------------------------
\* The places in s of the elements kept of the first n: h[i] is that of the
\* i-th.  They increase, they hold members of S, and no such place is left out.
Places(s, S, n, kept, h) ==
    /\ h \in [DOMAIN kept -> 1 .. n]
    /\ \A i \in DOMAIN kept : kept[i] = s[h[i]] /\ s[h[i]] \in S
    /\ \A i, j \in DOMAIN kept : i < j => h[i] < h[j]
    /\ \A k \in 1 .. n : s[k] \in S => \E i \in DOMAIN kept : h[i] = k

LEMMA KeptOfPlaces ==
  ASSUME NEW T, NEW s \in Seq(T), NEW S
  PROVE  \A n \in 0 .. Len(s) :
            /\ KeptOf(s, S)[n] \in Seq(T)
            /\ \E h : Places(s, S, n, KeptOf(s, S)[n], h)
  <1> DEFINE K == KeptOf(s, S)
             Fine(n) == K[n] \in Seq(T) /\ \E h : Places(s, S, n, K[n], h)
             Good == {n \in Nat : n <= Len(s) => Fine(n)}
  <1>1. 0 \in Good
    <2>1. K[0] = <<>>
      BY KeptOfEquation
    <2>2. Places(s, S, 0, <<>>, <<>>)
      BY DEF Places
    <2> HIDE DEF K
    <2>3. Fine(0)
      BY <2>1, <2>2
    <2> QED BY <2>3
  <1>2. ASSUME NEW n \in Nat, n \in Good
        PROVE  n + 1 \in Good
    <2> SUFFICES ASSUME n + 1 <= Len(s) PROVE Fine(n + 1)
      OBVIOUS
    <2>1. K[n + 1] = IF s[n + 1] \in S THEN Append(K[n], s[n + 1]) ELSE K[n]
      <3>1. n + 1 \in 0 .. Len(s) /\ n + 1 # 0 /\ (n + 1) - 1 = n
        OBVIOUS
      <3>2. \A x \in 0 .. Len(s) : K[x] = IF x = 0 THEN <<>>
                 ELSE IF s[x] \in S THEN Append(K[x - 1], s[x]) ELSE K[x - 1]
        BY KeptOfAt
      <3> HIDE DEF K
      <3> QED BY <3>1, <3>2
    <2> HIDE DEF K
    <2>2. PICK h : K[n] \in Seq(T) /\ Places(s, S, n, K[n], h)
      BY <1>2
    <2>3. s[n + 1] \in T
      OBVIOUS
    <2>4. CASE s[n + 1] \notin S
      <3>1. K[n + 1] = K[n]
        BY <2>1, <2>4
      <3>2. Places(s, S, n + 1, K[n], h)
        <4>1. \A k \in 1 .. (n + 1) : k = n + 1 \/ k \in 1 .. n
          OBVIOUS
        <4>2. h \in [DOMAIN K[n] -> 1 .. (n + 1)]
          BY <2>2 DEF Places
        <4> QED BY <2>2, <2>4, <4>1, <4>2 DEF Places
      <3> QED BY <2>2, <3>1, <3>2
    <2>5. CASE s[n + 1] \in S
      <3> DEFINE old == K[n]
                 new == K[n + 1]
                 g == [i \in 1 .. (Len(old) + 1) |-> IF i = Len(old) + 1 THEN n + 1 ELSE h[i]]
      <3>1. new = Append(old, s[n + 1])
        BY <2>1, <2>5
      <3>2. old \in Seq(T) /\ Places(s, S, n, old, h)
        BY <2>2
      <3> HIDE DEF old, new
      <3>3. new \in Seq(T) /\ Len(new) = Len(old) + 1
        BY <3>1, <3>2, <2>3
      <3>4. \A i \in 1 .. Len(old) : new[i] = old[i] /\ g[i] = h[i] /\ h[i] \in 1 .. n
        BY <3>1, <3>2 DEF Places
      <3>5. new[Len(new)] = s[n + 1] /\ g[Len(new)] = n + 1
        BY <3>1, <3>2, <3>3
      <3>6. DOMAIN new = 1 .. Len(new) /\ DOMAIN old = 1 .. Len(old) /\ Len(old) \in Nat
        BY <3>2, <3>3
      <3>7. \A i \in DOMAIN new : i = Len(new) \/ i \in 1 .. Len(old)
        BY <3>3, <3>6
      <3>8. g \in [DOMAIN new -> 1 .. (n + 1)]
        <4>1. \A i \in 1 .. (Len(old) + 1) : g[i] \in 1 .. (n + 1)
          <5> TAKE i \in 1 .. (Len(old) + 1)
          <5>1. CASE i = Len(old) + 1
            BY <5>1
          <5>2. CASE i \in 1 .. Len(old)
            <6>1. g[i] \in 1 .. n
              BY <5>2, <3>4
            <6> HIDE DEF g
            <6> QED BY <6>1
          <5> QED BY <5>1, <5>2, <3>6
        <4> QED BY <4>1, <3>3, <3>6
      <3> HIDE DEF g
      <3>9. Places(s, S, n + 1, new, g)
        <4>1. \A i \in DOMAIN new : new[i] = s[g[i]] /\ s[g[i]] \in S
          BY <2>5, <3>2, <3>4, <3>5, <3>6, <3>7 DEF Places
        <4>2. \A i, j \in DOMAIN new : i < j => g[i] < g[j]
          <5> TAKE i, j \in DOMAIN new
          <5> HAVE i < j
          <5>1. i \in 1 .. Len(old)
            BY <3>3, <3>6
          <5>2. CASE j \in 1 .. Len(old)
            BY <5>1, <5>2, <3>2, <3>4, <3>6 DEF Places
          <5>3. CASE j = Len(new)
            BY <5>1, <5>3, <3>4, <3>5
          <5> QED BY <5>2, <5>3, <3>7
        <4>3. ASSUME NEW k \in 1 .. (n + 1), s[k] \in S
              PROVE  \E i \in DOMAIN new : g[i] = k
          <5>1. CASE k = n + 1
            BY <5>1, <3>3, <3>5, <3>6
          <5>2. CASE k \in 1 .. n
            <6>1. PICK i \in DOMAIN old : h[i] = k
              BY <4>3, <5>2, <3>2 DEF Places
            <6> QED BY <6>1, <3>3, <3>4, <3>6
          <5> QED BY <5>1, <5>2
        <4> QED BY <3>8, <4>1, <4>2, <4>3 DEF Places
      <3> QED BY <3>3, <3>9 DEF new
    <2> QED BY <2>4, <2>5
  <1> HIDE DEF Good
  <1>3. Nat \subseteq Good
    BY <1>1, <1>2, InductiveSet
  <1>4. ASSUME NEW n \in 0 .. Len(s) PROVE Fine(n)
    BY <1>3 DEF Good
  <1> QED BY <1>4

\* Keep gives a sequence of the elements of s in S, each at its place, in their
\* order.
LEMMA KeepPlaces ==
  ASSUME NEW T, NEW s \in Seq(T), NEW S
  PROVE  /\ Keep(s, S) \in Seq(T)
         /\ \E h : Places(s, S, Len(s), Keep(s, S), h)
  BY KeptOfPlaces DEF Keep

\* What Keep gives has no elements but those of s in S, and all of these.
LEMMA KeepMembers ==
  ASSUME NEW T, NEW s \in Seq(T), NEW S
  PROVE  /\ \A i \in DOMAIN Keep(s, S) : Keep(s, S)[i] \in T \cap S
         /\ \A k \in DOMAIN s :
               s[k] \in S => \E i \in DOMAIN Keep(s, S) : Keep(s, S)[i] = s[k]
  <1>1. Keep(s, S) \in Seq(T)
    BY KeepPlaces
  <1>2. PICK h : Places(s, S, Len(s), Keep(s, S), h)
    BY KeepPlaces
  <1> DEFINE kept == Keep(s, S)
  <1>3. DOMAIN kept = 1 .. Len(kept) /\ Len(kept) \in Nat
    BY <1>1
  <1>4. \A i \in DOMAIN kept : kept[i] \in T
    BY <1>1
  <1> HIDE DEF kept
  <1>5. \A i \in DOMAIN kept : kept[i] \in T \cap S
    BY <1>2, <1>4 DEF Places, kept
  <1>6. ASSUME NEW k \in DOMAIN s, s[k] \in S
        PROVE  \E i \in DOMAIN kept : kept[i] = s[k]
    BY <1>2, <1>6 DEF Places, kept
  <1> QED BY <1>5, <1>6 DEF kept
=============================================================================
