-------------------------- MODULE SessionCloseProofs --------------------------
(***************************************************************************)
(* Proofs about SessionClose, for any final events and any bounds.         *)
(***************************************************************************)
EXTENDS SessionClose, SequenceTheorems, NaturalsInduction, WellFoundedInduction, TLAPS

-----------------------------------------------------------------------------
(* The payloads of the final events among some events: the recursive       *)
(* function of FinalsIn exists and is determined by the events.            *)

UpTo(s, f, k) ==
    [n \in 0 .. k |-> IF n = 0 THEN <<>>
                      ELSE IF s[n].type = "finalReviewEvent"
                           THEN Append(f[n - 1], s[n].payload)
                           ELSE f[n - 1]]

(* Such a function exists, by the least number for which it would not.     *)
LEMMA UpToExists ==
    ASSUME NEW s, NEW k \in Nat
    PROVE  \E f : f = UpTo(s, f, k)
  <1> DEFINE T == {n \in Nat : ~ \E f : f = UpTo(s, f, n)}
  <1>1. SUFFICES ASSUME T # {} PROVE FALSE
    OBVIOUS
  <1>2. PICK n \in T : \A m \in T : ~ (<<m, n>> \in OpToRel(<, Nat))
    BY <1>1, WFMin, NatLessThanWellFounded
  <1>3. \A m \in T : ~ (m < n)
    BY <1>2 DEF OpToRel
  <1>4. CASE n = 0
    <2> DEFINE f == [m \in 0 .. 0 |-> <<>>]
    <2>1. f = UpTo(s, f, 0)
      BY DEF UpTo
    <2> QED
      BY <1>4, <2>1
  <1>5. CASE n # 0
    <2>1. n - 1 \in Nat /\ n - 1 \notin T
      BY <1>3, <1>5
    <2>2. PICK g : g = UpTo(s, g, n - 1)
      BY <2>1
    <2> DEFINE f == [m \in 0 .. n |->
                        IF m = n
                        THEN IF s[n].type = "finalReviewEvent"
                             THEN Append(g[n - 1], s[n].payload)
                             ELSE g[n - 1]
                        ELSE g[m]]
    <2>3. \A m \in 0 .. n - 1 : f[m] = g[m]
      BY <2>1
    <2>4. ASSUME NEW m \in 0 .. n PROVE f[m] = UpTo(s, f, n)[m]
      <3>1. CASE m = n
        BY <1>5, <2>1, <2>3, <3>1 DEF UpTo
      <3>2. CASE m # n
        <4>1. m \in 0 .. n - 1 /\ g[m] = UpTo(s, g, n - 1)[m]
          BY <2>2, <3>2
        <4>2. m # 0 => m - 1 \in 0 .. n - 1
          BY <4>1
        <4> QED
          BY <2>3, <3>2, <4>1, <4>2 DEF UpTo
      <3> QED
        BY <3>1, <3>2
    <2>5. f = UpTo(s, f, n)
      BY <2>4 DEF UpTo
    <2> QED
      BY <2>5
  <1> QED
    BY <1>4, <1>5

LEMMA UpToStep ==
    ASSUME NEW s, NEW f, NEW k \in Nat, f = UpTo(s, f, k), NEW n \in 1 .. k
    PROVE  f[n] = IF s[n].type = "finalReviewEvent"
                  THEN Append(f[n - 1], s[n].payload) ELSE f[n - 1]
  <1>1. f[n] = UpTo(s, f, k)[n]
    OBVIOUS
  <1> QED
    BY <1>1 DEF UpTo

(* It is determined by the events, as far as two sequences agree.          *)
LEMMA UpToAgree ==
    ASSUME NEW s, NEW t, NEW f, NEW g, NEW j \in Nat, NEW k \in Nat,
           NEW m \in 0 .. j, m \in 0 .. k,
           f = UpTo(s, f, j), g = UpTo(t, g, k),
           \A n \in 1 .. m : s[n] = t[n]
    PROVE  f[m] = g[m]
  <1> DEFINE T == {n \in 0 .. m : f[n] # g[n]}
  <1>1. SUFFICES ASSUME T # {} PROVE FALSE
    OBVIOUS
  <1>2. T \subseteq Nat
    OBVIOUS
  <1>2a. PICK n \in T : \A i \in T : ~ (<<i, n>> \in OpToRel(<, Nat))
    <2> HIDE DEF T
    <2> QED
      BY <1>1, <1>2, WFMin, NatLessThanWellFounded
  <1>3. \A i \in T : ~ (i < n)
    <2> HIDE DEF T
    <2> QED
      BY <1>2, <1>2a DEF OpToRel
  <1>4. f[n] = UpTo(s, f, j)[n] /\ g[n] = UpTo(t, g, k)[n]
    OBVIOUS
  <1>5. CASE n = 0
    BY <1>4, <1>5 DEF UpTo
  <1>6. CASE n # 0
    <2>1. n - 1 \in 0 .. m /\ f[n - 1] = g[n - 1] /\ s[n] = t[n]
      BY <1>3, <1>6
    <2>2. n \in 1 .. j /\ n \in 1 .. k
      BY <1>6
    <2>3. f[n] = IF s[n].type = "finalReviewEvent"
                 THEN Append(f[n - 1], s[n].payload) ELSE f[n - 1]
      BY <2>2, UpToStep
    <2>4. g[n] = IF t[n].type = "finalReviewEvent"
                 THEN Append(g[n - 1], t[n].payload) ELSE g[n - 1]
      BY <2>2, UpToStep
    <2>5. f[n] = g[n]
      BY <2>1, <2>3, <2>4, Zenon
    <2> QED
      BY <2>5
  <1> QED
    BY <1>5, <1>6

LEMMA FinalsInValue ==
    ASSUME NEW S, NEW s \in Seq(S), NEW f, f = UpTo(s, f, Len(s))
    PROVE  FinalsIn(s) = f[Len(s)]
  <1> DEFINE u == CHOOSE u : u = UpTo(s, u, Len(s))
  <1>1. Len(s) \in Nat
    OBVIOUS
  <1>2. u = UpTo(s, u, Len(s))
    BY <1>1, UpToExists
  <1>3. FinalsIn(s) = u[Len(s)]
    BY DEF FinalsIn, UpTo
  <1>4. u[Len(s)] = f[Len(s)]
    <2> HIDE DEF u
    <2> QED
      BY <1>1, <1>2, UpToAgree
  <1> QED
    BY <1>3, <1>4

LEMMA FinalsInEmpty == FinalsIn(<<>>) = <<>>
  <1>1. PICK f : f = UpTo(<<>>, f, Len(<<>>))
    BY UpToExists
  <1>2. FinalsIn(<<>>) = f[Len(<<>>)]
    <2>1. <<>> \in Seq({})
      OBVIOUS
    <2> QED
      BY <1>1, <2>1, FinalsInValue
  <1>3. f[0] = UpTo(<<>>, f, 0)[0]
    BY <1>1
  <1> QED
    BY <1>2, <1>3 DEF UpTo

LEMMA FinalsInAppend ==
    ASSUME NEW S, NEW s \in Seq(S), NEW e \in S
    PROVE  FinalsIn(Append(s, e)) =
              IF e.type = "finalReviewEvent"
              THEN Append(FinalsIn(s), e.payload) ELSE FinalsIn(s)
  <1> DEFINE t == Append(s, e)
             k == Len(s)
  <1>1. /\ k \in Nat /\ t \in Seq(S) /\ Len(t) = k + 1 /\ t[k + 1] = e
        /\ \A n \in 1 .. k : s[n] = t[n]
    OBVIOUS
  <1>2. PICK f : f = UpTo(s, f, k)
    BY <1>1, UpToExists
  <1>3. PICK g : g = UpTo(t, g, k + 1)
    BY <1>1, UpToExists
  <1>4. FinalsIn(s) = f[k]
    BY <1>2, FinalsInValue
  <1>5. FinalsIn(t) = g[k + 1]
    <2>1. g = UpTo(t, g, Len(t))
      BY <1>1, <1>3
    <2> HIDE DEF t
    <2> QED
      BY <1>1, <2>1, FinalsInValue
  <1>6. f[k] = g[k]
    <2>1. k \in 0 .. k /\ k \in 0 .. k + 1
      BY <1>1
    <2> HIDE DEF t, k
    <2> QED
      BY <1>1, <1>2, <1>3, <2>1, UpToAgree
  <1>7. g[k + 1] = UpTo(t, g, k + 1)[k + 1]
    BY <1>3
  <1>8. g[k + 1] = IF t[k + 1].type = "finalReviewEvent"
                   THEN Append(g[k], t[k + 1].payload) ELSE g[k]
    <2> HIDE DEF t, k
    <2> QED
      BY <1>1, <1>7 DEF UpTo
  <1> QED
    BY <1>1, <1>4, <1>5, <1>6, <1>8

(* The payloads of events of a close are payloads of final events.         *)
LEMMA FinalsInType ==
    ASSUME NEW s \in Seq(Events)
    PROVE  FinalsIn(s) \in Seq(Payloads)
  <1> DEFINE k == Len(s)
  <1>1. k \in Nat
    OBVIOUS
  <1>2. PICK f : f = UpTo(s, f, k)
    BY <1>1, UpToExists
  <1>3. FinalsIn(s) = f[k]
    BY <1>2, FinalsInValue
  <1> DEFINE T == {n \in 0 .. k : f[n] \notin Seq(Payloads)}
  <1>4. SUFFICES ASSUME T # {} PROVE FALSE
    BY <1>1, <1>3
  <1>5. T \subseteq Nat
    OBVIOUS
  <1>6. PICK n \in T : \A i \in T : ~ (<<i, n>> \in OpToRel(<, Nat))
    <2> HIDE DEF T
    <2> QED
      BY <1>4, <1>5, WFMin, NatLessThanWellFounded
  <1>7. \A i \in T : ~ (i < n)
    <2> HIDE DEF T
    <2> QED
      BY <1>5, <1>6 DEF OpToRel
  <1>8. n \in 0 .. k /\ f[n] = UpTo(s, f, k)[n]
    BY <1>2
  <1>9. n # 0
    <2>1. f[n] \notin Seq(Payloads) /\ <<>> \in Seq(Payloads)
      OBVIOUS
    <2>2. n = 0 => UpTo(s, f, k)[n] = <<>>
      BY <1>1 DEF UpTo
    <2> QED
      BY <1>8, <2>1, <2>2
  <1>10. n - 1 \in 0 .. k /\ f[n - 1] \in Seq(Payloads)
    BY <1>7, <1>8, <1>9
  <1>11. n \in 1 .. Len(s) /\ s[n] \in Events
    BY <1>8, <1>9
  <1>12. s[n].type = "finalReviewEvent" => s[n].payload \in Payloads
    BY <1>11 DEF Events, AuditTypes
  <1>13. f[n] = IF s[n].type = "finalReviewEvent"
                THEN Append(f[n - 1], s[n].payload) ELSE f[n - 1]
    BY <1>8, <1>9 DEF UpTo
  <1>14. f[n] \in Seq(Payloads)
    BY <1>10, <1>12, <1>13
  <1> QED
    BY <1>14

LEMMA FinalsType ==
    ASSUME NEW p \in Seq(Payloads)
    PROVE  /\ Finals(p) \in Seq(Events) /\ Len(Finals(p)) = Len(p)
           /\ \A n \in 1 .. Len(p) : Finals(p)[n] =
                 [type |-> "finalReviewEvent", payload |-> p[n]]
  BY DEF Finals, Event, Events

LEMMA EventsConcat ==
    \A a, b, c \in Seq(Events) : a \o b \in Seq(Events) /\ (a \o b) \o c = a \o (b \o c)
  BY ConcatProperties, ConcatAssociative

LEMMA PayloadsConcat ==
    \A a, b, c \in Seq(Payloads) :
        a \o b \in Seq(Payloads) /\ (a \o b) \o c = a \o (b \o c)
  BY ConcatProperties, ConcatAssociative

LEMMA ConcatAppend ==
    ASSUME NEW S, NEW c \in Seq(S), NEW v \in Seq(S), NEW e \in S
    PROVE  c \o Append(v, e) = Append(c \o v, e)
  <1> DEFINE one == <<e>>
  <1>1. one \in Seq(S)
    OBVIOUS
  <1>2. Append(v, e) = v \o one /\ Append(c \o v, e) = (c \o v) \o one
    BY ConcatProperties, AppendIsConcat
  <1> HIDE DEF one
  <1>3. (c \o v) \o one = c \o (v \o one)
    BY <1>1, ConcatAssociative
  <1> QED
    BY <1>2, <1>3

LEMMA ExtendedConcat ==
    ASSUME NEW S, NEW c \in Seq(S), NEW p \in Seq(S), NEW n \in 1 .. Len(p)
    PROVE  c \o SubSeq(p, 1, n) = Append(c \o SubSeq(p, 1, n - 1), p[n])
  <1> DEFINE v == SubSeq(p, 1, n - 1)
  <1>1. v \in Seq(S) /\ p[n] \in S
    OBVIOUS
  <1>2. SubSeq(p, 1, n) = v \o <<p[n]>>
    BY SubSeqRecursiveSecond
  <1>3. SubSeq(p, 1, n) = Append(v, p[n])
    BY <1>1, <1>2, AppendIsConcat
  <1> QED
    BY <1>1, <1>3, ConcatAppend

(* Final events appended to others.                                        *)
LEMMA FinalsInConcat ==
    ASSUME NEW s \in Seq(Events), NEW p \in Seq(Payloads)
    PROVE  FinalsIn(s \o Finals(p)) = FinalsIn(s) \o p
  <1> DEFINE t == s \o Finals(p)
             j == Len(s)
             k == Len(p)
             C == FinalsIn(s)
  <1>1. /\ j \in Nat /\ k \in Nat
        /\ t \in Seq(Events) /\ Len(t) = j + k
        /\ \A n \in 1 .. j : t[n] = s[n]
        /\ \A n \in 1 .. k :
              t[j + n] = [type |-> "finalReviewEvent", payload |-> p[n]]
    BY FinalsType
  <1>2. C \in Seq(Payloads)
    BY FinalsInType
  <1>3. PICK f : f = UpTo(s, f, j)
    BY <1>1, UpToExists
  <1>4. PICK g : g = UpTo(t, g, j + k)
    <2>1. j + k \in Nat
      BY <1>1
    <2> HIDE DEF t, j, k
    <2> QED
      BY <2>1, UpToExists
  <1>5. C = f[j]
    BY <1>3, FinalsInValue
  <1>6. FinalsIn(t) = g[j + k]
    <2>1. g = UpTo(t, g, Len(t))
      BY <1>1, <1>4
    <2> HIDE DEF t
    <2> QED
      BY <1>1, <2>1, FinalsInValue
  <1>7. g[j] = C
    <2>1. j \in 0 .. j /\ j \in 0 .. j + k /\ j + k \in Nat
      BY <1>1
    <2> DEFINE l == j + k
    <2>2. \A n \in 1 .. j : s[n] = t[n]
      BY <1>1
    <2>3. g = UpTo(t, g, l)
      BY <1>4
    <2>4. j \in 0 .. l /\ l \in Nat /\ j \in Nat
      BY <1>1
    <2> HIDE DEF t, j, k, C, l
    <2>5. f[j] = g[j]
      BY <1>3, <2>1, <2>2, <2>3, <2>4, UpToAgree
    <2> QED
      BY <1>5, <2>5
  <1> DEFINE T == {n \in 0 .. k : g[j + n] # C \o SubSeq(p, 1, n)}
  <1>8. T = {}
    <2>1. SUFFICES ASSUME T # {} PROVE FALSE
      OBVIOUS
    <2>2. T \subseteq Nat
      OBVIOUS
    <2>3. PICK n \in T : \A i \in T : ~ (<<i, n>> \in OpToRel(<, Nat))
      <3> HIDE DEF T
      <3> QED
        BY <2>1, <2>2, WFMin, NatLessThanWellFounded
    <2>4. \A i \in T : ~ (i < n)
      <3> HIDE DEF T
      <3> QED
        BY <2>2, <2>3 DEF OpToRel
    <2>5. n \in 0 .. k
      OBVIOUS
    <2>6. n # 0
      <3>1. C \o SubSeq(p, 1, 0) = C
        BY <1>2
      <3> QED
        BY <1>1, <1>7, <3>1
    <2>7. g[j + (n - 1)] = C \o SubSeq(p, 1, n - 1)
      <3>1. n - 1 \in 0 .. k /\ n - 1 < n
        BY <1>1, <2>5, <2>6
      <3> HIDE DEF C, j, k
      <3> QED
        BY <2>4, <3>1
    <2>10. n \in 1 .. k
      BY <1>1, <2>5, <2>6
    <2>11. g[j + n] = Append(g[j + (n - 1)], p[n])
      <3> DEFINE i == j + n
                 l == j + k
      <3>1. i \in 1 .. l /\ l \in Nat /\ i - 1 = j + (n - 1)
        BY <1>1, <2>10
      <3> HIDE DEF T, t, j, k, C
      <3>2. t[i] = [type |-> "finalReviewEvent", payload |-> p[n]]
        BY <1>1, <2>10, Zenon
      <3>3. g = UpTo(t, g, l)
        BY <1>4
      <3> HIDE DEF i, l
      <3>4. g[i] = IF t[i].type = "finalReviewEvent"
                   THEN Append(g[i - 1], t[i].payload) ELSE g[i - 1]
        BY <3>1, <3>3, UpToStep
      <3>5. t[i].type = "finalReviewEvent" /\ t[i].payload = p[n]
        BY <3>2
      <3>6. g[i] = Append(g[i - 1], p[n])
        BY <3>4, <3>5
      <3> QED
        BY <3>1, <3>6 DEF i
    <2>12. C \o SubSeq(p, 1, n) = Append(C \o SubSeq(p, 1, n - 1), p[n])
      BY <1>2, <2>10, ExtendedConcat
    <2> QED
      BY <2>7, <2>11, <2>12
  <1>9. g[j + k] = C \o SubSeq(p, 1, k)
    <2>1. k \in 0 .. k
      BY <1>1
    <2> HIDE DEF C, j, k
    <2> QED
      BY <1>8, <2>1
  <1>10. SubSeq(p, 1, k) = p
    OBVIOUS
  <1> QED
    BY <1>6, <1>9, <1>10

-----------------------------------------------------------------------------
(* Sequences of final events and of the events of a close.                 *)

Closing(p) == <<Event("sessionClosing", "audit")>> \o Finals(p)

LEMMA IsPrefixConcat ==
    ASSUME NEW S, NEW s \in Seq(S), NEW t \in Seq(S)
    PROVE  IsPrefix(s, s \o t)
  <1>1. Len(s) <= Len(s \o t)
    OBVIOUS
  <1>2. SubSeq(s, 1, Len(s)) = SubSeq(s \o t, 1, Len(s))
    <2>1. CASE Len(s) = 0
      BY <2>1, SubSeqEmpty
    <2>2. CASE Len(s) # 0
      <3>1. 1 \in 1 .. Len(s) /\ Len(s) \in 1 .. Len(s)
        BY <2>2
      <3> QED
        BY <3>1, SubSeqOfConcat1
    <2> QED
      BY <2>1, <2>2
  <1> QED
    BY <1>1, <1>2 DEF IsPrefix

LEMMA EmptyIsPrefix ==
    ASSUME NEW S, NEW s \in Seq(S)
    PROVE  IsPrefix(<<>>, s)
  <1>1. SubSeq(<<>>, 1, 0) = <<>> /\ SubSeq(s, 1, 0) = <<>>
    BY SubSeqEmpty
  <1>2. Len(<<>>) = 0 /\ 0 <= Len(s)
    OBVIOUS
  <1> QED
    BY <1>1, <1>2 DEF IsPrefix

(* A prefix of a sequence extended by what follows in it.                  *)
LEMMA PrefixExtended ==
    ASSUME NEW S, NEW F \in Seq(S), NEW p \in Seq(S), IsPrefix(p, F),
           NEW m \in Len(p) .. Len(F)
    PROVE  LET q == SubSeq(F, Len(p) + 1, m)
           IN  /\ q \in Seq(S) /\ Len(q) = m - Len(p)
               /\ p \o q = SubSeq(F, 1, m)
               /\ IsPrefix(p \o q, F)
  <1> DEFINE k == Len(p)
             q == SubSeq(F, k + 1, m)
  <1>1. k \in Nat /\ Len(F) \in Nat /\ k <= Len(F) /\ p = SubSeq(F, 1, k)
    BY SubSeqFull DEF IsPrefix
  <1>2. q \in Seq(S) /\ Len(q) = m - k
    <2>1. \A i \in k + 1 .. m : F[i] \in S
      BY <1>1
    <2> DEFINE l == k + 1
    <2>0. k \in Nat /\ m \in Int /\ k <= m
      BY <1>1
    <2>2. l \in Int /\ m \in Int /\ (IF l <= m THEN m - l + 1 ELSE 0) = m - k
      <3> HIDE DEF k
      <3> QED
        BY <2>0
    <2> HIDE DEF l, k
    <2>3. SubSeq(F, l, m) \in Seq(S) /\ Len(SubSeq(F, l, m)) =
             IF l <= m THEN m - l + 1 ELSE 0
      BY <2>1, <2>2, SubSeqProperties DEF l
    <2> QED
      BY <2>2, <2>3 DEF l
  <1>3. SubSeq(F, 1, k) \o SubSeq(F, k + 1, m) = SubSeq(F, 1, m)
    <2>1. 1 \in 1 .. Len(F) + 1 /\ k \in 1 - 1 .. Len(F) /\ m \in k .. Len(F)
      BY <1>1
    <2> HIDE DEF k
    <2> QED
      BY <2>1, ConcatAdjacentSubSeq
  <1>4. IsPrefix(SubSeq(F, 1, m), F)
    <2>1. m \in Nat /\ m <= Len(F) /\ Len(SubSeq(F, 1, m)) = m
      BY <1>1
    <2>2. SubSeq(F, 1, m) \in Seq(S)
      BY <1>1
    <2>3. SubSeq(SubSeq(F, 1, m), 1, m) = SubSeq(F, 1, m)
      BY <2>1, <2>2, SubSeqFull
    <2> QED
      BY <2>1, <2>3 DEF IsPrefix
  <1> QED
    BY <1>1, <1>2, <1>3, <1>4

LEMMA FinalsConcat ==
    ASSUME NEW p \in Seq(Payloads), NEW q \in Seq(Payloads)
    PROVE  Finals(p \o q) = Finals(p) \o Finals(q)
  <1> DEFINE u == Finals(p \o q)
             v == Finals(p) \o Finals(q)
             e(x) == [type |-> "finalReviewEvent", payload |-> x]
  <1>1. /\ p \o q \in Seq(Payloads) /\ Len(p \o q) = Len(p) + Len(q)
        /\ \A i \in 1 .. Len(p) + Len(q) :
              (p \o q)[i] = IF i <= Len(p) THEN p[i] ELSE q[i - Len(p)]
    BY ConcatProperties
  <1>2. /\ u \in Seq(Events) /\ Len(u) = Len(p) + Len(q)
        /\ \A i \in 1 .. Len(p) + Len(q) : u[i] = e((p \o q)[i])
    BY <1>1, FinalsType
  <1>3. /\ Finals(p) \in Seq(Events) /\ Len(Finals(p)) = Len(p)
        /\ Finals(q) \in Seq(Events) /\ Len(Finals(q)) = Len(q)
        /\ \A i \in 1 .. Len(p) : Finals(p)[i] = e(p[i])
        /\ \A i \in 1 .. Len(q) : Finals(q)[i] = e(q[i])
    BY FinalsType
  <1>4. /\ v \in Seq(Events) /\ Len(v) = Len(p) + Len(q)
        /\ \A i \in 1 .. Len(p) + Len(q) :
              v[i] = IF i <= Len(p) THEN Finals(p)[i] ELSE Finals(q)[i - Len(p)]
    <2> DEFINE x == Finals(p)
               y == Finals(q)
    <2>1. x \in Seq(Events) /\ y \in Seq(Events)
      BY <1>3
    <2> HIDE DEF x, y
    <2>2. /\ x \o y \in Seq(Events) /\ Len(x \o y) = Len(x) + Len(y)
          /\ \A i \in 1 .. Len(x) + Len(y) :
                (x \o y)[i] = IF i <= Len(x) THEN x[i] ELSE y[i - Len(x)]
      BY <2>1, ConcatProperties
    <2>3. Len(x) = Len(p) /\ Len(y) = Len(q)
      BY <1>3 DEF x, y
    <2> QED
      BY <2>2, <2>3 DEF x, y
  <1>5. ASSUME NEW i \in 1 .. Len(p) + Len(q) PROVE u[i] = v[i]
    <2>0. Len(p) \in Nat /\ Len(q) \in Nat
      OBVIOUS
    <2> HIDE DEF u, v, e
    <2>1. CASE i <= Len(p)
      <3>1. i \in 1 .. Len(p)
        BY <2>0, <2>1
      <3> QED
        BY <1>1, <1>2, <1>3, <1>4, <2>1, <3>1
    <2>2. CASE ~ (i <= Len(p))
      <3>1. i - Len(p) \in 1 .. Len(q)
        BY <2>0, <2>2
      <3> QED
        BY <1>1, <1>2, <1>3, <1>4, <2>2, <3>1
    <2> QED
      BY <2>1, <2>2
  <1> HIDE DEF u, v
  <1>6. u = v
    BY <1>2, <1>4, <1>5, SeqEqual
  <1> QED
    BY <1>6 DEF u, v

(* Part of a block of final events.                                        *)
LEMMA FinalsPart ==
    ASSUME NEW r \in Seq(Payloads), NEW a \in {1, 2}, NEW n \in 0 .. Len(r)
    PROVE  /\ SubSeq(r, a, n) \in Seq(Payloads)
           /\ Len(SubSeq(r, a, n)) = IF a <= n THEN n - a + 1 ELSE 0
           /\ SubSeq(Finals(r), a, n) = Finals(SubSeq(r, a, n))
  <1> DEFINE e(x) == [type |-> "finalReviewEvent", payload |-> x]
             w == SubSeq(r, a, n)
             u == SubSeq(Finals(r), a, n)
  <1>1. /\ Finals(r) \in Seq(Events) /\ Len(Finals(r)) = Len(r)
        /\ \A i \in 1 .. Len(r) : Finals(r)[i] = e(r[i])
    BY FinalsType
  <1>2. /\ w \in Seq(Payloads) /\ Len(w) = IF a <= n THEN n - a + 1 ELSE 0
        /\ \A i \in 1 .. n - a + 1 : w[i] = r[a + i - 1]
    <2>1. \A i \in a .. n : r[i] \in Payloads
      OBVIOUS
    <2> QED
      BY <2>1, SubSeqProperties
  <1>3. /\ u \in Seq(Events) /\ Len(u) = IF a <= n THEN n - a + 1 ELSE 0
        /\ \A i \in 1 .. n - a + 1 : u[i] = Finals(r)[a + i - 1]
    <2>1. \A i \in a .. n : Finals(r)[i] \in Events
      BY <1>1
    <2> QED
      BY <2>1, SubSeqProperties
  <1>4. /\ Finals(w) \in Seq(Events) /\ Len(Finals(w)) = Len(w)
        /\ \A i \in 1 .. Len(w) : Finals(w)[i] = e(w[i])
    <2> HIDE DEF w
    <2> QED
      BY <1>2, FinalsType
  <1>5. ASSUME NEW i \in 1 .. Len(u) PROVE u[i] = Finals(w)[i]
    <2>1. i \in 1 .. n - a + 1 /\ a + i - 1 \in 1 .. Len(r) /\ i \in 1 .. Len(w)
      <3> HIDE DEF u, w
      <3> QED
        BY <1>2, <1>3
    <2> HIDE DEF u, w, e
    <2> QED
      BY <1>1, <1>2, <1>3, <1>4, <2>1
  <1>6. u = Finals(w)
    <2> HIDE DEF u, w
    <2>1. Len(u) = Len(Finals(w))
      BY <1>2, <1>3, <1>4
    <2> QED
      BY <1>3, <1>4, <1>5, <2>1, SeqEqual
  <1> QED
    BY <1>2, <1>6

LEMMA TwoEvents ==
    ASSUME NEW S, NEW a \in S, NEW b \in S
    PROVE  <<a>> \o <<b>> = <<a, b>>
  <1>1. <<a>> \in Seq(S) /\ <<a, b>> \in Seq(S) /\ Len(<<a, b>>) = 2
        /\ Len(<<a>>) = 1 /\ <<a>>[1] = a /\ <<a, b>>[1] = a /\ <<a, b>>[2] = b
    OBVIOUS
  <1> DEFINE x == Append(<<a>>, b)
  <1>2. x = <<a>> \o <<b>>
    BY <1>1, AppendIsConcat
  <1>3. x \in Seq(S) /\ Len(x) = 2 /\ x[1] = a /\ x[2] = b
    BY <1>1, AppendProperties
  <1> HIDE DEF x
  <1>4. \A i \in 1 .. Len(x) : i = 1 \/ i = 2
    BY <1>3
  <1>5. x = <<a, b>>
    BY <1>1, <1>3, <1>4, SeqEqual
  <1> QED
    BY <1>2, <1>5

(* What an uninterrupted close appends, and what may be there of it.       *)
LEMMA AuditShape ==
    ASSUME NEW F \in Seq(Payloads)
    PROVE  /\ Closing(F) \in Seq(Events)
           /\ Audit(F) = (Closing(F) \o <<Event("sessionClosed", "audit")>>)
                             \o <<Event("kitInstanceReleased", "audit")>>
           /\ Audit(F) = Closing(F) \o <<Event("sessionClosed", "audit"),
                                         Event("kitInstanceReleased", "audit")>>
           /\ Audit(F) \in Seq(Events)
  <1> DEFINE c == Closing(F)
             one == <<Event("sessionClosed", "audit")>>
             two == <<Event("kitInstanceReleased", "audit")>>
             both == <<Event("sessionClosed", "audit"),
                       Event("kitInstanceReleased", "audit")>>
  <1>1. \A type \in AuditTypes : Event(type, "audit") \in Events
    BY DEF Event, Events
  <1>2. c \in Seq(Events)
    <2>1. <<Event("sessionClosing", "audit")>> \in Seq(Events)
      BY <1>1 DEF AuditTypes
    <2> QED
      BY <2>1, FinalsType, ConcatProperties DEF Closing
  <1>3. one \in Seq(Events) /\ two \in Seq(Events) /\ both \in Seq(Events)
    BY <1>1 DEF AuditTypes
  <1>4. one \o two = both
    BY <1>1, TwoEvents DEF AuditTypes
  <1>5. Audit(F) = c \o both
    BY DEF Audit, Closing
  <1> HIDE DEF c, one, two, both
  <1>6. (c \o one) \o two = c \o (one \o two) /\ c \o both \in Seq(Events)
    BY <1>2, <1>3, EventsConcat
  <1> QED
    BY <1>2, <1>4, <1>5, <1>6 DEF c, one, two, both

LEMMA ClosingExtended ==
    ASSUME NEW p \in Seq(Payloads), NEW q \in Seq(Payloads)
    PROVE  Closing(p) \o Finals(q) = Closing(p \o q)
  <1> DEFINE a == <<Event("sessionClosing", "audit")>>
             b == Finals(p)
             c == Finals(q)
  <1>1. a \in Seq(Events)
    BY DEF Event, Events, AuditTypes
  <1>2. b \in Seq(Events) /\ c \in Seq(Events) /\ Finals(p \o q) = b \o c
    BY FinalsType, FinalsConcat
  <1>3. Closing(p) = a \o b /\ Closing(p \o q) = a \o Finals(p \o q)
    BY DEF Closing
  <1> HIDE DEF a, b, c
  <1>4. (a \o b) \o c = a \o (b \o c)
    BY <1>1, <1>2, EventsConcat
  <1> QED
    BY <1>2, <1>3, <1>4 DEF c

LEMMA ClosingIsPrefix ==
    ASSUME NEW p \in Seq(Payloads), NEW F \in Seq(Payloads), IsPrefix(p, F)
    PROVE  IsPrefix(Closing(p), Audit(F))
  <1> DEFINE r == SubSeq(F, Len(p) + 1, Len(F))
             c == Closing(p)
             b == Finals(r)
             d == <<Event("sessionClosed", "audit"),
                    Event("kitInstanceReleased", "audit")>>
  <1>1. r \in Seq(Payloads) /\ p \o r = F
    <2>1. Len(F) \in Len(p) .. Len(F) /\ SubSeq(F, 1, Len(F)) = F
      BY SubSeqFull DEF IsPrefix
    <2> QED
      BY <2>1, PrefixExtended
  <1>2. c \in Seq(Events) /\ b \in Seq(Events) /\ d \in Seq(Events)
    <2>1. d \in Seq(Events)
      BY DEF Event, Events, AuditTypes
    <2> HIDE DEF r
    <2> QED
      BY <1>1, <2>1, FinalsType, AuditShape
  <1>3. Audit(F) = (c \o b) \o d
    <2> HIDE DEF r
    <2> QED
      BY <1>1, ClosingExtended, AuditShape
  <1> HIDE DEF r, c, b, d
  <1>4. (c \o b) \o d = c \o (b \o d) /\ b \o d \in Seq(Events)
    BY <1>2, EventsConcat
  <1>5. IsPrefix(c, Audit(F))
    BY <1>2, <1>3, <1>4, IsPrefixConcat
  <1> QED
    BY <1>5 DEF c

(* The events of a close that are not final events, in its log.            *)
LEMMA ClosingTypes ==
    ASSUME NEW p \in Seq(Payloads)
    PROVE  /\ Closing(p) # <<>>
           /\ Closing(p)[1].type = "sessionClosing" /\ 1 \in DOMAIN Closing(p)
           /\ \A n \in DOMAIN Closing(p) :
                 Closing(p)[n].type \in {"sessionClosing", "finalReviewEvent"}
  <1> DEFINE a == <<Event("sessionClosing", "audit")>>
             b == Finals(p)
             c == Closing(p)
  <1>1. /\ a \in Seq(Events) /\ Len(a) = 1
        /\ a[1] = [type |-> "sessionClosing", payload |-> "audit"]
    BY DEF Event, Events, AuditTypes
  <1>2. /\ b \in Seq(Events) /\ Len(b) = Len(p) /\ Len(p) \in Nat
        /\ \A n \in 1 .. Len(p) : b[n].type = "finalReviewEvent"
    <2>1. Len(p) \in Nat
      OBVIOUS
    <2>2. \A n \in 1 .. Len(p) :
             b[n] = [type |-> "finalReviewEvent", payload |-> p[n]]
      BY FinalsType
    <2>3. b \in Seq(Events) /\ Len(b) = Len(p)
      BY FinalsType
    <2> HIDE DEF b
    <2>4. ASSUME NEW n \in 1 .. Len(p) PROVE b[n].type = "finalReviewEvent"
      <3>1. b[n] = [type |-> "finalReviewEvent", payload |-> p[n]]
        BY <2>2, Zenon
      <3> QED
        BY <3>1
    <2> QED
      BY <2>1, <2>3, <2>4
  <1>3. c = a \o b
    BY DEF Closing
  <1> HIDE DEF a, b, c
  <1>4. /\ c \in Seq(Events) /\ Len(c) = 1 + Len(p)
        /\ \A n \in 1 .. 1 + Len(p) : c[n] = IF n <= 1 THEN a[n] ELSE b[n - 1]
    <2>1. /\ a \o b \in Seq(Events) /\ Len(a \o b) = Len(a) + Len(b)
          /\ \A i \in 1 .. Len(a) + Len(b) :
                (a \o b)[i] = IF i <= Len(a) THEN a[i] ELSE b[i - Len(a)]
      BY <1>1, <1>2, ConcatProperties
    <2> QED
      BY <1>1, <1>2, <1>3, <2>1
  <1>5. DOMAIN c = 1 .. 1 + Len(p) /\ c # <<>> /\ 1 \in DOMAIN c
    BY <1>2, <1>4
  <1>6. c[1].type = "sessionClosing"
    BY <1>1, <1>2, <1>4
  <1>7. \A n \in 2 .. 1 + Len(p) : c[n].type = "finalReviewEvent"
    <2>1. TAKE n \in 2 .. 1 + Len(p)
    <2>2. n - 1 \in 1 .. Len(p) /\ n \in 1 .. 1 + Len(p) /\ ~ (n <= 1)
      BY <1>2
    <2> QED
      BY <1>2, <1>4, <2>2
  <1>8. \A n \in DOMAIN c : n = 1 \/ n \in 2 .. 1 + Len(p)
    BY <1>2, <1>5
  <1> QED
    BY <1>5, <1>6, <1>7, <1>8 DEF c

-----------------------------------------------------------------------------
(* The inductive invariant.                                                *)

(* The events of a checkpoint are those of one list of final events: what  *)
(* is there is what the checkpoint announces or the beginning of what the  *)
(* call at work brings, and a session beyond closing has them all.         *)
Resumed ==
    /\ checkpoint.id = checkpoints
    /\ torn => cuts > 0
    /\ Len(Persisted) <= checkpoint.expected
    /\ Complete => Persisted \in Sent
    /\ status \in {"closing", "closed"} => checkpoint.id # 0 /\ Complete
    /\ pc \in {"closing", "closed"} => Complete
    /\ pc = "checkpoint" => IsSessionMutable /\ checkpoints < MaxCheckpoints
    /\ pc \in {"sessionClosing", "finalReviewEvent"} /\ ~Complete =>
          /\ Len(call.finals) = checkpoint.expected
          /\ IsPrefix(Persisted, call.finals)
    /\ \A id \in 0 .. MaxCheckpoints : id = 0 \/ id > checkpoints => log[id] = <<>>

(* Only the last checkpoint can have been closed.                          *)
ClosedLast ==
    \A id \in 0 .. MaxCheckpoints : \A m \in DOMAIN log[id] :
        log[id][m].type = "sessionClosed" =>
            /\ id = checkpoints
            /\ status = "closed"
            /\ \A n \in DOMAIN log[id] : log[id][n].type = "sessionClosed" => n = m

(* The events of the session's checkpoint, with whole lines.               *)
Whole ==
    \/ Logged = <<>>
    \/ Logged = Closing(Persisted) /\ \E finals \in Sent : IsPrefix(Persisted, finals)
    \/ /\ status = "closed"
       /\ \/ Logged = Closing(Persisted) \o <<Event("sessionClosed", "audit")>>
          \/ Logged = Audit(Persisted)

(* The audit of earlier checkpoints, and where the last one's has got to.  *)
Trailed ==
    /\ \A id \in 1 .. checkpoints - 1 :
          \E finals \in Sent : IsPrefix(log[id], Audit(finals))
    /\ Whole
    /\ pc \in {"finalReviewEvent", "closing", "closed", "sessionClosed",
              "kitInstanceReleased"} => Logged # <<>>
    /\ status \in {"closing", "closed"} => Logged # <<>>
    /\ pc = "kitInstanceReleased" => Has("sessionClosed")

CloseInv ==
    /\ CloseTypeOK
    /\ Resumed
    /\ ClosedLast
    /\ cuts = 0 => Trailed

LEMMA SentType ==
    /\ <<>> \in Sent
    /\ \A finals \in Sent : finals \in Seq(Payloads)
  <1>1. <<>> \in Seq(Payloads)
    OBVIOUS
  <1> QED
    BY <1>1, CloseAssumption, Zenon DEF Sent, CloseAssumption

LEMMA StateTypes ==
    ASSUME CloseTypeOK
    PROVE  /\ checkpoint.id \in 0 .. MaxCheckpoints
           /\ checkpoint.expected \in Nat
           /\ Logged \in Seq(Events)
           /\ Persisted \in Seq(Payloads)
           /\ Len(Persisted) \in Nat
           /\ call.finals \in Seq(Payloads) /\ Len(call.finals) \in Nat
  <1>1. checkpoint.id \in 0 .. MaxCheckpoints
    BY CloseAssumption DEF CloseTypeOK
  <1>2. Logged \in Seq(Events)
    BY <1>1 DEF CloseTypeOK, Logged
  <1>3. Persisted \in Seq(Payloads)
    BY <1>2, FinalsInType DEF Persisted
  <1>4. call.finals \in Seq(Payloads) /\ checkpoint.expected \in Nat
    BY SentType DEF CloseTypeOK
  <1>5. Len(Persisted) \in Nat /\ Len(call.finals) \in Nat
    BY <1>3, <1>4, LenProperties
  <1> QED
    BY <1>1, <1>2, <1>3, <1>4, <1>5

(* Nothing is written.                                                     *)
LEMMA Quiet ==
    ASSUME log' = log, checkpoint' = checkpoint
    PROVE  /\ Logged' = Logged
           /\ Persisted' = Persisted
           /\ Complete' = Complete
           /\ \A type : Has(type)' = Has(type)
  <1>1. Logged' = Logged
    BY DEF Logged
  <1>2. Persisted' = Persisted
    BY <1>1 DEF Persisted
  <1>3. Complete' = Complete
    BY <1>2 DEF Complete
  <1>4. \A type : Has(type)' = Has(type)
    BY <1>1 DEF Has
  <1> QED
    BY <1>1, <1>2, <1>3, <1>4

Written(x) == log' = [log EXCEPT ![checkpoint.id] = @ \o x]

LEMMA WrittenLog ==
    ASSUME CloseTypeOK, NEW x \in Seq(Events), Written(x), checkpoint' = checkpoint
    PROVE  /\ log' \in [0 .. MaxCheckpoints -> Seq(Events)]
           /\ Logged' = Logged \o x
           /\ Logged' \in Seq(Events)
           /\ \A id \in 0 .. MaxCheckpoints : id # checkpoint.id => log'[id] = log[id]
  <1>1. checkpoint.id \in 0 .. MaxCheckpoints /\ Logged \in Seq(Events)
        /\ log \in [0 .. MaxCheckpoints -> Seq(Events)]
    BY StateTypes DEF CloseTypeOK
  <1>2. Logged \o x \in Seq(Events)
    BY <1>1, ConcatProperties
  <1>3. log' = [log EXCEPT ![checkpoint.id] = Logged \o x]
    BY DEF Written, Logged
  <1> QED
    BY <1>1, <1>2, <1>3 DEF Logged

(* Nothing readable is written.                                            *)
LEMMA NothingWritten ==
    ASSUME CloseTypeOK, Written(<<>>)
    PROVE  log' = log
  <1>1. checkpoint.id \in 0 .. MaxCheckpoints /\ Logged \in Seq(Events)
        /\ log \in [0 .. MaxCheckpoints -> Seq(Events)]
    BY StateTypes DEF CloseTypeOK
  <1>2. Logged \o <<>> = Logged
    BY <1>1
  <1>3. log' = [log EXCEPT ![checkpoint.id] = Logged]
    BY <1>2 DEF Written, Logged
  <1> QED
    BY <1>1, <1>3 DEF Logged

(* Final events are written.                                               *)
LEMMA FinalsWritten ==
    ASSUME CloseTypeOK, NEW q \in Seq(Payloads), Written(Finals(q)),
           checkpoint' = checkpoint
    PROVE  /\ log' \in [0 .. MaxCheckpoints -> Seq(Events)]
           /\ Logged' = Logged \o Finals(q)
           /\ Persisted' = Persisted \o q
           /\ Len(Persisted') = Len(Persisted) + Len(q)
           /\ \A id \in 0 .. MaxCheckpoints : id # checkpoint.id => log'[id] = log[id]
           /\ \A n \in DOMAIN Logged' : Logged'[n].type # "finalReviewEvent" =>
                 n \in DOMAIN Logged /\ Logged'[n] = Logged[n]
           /\ \A n \in DOMAIN Logged : n \in DOMAIN Logged' /\ Logged'[n] = Logged[n]
  <1> DEFINE x == Finals(q)
  <1>1. /\ x \in Seq(Events) /\ Len(x) = Len(q)
        /\ \A n \in 1 .. Len(q) :
              x[n] = [type |-> "finalReviewEvent", payload |-> q[n]]
    BY FinalsType
  <1>2. Logged \in Seq(Events) /\ Persisted \in Seq(Payloads)
    BY StateTypes
  <1>3. /\ log' \in [0 .. MaxCheckpoints -> Seq(Events)]
        /\ Logged' = Logged \o x
        /\ \A id \in 0 .. MaxCheckpoints : id # checkpoint.id => log'[id] = log[id]
    BY <1>1, WrittenLog
  <1>4. Persisted' = Persisted \o q
    BY <1>2, <1>3, FinalsInConcat DEF Persisted
  <1>5. Len(Persisted') = Len(Persisted) + Len(q)
    BY <1>2, <1>4, ConcatProperties
  <1>6. /\ Len(Logged \o x) = Len(Logged) + Len(x) /\ Logged \o x \in Seq(Events)
        /\ \A n \in 1 .. Len(Logged) + Len(x) :
              (Logged \o x)[n] = IF n <= Len(Logged) THEN Logged[n]
                                 ELSE x[n - Len(Logged)]
    <2> DEFINE l == Logged
    <2>1. l \in Seq(Events) /\ x \in Seq(Events)
      BY <1>1, <1>2
    <2> HIDE DEF l, x
    <2>2. /\ Len(l \o x) = Len(l) + Len(x) /\ l \o x \in Seq(Events)
          /\ \A n \in 1 .. Len(l) + Len(x) :
                (l \o x)[n] = IF n <= Len(l) THEN l[n] ELSE x[n - Len(l)]
      BY <2>1, ConcatProperties
    <2> QED
      BY <2>2 DEF l
  <1>7. /\ DOMAIN Logged = 1 .. Len(Logged) /\ Len(Logged) \in Nat
        /\ Len(q) \in Nat
        /\ DOMAIN (Logged \o x) = 1 .. Len(Logged) + Len(q)
    BY <1>1, <1>2, <1>6, LenProperties
  <1>8. ASSUME NEW n \in DOMAIN Logged
        PROVE  n \in DOMAIN (Logged \o x) /\ (Logged \o x)[n] = Logged[n]
    <2>1. n \in 1 .. Len(Logged) /\ n \in 1 .. Len(Logged) + Len(x)
          /\ n <= Len(Logged)
      BY <1>1, <1>7
    <2> HIDE DEF x
    <2> QED
      BY <1>1, <1>6, <1>7, <2>1
  <1>9. ASSUME NEW n \in DOMAIN (Logged \o x),
               (Logged \o x)[n].type # "finalReviewEvent"
        PROVE  n \in DOMAIN Logged
    <2>1. n \in 1 .. Len(Logged) + Len(q)
      BY <1>7
    <2>2. CASE n <= Len(Logged)
      BY <1>7, <2>1, <2>2
    <2>3. CASE ~ (n <= Len(Logged))
      <3>1. n - Len(Logged) \in 1 .. Len(q)
        BY <1>7, <2>1, <2>3
      <3> DEFINE i == n - Len(Logged)
      <3> HIDE DEF x
      <3>2. (Logged \o x)[n] = x[i]
        BY <1>1, <1>6, <2>1, <2>3
      <3> HIDE DEF i
      <3>3. x[i] = [type |-> "finalReviewEvent", payload |-> q[i]]
        BY <1>1, <3>1 DEF i
      <3>4. x[i].type = "finalReviewEvent"
        BY <3>3
      <3> QED
        BY <1>9, <3>2, <3>4
    <2> QED
      BY <2>2, <2>3
  <1> HIDE DEF x
  <1>10. \A n \in DOMAIN Logged : n \in DOMAIN Logged' /\ Logged'[n] = Logged[n]
    BY <1>3, <1>8
  <1>11. \A n \in DOMAIN Logged' : Logged'[n].type # "finalReviewEvent" =>
            n \in DOMAIN Logged /\ Logged'[n] = Logged[n]
    BY <1>3, <1>9, <1>10
  <1> QED
    BY <1>3, <1>4, <1>5, <1>10, <1>11 DEF x

(* An audit event is written.                                              *)
LEMMA AuditWritten ==
    ASSUME CloseTypeOK, NEW type \in AuditTypes, checkpoint' = checkpoint,
           Written(<<Event(type, "audit")>>)
    PROVE  /\ log' \in [0 .. MaxCheckpoints -> Seq(Events)]
           /\ Logged' = Logged \o <<Event(type, "audit")>>
           /\ Persisted' = Persisted
           /\ \A id \in 0 .. MaxCheckpoints : id # checkpoint.id => log'[id] = log[id]
           /\ \A n \in DOMAIN Logged' : n = Len(Logged) + 1 \/ n \in DOMAIN Logged
           /\ \A n \in DOMAIN Logged : n \in DOMAIN Logged' /\ Logged'[n] = Logged[n]
           /\ Logged'[Len(Logged) + 1].type = type
           /\ Len(Logged) + 1 \in DOMAIN Logged'
           /\ Has(type)'
  <1> DEFINE e == Event(type, "audit")
  <1>1. e \in Events /\ e.type = type /\ type # "finalReviewEvent"
    BY DEF Event, Events, AuditTypes
  <1>2. <<e>> \in Seq(Events)
    BY <1>1
  <1>3. Logged \in Seq(Events)
    BY StateTypes
  <1>4. /\ log' \in [0 .. MaxCheckpoints -> Seq(Events)]
        /\ Logged' = Logged \o <<e>>
        /\ \A id \in 0 .. MaxCheckpoints : id # checkpoint.id => log'[id] = log[id]
    BY <1>2, WrittenLog
  <1> HIDE DEF e
  <1>5. Logged' = Append(Logged, e)
    BY <1>1, <1>3, <1>4, AppendIsConcat
  <1>6. Persisted' = Persisted
    BY <1>1, <1>3, <1>5, FinalsInAppend DEF Persisted
  <1>7. /\ Append(Logged, e) \in Seq(Events)
        /\ Len(Append(Logged, e)) = Len(Logged) + 1
        /\ \A i \in 1 .. Len(Logged) : Append(Logged, e)[i] = Logged[i]
        /\ Append(Logged, e)[Len(Logged) + 1] = e
    BY <1>1, <1>3, AppendProperties
  <1>8. DOMAIN Logged = 1 .. Len(Logged) /\ Len(Logged) \in Nat
        /\ DOMAIN Logged' = 1 .. Len(Logged) + 1
    BY <1>3, <1>5, <1>7, LenProperties
  <1>9. \A n \in DOMAIN Logged : n \in DOMAIN Logged' /\ Logged'[n] = Logged[n]
    BY <1>5, <1>7, <1>8
  <1>10. \A n \in DOMAIN Logged' : n = Len(Logged) + 1 \/ n \in DOMAIN Logged
    BY <1>8
  <1>11. Len(Logged) + 1 \in DOMAIN Logged' /\ Logged'[Len(Logged) + 1].type = type
    BY <1>1, <1>5, <1>7, <1>8
  <1>12. Has(type)'
    BY <1>11 DEF Has
  <1> QED
    BY <1>4, <1>6, <1>9, <1>10, <1>11, <1>12 DEF e

(* An audit event that is not there is written, unless it is lost.         *)
LEMMA AuditAppended ==
    ASSUME CloseTypeOK, NEW type \in AuditTypes, checkpoint' = checkpoint,
           AppendUnlessThere(type)
    PROVE  \/ Has(type) /\ log' = log /\ torn' = torn
           \/ torn /\ ~torn' /\ log' = log
           \/ ~Has(type) /\ ~torn /\ torn' = FALSE /\ Written(<<Event(type, "audit")>>)
  <1> DEFINE e == Event(type, "audit")
  <1>1. CASE Has(type)
    BY <1>1 DEF AppendUnlessThere
  <1>2. CASE ~Has(type)
    <2>1. Appended(<<e>>)
      BY <1>2 DEF AppendUnlessThere
    <2>2. torn' = FALSE
      BY <2>1 DEF Appended
    <2>3. CASE torn
      <3>1. SubSeq(<<e>>, 2, Len(<<e>>)) = <<>>
        BY SubSeqEmpty
      <3>2. Written(<<>>)
        BY <2>1, <2>3, <3>1 DEF Appended, Written
      <3> QED
        BY <2>2, <2>3, <3>2, NothingWritten
    <2>4. CASE ~torn
      BY <1>2, <2>1, <2>2, <2>4 DEF Appended, Written, CloseTypeOK
    <2> QED
      BY <2>3, <2>4
  <1> QED
    BY <1>1, <1>2

(* The final events that a call has still to append.                       *)
Rest == SubSeq(call.finals, Len(Persisted) + 1, checkpoint.expected)

LEMMA RestProperties ==
    ASSUME CloseTypeOK, Resumed, pc = "finalReviewEvent", ~Complete
    PROVE  /\ Missing = Finals(Rest)
           /\ Rest \in Seq(Payloads)
           /\ Len(Rest) = checkpoint.expected - Len(Persisted)
           /\ Len(Rest) \in Nat \ {0}
           /\ Persisted \o Rest = call.finals
           /\ \A n \in 0 .. Len(Rest) :
                 /\ SubSeq(Rest, 1, n) \in Seq(Payloads)
                 /\ Len(SubSeq(Rest, 1, n)) = n
                 /\ IsPrefix(Persisted \o SubSeq(Rest, 1, n), call.finals)
  <1>1. /\ call.finals \in Seq(Payloads) /\ Persisted \in Seq(Payloads)
        /\ Len(Persisted) \in Nat /\ checkpoint.expected \in Nat
    BY StateTypes
  <1>2. /\ Len(call.finals) = checkpoint.expected
        /\ IsPrefix(Persisted, call.finals)
        /\ Len(Persisted) < checkpoint.expected
    BY <1>1 DEF Resumed, Complete
  <1>3. checkpoint.expected \in Len(Persisted) .. Len(call.finals)
    BY <1>1, <1>2
  <1>4. /\ Rest \in Seq(Payloads) /\ Len(Rest) = checkpoint.expected - Len(Persisted)
        /\ Persisted \o Rest = SubSeq(call.finals, 1, checkpoint.expected)
    BY <1>1, <1>2, <1>3, PrefixExtended DEF Rest
  <1>5. SubSeq(call.finals, 1, checkpoint.expected) = call.finals
    BY <1>1, <1>2, SubSeqFull
  <1>6. ASSUME NEW n \in 0 .. Len(Rest)
        PROVE  /\ SubSeq(Rest, 1, n) \in Seq(Payloads)
               /\ Len(SubSeq(Rest, 1, n)) = n
               /\ IsPrefix(Persisted \o SubSeq(Rest, 1, n), call.finals)
    <2> DEFINE r == SubSeq(Rest, 1, n)
    <2>1. r \in Seq(Payloads) /\ Len(r) = n
      BY <1>4, FinalsPart
    <2>2. IsPrefix(r, Rest)
      <3>1. SubSeq(r, 1, Len(r)) = r
        BY <2>1, SubSeqFull
      <3>2. n <= Len(Rest)
        BY <1>1, <1>2, <1>4
      <3> QED
        BY <2>1, <3>1, <3>2 DEF IsPrefix
    <2> DEFINE d == SubSeq(Rest, Len(r) + 1, Len(Rest))
    <2>3. d \in Seq(Payloads) /\ r \o d = Rest
      <3>1. Len(Rest) \in Len(r) .. Len(Rest) /\ SubSeq(Rest, 1, Len(Rest)) = Rest
        BY <1>1, <1>2, <1>4, <2>1, SubSeqFull
      <3> QED
        BY <1>4, <2>1, <2>2, <3>1, PrefixExtended
    <2> HIDE DEF r, d
    <2>4. (Persisted \o r) \o d = Persisted \o (r \o d)
      <3>1. /\ Persisted \in Seq(Payloads) /\ r \in Seq(Payloads)
            /\ d \in Seq(Payloads)
        BY <1>1, <2>1, <2>3
      <3> QED
        BY <3>1, PayloadsConcat
    <2>5. Persisted \o r \in Seq(Payloads)
      BY <1>1, <2>1, ConcatProperties
    <2>6. IsPrefix(Persisted \o r, (Persisted \o r) \o d)
      BY <2>3, <2>5, IsPrefixConcat
    <2>7. (Persisted \o r) \o d = call.finals
      BY <1>4, <1>5, <2>3, <2>4
    <2> QED
      BY <2>1, <2>6, <2>7 DEF r
  <1>7. Len(Rest) \in Nat \ {0}
    BY <1>1, <1>2, <1>4
  <1>8. Missing = Finals(Rest)
    BY DEF Missing, Rest
  <1> QED
    BY <1>4, <1>5, <1>6, <1>7, <1>8

-----------------------------------------------------------------------------
(* Steps that write no event.                                              *)

LEMMA QuietStep ==
    ASSUME CloseInv, CloseTypeOK',
           log' = log, checkpoint' = checkpoint, checkpoints' = checkpoints,
           cuts' = cuts, torn' => torn,
           status' \in {"closing", "closed"} =>
              /\ checkpoint.id # 0 /\ Complete
              /\ cuts = 0 => Logged # <<>>,
           status = "closed" => status' = "closed",
           pc' \in {"closing", "closed"} => Complete,
           pc' = "checkpoint" => IsSessionMutable' /\ checkpoints < MaxCheckpoints,
           pc' \in {"sessionClosing", "finalReviewEvent"} /\ ~Complete =>
              /\ Len(call'.finals) = checkpoint.expected
              /\ IsPrefix(Persisted, call'.finals),
           cuts = 0 /\ pc' \in {"finalReviewEvent", "closing", "closed",
                               "sessionClosed", "kitInstanceReleased"}
              => Logged # <<>>,
           cuts = 0 /\ pc' = "kitInstanceReleased" => Has("sessionClosed")
    PROVE  CloseInv'
  <1>1. /\ Logged' = Logged /\ Persisted' = Persisted /\ Complete' = Complete
        /\ Has("sessionClosed")' = Has("sessionClosed")
    BY Quiet
  <1>2. Resumed'
    <2>1. Resumed
      BY DEF CloseInv
    <2>2. /\ checkpoint'.id = checkpoints'
          /\ torn' => cuts' > 0
          /\ Len(Persisted') <= checkpoint'.expected
          /\ Complete' => Persisted' \in Sent
      BY <1>1, <2>1 DEF Resumed
    <2>3. \A id \in 0 .. MaxCheckpoints : id = 0 \/ id > checkpoints' => log'[id] = <<>>
      BY <2>1 DEF Resumed
    <2> QED
      BY <1>1, <2>2, <2>3 DEF Resumed
  <1>3. ClosedLast'
    BY DEF CloseInv, ClosedLast
  <1>4. Trailed' \/ cuts' # 0
    <2>1. SUFFICES ASSUME cuts = 0 PROVE Trailed'
      OBVIOUS
    <2>2. Trailed
      BY <2>1 DEF CloseInv
    <2>3. Whole'
      BY <1>1, <2>2 DEF Trailed, Whole
    <2>4. \A id \in 1 .. checkpoints' - 1 :
             \E finals \in Sent : IsPrefix(log'[id], Audit(finals))
      BY <2>2 DEF Trailed
    <2> QED
      BY <1>1, <2>1, <2>3, <2>4 DEF Trailed
  <1> QED
    BY <1>2, <1>3, <1>4 DEF CloseInv

(* What the beginning of a call establishes.                               *)
LEMMA BeginProperties ==
    ASSUME CloseInv, NEW caller, NEW finals \in Sent, Begin(caller, finals)
    PROVE  /\ call' = [caller |-> caller, finals |-> finals]
           /\ pc' \in {"checkpoint", "sessionClosing", "sessionClosed"}
           /\ pc' = "checkpoint" => IsSessionMutable /\ checkpoints < MaxCheckpoints
           /\ pc' # "checkpoint" => checkpoint.id # 0
           /\ pc' = "sessionClosing" => status # "closed"
           /\ pc' = "sessionClosed" => status = "closed"
           /\ pc' = "sessionClosing" /\ ~Complete =>
                 /\ Len(finals) = checkpoint.expected
                 /\ IsPrefix(Persisted, finals)
  <1>1. status \in Statuses
    BY DEF CloseInv, CloseTypeOK
  <1>2. ~IsSessionMutable => checkpoint.id # 0 /\ Complete
    BY <1>1 DEF CloseInv, Resumed, IsSessionMutable, Statuses
  <1>3. CASE Reusable(finals)
    <2>1. checkpoint.id # 0 /\ (~Complete =>
             Len(finals) = checkpoint.expected /\ IsPrefix(Persisted, finals))
      BY <1>2, <1>3 DEF Reusable, Complete
    <2> QED
      BY <1>3, <2>1 DEF Begin, AfterCheckpoint
  <1>4. CASE ~Reusable(finals)
    BY <1>2, <1>4 DEF Begin, Reusable
  <1> QED
    BY <1>3, <1>4

LEMMA BeginStep ==
    ASSUME CloseInv, NEW caller \in Callers, NEW finals \in Sent,
           Begin(caller, finals), UNCHANGED durable, UNCHANGED counters,
           retry' \in BOOLEAN
    PROVE  CloseInv'
  <1>1. /\ status' = status /\ checkpoint' = checkpoint /\ log' = log
        /\ torn' = torn /\ checkpoints' = checkpoints /\ cuts' = cuts
        /\ faults' = faults /\ crashes' = crashes
    BY DEF durable, counters
  <1>2. CloseTypeOK /\ Resumed /\ (cuts = 0 => Trailed)
    BY DEF CloseInv
  <1>3. call'.caller \in Callers /\ call'.finals = finals
    BY BeginProperties
  <1>4. pc' \in {"checkpoint", "sessionClosing", "sessionClosed"}
    BY BeginProperties
  <1>5. CloseTypeOK'
    BY <1>1, <1>2, <1>3, <1>4, BeginProperties
    DEF CloseTypeOK, Steps, AuditTypes, IsSessionMutable
  <1>6. status' \in {"closing", "closed"} =>
           checkpoint.id # 0 /\ Complete /\ (cuts = 0 => Logged # <<>>)
    BY <1>1, <1>2 DEF Resumed, Trailed
  <1>7. pc' = "checkpoint" => IsSessionMutable' /\ checkpoints < MaxCheckpoints
    BY <1>1, BeginProperties DEF IsSessionMutable
  <1>8. cuts = 0 /\ pc' = "sessionClosed" => Logged # <<>>
    BY <1>2, BeginProperties DEF Trailed
  <1>9. pc' = "sessionClosing" /\ ~Complete =>
           Len(call'.finals) = checkpoint.expected /\ IsPrefix(Persisted, call'.finals)
    BY <1>3, BeginProperties
  <1> QED
    BY <1>1, <1>4, <1>5, <1>6, <1>7, <1>8, <1>9, QuietStep

LEMMA CallsBegin ==
    ASSUME CloseInv,
           \/ \E finals \in Sent : CloseRoute(finals)
           \/ IdleCountdownEnds
           \/ RetryTeardown
           \/ Restart /\ Recoverable
    PROVE  CloseInv'
  <1>1. CloseTypeOK
    BY DEF CloseInv
  <1>2. ASSUME NEW finals \in Sent, CloseRoute(finals) PROVE CloseInv'
    BY <1>1, <1>2, BeginStep DEF CloseRoute, Callers, CloseTypeOK
  <1>3. CASE IdleCountdownEnds
    BY <1>1, <1>3, SentType, BeginStep DEF IdleCountdownEnds, Callers
  <1>4. CASE RetryTeardown
    BY <1>1, <1>4, SentType, BeginStep DEF RetryTeardown, Callers, CloseTypeOK
  <1>5. CASE Restart /\ Recoverable
    BY <1>1, <1>5, SentType, BeginStep DEF Restart, Callers, CloseTypeOK
  <1> QED
    BY <1>2, <1>3, <1>4, <1>5

LEMMA OtherQuietSteps ==
    ASSUME CloseInv,
           \/ ClaimLease
           \/ ActivityCancels
           \/ SkipFinalEvents
           \/ WriteClosing
           \/ WriteClosed
           \/ Restart /\ ~Recoverable
    PROVE  CloseInv'
  <1>1. CloseTypeOK /\ Resumed /\ (cuts = 0 => Trailed)
    BY DEF CloseInv
  <1>2. CASE ClaimLease
    <2>1. CloseTypeOK'
      BY <1>1, <1>2
      DEF CloseTypeOK, ClaimLease, volatile, counters, Statuses, Steps, AuditTypes,
          IsSessionMutable
    <2> QED
      BY <1>1, <1>2, <2>1, QuietStep
      DEF ClaimLease, volatile, counters, IsSessionMutable, Resumed, Trailed
  <1>3. CASE ActivityCancels
    <2>1. CloseTypeOK'
      BY <1>1, <1>3 DEF CloseTypeOK, ActivityCancels, durable, counters
    <2> QED
      BY <1>1, <1>3, <2>1, QuietStep
      DEF ActivityCancels, durable, counters, IsSessionMutable, Resumed, Trailed
  <1>4. CASE SkipFinalEvents
    <2>1. CloseTypeOK'
      BY <1>1, <1>4
      DEF CloseTypeOK, SkipFinalEvents, Goto, durable, counters, Steps, AuditTypes
    <2> QED
      BY <1>1, <1>4, <2>1, QuietStep
      DEF SkipFinalEvents, Goto, durable, counters, Resumed, Trailed
  <1>5. CASE WriteClosing
    <2>1. CloseTypeOK'
      BY <1>1, <1>5
      DEF CloseTypeOK, WriteClosing, counters, Statuses, Steps, AuditTypes
    <2>2. status # "closed" /\ checkpoint.id # 0 /\ Complete
      BY <1>1, <1>5 DEF CloseTypeOK, WriteClosing, Resumed, Steps
    <2> QED
      BY <1>1, <1>5, <2>1, <2>2, QuietStep DEF WriteClosing, counters, Trailed
  <1>6. CASE WriteClosed
    <2>1. CloseTypeOK'
      BY <1>1, <1>6
      DEF CloseTypeOK, WriteClosed, Goto, counters, Statuses, Steps, AuditTypes
    <2>2. checkpoint.id # 0 /\ Complete
      BY <1>1, <1>6 DEF CloseTypeOK, WriteClosed, Resumed, Steps
    <2> QED
      BY <1>1, <1>6, <2>1, <2>2, QuietStep DEF WriteClosed, Goto, counters, Trailed
  <1>7. CASE Restart /\ ~Recoverable
    <2>1. CloseTypeOK'
      BY <1>1, <1>7 DEF CloseTypeOK, Restart, durable, counters, Steps, AuditTypes
    <2> QED
      BY <1>1, <1>7, <2>1, QuietStep DEF Restart, durable, counters, Resumed, Trailed
  <1> QED
    BY <1>2, <1>3, <1>4, <1>5, <1>6, <1>7

-----------------------------------------------------------------------------
(* The new checkpoint.                                                     *)

(* What the log of the session's checkpoint holds, with whole lines, is    *)
(* the beginning of the events of one uninterrupted close.                 *)
LEMMA LoggedIsPrefix ==
    ASSUME CloseInv, cuts = 0
    PROVE  \E finals \in Sent : IsPrefix(Logged, Audit(finals))
  <1>1. CloseTypeOK /\ Resumed /\ Trailed
    BY DEF CloseInv
  <1>2. Logged \in Seq(Events) /\ Persisted \in Seq(Payloads)
    BY <1>1, StateTypes
  <1>3. CASE Logged = <<>>
    <2>1. Audit(<<>>) \in Seq(Events)
      BY SentType, AuditShape
    <2>2. IsPrefix(<<>>, Audit(<<>>))
      BY <2>1, EmptyIsPrefix
    <2> QED
      BY <1>3, <2>2, SentType
  <1>4. CASE Logged = Closing(Persisted)
             /\ \E finals \in Sent : IsPrefix(Persisted, finals)
    BY <1>2, <1>4, SentType, ClosingIsPrefix
  <1>5. CASE /\ status = "closed"
             /\ \/ Logged = Closing(Persisted) \o <<Event("sessionClosed", "audit")>>
                \/ Logged = Audit(Persisted)
    <2>1. Persisted \in Sent
      BY <1>1, <1>5 DEF Resumed
    <2>2. CASE Logged = Closing(Persisted) \o <<Event("sessionClosed", "audit")>>
      <3> DEFINE e == <<Event("kitInstanceReleased", "audit")>>
      <3>1. e \in Seq(Events)
        BY DEF Event, Events, AuditTypes
      <3>2. Audit(Persisted) = Logged \o e
        BY <1>2, <2>2, AuditShape
      <3> HIDE DEF e
      <3>3. IsPrefix(Logged, Audit(Persisted))
        BY <1>2, <3>1, <3>2, IsPrefixConcat
      <3> QED
        BY <2>1, <3>3
    <2>3. CASE Logged = Audit(Persisted)
      <3>1. Logged \o <<>> = Logged
        BY <1>2
      <3>2. <<>> \in Seq(Events)
        OBVIOUS
      <3>3. IsPrefix(Logged, Logged \o <<>>)
        BY <1>2, <3>2, IsPrefixConcat
      <3> QED
        BY <2>1, <2>3, <3>1, <3>3
    <2> QED
      BY <1>5, <2>2, <2>3
  <1> QED
    BY <1>1, <1>3, <1>4, <1>5 DEF Trailed, Whole

LEMMA WriteCheckpointInv ==
    ASSUME CloseInv, WriteCheckpoint
    PROVE  CloseInv'
  <1>1. CloseTypeOK /\ Resumed /\ ClosedLast
    BY DEF CloseInv
  <1>2. /\ pc = "checkpoint" /\ status \in {"created", "active"}
        /\ checkpoints \in Nat /\ checkpoints + 1 \in 0 .. MaxCheckpoints
        /\ call.finals \in Seq(Payloads) /\ Len(call.finals) \in Nat
    BY <1>1, StateTypes, CloseAssumption
    DEF WriteCheckpoint, Resumed, IsSessionMutable, CloseTypeOK
  <1>3. /\ checkpoint' = [id |-> checkpoints + 1, expected |-> Len(call.finals)]
        /\ checkpoints' = checkpoints + 1 /\ pc' = "sessionClosing"
        /\ log' = log /\ status' = status /\ call' = call /\ retry' = retry
        /\ torn' = torn /\ cuts' = cuts /\ faults' = faults /\ crashes' = crashes
    BY <1>2 DEF WriteCheckpoint, Goto, AfterCheckpoint
  <1>4. Logged' = <<>>
    BY <1>1, <1>2, <1>3 DEF Resumed, Logged
  <1>5. Persisted' = <<>> /\ Len(Persisted') = 0
    BY <1>4, FinalsInEmpty DEF Persisted
  <1>6. CloseTypeOK'
    BY <1>1, <1>2, <1>3 DEF CloseTypeOK, Steps, AuditTypes
  <1>7. Resumed'
    <2>1. /\ checkpoint'.id = checkpoints' /\ checkpoint'.expected = Len(call.finals)
      BY <1>3
    <2>2. Persisted' \in Sent
      BY <1>5, SentType
    <2>3. IsPrefix(Persisted', call'.finals)
      BY <1>2, <1>3, <1>5, EmptyIsPrefix
    <2>4. torn' => cuts' > 0
      BY <1>1, <1>3 DEF Resumed
    <2>5. \A id \in 0 .. MaxCheckpoints : id = 0 \/ id > checkpoints' => log'[id] = <<>>
      BY <1>1, <1>2, <1>3 DEF Resumed
    <2>6. Len(Persisted') <= checkpoint'.expected
      BY <1>2, <1>5, <2>1
    <2> QED
      BY <1>2, <1>3, <2>1, <2>2, <2>3, <2>4, <2>5, <2>6 DEF Resumed
  <1>8. ClosedLast'
    BY <1>1, <1>2, <1>3 DEF ClosedLast
  <1>9. cuts' = 0 => Trailed'
    <2>1. SUFFICES ASSUME cuts = 0 PROVE Trailed'
      BY <1>3
    <2>2. Trailed
      BY <2>1 DEF CloseInv
    <2>3. ASSUME NEW id \in 1 .. checkpoints' - 1
          PROVE  \E finals \in Sent : IsPrefix(log'[id], Audit(finals))
      <3>1. CASE id = checkpoints
        <4>1. Logged = log[id]
          BY <1>1, <3>1 DEF Resumed, Logged
        <4> QED
          BY <1>3, <2>1, <4>1, LoggedIsPrefix
      <3>2. CASE id # checkpoints
        <4>1. id \in 1 .. checkpoints - 1
          BY <1>2, <1>3, <3>2
        <4> QED
          BY <1>3, <2>2, <4>1 DEF Trailed
      <3> QED
        BY <3>1, <3>2
    <2>4. Whole'
      BY <1>4 DEF Whole
    <2> QED
      BY <1>2, <1>3, <2>3, <2>4 DEF Trailed
  <1> QED
    BY <1>6, <1>7, <1>8, <1>9 DEF CloseInv

-----------------------------------------------------------------------------
(* Final events are appended, all that are missing or the first of them.   *)

LEMMA FinalsStep ==
    ASSUME CloseInv, NEW q \in Seq(Payloads), Written(Finals(q)),
           checkpoint' = checkpoint, checkpoints' = checkpoints,
           call' = call, status' = status,
           q # <<>> => /\ pc = "finalReviewEvent" /\ ~Complete
                       /\ checkpoint.id # 0
                       /\ cuts' = 0 => IsPrefix(Persisted \o q, call.finals),
           Len(Persisted) + Len(q) <= checkpoint.expected,
           Len(Persisted) + Len(q) = checkpoint.expected => Persisted \o q \in Sent,
           torn' => cuts' > 0, cuts' = 0 => cuts = 0,
           pc' \in {"idle", "down", "closing"},
           pc' = "closing" => /\ Len(Persisted) + Len(q) >= checkpoint.expected
                              /\ pc = "finalReviewEvent"
    PROVE  /\ log' \in [0 .. MaxCheckpoints -> Seq(Events)]
           /\ Resumed' /\ ClosedLast' /\ (cuts' = 0 => Trailed')
  <1>1. CloseTypeOK /\ Resumed /\ ClosedLast
    BY DEF CloseInv
  <1>2. /\ checkpoint.id \in 0 .. MaxCheckpoints /\ Logged \in Seq(Events)
        /\ checkpoint.expected \in Nat
        /\ Persisted \in Seq(Payloads) /\ Len(Persisted) \in Nat
        /\ call.finals \in Seq(Payloads)
    BY <1>1, StateTypes
  <1>3. /\ log' \in [0 .. MaxCheckpoints -> Seq(Events)]
        /\ Logged' = Logged \o Finals(q)
        /\ Persisted' = Persisted \o q
        /\ Len(Persisted') = Len(Persisted) + Len(q)
        /\ \A id \in 0 .. MaxCheckpoints : id # checkpoint.id => log'[id] = log[id]
        /\ \A n \in DOMAIN Logged' : Logged'[n].type # "finalReviewEvent" =>
              n \in DOMAIN Logged /\ Logged'[n] = Logged[n]
        /\ \A n \in DOMAIN Logged : n \in DOMAIN Logged' /\ Logged'[n] = Logged[n]
    BY <1>1, FinalsWritten
  <1>4. q = <<>> => log' = log
    <2>1. Finals(<<>>) = <<>>
      BY DEF Finals
    <2> QED
      BY <1>1, <2>1, NothingWritten
  <1>5. Len(q) \in Nat /\ (q # <<>> => Len(q) > 0)
    BY LenProperties, EmptySeq
  <1>6. q # <<>> => status # "closed"
    BY <1>1 DEF CloseTypeOK
  <1>7. Complete => q = <<>>
    OBVIOUS
  <1>8. Resumed'
    <2>1. /\ checkpoint'.id = checkpoints'
          /\ torn' => cuts' > 0
          /\ Len(Persisted') <= checkpoint'.expected
      BY <1>1, <1>3 DEF Resumed
    <2>2. Complete' => Persisted' \in Sent
      <3>1. SUFFICES ASSUME Complete' PROVE Persisted' \in Sent
        OBVIOUS
      <3>2. Len(Persisted') >= checkpoint'.expected
        BY <3>1 DEF Complete
      <3>3. Len(Persisted) + Len(q) = checkpoint.expected
        <4> DEFINE a == Len(Persisted)
                   b == Len(q)
                   c == Len(Persisted')
                   d == checkpoint.expected
        <4>1. a + b <= d /\ c = a + b /\ c >= d /\ a \in Nat /\ b \in Nat /\ d \in Nat
          BY <1>2, <1>3, <1>5, <3>2
        <4> HIDE DEF a, b, c, d
        <4>2. a + b = d
          BY <4>1
        <4> QED
          BY <4>2 DEF a, b, d
      <3> QED
        BY <1>3, <3>3
    <2>3. status' \in {"closing", "closed"} => checkpoint'.id # 0 /\ Complete'
      BY <1>1, <1>2, <1>3, <1>5 DEF Resumed, Complete
    <2>4. pc' \in {"closing", "closed"} => Complete'
      BY <1>3 DEF Complete
    <2>5. \A id \in 0 .. MaxCheckpoints : id = 0 \/ id > checkpoints' => log'[id] = <<>>
      <3>1. CASE q = <<>>
        BY <1>1, <1>4, <3>1 DEF Resumed
      <3>2. CASE q # <<>>
        <4>1. checkpoint.id # 0 /\ checkpoint.id = checkpoints /\ checkpoints \in Nat
          BY <1>1, <3>2 DEF Resumed, CloseTypeOK
        <4>2. ASSUME NEW id \in 0 .. MaxCheckpoints, id = 0 \/ id > checkpoints
              PROVE  log'[id] = <<>>
          <5>1. id # checkpoint.id
            BY <4>1, <4>2
          <5>2. log'[id] = log[id]
            BY <1>3, <5>1
          <5>3. log[id] = <<>>
            BY <1>1, <4>2 DEF Resumed
          <5> QED
            BY <5>2, <5>3
        <4> QED
          BY <4>2
      <3> QED
        BY <3>1, <3>2
    <2> QED
      BY <2>1, <2>2, <2>3, <2>4, <2>5 DEF Resumed
  <1>9. ClosedLast'
    <2>1. CASE q = <<>>
      BY <1>1, <1>4, <2>1 DEF ClosedLast
    <2>2. CASE q # <<>>
      <3>1. SUFFICES ASSUME NEW id \in 0 .. MaxCheckpoints, NEW m \in DOMAIN log'[id]
                     PROVE  log'[id][m].type # "sessionClosed"
        BY DEF ClosedLast
      <3>2. \A i \in 0 .. MaxCheckpoints : \A n \in DOMAIN log[i] :
               log[i][n].type # "sessionClosed"
        BY <1>1, <1>6, <2>2 DEF ClosedLast
      <3>3. CASE id = checkpoint.id
        <4>1. log'[id] = Logged' /\ log[id] = Logged
          BY <3>3 DEF Logged
        <4> QED
          BY <1>3, <3>2, <4>1
      <3>4. CASE id # checkpoint.id
        BY <1>3, <3>2, <3>4
      <3> QED
        BY <3>3, <3>4
    <2> QED
      BY <2>1, <2>2
  <1>10. ASSUME cuts' = 0 PROVE Trailed'
    <2>1. Trailed
      BY <1>10 DEF CloseInv
    <2>2. \A id \in 1 .. checkpoints' - 1 :
             \E finals \in Sent : IsPrefix(log'[id], Audit(finals))
      <3>1. TAKE id \in 1 .. checkpoints' - 1
      <3>2. id # checkpoint.id /\ id \in 0 .. MaxCheckpoints
        BY <1>1, CloseAssumption DEF Resumed, CloseTypeOK
      <3> QED
        BY <1>3, <2>1, <3>2 DEF Trailed
    <2>3. Logged # <<>> => Logged' # <<>>
      <3>1. Logged # <<>> => 1 \in DOMAIN Logged
        BY <1>2, LenProperties, EmptySeq
      <3>2. Logged' # <<>> \/ DOMAIN Logged' = {}
        OBVIOUS
      <3> QED
        BY <1>3, <3>1, <3>2
    <2>4. Whole'
      <3>1. CASE q = <<>>
        <4>1. Logged' = Logged /\ Persisted' = Persisted
          BY <1>4, <3>1, Quiet
        <4> QED
          BY <2>1, <4>1 DEF Trailed, Whole
      <3>2. CASE q # <<>>
        <4>1. Logged = Closing(Persisted)
          BY <1>6, <2>1, <3>2 DEF Trailed, Whole
        <4>2. Logged' = Closing(Persisted')
          BY <1>2, <1>3, <4>1, ClosingExtended
        <4>3. IsPrefix(Persisted', call.finals) /\ call.finals \in Sent
          BY <1>1, <1>3, <1>10, <3>2 DEF CloseTypeOK
        <4> QED
          BY <4>2, <4>3 DEF Whole
      <3> QED
        BY <3>1, <3>2
    <2>5. /\ pc' \in {"finalReviewEvent", "closing", "closed", "sessionClosed",
                     "kitInstanceReleased"} => Logged' # <<>>
          /\ status' \in {"closing", "closed"} => Logged' # <<>>
      BY <2>1, <2>3 DEF Trailed
    <2> QED
      BY <2>2, <2>4, <2>5 DEF Trailed
  <1> QED
    BY <1>3, <1>8, <1>9, <1>10

LEMMA WriteFinalEventsInv ==
    ASSUME CloseInv, WriteFinalEvents
    PROVE  CloseInv'
  <1>1. CloseTypeOK /\ Resumed
    BY DEF CloseInv
  <1>2. /\ pc = "finalReviewEvent" /\ ~Complete /\ Appended(Missing)
        /\ pc' = IF torn THEN "idle" ELSE "closing"
        /\ retry' = retry /\ call' = call /\ status' = status
        /\ checkpoint' = checkpoint /\ checkpoints' = checkpoints
        /\ cuts' = cuts /\ faults' = faults /\ crashes' = crashes
    BY DEF WriteFinalEvents, Goto, counters
  <1>3. /\ Missing = Finals(Rest) /\ Rest \in Seq(Payloads)
        /\ Len(Rest) = checkpoint.expected - Len(Persisted)
        /\ Len(Rest) \in Nat \ {0}
        /\ Persisted \o Rest = call.finals
    BY <1>1, <1>2, RestProperties
  <1>4. /\ checkpoint.expected \in Nat /\ Len(Persisted) \in Nat
        /\ checkpoint.id # 0 /\ status # "closed" /\ call.finals \in Sent
    BY <1>1, <1>2, StateTypes DEF CloseTypeOK, Steps
  <1>5. torn' = FALSE
    <2>1. Len(Finals(Rest)) # 0
      BY <1>3, FinalsType
    <2>2. Finals(Rest) # <<>>
      BY <2>1
    <2> QED
      BY <1>2, <1>3, <2>2 DEF Appended
  <1>6. CASE ~torn
    <2>1. Written(Finals(Rest))
      BY <1>2, <1>3, <1>6 DEF Appended, Written
    <2>2. Len(Persisted) + Len(Rest) = checkpoint.expected
      BY <1>3, <1>4
    <2>3. IsPrefix(Persisted \o Rest, call.finals)
      <3>1. SubSeq(Rest, 1, Len(Rest)) = Rest
        BY <1>3, SubSeqFull
      <3>2. Len(Rest) \in 0 .. Len(Rest)
        BY <1>3
      <3> QED
        BY <1>1, <1>2, <3>1, <3>2, RestProperties
    <2>4. /\ log' \in [0 .. MaxCheckpoints -> Seq(Events)]
          /\ Resumed' /\ ClosedLast' /\ (cuts' = 0 => Trailed')
      <3>1. /\ Len(Persisted) + Len(Rest) <= checkpoint.expected
            /\ Len(Persisted) + Len(Rest) >= checkpoint.expected
        BY <1>4, <2>2
      <3> QED
        BY <1>2, <1>3, <1>4, <1>5, <1>6, <2>1, <2>2, <2>3, <3>1, FinalsStep
    <2>5. CloseTypeOK'
      BY <1>1, <1>2, <1>4, <1>5, <1>6, <2>4 DEF CloseTypeOK, Steps, AuditTypes
    <2> QED
      BY <2>4, <2>5 DEF CloseInv
  <1>7. CASE torn
    <2> DEFINE q == SubSeq(Rest, 2, Len(Rest))
    <2>1. /\ q \in Seq(Payloads) /\ Len(q) = Len(Rest) - 1
          /\ SubSeq(Finals(Rest), 2, Len(Rest)) = Finals(q)
      <3> DEFINE n == Len(Rest)
      <3>1. n \in 0 .. Len(Rest) /\ n \in Nat \ {0} /\ 2 \in {1, 2}
        BY <1>3
      <3> HIDE DEF n
      <3>2. /\ SubSeq(Rest, 2, n) \in Seq(Payloads)
            /\ Len(SubSeq(Rest, 2, n)) = IF 2 <= n THEN n - 2 + 1 ELSE 0
            /\ SubSeq(Finals(Rest), 2, n) = Finals(SubSeq(Rest, 2, n))
        BY <1>3, <3>1, FinalsPart
      <3>3. (IF 2 <= n THEN n - 2 + 1 ELSE 0) = n - 1
        BY <3>1
      <3> QED
        BY <3>2, <3>3 DEF n
    <2>2. Len(Finals(Rest)) = Len(Rest)
      BY <1>3, FinalsType
    <2>3. Written(Finals(q))
      BY <1>2, <1>3, <1>7, <2>1, <2>2 DEF Appended, Written
    <2>4. Len(Persisted) + Len(q) < checkpoint.expected
      BY <1>3, <1>4, <2>1
    <2>5. cuts # 0
      BY <1>1, <1>7 DEF Resumed, CloseTypeOK
    <2>6. /\ log' \in [0 .. MaxCheckpoints -> Seq(Events)]
          /\ Resumed' /\ ClosedLast' /\ (cuts' = 0 => Trailed')
      <3>1. /\ Len(Persisted) + Len(q) <= checkpoint.expected
            /\ Len(Persisted) + Len(q) # checkpoint.expected
        BY <1>3, <1>4, <2>1, <2>4
      <3> HIDE DEF q
      <3> QED
        BY <1>2, <1>4, <1>5, <1>7, <2>1, <2>3, <2>5, <3>1, FinalsStep
    <2>7. CloseTypeOK'
      BY <1>1, <1>2, <1>5, <1>7, <2>6 DEF CloseTypeOK, Steps, AuditTypes
    <2> QED
      BY <2>6, <2>7 DEF CloseInv
  <1> QED
    BY <1>6, <1>7

-----------------------------------------------------------------------------
(* Failures and crashes.                                                   *)

LEMMA InterruptedLog ==
    ASSUME CloseTypeOK, Resumed, Interrupted
    PROVE  /\ \E q \in Seq(Payloads) :
                 /\ Written(Finals(q))
                 /\ Len(Persisted) + Len(q) <= checkpoint.expected
                 /\ q # <<>> =>
                       /\ pc = "finalReviewEvent" /\ ~Complete
                       /\ Len(Persisted) + Len(q) # checkpoint.expected
                       /\ ~torn => IsPrefix(Persisted \o q, call.finals)
           /\ torn' \in BOOLEAN
           /\ torn' => cuts' > 0
           /\ cuts' \in 0 .. MaxCuts
           /\ cuts <= cuts'
  <1> DEFINE finalEvents == pc = "finalReviewEvent" /\ ~Complete
             due == IF finalEvents THEN Front(Missing) ELSE <<>>
             appending == \/ pc = "idle" \/ finalEvents
                          \/ pc \in AuditTypes /\ ~Has(pc)
             a == IF torn THEN 2 ELSE 1
  <1>1. PICK n \in 0 .. Len(due), cut \in {FALSE, appending /\ cuts < MaxCuts} :
            /\ log' = [log EXCEPT ![checkpoint.id] = @ \o SubSeq(due, a, n)]
            /\ torn' = (cut \/ (torn /\ n = 0))
            /\ cuts' = cuts + (IF cut THEN 1 ELSE 0)
    BY DEF Interrupted
  <1>2. /\ torn' \in BOOLEAN /\ (torn' => cuts' > 0)
        /\ cuts' \in 0 .. MaxCuts /\ cuts <= cuts'
    <2>1. cuts \in 0 .. MaxCuts /\ torn \in BOOLEAN /\ (torn => cuts > 0)
          /\ MaxCuts \in Nat
      BY CloseAssumption DEF CloseTypeOK, Resumed
    <2>2. cut \in BOOLEAN /\ (cut => cuts < MaxCuts)
      BY <1>1
    <2> HIDE DEF due, appending, finalEvents
    <2> QED
      BY <1>1, <2>1, <2>2
  <1>3. /\ Len(Persisted) \in Nat /\ checkpoint.expected \in Nat
        /\ Len(Persisted) <= checkpoint.expected
    BY StateTypes DEF Resumed
  <1>4. ASSUME SubSeq(due, a, n) = <<>>
        PROVE  \E q \in Seq(Payloads) :
                 /\ Written(Finals(q))
                 /\ Len(Persisted) + Len(q) <= checkpoint.expected
                 /\ q = <<>>
    <2>1. Finals(<<>>) = <<>> /\ <<>> \in Seq(Payloads) /\ Len(<<>>) = 0
      BY SentType DEF Finals
    <2>2. Written(Finals(<<>>))
      <3>1. Written(SubSeq(due, a, n))
        BY <1>1 DEF Written
      <3> QED
        BY <1>4, <2>1, <3>1
    <2>3. Len(Persisted) + Len(<<>>) <= checkpoint.expected
      BY <1>3, <2>1
    <2> QED
      BY <2>1, <2>2, <2>3
  <1>5. CASE ~finalEvents \/ n = 0
    <2>1. n = 0
      <3>1. ~finalEvents => due = <<>>
        OBVIOUS
      <3>2. Len(<<>>) = 0
        OBVIOUS
      <3>3. due = <<>> => n = 0
        BY <3>2
      <3> QED
        BY <1>5, <3>1, <3>3
    <2>2. SubSeq(due, a, n) = <<>>
      BY <2>1, SubSeqEmpty
    <2> QED
      BY <1>2, <1>4, <2>2
  <1>6. CASE finalEvents /\ n # 0
    <2> DEFINE r == SubSeq(Rest, 1, Len(Rest) - 1)
               q == SubSeq(r, a, n)
    <2>1. /\ Missing = Finals(Rest) /\ Rest \in Seq(Payloads)
          /\ Len(Rest) = checkpoint.expected - Len(Persisted)
          /\ Len(Rest) \in Nat \ {0}
          /\ \A k \in 0 .. Len(Rest) :
                IsPrefix(Persisted \o SubSeq(Rest, 1, k), call.finals)
      BY <1>6, RestProperties
    <2>2. /\ r \in Seq(Payloads) /\ Len(r) = Len(Rest) - 1
          /\ SubSeq(Finals(Rest), 1, Len(Rest) - 1) = Finals(r)
      <3> DEFINE k == Len(Rest) - 1
      <3>1. k \in 0 .. Len(Rest) /\ k \in Nat /\ 1 \in {1, 2}
        BY <2>1
      <3> HIDE DEF k
      <3>2. /\ SubSeq(Rest, 1, k) \in Seq(Payloads)
            /\ Len(SubSeq(Rest, 1, k)) = IF 1 <= k THEN k - 1 + 1 ELSE 0
            /\ SubSeq(Finals(Rest), 1, k) = Finals(SubSeq(Rest, 1, k))
        BY <2>1, <3>1, FinalsPart
      <3>3. (IF 1 <= k THEN k - 1 + 1 ELSE 0) = k
        BY <3>1
      <3> QED
        BY <3>2, <3>3 DEF k
    <2>3. due = Finals(r) /\ Len(Finals(Rest)) = Len(Rest)
      BY <1>6, <2>1, <2>2, FinalsType DEF Front
    <2>4. Len(due) = Len(r)
      BY <2>2, <2>3, FinalsType
    <2>5. a \in {1, 2} /\ n \in 0 .. Len(r) /\ n \in 1 .. Len(r)
      <3> HIDE DEF due, r
      <3> QED
        BY <1>6, <2>4
    <2>6. /\ q \in Seq(Payloads) /\ Len(q) = (IF a <= n THEN n - a + 1 ELSE 0)
          /\ SubSeq(Finals(r), a, n) = Finals(q)
      <3> HIDE DEF r, a
      <3> QED
        BY <2>2, <2>5, FinalsPart
    <2>7. Written(Finals(q))
      <3> HIDE DEF a, r
      <3> QED
        BY <1>1, <2>3, <2>6 DEF Written
    <2>8. Len(Persisted) + Len(q) < checkpoint.expected
      <3>1. Len(q) <= n /\ n <= Len(Rest) - 1 /\ Len(q) \in Nat
        BY <2>2, <2>5, <2>6
      <3> HIDE DEF q, r
      <3> QED
        BY <1>3, <2>1, <3>1
    <2>9. ~torn => IsPrefix(Persisted \o q, call.finals)
      <3>1. SUFFICES ASSUME ~torn PROVE IsPrefix(Persisted \o q, call.finals)
        OBVIOUS
      <3>2. /\ 1 \in 1 .. Len(Rest) /\ Len(Rest) - 1 \in 1 .. Len(Rest)
            /\ 1 \in 1 .. (Len(Rest) - 1) - 1 + 1
            /\ n \in 1 .. (Len(Rest) - 1) - 1 + 1 /\ n \in 0 .. Len(Rest)
        BY <2>1, <2>2, <2>5
      <3>3. SubSeq(SubSeq(Rest, 1, Len(Rest) - 1), 1, n) = SubSeq(Rest, 1 + 1 - 1, 1 + n - 1)
        BY <2>1, <3>2, SubSeqOfSubSeq
      <3>4. SubSeq(Rest, 1 + 1 - 1, 1 + n - 1) = SubSeq(Rest, 1, n)
        BY <3>2
      <3> QED
        BY <2>1, <3>1, <3>2, <3>3, <3>4
    <2>10. /\ Len(Persisted) + Len(q) <= checkpoint.expected
           /\ Len(Persisted) + Len(q) # checkpoint.expected
      <3>1. Len(q) \in Nat
        BY <2>6, LenProperties
      <3> HIDE DEF q
      <3> QED
        BY <1>3, <2>8, <3>1
    <2> HIDE DEF q
    <2> QED
      BY <1>2, <1>6, <2>6, <2>7, <2>9, <2>10
  <1> QED
    BY <1>5, <1>6

LEMMA InterruptedInv ==
    ASSUME CloseInv, Interrupted, UNCHANGED <<status, checkpoint, call, checkpoints>>,
           pc' \in {"idle", "down"}, retry' \in BOOLEAN,
           faults' \in 0 .. MaxFaults, crashes' \in 0 .. MaxCrashes
    PROVE  CloseInv'
  <1>1. CloseTypeOK /\ Resumed
    BY DEF CloseInv
  <1>2. PICK q \in Seq(Payloads) :
                 /\ Written(Finals(q))
                 /\ Len(Persisted) + Len(q) <= checkpoint.expected
                 /\ q # <<>> =>
                       /\ pc = "finalReviewEvent" /\ ~Complete
                       /\ Len(Persisted) + Len(q) # checkpoint.expected
                       /\ ~torn => IsPrefix(Persisted \o q, call.finals)
    BY <1>1, InterruptedLog
  <1>3. /\ torn' \in BOOLEAN /\ (torn' => cuts' > 0)
        /\ cuts' \in 0 .. MaxCuts /\ cuts <= cuts'
    BY <1>1, InterruptedLog
  <1>4. cuts' = 0 => cuts = 0 /\ ~torn
    BY <1>1, <1>3, CloseAssumption DEF CloseTypeOK, Resumed
  <1>5. q # <<>> => checkpoint.id # 0
    BY <1>1, <1>2 DEF CloseTypeOK, Steps
  <1>6. Len(Persisted) + Len(q) = checkpoint.expected => Persisted \o q \in Sent
    <2>1. SUFFICES ASSUME Len(Persisted) + Len(q) = checkpoint.expected
                   PROVE  Persisted \o q \in Sent
      OBVIOUS
    <2>2. q = <<>>
      BY <1>2, <2>1
    <2>3. Persisted \in Seq(Payloads) /\ Len(Persisted) \in Nat
      BY <1>1, StateTypes
    <2>4. Persisted \o q = Persisted /\ Len(q) = 0
      BY <2>2, <2>3
    <2>5. Complete
      BY <2>1, <2>3, <2>4 DEF Complete
    <2> QED
      BY <1>1, <2>4, <2>5 DEF Resumed
  <1>7. /\ log' \in [0 .. MaxCheckpoints -> Seq(Events)]
        /\ Resumed' /\ ClosedLast' /\ (cuts' = 0 => Trailed')
    BY <1>2, <1>3, <1>4, <1>5, <1>6, FinalsStep
  <1>8. CloseTypeOK'
    BY <1>1, <1>3, <1>7 DEF CloseTypeOK, Steps, AuditTypes
  <1> QED
    BY <1>7, <1>8 DEF CloseInv

LEMMA FailuresInv ==
    ASSUME CloseInv, Fail \/ Crash
    PROVE  CloseInv'
  <1>1. CloseTypeOK
    BY DEF CloseInv
  <1>2. CASE Fail
    <2>1. faults' \in 0 .. MaxFaults /\ crashes' \in 0 .. MaxCrashes
          /\ retry' \in BOOLEAN
      BY <1>1, <1>2, CloseAssumption DEF Fail, CloseTypeOK, Queued
    <2> QED
      BY <1>2, <2>1, InterruptedInv DEF Fail
  <1>3. CASE Crash
    <2>1. faults' \in 0 .. MaxFaults /\ crashes' \in 0 .. MaxCrashes
      BY <1>1, <1>3, CloseAssumption DEF Crash, CloseTypeOK
    <2> QED
      BY <1>3, <2>1, InterruptedInv DEF Crash
  <1> QED
    BY <1>2, <1>3

-----------------------------------------------------------------------------
(* The audit events around the final events.                               *)

LEMMA AuditStep ==
    ASSUME CloseInv, NEW type \in AuditTypes, pc = type, AppendUnlessThere(type),
           checkpoint' = checkpoint, checkpoints' = checkpoints,
           call' = call, status' = status, cuts' = cuts
    PROVE  /\ log' \in [0 .. MaxCheckpoints -> Seq(Events)]
           /\ torn' \in BOOLEAN /\ (torn' => cuts > 0)
           /\ Persisted' = Persisted /\ Complete' = Complete
           /\ \A id \in 0 .. MaxCheckpoints : id # checkpoint.id => log'[id] = log[id]
           /\ \A id \in 0 .. MaxCheckpoints : id = 0 \/ id > checkpoints =>
                 log'[id] = <<>>
           /\ ClosedLast'
           /\ cuts = 0 =>
                 /\ Has(type)'
                 /\ \/ Has(type) /\ log' = log
                    \/ ~Has(type) /\ Logged' = Logged \o <<Event(type, "audit")>>
  <1>1. CloseTypeOK /\ Resumed /\ ClosedLast
    BY DEF CloseInv
  <1>2. /\ checkpoint.id \in 0 .. MaxCheckpoints /\ checkpoint.id # 0
        /\ checkpoint.id = checkpoints /\ checkpoints \in Nat
        /\ Logged \in Seq(Events)
    BY <1>1, StateTypes DEF Resumed, CloseTypeOK, Steps, AuditTypes
  <1>3. CASE log' = log /\ ~Written(<<Event(type, "audit")>>)
    <2>1. /\ Persisted' = Persisted /\ Complete' = Complete
          /\ Has(type)' = Has(type)
      BY <1>3, Quiet
    <2>2. \/ Has(type) /\ torn' = torn
          \/ torn /\ ~torn'
      BY <1>1, <1>3, AuditAppended
    <2>3. torn' \in BOOLEAN /\ (torn' => cuts > 0) /\ (cuts = 0 => Has(type))
      <3>1. torn' \in BOOLEAN
        BY <1>1 DEF AppendUnlessThere, Appended, CloseTypeOK
      <3> QED
        BY <1>1, <2>2, <3>1 DEF Resumed
    <2>4. ClosedLast'
      BY <1>1, <1>3 DEF ClosedLast
    <2> QED
      BY <1>1, <1>3, <2>1, <2>3, <2>4 DEF Resumed, CloseTypeOK
  <1>4. CASE Written(<<Event(type, "audit")>>) /\ ~Has(type) /\ torn' = FALSE
    <2>1. /\ log' \in [0 .. MaxCheckpoints -> Seq(Events)]
          /\ Logged' = Logged \o <<Event(type, "audit")>>
          /\ Persisted' = Persisted
          /\ \A id \in 0 .. MaxCheckpoints : id # checkpoint.id => log'[id] = log[id]
          /\ \A n \in DOMAIN Logged' : n = Len(Logged) + 1 \/ n \in DOMAIN Logged
          /\ \A n \in DOMAIN Logged : n \in DOMAIN Logged' /\ Logged'[n] = Logged[n]
          /\ Logged'[Len(Logged) + 1].type = type
          /\ Has(type)'
      BY <1>1, <1>4, AuditWritten
    <2>2. Complete' = Complete
      BY <2>1 DEF Complete
    <2>3. \A id \in 0 .. MaxCheckpoints : id = 0 \/ id > checkpoints => log'[id] = <<>>
      <3>1. TAKE id \in 0 .. MaxCheckpoints
      <3>2. id = 0 \/ id > checkpoints => id # checkpoint.id
        BY <1>2
      <3> QED
        BY <1>1, <2>1, <3>2 DEF Resumed
    <2>4. ClosedLast'
      <3>1. ASSUME NEW id \in 0 .. MaxCheckpoints, NEW m \in DOMAIN log'[id],
                   log'[id][m].type = "sessionClosed"
            PROVE  /\ id = checkpoints
                   /\ status = "closed"
                   /\ \A n \in DOMAIN log'[id] :
                         log'[id][n].type = "sessionClosed" => n = m
        <4>1. CASE id # checkpoint.id
          BY <1>1, <2>1, <3>1, <4>1 DEF ClosedLast
        <4>2. CASE id = checkpoint.id
          <5>1. log'[id] = Logged' /\ log[id] = Logged /\ id = checkpoints
            BY <1>2, <4>2 DEF Logged
          <5>2. CASE type = "sessionClosed"
            <6>1. status = "closed"
              BY <1>1, <5>2 DEF CloseTypeOK
            <6>2. \A n \in DOMAIN Logged : Logged[n].type # "sessionClosed"
              BY <1>4, <5>2 DEF Has
            <6>3. \A n \in DOMAIN Logged' :
                     Logged'[n].type = "sessionClosed" => n = Len(Logged) + 1
              BY <2>1, <6>2
            <6> QED
              BY <3>1, <5>1, <6>1, <6>3
          <5>3. CASE type # "sessionClosed"
            <6>1. \A n \in DOMAIN Logged' : Logged'[n].type = "sessionClosed" =>
                     n \in DOMAIN Logged /\ Logged[n].type = "sessionClosed"
              BY <2>1, <5>3
            <6>2. m \in DOMAIN log[id] /\ log[id][m].type = "sessionClosed"
              BY <3>1, <5>1, <6>1
            <6>3. status = "closed" /\ \A n \in DOMAIN log[id] :
                     log[id][n].type = "sessionClosed" => n = m
              BY <1>1, <6>2 DEF ClosedLast
            <6> QED
              BY <5>1, <6>1, <6>3
          <5> QED
            BY <5>2, <5>3
        <4> QED
          BY <4>1, <4>2
      <3> QED
        BY <3>1 DEF ClosedLast
    <2> QED
      BY <1>4, <2>1, <2>2, <2>3, <2>4
  <1>5. \/ log' = log /\ ~Written(<<Event(type, "audit")>>)
        \/ Written(<<Event(type, "audit")>>) /\ ~Has(type) /\ torn' = FALSE
    <2>1. log' = log => ~Written(<<Event(type, "audit")>>)
      <3>1. SUFFICES ASSUME log' = log, Written(<<Event(type, "audit")>>) PROVE FALSE
        OBVIOUS
      <3>2. /\ Logged' = Logged /\ Len(Logged) + 1 \in DOMAIN Logged'
        BY <1>1, <3>1, AuditWritten, Quiet
      <3> QED
        BY <1>2, <3>2, LenProperties
    <2> QED
      BY <1>1, <2>1, AuditAppended
  <1> QED
    BY <1>3, <1>4, <1>5

LEMMA AuditResumed ==
    ASSUME CloseInv, NEW type \in AuditTypes, pc = type, AppendUnlessThere(type),
           checkpoint' = checkpoint, checkpoints' = checkpoints,
           call' = call, status' = status, cuts' = cuts,
           pc' = "finalReviewEvent" => pc = "sessionClosing",
           pc' \in {"finalReviewEvent", "kitInstanceReleased", "idle"}
    PROVE  Resumed'
  <1>1. Resumed
    BY DEF CloseInv
  <1>2. /\ torn' => cuts > 0
        /\ Persisted' = Persisted /\ Complete' = Complete
        /\ \A id \in 0 .. MaxCheckpoints : id = 0 \/ id > checkpoints => log'[id] = <<>>
    BY AuditStep
  <1> QED
    BY <1>1, <1>2 DEF Resumed

LEMMA WriteSessionClosingInv ==
    ASSUME CloseInv, WriteSessionClosing
    PROVE  CloseInv'
  <1>1. CloseTypeOK /\ Resumed
    BY DEF CloseInv
  <1>2. /\ pc = "sessionClosing" /\ AppendUnlessThere("sessionClosing")
        /\ pc' = "finalReviewEvent" /\ retry' = retry /\ call' = call
        /\ status' = status /\ checkpoint' = checkpoint
        /\ checkpoints' = checkpoints /\ cuts' = cuts
        /\ faults' = faults /\ crashes' = crashes
        /\ "sessionClosing" \in AuditTypes
    BY DEF WriteSessionClosing, Goto, counters, AuditTypes
  <1>3. /\ log' \in [0 .. MaxCheckpoints -> Seq(Events)]
        /\ torn' \in BOOLEAN /\ Persisted' = Persisted /\ ClosedLast'
        /\ \A id \in 0 .. MaxCheckpoints : id # checkpoint.id => log'[id] = log[id]
        /\ cuts = 0 =>
              /\ Has("sessionClosing")'
              /\ \/ Has("sessionClosing") /\ log' = log
                 \/ /\ ~Has("sessionClosing")
                    /\ Logged' = Logged \o <<Event("sessionClosing", "audit")>>
    BY <1>2, AuditStep
  <1>4. CloseTypeOK'
    BY <1>1, <1>2, <1>3 DEF CloseTypeOK, Steps, AuditTypes
  <1>5. Resumed'
    BY <1>2, AuditResumed
  <1>6. ASSUME cuts = 0 PROVE Trailed'
    <2>1. Trailed /\ status # "closed"
      BY <1>1, <1>2, <1>6 DEF CloseInv, CloseTypeOK
    <2>2. \A id \in 1 .. checkpoints' - 1 :
             \E finals \in Sent : IsPrefix(log'[id], Audit(finals))
      <3>1. TAKE id \in 1 .. checkpoints' - 1
      <3>2. id # checkpoint.id /\ id \in 0 .. MaxCheckpoints
        BY <1>1, <1>2, CloseAssumption DEF Resumed, CloseTypeOK
      <3> QED
        BY <1>2, <1>3, <2>1, <3>2 DEF Trailed
    <2>3. Persisted \in Seq(Payloads)
      BY <1>1, StateTypes
    <2>4. Logged' # <<>>
      <3>1. Logged' = <<>> => DOMAIN Logged' = {}
        OBVIOUS
      <3> QED
        BY <1>3, <1>6, <3>1 DEF Has
    <2>5. Whole'
      <3>1. CASE Logged = <<>>
        <4>1. Persisted = <<>>
          BY <3>1, FinalsInEmpty DEF Persisted
        <4>2. ~Has("sessionClosing")
          BY <3>1 DEF Has
        <4> DEFINE e == <<Event("sessionClosing", "audit")>>
        <4>3. e \in Seq(Events)
          BY DEF Event, Events, AuditTypes
        <4>4. Logged' = <<>> \o e /\ Closing(<<>>) = e \o <<>>
          <5>1. Finals(<<>>) = <<>>
            BY DEF Finals
          <5> QED
            BY <1>3, <1>6, <3>1, <4>2, <5>1 DEF Closing
        <4>5. <<>> \o e = e /\ e \o <<>> = e
          BY <4>3
        <4>6. Logged' = Closing(Persisted')
          BY <1>3, <4>1, <4>4, <4>5
        <4>7. IsPrefix(<<>>, <<>>)
          BY SentType, EmptyIsPrefix
        <4> QED
          BY <1>3, <4>1, <4>6, <4>7, SentType DEF Whole
      <3>2. CASE Logged = Closing(Persisted)
                 /\ \E finals \in Sent : IsPrefix(Persisted, finals)
        <4>1. Has("sessionClosing")
          BY <2>3, <3>2, ClosingTypes DEF Has
        <4>2. Logged' = Logged
          BY <1>2, <1>3, <1>6, <4>1, Quiet
        <4> QED
          BY <1>3, <3>2, <4>2 DEF Whole
      <3> QED
        BY <2>1, <3>1, <3>2 DEF Trailed, Whole
    <2> QED
      BY <1>2, <2>2, <2>4, <2>5 DEF Trailed
  <1> QED
    BY <1>2, <1>3, <1>4, <1>5, <1>6 DEF CloseInv

(* The events after the final events, in the status closed.                *)
LEMMA TerminalWhole ==
    ASSUME CloseInv, cuts = 0, status = "closed", Logged # <<>>
    PROVE  /\ Persisted \in Sent /\ Persisted \in Seq(Payloads)
           /\ \/ Logged = Closing(Persisted)
              \/ Logged = Closing(Persisted) \o <<Event("sessionClosed", "audit")>>
              \/ Logged = Audit(Persisted)
           /\ Logged = Closing(Persisted) =>
                 ~Has("sessionClosed") /\ ~Has("kitInstanceReleased")
           /\ Logged = Audit(Persisted) =>
                 Has("sessionClosed") /\ Has("kitInstanceReleased")
           /\ Logged = Closing(Persisted) \o <<Event("sessionClosed", "audit")>> =>
                 Has("sessionClosed")
  <1>1. CloseTypeOK /\ Resumed /\ Trailed
    BY DEF CloseInv
  <1>2. Persisted \in Sent /\ Persisted \in Seq(Payloads)
    BY <1>1, StateTypes DEF Resumed
  <1> DEFINE c == Closing(Persisted)
  <1>3. c \in Seq(Events)
    BY <1>2, AuditShape
  <1>4. \A n \in DOMAIN c : c[n].type \in {"sessionClosing", "finalReviewEvent"}
    BY <1>2, ClosingTypes
  <1>5. Logged = c => ~Has("sessionClosed") /\ ~Has("kitInstanceReleased")
    <2> HIDE DEF c
    <2> QED
      BY <1>4 DEF Has
  <1>6. ASSUME NEW S, NEW s \in Seq(S), NEW e \in S
        PROVE  /\ Len(s) + 1 \in DOMAIN (s \o <<e>>)
               /\ (s \o <<e>>)[Len(s) + 1] = e
    <2>1. s \o <<e>> = Append(s, e)
      BY AppendIsConcat
    <2> QED
      BY <2>1
  <1>7. /\ Event("sessionClosed", "audit") \in Events
        /\ Event("kitInstanceReleased", "audit") \in Events
        /\ Event("sessionClosed", "audit").type = "sessionClosed"
        /\ Event("kitInstanceReleased", "audit").type = "kitInstanceReleased"
    BY DEF Event, Events, AuditTypes
  <1> DEFINE d == c \o <<Event("sessionClosed", "audit")>>
             k == Len(c) + 1
  <1>8. d \in Seq(Events) /\ k \in DOMAIN d /\ d[k].type = "sessionClosed"
    <2>1. <<Event("sessionClosed", "audit")>> \in Seq(Events)
      BY <1>7
    <2>2. d \in Seq(Events)
      BY <1>3, <2>1, ConcatProperties
    <2> HIDE DEF c
    <2> QED
      BY <1>3, <1>6, <1>7, <2>2
  <1>9. Logged = d => Has("sessionClosed")
    <2> HIDE DEF d, k
    <2> QED
      BY <1>8 DEF Has
  <1> DEFINE f == d \o <<Event("kitInstanceReleased", "audit")>>
             j == Len(d) + 1
  <1>10. /\ j \in DOMAIN f /\ f[j].type = "kitInstanceReleased"
         /\ k \in DOMAIN f /\ f[k].type = "sessionClosed"
    <2>1. j \in DOMAIN f /\ f[j].type = "kitInstanceReleased"
      <3> HIDE DEF d
      <3> QED
        BY <1>6, <1>7, <1>8
    <2>2. f = Append(d, Event("kitInstanceReleased", "audit"))
      <3> HIDE DEF d
      <3> QED
        BY <1>7, <1>8, AppendIsConcat
    <2>3. /\ DOMAIN d = 1 .. Len(d) /\ Len(d) \in Nat
          /\ \A n \in 1 .. Len(d) : f[n] = d[n]
          /\ DOMAIN f = 1 .. Len(d) + 1
      <3> HIDE DEF d
      <3> QED
        BY <1>7, <1>8, <2>2, AppendProperties, LenProperties
    <2> HIDE DEF d, f, k, j
    <2> QED
      BY <1>8, <2>1, <2>3
  <1>11. Logged = f => Has("sessionClosed") /\ Has("kitInstanceReleased")
    <2> HIDE DEF f, k, j
    <2> QED
      BY <1>10 DEF Has
  <1>12. Audit(Persisted) = f
    BY <1>2, AuditShape
  <1> QED
    BY <1>1, <1>2, <1>5, <1>9, <1>11, <1>12 DEF Trailed, Whole

LEMMA WriteTerminalsInv ==
    ASSUME CloseInv, WriteSessionClosed \/ WriteKitInstanceReleased
    PROVE  CloseInv'
  <1>1. CloseTypeOK /\ Resumed
    BY DEF CloseInv
  <1>2. PICK type \in {"sessionClosed", "kitInstanceReleased"} :
            /\ pc = type /\ AppendUnlessThere(type)
            /\ type = "sessionClosed" => pc' = "kitInstanceReleased" /\ retry' = retry
            /\ type = "kitInstanceReleased" => pc' = "idle" /\ retry' = FALSE
    BY DEF WriteSessionClosed, WriteKitInstanceReleased, Goto
  <1>3. /\ call' = call /\ status' = status /\ checkpoint' = checkpoint
        /\ checkpoints' = checkpoints /\ cuts' = cuts
        /\ faults' = faults /\ crashes' = crashes
        /\ type \in AuditTypes /\ status = "closed"
    BY <1>1, <1>2
    DEF WriteSessionClosed, WriteKitInstanceReleased, Goto, counters, AuditTypes,
        CloseTypeOK
  <1>4. /\ log' \in [0 .. MaxCheckpoints -> Seq(Events)]
        /\ torn' \in BOOLEAN /\ Persisted' = Persisted /\ ClosedLast'
        /\ \A id \in 0 .. MaxCheckpoints : id # checkpoint.id => log'[id] = log[id]
        /\ cuts = 0 =>
              /\ Has(type)'
              /\ \/ Has(type) /\ log' = log
                 \/ ~Has(type) /\ Logged' = Logged \o <<Event(type, "audit")>>
    BY <1>2, <1>3, AuditStep
  <1>5. CloseTypeOK'
    BY <1>1, <1>2, <1>3, <1>4 DEF CloseTypeOK, Steps, AuditTypes
  <1>6. Resumed'
    BY <1>2, <1>3, AuditResumed
  <1>7. ASSUME cuts = 0 PROVE Trailed'
    <2>1. Trailed /\ Logged # <<>>
      BY <1>2, <1>7 DEF CloseInv, Trailed
    <2>2. \A id \in 1 .. checkpoints' - 1 :
             \E finals \in Sent : IsPrefix(log'[id], Audit(finals))
      <3>1. TAKE id \in 1 .. checkpoints' - 1
      <3>2. id # checkpoint.id /\ id \in 0 .. MaxCheckpoints
        BY <1>1, <1>3, CloseAssumption DEF Resumed, CloseTypeOK
      <3> QED
        BY <1>3, <1>4, <2>1, <3>2 DEF Trailed
    <2>3. Logged' # <<>>
      <3>1. Logged' = <<>> => DOMAIN Logged' = {}
        OBVIOUS
      <3> QED
        BY <1>4, <1>7, <3>1 DEF Has
    <2>4. Whole'
      <3>1. CASE Has(type) /\ log' = log
        <4>1. Logged' = Logged
          BY <1>3, <3>1, Quiet
        <4> QED
          BY <1>3, <1>4, <2>1, <4>1 DEF Trailed, Whole
      <3>2. CASE ~Has(type) /\ Logged' = Logged \o <<Event(type, "audit")>>
        <4>1. CASE type = "sessionClosed"
          <5>1. Logged = Closing(Persisted)
            BY <1>3, <1>7, <2>1, <3>2, <4>1, TerminalWhole
          <5> QED
            BY <1>3, <1>4, <3>2, <4>1, <5>1 DEF Whole
        <4>2. CASE type = "kitInstanceReleased"
          <5>1. Has("sessionClosed")
            BY <1>2, <2>1, <4>2 DEF Trailed
          <5>2. Logged = Closing(Persisted) \o <<Event("sessionClosed", "audit")>>
                /\ Persisted \in Seq(Payloads)
            BY <1>3, <1>7, <2>1, <3>2, <4>2, <5>1, TerminalWhole
          <5>3. Logged' = Audit(Persisted)
            BY <3>2, <4>2, <5>2, AuditShape
          <5> QED
            BY <1>3, <1>4, <5>3 DEF Whole
        <4> QED
          BY <1>2, <4>1, <4>2
      <3> QED
        BY <1>4, <1>7, <3>1, <3>2
    <2>5. pc' = "kitInstanceReleased" => Has("sessionClosed")'
      BY <1>2, <1>4, <1>7
    <2> QED
      BY <2>2, <2>3, <2>4, <2>5 DEF Trailed
  <1> QED
    BY <1>3, <1>4, <1>5, <1>6, <1>7 DEF CloseInv

-----------------------------------------------------------------------------
(* The invariant, and what follows from it.                                *)

LEMMA InitCloseInv ==
    ASSUME Init
    PROVE  CloseInv
  <1>1. /\ checkpoint = [id |-> 0, expected |-> 0] /\ checkpoints = 0
        /\ log = [id \in 0 .. MaxCheckpoints |-> <<>>] /\ cuts = 0 /\ ~torn
        /\ pc = "idle" /\ status \in {"created", "active"}
    BY DEF Init
  <1>2. {MaxCuts, MaxCheckpoints, MaxFaults, MaxCrashes} \subseteq Nat
    BY CloseAssumption
  <1>3. Logged = <<>>
    BY <1>1, <1>2 DEF Logged
  <1>4. Persisted = <<>> /\ Len(Persisted) = 0
    BY <1>3, FinalsInEmpty DEF Persisted
  <1>5. CloseTypeOK
    <2>1. log \in [0 .. MaxCheckpoints -> Seq(Events)]
      BY <1>1
    <2>2. call.caller \in Callers /\ call.finals \in Sent
      BY SentType DEF Init, Callers
    <2>3. /\ checkpoints \in 0 .. MaxCheckpoints /\ cuts \in 0 .. MaxCuts
          /\ faults \in 0 .. MaxFaults /\ crashes \in 0 .. MaxCrashes
          /\ checkpoint.id \in 0 .. checkpoints /\ checkpoint.expected \in Nat
      BY <1>1, <1>2 DEF Init
    <2>4. status \in Statuses /\ torn \in BOOLEAN /\ retry \in BOOLEAN
          /\ pc = "idle" /\ pc \in Steps \union {"idle", "down"} /\ pc \notin Steps
      BY DEF Init, Statuses, Steps, AuditTypes
    <2> QED
      BY <2>1, <2>2, <2>3, <2>4 DEF CloseTypeOK, Steps, AuditTypes
  <1>6. Resumed
    BY <1>1, <1>4, SentType DEF Resumed
  <1>7. ClosedLast
    BY <1>1 DEF ClosedLast
  <1>8. Trailed
    BY <1>1, <1>3 DEF Trailed, Whole
  <1> QED
    BY <1>5, <1>6, <1>7, <1>8 DEF CloseInv

LEMMA NextCloseInv ==
    ASSUME CloseInv, [Next]_vars
    PROVE  CloseInv'
  <1>1. CASE UNCHANGED vars
    <2>1. CloseTypeOK'
      BY <1>1 DEF vars, durable, volatile, counters, CloseInv, CloseTypeOK
    <2>2. Resumed /\ (cuts = 0 => Trailed)
      BY DEF CloseInv
    <2> QED
      BY <1>1, <2>1, <2>2, QuietStep
      DEF vars, durable, volatile, counters, Resumed, Trailed, IsSessionMutable
  <1>2. CASE \/ \E finals \in Sent : CloseRoute(finals)
             \/ IdleCountdownEnds
             \/ RetryTeardown
             \/ Restart /\ Recoverable
    BY <1>2, CallsBegin
  <1>3. CASE \/ ClaimLease
             \/ ActivityCancels
             \/ SkipFinalEvents
             \/ WriteClosing
             \/ WriteClosed
             \/ Restart /\ ~Recoverable
    BY <1>3, OtherQuietSteps
  <1>4. CASE WriteCheckpoint
    BY <1>4, WriteCheckpointInv
  <1>5. CASE WriteSessionClosing
    BY <1>5, WriteSessionClosingInv
  <1>6. CASE WriteFinalEvents
    BY <1>6, WriteFinalEventsInv
  <1>7. CASE WriteSessionClosed \/ WriteKitInstanceReleased
    BY <1>7, WriteTerminalsInv
  <1>8. CASE Fail \/ Crash
    BY <1>8, FailuresInv
  <1> QED
    BY <1>1, <1>2, <1>3, <1>4, <1>5, <1>6, <1>7, <1>8 DEF Next, Proceed

(* The inductive invariant of a close holds throughout, whichever caller   *)
(* goes on with it, and after every failing write, crash and restart.      *)
THEOREM CloseInvariant == Spec => []CloseInv
  <1>1. Init => CloseInv
    BY InitCloseInv
  <1>2. CloseInv /\ [Next]_vars => CloseInv'
    BY NextCloseInv
  <1> QED
    BY <1>1, <1>2, PTL DEF Spec

(* Type correctness, and every write finds the session in the status it is *)
(* written for (closeReviewSessionInternal).                               *)
THEOREM CloseTypeCorrect == Spec => []CloseTypeOK
  <1>1. CloseInv => CloseTypeOK
    BY DEF CloseInv
  <1> QED
    BY <1>1, CloseInvariant, PTL

(* However often a close is interrupted and repeated, the events of every  *)
(* checkpoint begin those of one uninterrupted close, as long as no append *)
(* is cut off in its line.                                                 *)
THEOREM OneUninterruptedClose == Spec => []AuditTrail
  <1>1. CloseInv => AuditTrail
    <2>1. SUFFICES ASSUME CloseInv, cuts = 0, NEW id \in 1 .. checkpoints
                   PROVE  \E finals \in Sent : IsPrefix(log[id], Audit(finals))
      BY DEF AuditTrail
    <2>2. CloseTypeOK /\ Resumed /\ Trailed
      BY <2>1 DEF CloseInv
    <2>3. CASE id = checkpoints
      <3>1. log[id] = Logged
        BY <2>2, <2>3 DEF Resumed, Logged
      <3> QED
        BY <2>1, <3>1, LoggedIsPrefix
    <2>4. CASE id # checkpoints
      <3>1. id \in 1 .. checkpoints - 1
        BY <2>2, <2>4 DEF CloseTypeOK
      <3> QED
        BY <2>2, <3>1 DEF Trailed
    <2> QED
      BY <2>3, <2>4
  <1> QED
    BY <1>1, CloseInvariant, PTL

(* A session is closing or closed only with the complete final events of   *)
(* one request in its log, whatever was torn or repeated on the way.       *)
THEOREM FinalEventsAreComplete == Spec => []FinalEventsOfOneRequest
  <1>1. CloseInv => FinalEventsOfOneRequest
    <2>1. SUFFICES ASSUME CloseInv, status \in {"closing", "closed"}
                   PROVE  Len(Persisted) = checkpoint.expected /\ Persisted \in Sent
      BY DEF FinalEventsOfOneRequest
    <2>2. CloseTypeOK /\ Resumed
      BY <2>1 DEF CloseInv
    <2>3. Complete /\ Len(Persisted) <= checkpoint.expected
      BY <2>1, <2>2 DEF Resumed
    <2>4. Len(Persisted) \in Nat /\ checkpoint.expected \in Nat
      BY <2>2, StateTypes
    <2> QED
      BY <2>2, <2>3, <2>4 DEF Resumed, Complete
  <1> QED
    BY <1>1, CloseInvariant, PTL

(* No session has two sessionClosed events, of one checkpoint or of two.   *)
THEOREM ClosedOnce == Spec => []ClosedIsAuditedOnce
  <1>1. CloseInv => ClosedIsAuditedOnce
    <2>1. SUFFICES ASSUME CloseInv, NEW i \in DOMAIN log, NEW j \in DOMAIN log,
                          NEW m \in DOMAIN log[i], NEW n \in DOMAIN log[j],
                          log[i][m].type = "sessionClosed",
                          log[j][n].type = "sessionClosed"
                   PROVE  i = j /\ m = n
      BY DEF ClosedIsAuditedOnce
    <2>2. DOMAIN log = 0 .. MaxCheckpoints /\ ClosedLast
      BY <2>1 DEF CloseInv, CloseTypeOK
    <2> QED
      BY <2>1, <2>2 DEF ClosedLast
  <1> QED
    BY <1>1, CloseInvariant, PTL

=============================================================================
