------------------------------ MODULE ListLemmas ------------------------------
(***************************************************************************)
(* What removing and inserting an element does to a list, and how long a   *)
(* list without repetition can be.                                         *)
(***************************************************************************)
EXTENDS Integers, Sequences, SequencesExt, SequenceTheorems, FiniteSetTheorems, TLAPS

\* What list_del and utils_list_pop do to a list: the elements behind the
\* removed position move up by one.
LEMMA RemoveAtFacts ==
  ASSUME NEW S, NEW s \in Seq(S), NEW p \in 1 .. Len(s)
  PROVE  /\ RemoveAt(s, p) \in Seq(S)
         /\ Len(RemoveAt(s, p)) = Len(s) - 1
         /\ \A k \in 1 .. Len(s) - 1 :
              RemoveAt(s, p)[k] = IF k < p THEN s[k] ELSE s[k + 1]
<1> DEFINE a == SubSeq(s, 1, p - 1)
           b == SubSeq(s, p + 1, Len(s))
<1>0. Len(s) \in Nat /\ p \in Nat /\ p >= 1 /\ p <= Len(s)
  BY LenProperties
<1>1. /\ a \in Seq(S) /\ Len(a) = p - 1
      /\ \A k \in 1 .. p - 1 : a[k] = s[k]
  <2>1. \A k \in 1 .. p - 1 : s[k] \in S
    BY <1>0, ElementOfSeq
  <2> QED BY <1>0, <2>1, SubSeqProperties
<1>2. /\ b \in Seq(S) /\ Len(b) = Len(s) - p
      /\ \A k \in 1 .. Len(s) - p : b[k] = s[k + p]
  BY <1>0, SubSeqProperties
<1> HIDE DEF a, b
<1>3. /\ a \o b \in Seq(S)
      /\ Len(a \o b) = Len(s) - 1
      /\ \A k \in 1 .. Len(s) - 1 :
           (a \o b)[k] = IF k <= p - 1 THEN a[k] ELSE b[k - (p - 1)]
  <2>1. /\ a \o b \in Seq(S)
        /\ Len(a \o b) = Len(a) + Len(b)
        /\ \A k \in 1 .. Len(a) + Len(b) :
             (a \o b)[k] = IF k <= Len(a) THEN a[k] ELSE b[k - Len(a)]
    BY <1>1, <1>2, ConcatProperties
  <2>2. Len(a) + Len(b) = Len(s) - 1
    BY <1>0, <1>1, <1>2
  <2> QED BY <1>1, <2>1, <2>2
<1>4. ASSUME NEW k \in 1 .. Len(s) - 1
      PROVE  (a \o b)[k] = IF k < p THEN s[k] ELSE s[k + 1]
  <2>1. CASE k < p
    BY <2>1, <1>0, <1>1, <1>3
  <2>2. CASE ~(k < p)
    <3>1. k - (p - 1) \in 1 .. Len(s) - p
      BY <2>2, <1>0
    <3>2. b[k - (p - 1)] = s[(k - (p - 1)) + p]
      BY <3>1, <1>2
    <3>3. (k - (p - 1)) + p = k + 1
      BY <1>0
    <3> QED BY <2>2, <3>2, <3>3, <1>0, <1>3
  <2> QED BY <2>1, <2>2
<1>5. RemoveAt(s, p) = a \o b
  BY DEF RemoveAt, a, b
<1> QED BY <1>3, <1>4, <1>5

\* The elements left in a list without repetition, and their order.
LEMMA RemoveAtElements ==
  ASSUME NEW S, NEW s \in Seq(S), NEW p \in 1 .. Len(s),
         \A i, j \in 1 .. Len(s) : s[i] = s[j] => i = j
  PROVE  LET r == RemoveAt(s, p) IN
         /\ {r[k] : k \in 1 .. Len(r)} = {s[k] : k \in 1 .. Len(s)} \ {s[p]}
         /\ \A i, j \in 1 .. Len(r) : r[i] = r[j] => i = j
         /\ \A i, j \in 1 .. Len(r) : i < j =>
              \E k, l \in 1 .. Len(s) : k < l /\ s[k] = r[i] /\ s[l] = r[j]
<1> DEFINE r == RemoveAt(s, p)
           at(k) == IF k < p THEN k ELSE k + 1
<1>0. Len(s) \in Nat /\ p \in Nat /\ p >= 1 /\ p <= Len(s)
  BY LenProperties
<1>1. /\ Len(r) = Len(s) - 1
      /\ \A k \in 1 .. Len(r) : /\ at(k) \in 1 .. Len(s)
                                /\ at(k) # p
                                /\ r[k] = s[at(k)]
  <2>1. /\ Len(r) = Len(s) - 1
        /\ \A k \in 1 .. Len(s) - 1 : r[k] = IF k < p THEN s[k] ELSE s[k + 1]
    BY RemoveAtFacts
  <2>2. ASSUME NEW k \in 1 .. Len(r)
        PROVE  at(k) \in 1 .. Len(s) /\ at(k) # p /\ r[k] = s[at(k)]
    <3>1. k \in 1 .. Len(s) - 1
      BY <2>1
    <3>2. CASE k < p
      BY <3>1, <3>2, <2>1, <1>0
    <3>3. CASE ~(k < p)
      BY <3>1, <3>3, <2>1, <1>0
    <3> QED BY <3>2, <3>3
  <2> QED BY <2>1, <2>2
<1>2. \A i, j \in 1 .. Len(r) : i < j => at(i) < at(j)
  BY <1>0, <1>1
<1>3. \A k \in 1 .. Len(s) : k # p => \E i \in 1 .. Len(r) : at(i) = k
  <2> TAKE k \in 1 .. Len(s)
  <2> HAVE k # p
  <2>1. CASE k < p
    <3>1. k \in 1 .. Len(r) /\ at(k) = k
      BY <2>1, <1>0, <1>1
    <3> QED BY <3>1
  <2>2. CASE k > p
    <3>1. k - 1 \in 1 .. Len(r) /\ at(k - 1) = k
      BY <2>2, <1>0, <1>1
    <3> QED BY <3>1
  <2> QED BY <2>1, <2>2, <1>0
<1> HIDE DEF r, at
<1>4. \A i, j \in 1 .. Len(r) : at(i) = at(j) => i = j
  BY <1>0, <1>1, <1>2
<1>5. {r[k] : k \in 1 .. Len(r)} = {s[k] : k \in 1 .. Len(s)} \ {s[p]}
  <2>1. ASSUME NEW k \in 1 .. Len(r)
        PROVE  r[k] \in {s[i] : i \in 1 .. Len(s)} \ {s[p]}
    BY <1>1
  <2>2. ASSUME NEW k \in 1 .. Len(s), s[k] # s[p]
        PROVE  s[k] \in {r[i] : i \in 1 .. Len(r)}
    <3>1. PICK i \in 1 .. Len(r) : at(i) = k
      BY <2>2, <1>3
    <3> QED BY <3>1, <1>1
  <2> QED BY <2>1, <2>2
<1>6. \A i, j \in 1 .. Len(r) : r[i] = r[j] => i = j
  BY <1>1, <1>4
<1>7. \A i, j \in 1 .. Len(r) : i < j =>
        \E k, l \in 1 .. Len(s) : k < l /\ s[k] = r[i] /\ s[l] = r[j]
  BY <1>1, <1>2
<1> QED BY <1>5, <1>6, <1>7 DEF r

\* What utils_dlist_add does to a list: the elements from the given position
\* on move down by one.
LEMMA InsertAtFacts ==
  ASSUME NEW S, NEW s \in Seq(S), NEW p \in 1 .. Len(s) + 1, NEW e \in S
  PROVE  /\ InsertAt(s, p, e) \in Seq(S)
         /\ Len(InsertAt(s, p, e)) = Len(s) + 1
         /\ \A k \in 1 .. Len(s) + 1 :
              InsertAt(s, p, e)[k] = IF k < p THEN s[k] ELSE IF k = p THEN e ELSE s[k - 1]
<1> DEFINE a == SubSeq(s, 1, p - 1)
           b == <<e>>
           c == SubSeq(s, p, Len(s))
<1>0. Len(s) \in Nat /\ p \in Nat /\ p >= 1 /\ p <= Len(s) + 1
  BY LenProperties
<1>1. /\ a \in Seq(S) /\ Len(a) = p - 1
      /\ \A k \in 1 .. p - 1 : a[k] = s[k]
  <2>1. \A k \in 1 .. p - 1 : s[k] \in S
    BY <1>0, ElementOfSeq
  <2> QED BY <1>0, <2>1, SubSeqProperties
<1>2. /\ c \in Seq(S) /\ Len(c) = Len(s) - p + 1
      /\ \A k \in 1 .. Len(s) - p + 1 : c[k] = s[k + p - 1]
  BY <1>0, SubSeqProperties
<1>3. b \in Seq(S) /\ Len(b) = 1 /\ b[1] = e
  OBVIOUS
<1> HIDE DEF a, b, c
<1>4. /\ a \o b \in Seq(S) /\ Len(a \o b) = p
      /\ \A k \in 1 .. p : (a \o b)[k] = IF k < p THEN s[k] ELSE e
  <2>1. /\ a \o b \in Seq(S) /\ Len(a \o b) = Len(a) + Len(b)
        /\ \A k \in 1 .. Len(a) + Len(b) :
             (a \o b)[k] = IF k <= Len(a) THEN a[k] ELSE b[k - Len(a)]
    BY <1>1, <1>3, ConcatProperties
  <2> QED BY <1>0, <1>1, <1>3, <2>1
<1>5. /\ (a \o b) \o c \in Seq(S) /\ Len((a \o b) \o c) = Len(s) + 1
      /\ \A k \in 1 .. Len(s) + 1 :
           ((a \o b) \o c)[k] = IF k <= p THEN (a \o b)[k] ELSE c[k - p]
  <2> DEFINE d == a \o b
  <2>1. d \in Seq(S) /\ Len(d) = p
    BY <1>4
  <2> HIDE DEF d
  <2>2. /\ d \o c \in Seq(S) /\ Len(d \o c) = Len(d) + Len(c)
        /\ \A k \in 1 .. Len(d) + Len(c) :
             (d \o c)[k] = IF k <= Len(d) THEN d[k] ELSE c[k - Len(d)]
    BY <1>2, <2>1, ConcatProperties
  <2>3. Len(d) + Len(c) = Len(s) + 1
    BY <1>0, <1>2, <2>1
  <2>4. /\ d \o c \in Seq(S) /\ Len(d \o c) = Len(s) + 1
        /\ \A k \in 1 .. Len(s) + 1 :
             (d \o c)[k] = IF k <= p THEN d[k] ELSE c[k - p]
    BY <2>1, <2>2, <2>3
  <2> QED BY <2>4 DEF d
<1>6. ASSUME NEW k \in 1 .. Len(s) + 1
      PROVE  ((a \o b) \o c)[k] = IF k < p THEN s[k] ELSE IF k = p THEN e ELSE s[k - 1]
  <2>1. CASE k <= p
    BY <2>1, <1>0, <1>4, <1>5
  <2>2. CASE ~(k <= p)
    <3>1. k - p \in 1 .. Len(s) - p + 1 /\ (k - p) + p - 1 = k - 1
      BY <2>2, <1>0
    <3>2. c[k - p] = s[(k - p) + p - 1]
      BY <3>1, <1>2
    <3> QED BY <2>2, <3>1, <3>2, <1>0, <1>5
  <2> QED BY <2>1, <2>2
<1>7. InsertAt(s, p, e) = (a \o b) \o c
  BY DEF InsertAt, a, b, c
<1> QED BY <1>5, <1>6, <1>7

\* The elements of a list without repetition after one that is not in it has
\* been put in.
LEMMA InsertAtElements ==
  ASSUME NEW S, NEW s \in Seq(S), NEW p \in 1 .. Len(s) + 1, NEW e \in S,
         \A i, j \in 1 .. Len(s) : s[i] = s[j] => i = j,
         e \notin {s[k] : k \in 1 .. Len(s)}
  PROVE  LET r == InsertAt(s, p, e) IN
         /\ {r[k] : k \in 1 .. Len(r)} = {s[k] : k \in 1 .. Len(s)} \cup {e}
         /\ \A i, j \in 1 .. Len(r) : r[i] = r[j] => i = j
<1> DEFINE r == InsertAt(s, p, e)
<1>0. Len(s) \in Nat /\ p \in Nat /\ p >= 1 /\ p <= Len(s) + 1
  BY LenProperties
<1>1. /\ Len(r) = Len(s) + 1
      /\ \A k \in 1 .. Len(s) + 1 : r[k] = IF k < p THEN s[k] ELSE IF k = p THEN e ELSE s[k - 1]
  BY InsertAtFacts
<1> HIDE DEF r
<1>2. ASSUME NEW k \in 1 .. Len(r), k # p
      PROVE  \E i \in 1 .. Len(s) : i = (IF k < p THEN k ELSE k - 1) /\ r[k] = s[i]
  BY <1>0, <1>1, <1>2
<1>3. r[p] = e /\ p \in 1 .. Len(r)
  BY <1>0, <1>1
<1>4. {r[k] : k \in 1 .. Len(r)} = {s[k] : k \in 1 .. Len(s)} \cup {e}
  <2>1. ASSUME NEW k \in 1 .. Len(r)
        PROVE  r[k] \in {s[i] : i \in 1 .. Len(s)} \cup {e}
    BY <1>2, <1>3
  <2>2. ASSUME NEW i \in 1 .. Len(s)
        PROVE  s[i] \in {r[k] : k \in 1 .. Len(r)}
    <3>1. CASE i < p
      <4>1. i \in 1 .. Len(r) /\ r[i] = s[i]
        BY <3>1, <1>0, <1>1
      <4> QED BY <4>1
    <3>2. CASE ~(i < p)
      <4>1. i + 1 \in 1 .. Len(r) /\ r[i + 1] = s[(i + 1) - 1] /\ (i + 1) - 1 = i
        BY <3>2, <1>0, <1>1
      <4> QED BY <4>1
    <3> QED BY <3>1, <3>2
  <2> QED BY <1>3, <2>1, <2>2
<1>5. ASSUME NEW i \in 1 .. Len(r), NEW j \in 1 .. Len(r), r[i] = r[j]
      PROVE  i = j
  <2>1. CASE i = p \/ j = p
    BY <2>1, <1>2, <1>3, <1>5
  <2>2. CASE i # p /\ j # p
    <3>1. /\ (IF i < p THEN i ELSE i - 1) \in 1 .. Len(s)
          /\ r[i] = s[IF i < p THEN i ELSE i - 1]
      BY <2>2, <1>2
    <3>2. /\ (IF j < p THEN j ELSE j - 1) \in 1 .. Len(s)
          /\ r[j] = s[IF j < p THEN j ELSE j - 1]
      BY <2>2, <1>2
    <3>3. (IF i < p THEN i ELSE i - 1) = (IF j < p THEN j ELSE j - 1)
      BY <3>1, <3>2, <1>5
    <3> QED BY <2>2, <3>3, <1>0, <1>1
  <2> QED BY <2>1, <2>2
<1> QED BY <1>4, <1>5 DEF r

\* A list that ascends still does when an element has been put where nothing
\* before it is greater and nothing after it smaller.
LEMMA InsertAtAscends ==
  ASSUME NEW S, NEW f \in [S -> Int], NEW s \in Seq(S), NEW e \in S,
         NEW p \in 1 .. Len(s) + 1,
         \A i, j \in 1 .. Len(s) : i < j => f[s[i]] <= f[s[j]],
         \A i \in 1 .. p - 1 : f[s[i]] <= f[e],
         p <= Len(s) => f[e] <= f[s[p]]
  PROVE  LET r == InsertAt(s, p, e) IN
         \A i, j \in 1 .. Len(r) : i < j => f[r[i]] <= f[r[j]]
<1> DEFINE r == InsertAt(s, p, e)
<1>1. Len(s) \in Nat /\ p \in Nat /\ p >= 1 /\ p <= Len(s) + 1
  BY LenProperties
<1>2. /\ Len(r) = Len(s) + 1
      /\ \A i \in 1 .. Len(s) + 1 : r[i] = IF i < p THEN s[i] ELSE IF i = p THEN e ELSE s[i - 1]
  BY InsertAtFacts
<1> HIDE DEF r
<1>3. f[e] \in Int /\ \A i \in 1 .. Len(s) : f[s[i]] \in Int
  <2>1. \A i \in 1 .. Len(s) : s[i] \in S
    BY ElementOfSeq
  <2> QED BY <2>1
<1>4. \A i \in 1 .. Len(s) : i >= p => f[e] <= f[s[i]]
  <2> TAKE i \in 1 .. Len(s)
  <2> HAVE i >= p
  <2>1. p \in 1 .. Len(s) /\ f[e] <= f[s[p]]
    BY <1>1
  <2>2. f[s[p]] <= f[s[i]]
    BY <2>1, <1>1, <1>3
  <2> QED BY <2>1, <2>2, <1>3
<1>5. ASSUME NEW i \in 1 .. Len(r), NEW j \in 1 .. Len(r), i < j
      PROVE  f[r[i]] <= f[r[j]]
  <2>1. CASE j < p
    <3>1. i \in 1 .. Len(s) /\ j \in 1 .. Len(s) /\ r[i] = s[i] /\ r[j] = s[j]
      BY <2>1, <1>1, <1>2, <1>5
    <3> QED BY <3>1, <1>5
  <2>2. CASE j = p
    <3>1. i \in 1 .. p - 1 /\ r[i] = s[i] /\ r[j] = e
      BY <2>2, <1>1, <1>2, <1>5
    <3> QED BY <3>1
  <2>3. CASE j > p
    <3>1. j - 1 \in 1 .. Len(s) /\ j - 1 >= p /\ r[j] = s[j - 1]
      BY <2>3, <1>1, <1>2
    <3>2. CASE i < p
      <4>1. i \in 1 .. Len(s) /\ i < j - 1 /\ r[i] = s[i]
        BY <3>1, <3>2, <1>1, <1>2
      <4> QED BY <3>1, <4>1
    <3>3. CASE i = p
      <4>1. r[i] = e
        BY <3>3, <1>1, <1>2
      <4> QED BY <3>1, <4>1, <1>4
    <3>4. CASE i > p
      <4>1. i - 1 \in 1 .. Len(s) /\ i - 1 < j - 1 /\ r[i] = s[i - 1]
        BY <3>4, <1>1, <1>2, <1>5
      <4> QED BY <3>1, <4>1
    <3> QED BY <3>2, <3>3, <3>4, <1>1
  <2> QED BY <2>1, <2>2, <2>3, <1>1
<1> QED BY <1>5 DEF r

\* The first element of a list without repetition, and the rest.
LEMMA TailElements ==
  ASSUME NEW S, NEW s \in Seq(S), s # <<>>,
         \A i, j \in 1 .. Len(s) : s[i] = s[j] => i = j
  PROVE  /\ Head(s) \in {s[i] : i \in 1 .. Len(s)}
         /\ Tail(s) \in Seq(S)
         /\ {Tail(s)[i] : i \in 1 .. Len(Tail(s))} = {s[i] : i \in 1 .. Len(s)} \ {Head(s)}
         /\ \A i, j \in 1 .. Len(Tail(s)) : Tail(s)[i] = Tail(s)[j] => i = j
<1> DEFINE u == Tail(s)
<1>1. /\ Len(s) \in Nat /\ Len(s) >= 1 /\ Head(s) = s[1] /\ u \in Seq(S)
      /\ Len(u) = Len(s) - 1
      /\ \A i \in 1 .. Len(s) - 1 : u[i] = s[i + 1]
  BY HeadTailProperties, LenProperties, EmptySeq
<1> HIDE DEF u
<1>2. ASSUME NEW i \in 1 .. Len(s), i # 1
      PROVE  i - 1 \in 1 .. Len(u) /\ s[i] = u[i - 1]
  BY <1>1, <1>2
<1>3. ASSUME NEW i \in 1 .. Len(u)
      PROVE  i + 1 \in 1 .. Len(s) /\ u[i] = s[i + 1] /\ i + 1 # 1
  BY <1>1
<1>4. 1 \in 1 .. Len(s)
  BY <1>1
<1>5. {u[i] : i \in 1 .. Len(u)} = {s[i] : i \in 1 .. Len(s)} \ {s[1]}
  <2>1. ASSUME NEW i \in 1 .. Len(u)
        PROVE  u[i] \in {s[j] : j \in 1 .. Len(s)} \ {s[1]}
    BY <1>3, <1>4
  <2>2. ASSUME NEW i \in 1 .. Len(s), s[i] # s[1]
        PROVE  s[i] \in {u[j] : j \in 1 .. Len(u)}
    <3>1. i # 1
      BY <2>2
    <3> QED BY <3>1, <1>2
  <2>3. {s[i] : i \in 1 .. Len(s)} \ {s[1]} \subseteq {u[i] : i \in 1 .. Len(u)}
    <3> SUFFICES ASSUME NEW x \in {s[i] : i \in 1 .. Len(s)}, x # s[1]
                 PROVE  x \in {u[i] : i \in 1 .. Len(u)}
      OBVIOUS
    <3>1. PICK i \in 1 .. Len(s) : x = s[i]
      OBVIOUS
    <3> QED BY <2>2, <3>1
  <2>4. {u[i] : i \in 1 .. Len(u)} \subseteq {s[i] : i \in 1 .. Len(s)} \ {s[1]}
    BY <2>1
  <2> QED BY <2>3, <2>4
<1>6. \A i, j \in 1 .. Len(u) : u[i] = u[j] => i = j
  <2> SUFFICES ASSUME NEW i \in 1 .. Len(u), NEW j \in 1 .. Len(u), u[i] = u[j]
               PROVE  i = j
    OBVIOUS
  <2>1. /\ i + 1 \in 1 .. Len(s) /\ u[i] = s[i + 1]
        /\ j + 1 \in 1 .. Len(s) /\ u[j] = s[j + 1]
    BY <1>3
  <2>2. i + 1 = j + 1
    BY <2>1
  <2> QED BY <2>2, <1>1
<1> QED BY <1>1, <1>4, <1>5, <1>6 DEF u

\* What is left behind position m when an element is removed before or behind
\* it, or added at the end.
LEMMA BackRemoveBefore ==
  ASSUME NEW S, NEW s \in Seq(S), NEW m \in 1 .. Len(s), NEW p \in 1 .. m
  PROVE  SubSeq(RemoveAt(s, p), m, Len(s) - 1) = SubSeq(s, m + 1, Len(s))
<1> DEFINE r == RemoveAt(s, p)
           a == SubSeq(r, m, Len(s) - 1)
           b == SubSeq(s, m + 1, Len(s))
<1>1. Len(s) \in Nat /\ m \in Nat /\ m <= Len(s) /\ m >= 1 /\ p \in 1 .. Len(s)
  BY LenProperties
<1>2. /\ r \in Seq(S) /\ Len(r) = Len(s) - 1
      /\ \A k \in 1 .. Len(s) - 1 : r[k] = IF k < p THEN s[k] ELSE s[k + 1]
  BY <1>1, RemoveAtFacts
<1> HIDE DEF r
<1>3. /\ \A k \in m .. Len(s) - 1 : r[k] \in S /\ r[k] = s[k + 1]
      /\ \A k \in m + 1 .. Len(s) : s[k] \in S
  <2>1. \A k \in 1 .. Len(s) : s[k] \in S
    BY ElementOfSeq
  <2> QED BY <1>1, <1>2, <2>1
<1>4. /\ a \in Seq(S) /\ Len(a) = Len(s) - m
      /\ \A k \in 1 .. Len(s) - m : a[k] = r[m + k - 1]
  <2>1. /\ a \in Seq(S) /\ Len(a) = IF m <= Len(s) - 1 THEN (Len(s) - 1) - m + 1 ELSE 0
        /\ \A k \in 1 .. (Len(s) - 1) - m + 1 : a[k] = r[m + k - 1]
    BY <1>1, <1>3, SubSeqProperties
  <2> QED BY <1>1, <2>1
<1>5. /\ b \in Seq(S) /\ Len(b) = Len(s) - m
      /\ \A k \in 1 .. Len(s) - m : b[k] = s[(m + 1) + k - 1]
  <2>1. /\ b \in Seq(S) /\ Len(b) = IF m + 1 <= Len(s) THEN Len(s) - (m + 1) + 1 ELSE 0
        /\ \A k \in 1 .. Len(s) - (m + 1) + 1 : b[k] = s[(m + 1) + k - 1]
    BY <1>1, <1>3, SubSeqProperties
  <2> QED BY <1>1, <2>1
<1> HIDE DEF a, b
<1>6. ASSUME NEW k \in 1 .. Len(a)
      PROVE  a[k] = b[k]
  <2>1. /\ k \in 1 .. Len(s) - m /\ m + k - 1 \in m .. Len(s) - 1
        /\ (m + 1) + k - 1 = (m + k - 1) + 1
    BY <1>1, <1>4
  <2>2. a[k] = r[m + k - 1] /\ b[k] = s[(m + 1) + k - 1]
    BY <1>4, <1>5, <2>1
  <2>3. r[m + k - 1] = s[(m + k - 1) + 1]
    BY <1>3, <2>1
  <2> QED BY <2>1, <2>2, <2>3
<1>7. a = b
  BY <1>4, <1>5, <1>6, SeqEqual
<1> QED BY <1>7 DEF a, b, r

\* What lies behind m loses the element that is taken out of it.
LEMMA BackRemoveBehind ==
  ASSUME NEW S, NEW s \in Seq(S), NEW m \in Nat, NEW p \in m + 1 .. Len(s)
  PROVE  SubSeq(RemoveAt(s, p), m + 1, Len(s) - 1)
           = RemoveAt(SubSeq(s, m + 1, Len(s)), p - m)
<1> DEFINE r == RemoveAt(s, p)
           a == SubSeq(r, m + 1, Len(s) - 1)
           b == SubSeq(s, m + 1, Len(s))
           c == RemoveAt(b, p - m)
<1>1. Len(s) \in Nat /\ m < Len(s) /\ p \in 1 .. Len(s) /\ p > m
  BY LenProperties
<1>2. /\ r \in Seq(S) /\ Len(r) = Len(s) - 1
      /\ \A k \in 1 .. Len(s) - 1 : r[k] = IF k < p THEN s[k] ELSE s[k + 1]
  BY <1>1, RemoveAtFacts
<1> HIDE DEF r
<1>3. /\ \A k \in m + 1 .. Len(s) - 1 : r[k] \in S
      /\ \A k \in m + 1 .. Len(s) : s[k] \in S
  <2>1. \A k \in 1 .. Len(s) : s[k] \in S
    BY ElementOfSeq
  <2> QED BY <1>1, <1>2, <2>1
<1>4. /\ a \in Seq(S) /\ Len(a) = Len(s) - 1 - m
      /\ \A k \in 1 .. Len(s) - 1 - m : a[k] = r[(m + 1) + k - 1]
  <2>1. /\ a \in Seq(S) /\ Len(a) = IF m + 1 <= Len(s) - 1 THEN (Len(s) - 1) - (m + 1) + 1 ELSE 0
        /\ \A k \in 1 .. (Len(s) - 1) - (m + 1) + 1 : a[k] = r[(m + 1) + k - 1]
    BY <1>1, <1>3, SubSeqProperties
  <2> QED BY <1>1, <2>1
<1>5. /\ b \in Seq(S) /\ Len(b) = Len(s) - m
      /\ \A k \in 1 .. Len(s) - m : b[k] = s[(m + 1) + k - 1]
  <2>1. /\ b \in Seq(S) /\ Len(b) = IF m + 1 <= Len(s) THEN Len(s) - (m + 1) + 1 ELSE 0
        /\ \A k \in 1 .. Len(s) - (m + 1) + 1 : b[k] = s[(m + 1) + k - 1]
    BY <1>1, <1>3, SubSeqProperties
  <2> QED BY <1>1, <2>1
<1> HIDE DEF a, b
<1>6. p - m \in 1 .. Len(b)
  BY <1>1, <1>5
<1>7. /\ c \in Seq(S) /\ Len(c) = Len(b) - 1
      /\ \A k \in 1 .. Len(b) - 1 : c[k] = IF k < p - m THEN b[k] ELSE b[k + 1]
  BY <1>5, <1>6, RemoveAtFacts
<1> HIDE DEF c
<1>8. ASSUME NEW k \in 1 .. Len(a)
      PROVE  a[k] = c[k]
  <2>1. k \in 1 .. Len(s) - 1 - m /\ k \in 1 .. Len(b) - 1 /\ m + k \in 1 .. Len(s) - 1
    BY <1>1, <1>4, <1>5
  <2>2. a[k] = r[m + k]
    <3>1. (m + 1) + k - 1 = m + k
      BY <2>1
    <3> QED BY <1>4, <2>1, <3>1
  <2>3. CASE k < p - m
    <3>1. m + k < p /\ (m + 1) + k - 1 = m + k /\ k \in 1 .. Len(s) - m
      BY <1>1, <2>1, <2>3
    <3> QED BY <1>2, <1>5, <1>7, <2>1, <2>2, <2>3, <3>1
  <2>4. CASE ~(k < p - m)
    <3>1. /\ ~(m + k < p) /\ (m + 1) + (k + 1) - 1 = (m + k) + 1
          /\ k + 1 \in 1 .. Len(s) - m
      BY <1>1, <2>1, <2>4
    <3> QED BY <1>2, <1>5, <1>7, <2>1, <2>2, <2>4, <3>1
  <2> QED BY <2>3, <2>4
<1>9. Len(a) = Len(c)
  BY <1>1, <1>4, <1>5, <1>7
<1>10. a = c
  BY <1>4, <1>7, <1>8, <1>9, SeqEqual
<1> QED BY <1>10 DEF a, b, c, r

\* What lies behind m grows by what is appended to the list.
LEMMA BackAppend ==
  ASSUME NEW S, NEW s \in Seq(S), NEW e \in S, NEW m \in 0 .. Len(s)
  PROVE  SubSeq(Append(s, e), m + 1, Len(s) + 1) = Append(SubSeq(s, m + 1, Len(s)), e)
<1> DEFINE r == Append(s, e)
           a == SubSeq(r, m + 1, Len(s) + 1)
           b == SubSeq(s, m + 1, Len(s))
           c == Append(b, e)
<1>1. Len(s) \in Nat /\ m \in Nat /\ m <= Len(s)
  BY LenProperties
<1>2. /\ r \in Seq(S) /\ Len(r) = Len(s) + 1
      /\ \A k \in 1 .. Len(s) : r[k] = s[k]
      /\ r[Len(s) + 1] = e
  BY AppendProperties
<1> HIDE DEF r
<1>3. /\ \A k \in m + 1 .. Len(s) + 1 : r[k] \in S
      /\ \A k \in m + 1 .. Len(s) : s[k] \in S
  <2>1. /\ \A k \in 1 .. Len(s) : s[k] \in S
        /\ \A k \in 1 .. Len(r) : r[k] \in S
    BY <1>2, ElementOfSeq
  <2> QED BY <1>1, <1>2, <2>1
<1>4. /\ a \in Seq(S) /\ Len(a) = Len(s) + 1 - m
      /\ \A k \in 1 .. Len(s) + 1 - m : a[k] = r[(m + 1) + k - 1]
  <2>1. /\ a \in Seq(S) /\ Len(a) = IF m + 1 <= Len(s) + 1 THEN (Len(s) + 1) - (m + 1) + 1 ELSE 0
        /\ \A k \in 1 .. (Len(s) + 1) - (m + 1) + 1 : a[k] = r[(m + 1) + k - 1]
    BY <1>1, <1>3, SubSeqProperties
  <2> QED BY <1>1, <2>1
<1>5. /\ b \in Seq(S) /\ Len(b) = Len(s) - m
      /\ \A k \in 1 .. Len(s) - m : b[k] = s[(m + 1) + k - 1]
  <2>1. /\ b \in Seq(S) /\ Len(b) = IF m + 1 <= Len(s) THEN Len(s) - (m + 1) + 1 ELSE 0
        /\ \A k \in 1 .. Len(s) - (m + 1) + 1 : b[k] = s[(m + 1) + k - 1]
    BY <1>1, <1>3, SubSeqProperties
  <2> QED BY <1>1, <2>1
<1> HIDE DEF a, b
<1>6. /\ c \in Seq(S) /\ Len(c) = Len(b) + 1
      /\ \A k \in 1 .. Len(b) : c[k] = b[k]
      /\ c[Len(b) + 1] = e
  BY <1>5, AppendProperties
<1> HIDE DEF c
<1>7. ASSUME NEW k \in 1 .. Len(a)
      PROVE  a[k] = c[k]
  <2>1. k \in 1 .. Len(s) + 1 - m /\ (m + 1) + k - 1 = m + k /\ a[k] = r[m + k]
    <3>1. k \in 1 .. Len(s) + 1 - m /\ (m + 1) + k - 1 = m + k
      BY <1>1, <1>4
    <3> QED BY <1>4, <3>1
  <2>2. CASE k \in 1 .. Len(b)
    BY <1>1, <1>2, <1>5, <1>6, <2>1, <2>2
  <2>3. CASE k = Len(b) + 1
    <3>1. m + k = Len(s) + 1
      BY <1>1, <1>5, <2>3
    <3> QED BY <1>2, <1>6, <2>1, <2>3, <3>1
  <2> QED BY <1>1, <1>5, <2>1, <2>2, <2>3
<1>8. a = c
  BY <1>1, <1>4, <1>5, <1>6, <1>7, SeqEqual
<1> QED BY <1>8 DEF a, b, c, r

\* A list without repetition is no longer than the set it is taken from.
LEMMA DistinctShort ==
  ASSUME NEW S, IsFiniteSet(S), NEW s \in Seq(S),
         \A i, j \in 1 .. Len(s) : s[i] = s[j] => i = j
  PROVE  Len(s) \in Nat /\ Len(s) <= Cardinality(S)
<1>1. Len(s) \in Nat /\ s \in [1 .. Len(s) -> S]
  BY LenProperties
<1>2. s \in Injection(1 .. Len(s), S)
  BY <1>1 DEF Injection, IsInjective
<1>3. IsFiniteSet(1 .. Len(s)) /\ Cardinality(1 .. Len(s)) <= Cardinality(S)
  BY <1>2, FS_Injection
<1>4. Cardinality(1 .. Len(s)) = Len(s)
  BY <1>1, FS_Interval
<1> QED BY <1>1, <1>3, <1>4
===============================================================================
