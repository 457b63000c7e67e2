------------------------------ MODULE TxPathProofs ------------------------------
(***************************************************************************)
(* Theorems about TxPath, for any packets and tasks, any number of         *)
(* descriptors that divides the range of the indices and any room for      *)
(* packets to be sent again: the inductive invariant and what follows.     *)
(***************************************************************************)
EXTENDS TxPath, SequenceTheorems, TLAPS

USE PacketsAssumption, MasksAssumption, OtherAssumption

-------------------------------------------------------------------------------
(***************************************************************************)
(* Arithmetic of the remainder                                             *)
(***************************************************************************)

\* Quotient and remainder.
LEMMA ModDef ==
  ASSUME NEW x \in Int, NEW n \in Nat \ {0}
  PROVE  x = (n * (x \div n)) + (x % n) /\ x \div n \in Int /\ x % n \in 0 .. n - 1
OBVIOUS

\* Multiples are at least n apart.
LEMMA MulLess ==
  ASSUME NEW n \in Nat \ {0}, NEW a \in Int, NEW b \in Int, a < b
  PROVE  n * a + n <= n * b
OBVIOUS

\* The remainder is the only number of its range that is left by a multiple.
LEMMA ModUnique ==
  ASSUME NEW x \in Int, NEW n \in Nat \ {0}, NEW q \in Int, NEW r \in 0 .. n - 1, x = n * q + r
  PROVE  x % n = r
<1> DEFINE d == x \div n
<1>1. x = (n * d) + (x % n) /\ d \in Int /\ x % n \in 0 .. n - 1
  BY ModDef
<1> HIDE DEF d
<1>2. n * q \in Int /\ n * d \in Int
  BY <1>1
<1>3. CASE q < d
  <2>1. n * q + n <= n * d
    BY <1>1, <1>3, MulLess
  <2> QED BY <1>1, <1>2, <2>1
<1>4. CASE d < q
  <2>1. n * d + n <= n * q
    BY <1>1, <1>4, MulLess
  <2> QED BY <1>1, <1>2, <2>1
<1>5. CASE q = d
  BY <1>1, <1>5, <1>2
<1> QED BY <1>1, <1>3, <1>4, <1>5

\* The remainder of what is at most one range too large or too small.
LEMMA ModNear ==
  ASSUME NEW n \in Nat \ {0}, NEW x \in Int, 0 - n <= x, x < 2 * n
  PROVE  x % n = IF x < 0 THEN x + n ELSE IF x < n THEN x ELSE x - n
<1>1. CASE x < 0
  <2>1. x = n * (0 - 1) + (x + n) /\ x + n \in 0 .. n - 1
    BY <1>1
  <2> QED BY <1>1, <2>1, ModUnique
<1>2. CASE 0 <= x /\ x < n
  <2>1. x = n * 0 + x /\ x \in 0 .. n - 1
    BY <1>2
  <2> QED BY <1>2, <2>1, ModUnique
<1>3. CASE n <= x
  <2>1. x = n * 1 + (x - n) /\ x - n \in 0 .. n - 1
    BY <1>3
  <2> QED BY <1>3, <2>1, ModUnique
<1> QED BY <1>1, <1>2, <1>3

\* The indices wrap at a multiple of the descriptors.
LEMMA ModShift ==
  ASSUME NEW x \in Int
  PROVE  (x - IdxMod) % Cnt = x % Cnt
<1> DEFINE m == IdxMod \div Cnt
           q == x \div Cnt
<1>1. IdxMod = (Cnt * m) + (IdxMod % Cnt) /\ m \in Int
  BY ModDef
<1>2. IdxMod = Cnt * m
  BY <1>1
<1>3. x = (Cnt * q) + (x % Cnt) /\ q \in Int /\ x % Cnt \in 0 .. Cnt - 1
  BY ModDef
<1> HIDE DEF m, q
<1>4. Cnt * (q - m) = Cnt * q - Cnt * m /\ Cnt * q \in Int /\ Cnt * m \in Int
  BY <1>1, <1>3
<1>5. x - IdxMod = Cnt * (q - m) + (x % Cnt)
  BY <1>2, <1>3, <1>4
<1>6. x - IdxMod \in Int /\ q - m \in Int
  BY <1>1, <1>3
<1> DEFINE y == x - IdxMod
           r == x % Cnt
<1>7. y \in Int /\ r \in 0 .. Cnt - 1 /\ y = Cnt * (q - m) + r
  BY <1>3, <1>5, <1>6
<1> HIDE DEF y, r
<1>8. y % Cnt = r
  BY <1>6, <1>7, ModUnique
<1> QED BY <1>8 DEF y, r

-------------------------------------------------------------------------------
(***************************************************************************)
(* The indices of the ring                                                 *)
(***************************************************************************)

\* The descriptors between two indices.
InUse(f, u) == {Desc(u + k) : k \in 0 .. Gap(f, u) - 1}

\* An index that left its range by at most one range.
LEMMA IndexNear ==
  ASSUME NEW x \in Int, 0 - IdxMod <= x, x < 2 * IdxMod
  PROVE  x % IdxMod = IF x < 0 THEN x + IdxMod ELSE IF x < IdxMod THEN x ELSE x - IdxMod
<1>1. IdxMod \in Nat \ {0}
  OBVIOUS
<1> QED BY <1>1, ModNear

\* How far apart two indices are.
LEMMA GapFacts ==
  ASSUME NEW f \in Indices, NEW u \in Indices
  PROVE  /\ Gap(f, u) \in 0 .. IdxMod - 1
         /\ Gap(f, u) = IF f < u THEN f - u + IdxMod ELSE f - u
         /\ f = u + Gap(f, u) \/ f = u + Gap(f, u) - IdxMod
<1> DEFINE x == f - u
<1>1. f \in Int /\ u \in Int /\ x \in Int /\ 0 - IdxMod < x /\ x < IdxMod /\ (x < 0 <=> f < u)
  BY DEF Indices
<1>2. x % IdxMod = IF x < 0 THEN x + IdxMod ELSE x
  <2> HIDE DEF x
  <2> QED BY <1>1, IndexNear
<1> QED BY <1>1, <1>2 DEF Gap

\* How an index goes on.
LEMMA IncFacts ==
  ASSUME NEW f \in Indices
  PROVE  Inc(f) \in Indices /\ Inc(f) = IF f = IdxMod - 1 THEN 0 ELSE f + 1
<1> DEFINE x == f + 1
<1>1. f \in Int /\ x \in Int /\ 0 < x /\ x <= IdxMod /\ (x = IdxMod <=> f = IdxMod - 1)
  BY DEF Indices
<1>2. x % IdxMod = IF x < IdxMod THEN x ELSE x - IdxMod
  <2> HIDE DEF x
  <2> QED BY <1>1, IndexNear
<1> QED BY <1>1, <1>2 DEF Inc, Indices

\* One descriptor more, or one less.
LEMMA GapInc ==
  ASSUME NEW f \in Indices, NEW u \in Indices
  PROVE  /\ Gap(f, u) < Cnt => Gap(Inc(f), u) = Gap(f, u) + 1
         /\ Gap(f, u) > 0 => Gap(f, Inc(u)) = Gap(f, u) - 1
<1>1. Inc(f) \in Indices /\ Inc(u) \in Indices
  BY IncFacts
<1>2. /\ Gap(f, u) = IF f < u THEN f - u + IdxMod ELSE f - u
      /\ Gap(Inc(f), u) = IF Inc(f) < u THEN Inc(f) - u + IdxMod ELSE Inc(f) - u
      /\ Gap(f, Inc(u)) = IF f < Inc(u) THEN f - Inc(u) + IdxMod ELSE f - Inc(u)
  BY <1>1, GapFacts
<1>3. /\ Inc(f) = IF f = IdxMod - 1 THEN 0 ELSE f + 1
      /\ Inc(u) = IF u = IdxMod - 1 THEN 0 ELSE u + 1
  BY IncFacts
<1> QED BY <1>1, <1>2, <1>3 DEF Indices

\* The ring is full when every descriptor is in use.
LEMMA FullGap ==
  ASSUME freeIdx \in Indices, usedIdx \in Indices, Gap(freeIdx, usedIdx) <= Cnt
  PROVE  Full <=> Gap(freeIdx, usedIdx) = Cnt
BY ModNear DEF Indices, Gap, Full

\* A descriptor is one of them.
LEMMA DescRange ==
  ASSUME NEW i \in Int
  PROVE  Desc(i) \in 0 .. Cnt - 1
BY ModDef DEF Desc

\* The descriptor of the next packet is the one after those in use.
LEMMA DescFree ==
  ASSUME NEW f \in Indices, NEW u \in Indices
  PROVE  Desc(f) = Desc(u + Gap(f, u))
<1>1. u \in Int /\ Gap(f, u) \in Int
  BY GapFacts DEF Indices
<1>2. f = u + Gap(f, u) \/ f = u + Gap(f, u) - IdxMod
  BY GapFacts
<1> DEFINE x == u + Gap(f, u)
<1>3. (x - IdxMod) % Cnt = x % Cnt
  <2>1. x \in Int
    BY <1>1
  <2> HIDE DEF x
  <2> QED BY <2>1, ModShift
<1>4. f = x \/ f = x - IdxMod
  BY <1>1, <1>2
<1> HIDE DEF x
<1>5. f % Cnt = x % Cnt
  BY <1>3, <1>4
<1> QED BY <1>5 DEF Desc, x

\* The descriptors go on when the index wraps.
LEMMA DescInc ==
  ASSUME NEW u \in Indices, NEW k \in Int
  PROVE  Desc(Inc(u) + k) = Desc(u + (k + 1))
<1>1. u \in Int
  BY DEF Indices
<1>2. CASE u = IdxMod - 1
  <2>1. Inc(u) = 0 /\ u + (k + 1) - IdxMod = 0 + k /\ u + (k + 1) \in Int
    BY <1>2, IncFacts
  <2> DEFINE x == u + (k + 1)
  <2>2. (x - IdxMod) % Cnt = x % Cnt
    <3>1. x \in Int
      BY <2>1
    <3> HIDE DEF x
    <3> QED BY <3>1, ModShift
  <2>3. Inc(u) + k = x - IdxMod
    BY <1>1, <1>2, <2>1
  <2> HIDE DEF x
  <2>4. Desc(Inc(u) + k) = Desc(x)
    BY <2>2, <2>3 DEF Desc
  <2> QED BY <2>4 DEF x
<1>3. CASE u # IdxMod - 1
  <2>1. Inc(u) + k = u + (k + 1)
    BY <1>1, <1>3, IncFacts
  <2> QED BY <2>1
<1> QED BY <1>2, <1>3

\* Fewer than Cnt steps away is another descriptor.
LEMMA DescDistinct ==
  ASSUME NEW u \in Indices, NEW k \in 0 .. Cnt - 1, NEW l \in 0 .. Cnt - 1,
         Desc(u + k) = Desc(u + l)
  PROVE  k = l
<1> DEFINE a == (u + k) \div Cnt
           b == (u + l) \div Cnt
           r == (u + k) % Cnt
<1>1. u \in Int /\ u + k \in Int /\ u + l \in Int
  BY DEF Indices
<1>2. u + k = (Cnt * a) + r /\ a \in Int /\ r \in 0 .. Cnt - 1
  BY <1>1, ModDef
<1>3. u + l = (Cnt * b) + r /\ b \in Int
  BY <1>1, ModDef DEF Desc
<1> HIDE DEF a, b, r
<1>4. Cnt * a \in Int /\ Cnt * b \in Int
  BY <1>2, <1>3
<1>5. CASE a < b
  <2>1. Cnt * a + Cnt <= Cnt * b
    BY <1>2, <1>3, <1>5, MulLess
  <2> QED BY <1>1, <1>2, <1>3, <1>4, <2>1
<1>6. CASE b < a
  <2>1. Cnt * b + Cnt <= Cnt * a
    BY <1>2, <1>3, <1>6, MulLess
  <2> QED BY <1>1, <1>2, <1>3, <1>4, <2>1
<1>7. CASE a = b
  BY <1>1, <1>2, <1>3, <1>4, <1>7
<1> QED BY <1>2, <1>3, <1>5, <1>6, <1>7

\* A push takes a descriptor that was not in use.
LEMMA InUsePush ==
  ASSUME NEW f \in Indices, NEW u \in Indices, Gap(f, u) < Cnt
  PROVE  /\ InUse(Inc(f), u) = InUse(f, u) \cup {Desc(f)}
         /\ Desc(f) \notin InUse(f, u)
         /\ Desc(f) \in 0 .. Cnt - 1
<1> DEFINE n == Gap(f, u)
<1>1. n \in Nat /\ n < Cnt /\ Gap(Inc(f), u) = n + 1
  BY GapFacts, GapInc
<1>2. Desc(f) = Desc(u + n)
  BY DescFree
<1> HIDE DEF n
<1>3. 0 .. n + 1 - 1 = (0 .. n - 1) \cup {n}
  BY <1>1
<1>4. InUse(Inc(f), u) = {Desc(u + k) : k \in (0 .. n - 1) \cup {n}}
  BY <1>1, <1>3 DEF InUse
<1>5. InUse(f, u) = {Desc(u + k) : k \in 0 .. n - 1}
  BY DEF InUse, n
<1>6. Desc(f) \notin InUse(f, u)
  <2> SUFFICES ASSUME NEW k \in 0 .. n - 1, Desc(u + n) = Desc(u + k)
               PROVE  FALSE
    BY <1>2, <1>5
  <2> QED BY <1>1, DescDistinct
<1>7. Desc(f) \in 0 .. Cnt - 1
  BY DescRange DEF Indices
<1> QED BY <1>2, <1>4, <1>5, <1>6, <1>7

\* The oldest descriptor is in use, and going on frees it and no other.
LEMMA InUseNext ==
  ASSUME NEW f \in Indices, NEW u \in Indices, Gap(f, u) \in 1 .. Cnt
  PROVE  /\ InUse(f, Inc(u)) = InUse(f, u) \ {Desc(u)}
         /\ Desc(u) \in InUse(f, u)
<1> DEFINE n == Gap(f, u)
<1>1. n \in 1 .. Cnt /\ Gap(f, Inc(u)) = n - 1 /\ u \in Int
  BY GapInc DEF Indices
<1>2. InUse(f, u) = {Desc(u + k) : k \in 0 .. n - 1}
  BY DEF InUse
<1>3. InUse(f, Inc(u)) = {Desc(Inc(u) + k) : k \in 0 .. n - 2}
  BY <1>1 DEF InUse
<1> HIDE DEF n
<1>4. \A k \in 0 .. n - 2 : Desc(Inc(u) + k) = Desc(u + (k + 1)) /\ k + 1 \in 1 .. n - 1
  BY <1>1, DescInc
<1>5. \A k \in 1 .. n - 1 : k - 1 \in 0 .. n - 2 /\ Desc(Inc(u) + (k - 1)) = Desc(u + k)
  <2> TAKE k \in 1 .. n - 1
  <2>1. k - 1 \in 0 .. n - 2 /\ (k - 1) + 1 = k
    BY <1>1
  <2> QED BY <2>1, <1>4
<1>6. InUse(f, Inc(u)) = {Desc(u + k) : k \in 1 .. n - 1}
  BY <1>3, <1>4, <1>5
<1>7. Desc(u) = Desc(u + 0) /\ 0 \in 0 .. n - 1
  BY <1>1
<1>8. \A k \in 1 .. n - 1 : Desc(u + k) # Desc(u + 0)
  <2> SUFFICES ASSUME NEW k \in 1 .. n - 1, Desc(u + k) = Desc(u + 0)
               PROVE  FALSE
    OBVIOUS
  <2>1. k \in 0 .. Cnt - 1 /\ 0 \in 0 .. Cnt - 1 /\ k # 0
    BY <1>1
  <2> QED BY <2>1, DescDistinct
<1>9. 0 .. n - 1 = {0} \cup (1 .. n - 1)
  BY <1>1
<1>10. InUse(f, u) = {Desc(u + k) : k \in {0} \cup (1 .. n - 1)}
  BY <1>2, <1>9
<1> QED BY <1>6, <1>7, <1>8, <1>10

-------------------------------------------------------------------------------
(***************************************************************************)
(* What the steps do to the lists and to the ring                          *)
(***************************************************************************)

Elements(s) == {s[k] : k \in 1 .. Len(s)}

\* What appending a new packet does to a list.
LEMMA AppendFacts ==
  ASSUME NEW s \in Seq(Packets), NEW e \in Packets, Distinct(s), e \notin Elements(s)
  PROVE  /\ Append(s, e) \in Seq(Packets) /\ Len(Append(s, e)) = Len(s) + 1
         /\ Elements(Append(s, e)) = Elements(s) \cup {e}
         /\ Distinct(Append(s, e))
<1> DEFINE r == Append(s, e)
<1>1. Len(s) \in Nat
  BY LenProperties
<1>2. /\ r \in Seq(Packets) /\ Len(r) = Len(s) + 1
      /\ \A i \in 1 .. Len(s) : r[i] = s[i]
      /\ r[Len(s) + 1] = e
  BY AppendProperties
<1> HIDE DEF r
<1>3. 1 .. Len(r) = (1 .. Len(s)) \cup {Len(s) + 1}
  BY <1>1, <1>2
<1>4. Elements(r) = Elements(s) \cup {e}
  BY <1>2, <1>3 DEF Elements
<1>5. \A i \in 1 .. Len(s) : s[i] # e
  BY DEF Elements
<1>6. Distinct(r)
  BY <1>2, <1>3, <1>5 DEF Distinct
<1> QED BY <1>2, <1>4, <1>6 DEF r

\* What taking the oldest packet does to a list.
LEMMA TailFacts ==
  ASSUME NEW s \in Seq(Packets), s # <<>>, Distinct(s)
  PROVE  /\ Head(s) \in Packets /\ Head(s) \in Elements(s)
         /\ Tail(s) \in Seq(Packets) /\ Len(Tail(s)) = Len(s) - 1 /\ Len(s) \in Nat
         /\ Elements(Tail(s)) = Elements(s) \ {Head(s)}
         /\ Distinct(Tail(s))
<1> DEFINE u == Tail(s)
<1>1. /\ Len(s) \in Nat /\ Len(s) >= 1 /\ Head(s) = s[1] /\ u \in Seq(Packets)
      /\ Len(u) = Len(s) - 1 /\ Head(s) \in Packets
      /\ \A i \in 1 .. Len(s) - 1 : u[i] = s[i + 1]
  BY HeadTailProperties, LenProperties, EmptySeq
<1> HIDE DEF u
<1>2. \A i \in 1 .. Len(u) : i + 1 \in 1 .. Len(s) /\ i + 1 # 1 /\ u[i] = s[i + 1]
  BY <1>1
<1>3. 1 \in 1 .. Len(s) /\ \A i \in 1 .. Len(s) : i # 1 => i - 1 \in 1 .. Len(u) /\ u[i - 1] = s[i]
  BY <1>1
<1>4. Elements(u) = Elements(s) \ {Head(s)}
  <2>1. ASSUME NEW x \in Elements(u)
        PROVE  x \in Elements(s) \ {Head(s)}
    <3>1. PICK i \in 1 .. Len(u) : u[i] = x
      BY <2>1 DEF Elements
    <3>2. i + 1 \in 1 .. Len(s) /\ i + 1 # 1 /\ x = s[i + 1]
      BY <1>2, <3>1
    <3>3. s[i + 1] # s[1]
      BY <1>3, <3>2 DEF Distinct
    <3>4. x \in Elements(s)
      BY <3>2 DEF Elements
    <3> QED BY <1>1, <3>2, <3>3, <3>4
  <2>2. ASSUME NEW x \in Elements(s), x # Head(s)
        PROVE  x \in Elements(u)
    <3>1. PICK i \in 1 .. Len(s) : s[i] = x
      BY <2>2 DEF Elements
    <3>2. i # 1
      BY <1>1, <2>2, <3>1
    <3>3. i - 1 \in 1 .. Len(u) /\ u[i - 1] = x
      BY <1>3, <3>1, <3>2
    <3> QED BY <3>3 DEF Elements
  <2> QED BY <2>1, <2>2
<1>5. Distinct(u)
  <2> SUFFICES ASSUME NEW i \in 1 .. Len(u), NEW j \in 1 .. Len(u), u[i] = u[j]
               PROVE  i = j
    BY DEF Distinct
  <2>1. i + 1 = j + 1
    BY <1>2 DEF Distinct
  <2> QED BY <1>1, <2>1
<1>6. Head(s) \in Elements(s)
  BY <1>1, <1>3 DEF Elements
<1> QED BY <1>1, <1>4, <1>5, <1>6 DEF u

\* The elements of the two lists.
LEMMA ListElements ==
  /\ InQueue = Elements(queue) /\ InQueue' = Elements(queue')
  /\ InHodler = Elements(hodler) /\ InHodler' = Elements(hodler')
BY DEF InQueue, InHodler, Elements

\* The descriptors in use.
LEMMA UsedFacts ==
  ASSUME TypeOK, RingSound
  PROVE  /\ Used = InUse(freeIdx, usedIdx) /\ Used \subseteq 0 .. Cnt - 1
         /\ Gap(freeIdx, usedIdx) \in 0 .. Cnt
         /\ Full <=> Gap(freeIdx, usedIdx) = Cnt
         /\ Desc(usedIdx) \in 0 .. Cnt - 1
         /\ Desc(usedIdx) \in Used <=> Gap(freeIdx, usedIdx) > 0
         /\ Oldest # None <=> Desc(usedIdx) \in Used
         /\ Oldest # None => Oldest \in Packets
<1>1. freeIdx \in Indices /\ usedIdx \in Indices /\ usedIdx \in Int
  BY DEF TypeOK, Indices
<1>2. Used = InUse(freeIdx, usedIdx)
  BY DEF Used, InUse
<1>3. Gap(freeIdx, usedIdx) \in 0 .. Cnt
  BY <1>1, GapFacts DEF RingSound
<1>4. Used \subseteq 0 .. Cnt - 1
  <2> SUFFICES ASSUME NEW k \in 0 .. Gap(freeIdx, usedIdx) - 1
               PROVE  Desc(usedIdx + k) \in 0 .. Cnt - 1
    BY DEF Used
  <2>1. usedIdx + k \in Int
    BY <1>1
  <2> QED BY <2>1, DescRange
<1>5. Full <=> Gap(freeIdx, usedIdx) = Cnt
  BY <1>1, FullGap DEF RingSound
<1>6. Desc(usedIdx) \in 0 .. Cnt - 1
  BY <1>1, DescRange
<1>7. Desc(usedIdx) \in Used <=> Gap(freeIdx, usedIdx) > 0
  <2>1. CASE Gap(freeIdx, usedIdx) = 0
    <3>1. 0 .. Gap(freeIdx, usedIdx) - 1 = {}
      BY <2>1
    <3> QED BY <2>1, <3>1 DEF Used
  <2>2. CASE Gap(freeIdx, usedIdx) # 0
    <3>1. Gap(freeIdx, usedIdx) \in 1 .. Cnt
      BY <1>3, <2>2
    <3> QED BY <1>1, <1>2, <3>1, InUseNext
  <2> QED BY <2>1, <2>2
<1>8. Oldest # None <=> Desc(usedIdx) \in Used
  BY <1>6 DEF RingSound, Oldest
<1>9. Oldest # None => Oldest \in Packets
  BY <1>6 DEF Oldest, TypeOK
<1> QED BY <1>2, <1>3, <1>4, <1>5, <1>6, <1>7, <1>8, <1>9

\* A packet is put into a free descriptor.
LEMMA PushStep ==
  ASSUME TypeOK, RingSound, ~Full, bh # "next", bh' = bh,
         NEW p \in Packets, Push(p)
  PROVE  /\ Used' = Used \cup {Desc(freeIdx)} /\ Desc(freeIdx) \notin Used
         /\ Leaving = {} /\ Leaving' = {}
         /\ Gap(freeIdx, usedIdx) < Cnt /\ Gap(freeIdx, usedIdx)' = Gap(freeIdx, usedIdx) + 1
         /\ freeIdx' \in Indices /\ hostId' \in [0 .. Cnt - 1 -> Packets \cup {None}]
         /\ \A i \in Used : hostId'[i] = hostId[i]
         /\ hostId'[Desc(freeIdx)] = p
         /\ InRing' = InRing \cup {p}
         /\ RingSound'
         /\ Oldest' = p \/ Oldest' = Oldest
<1>1. freeIdx \in Indices /\ usedIdx \in Indices
  BY DEF TypeOK
<1>2. Gap(freeIdx, usedIdx) \in 0 .. Cnt - 1
  BY UsedFacts
<1>3. hostId' = [hostId EXCEPT ![Desc(freeIdx)] = p] /\ freeIdx' = Inc(freeIdx) /\ usedIdx' = usedIdx
  BY DEF Push
<1>4. Gap(freeIdx, usedIdx)' = Gap(freeIdx, usedIdx) + 1
  BY <1>1, <1>2, <1>3, GapInc
<1>5. Used' = InUse(Inc(freeIdx), usedIdx)
  BY <1>3 DEF Used, InUse
<1>6. Used' = Used \cup {Desc(freeIdx)} /\ Desc(freeIdx) \notin Used /\ Desc(freeIdx) \in 0 .. Cnt - 1
  BY <1>1, <1>2, <1>5, InUsePush, UsedFacts
<1>7. hostId' \in [0 .. Cnt - 1 -> Packets \cup {None}]
  BY <1>3 DEF TypeOK
<1>8. /\ hostId'[Desc(freeIdx)] = p
      /\ \A i \in 0 .. Cnt - 1 : i # Desc(freeIdx) => hostId'[i] = hostId[i]
  BY <1>3, <1>6 DEF TypeOK
<1>9. Leaving = {} /\ Leaving' = {}
  BY DEF Leaving
<1>10. \A i \in Used : hostId'[i] = hostId[i]
  BY <1>6, <1>8, UsedFacts
<1>11. InRing' = InRing \cup {p}
  <2>1. InRing = {hostId[i] : i \in Used} /\ InRing' = {hostId'[i] : i \in Used'}
    BY <1>9 DEF InRing
  <2> QED BY <2>1, <1>6, <1>8, <1>10
<1>12. RingSound'
  <2>1. \A i \in 0 .. Cnt - 1 : hostId'[i] # None <=> i \in Used'
    BY <1>6, <1>8 DEF RingSound
  <2> QED BY <1>2, <1>4, <2>1 DEF RingSound
<1>13. Oldest' = p \/ Oldest' = Oldest
  BY <1>3, <1>8, UsedFacts DEF Oldest
<1>14. freeIdx' \in Indices
  BY <1>1, <1>3, IncFacts
<1> QED BY <1>2, <1>4, <1>6, <1>7, <1>8, <1>9, <1>10, <1>11, <1>12, <1>13, <1>14

\* The oldest packet is taken out of the ring, its descriptor is not yet free.
LEMMA LeaveStep ==
  ASSUME TypeOK, RingSound, ListsInv, bh = "cfm", bh' = "next", Oldest # None, UNCHANGED ring
  PROVE  /\ Used' = Used /\ Leaving = {} /\ Leaving' = {Desc(usedIdx)} /\ Desc(usedIdx) \in Used
         /\ RingSound' /\ Gap(freeIdx, usedIdx)' = Gap(freeIdx, usedIdx)
         /\ Gap(freeIdx, usedIdx) > 0
         /\ Oldest \in InRing /\ InRing' = InRing \ {Oldest} /\ Oldest' = Oldest
         /\ Oldest \in Packets
<1>1. freeIdx' = freeIdx /\ usedIdx' = usedIdx /\ hostId' = hostId
  BY DEF ring
<1>2. Used' = Used /\ Gap(freeIdx, usedIdx)' = Gap(freeIdx, usedIdx)
  BY <1>1 DEF Used
<1>3. Leaving = {} /\ Leaving' = {Desc(usedIdx)}
  BY <1>1 DEF Leaving
<1>4. Desc(usedIdx) \in Used /\ Gap(freeIdx, usedIdx) > 0 /\ Oldest \in Packets
  BY UsedFacts
<1>5. RingSound'
  BY <1>1, <1>2 DEF RingSound
<1>6. Oldest = hostId[Desc(usedIdx)] /\ Oldest' = Oldest
  BY <1>1 DEF Oldest
<1>7. InRing = {hostId[i] : i \in Used} /\ InRing' = {hostId[i] : i \in Used \ {Desc(usedIdx)}}
  BY <1>1, <1>2, <1>3 DEF InRing
<1>8. \A i, j \in Used : hostId[i] = hostId[j] => i = j
  BY <1>3 DEF ListsInv
<1>9. Oldest \in InRing /\ InRing' = InRing \ {Oldest}
  BY <1>4, <1>6, <1>7, <1>8
<1> QED BY <1>2, <1>3, <1>4, <1>5, <1>6, <1>9

\* The descriptor is freed.
LEMMA FreeStep ==
  ASSUME TypeOK, RingSound, ListsInv, CfmNext
  PROVE  /\ Used' = Used \ {Desc(usedIdx)} /\ Leaving = {Desc(usedIdx)} /\ Leaving' = {}
         /\ Gap(freeIdx, usedIdx)' = Gap(freeIdx, usedIdx) - 1
         /\ Gap(freeIdx, usedIdx) \in 1 .. Cnt
         /\ usedIdx' \in Indices /\ hostId' \in [0 .. Cnt - 1 -> Packets \cup {None}]
         /\ \A i \in Used' : hostId'[i] = hostId[i]
         /\ InRing' = InRing
         /\ RingSound'
<1>1. freeIdx \in Indices /\ usedIdx \in Indices
  BY DEF TypeOK
<1>2. /\ hostId' = [hostId EXCEPT ![Desc(usedIdx)] = None]
      /\ freeIdx' = freeIdx /\ usedIdx' = Inc(usedIdx) /\ bh = "next" /\ bh' = "cfm"
  BY DEF CfmNext
<1>3. Gap(freeIdx, usedIdx) \in 1 .. Cnt
  BY <1>2, UsedFacts DEF ListsInv
<1>4. Gap(freeIdx, usedIdx)' = Gap(freeIdx, usedIdx) - 1
  BY <1>1, <1>2, <1>3, GapInc
<1>5. Used' = InUse(freeIdx, Inc(usedIdx))
  BY <1>2 DEF Used, InUse
<1>6. Used' = Used \ {Desc(usedIdx)} /\ Desc(usedIdx) \in 0 .. Cnt - 1
  BY <1>1, <1>3, <1>5, InUseNext, UsedFacts
<1>7. Leaving = {Desc(usedIdx)} /\ Leaving' = {}
  BY <1>2 DEF Leaving
<1>8. hostId' \in [0 .. Cnt - 1 -> Packets \cup {None}]
  BY <1>2 DEF TypeOK
<1>9. /\ hostId'[Desc(usedIdx)] = None
      /\ \A i \in 0 .. Cnt - 1 : i # Desc(usedIdx) => hostId'[i] = hostId[i]
  BY <1>2, <1>6 DEF TypeOK
<1>10. \A i \in Used' : hostId'[i] = hostId[i]
  BY <1>6, <1>9, UsedFacts
<1>11. InRing' = InRing
  <2>1. Used' \ Leaving' = Used \ Leaving /\ Used \ Leaving = Used'
    BY <1>6, <1>7
  <2>2. InRing' = {hostId'[i] : i \in Used'} /\ InRing = {hostId[i] : i \in Used'}
    BY <2>1 DEF InRing
  <2> QED BY <2>2, <1>10
<1>12. RingSound'
  <2>1. \A i \in 0 .. Cnt - 1 : hostId'[i] # None <=> i \in Used'
    BY <1>6, <1>9 DEF RingSound
  <2> QED BY <1>3, <1>4, <2>1 DEF RingSound
<1>13. usedIdx' \in Indices
  BY <1>1, <1>2, IncFacts
<1> QED BY <1>3, <1>4, <1>6, <1>7, <1>8, <1>10, <1>11, <1>12, <1>13

-------------------------------------------------------------------------------
(***************************************************************************)
(* Preservation, part by part                                              *)
(***************************************************************************)

\* The parts that are about the lists, the ring and the firmware.
PlaceInv == RingSound /\ ListsInv /\ FwOwns /\ RoomInv

\* Every step keeps the types.
LEMMA TypeStep ==
  ASSUME TypeOK, RingSound, ListsInv, [Next]_vars
  PROVE  TypeOK'
<1>1. /\ queue \in Seq(Packets) /\ hodler \in Seq(Packets) /\ Len(hodler) < HodlerLen
      /\ Len(hodler) \in Nat
  BY LenProperties DEF TypeOK
<1>2. ASSUME NEW t \in Tasks, OutputIrq(t)
      PROVE  TypeOK'
  BY <1>2 DEF TypeOK, OutputIrq, IrqHandler, ring, firmware
<1>3. ASSUME NEW t \in Tasks, NEW p \in Packets, Output(t, p)
      PROVE  TypeOK'
  <2>1. queue' \in Seq(Packets)
    BY <1>1, <1>3, AppendProperties DEF Output
  <2>2. refs' \in [Packets -> {0, 1}]
    BY <1>3 DEF Output, TypeOK
  <2> QED BY <1>3, <2>1, <2>2 DEF TypeOK, Output, ring, firmware, irqs
<1>4. ASSUME NEW p \in Packets, NEW s \in {"done", "retry"}, FwStatus(p, s)
      PROVE  TypeOK'
  BY <1>4 DEF TypeOK, FwStatus, ring, irqs
<1>5. CASE FwRaise \/ FwOther \/ Isr
  <2>1. CASE FwRaise
    BY <2>1 DEF TypeOK, FwRaise, ring
  <2>2. CASE FwOther
    BY <2>2 DEF TypeOK, FwOther, ring
  <2>3. CASE Isr
    BY <2>3 DEF TypeOK, Isr, IrqHandler, ring, firmware
  <2> QED BY <1>5, <2>1, <2>2, <2>3
<1>6. CASE Wake \/ Status \/ Reload \/ CfmEnd \/ ResendEnd \/ Enable \/ Recheck \/ FlushEnd
  BY <1>6 DEF TypeOK, BhStates, Wake, Status, Reload, CfmEnd, ResendEnd, Enable, Recheck, FlushEnd,
     ring, firmware, irqs
<1>7. CASE CfmFree \/ CfmDrop
  <2>1. Oldest \in Packets /\ Oldest # None /\ bh = "cfm" /\ bh' = "next" /\ UNCHANGED ring
        /\ refs' = [refs EXCEPT ![Oldest] = @ - 1]
    BY <1>7, UsedFacts DEF CfmFree, CfmDrop
  <2>2. refs[Oldest] = 1
    BY <2>1, LeaveStep DEF ListsInv
  <2>3. refs' \in [Packets -> {0, 1}]
    BY <2>1, <2>2 DEF TypeOK
  <2> QED BY <1>7, <2>3 DEF TypeOK, BhStates, CfmFree, CfmDrop, ring, firmware, irqs
<1>8. CASE CfmHold
  <2>1. Oldest \in Packets /\ hodler' = Append(hodler, Oldest)
    BY <1>8, UsedFacts DEF CfmHold
  <2>2. hodler' \in Seq(Packets) /\ Len(hodler') = Len(hodler) + 1
    BY <1>1, <2>1, AppendProperties
  <2>3. Len(hodler') < HodlerLen
    BY <1>1, <1>8, <2>2 DEF CfmHold, HodlerFull
  <2> QED BY <1>8, <2>2, <2>3 DEF TypeOK, BhStates, CfmHold, ring, firmware, irqs
<1>9. CASE CfmNext
  <2>1. usedIdx' \in Indices /\ hostId' \in [0 .. Cnt - 1 -> Packets \cup {None}]
    BY <1>9, FreeStep
  <2> QED BY <1>9, <2>1 DEF TypeOK, BhStates, CfmNext, firmware, irqs
<1>10. CASE Resend
  <2>1. /\ bh # "next" /\ bh' = bh /\ ~Full /\ Push(Head(hodler)) /\ hodler # <<>>
        /\ hodler' = Tail(hodler)
    BY <1>10 DEF Resend, irqs
  <2>2. Head(hodler) \in Packets /\ hodler' \in Seq(Packets) /\ Len(hodler') < HodlerLen
    BY <1>1, <2>1, HeadTailProperties, EmptySeq
  <2>3. freeIdx' \in Indices /\ hostId' \in [0 .. Cnt - 1 -> Packets \cup {None}]
    BY <2>1, <2>2, PushStep
  <2>4. fw' \subseteq Packets
    BY <2>1, <2>2 DEF Push, TypeOK
  <2> QED BY <1>10, <2>2, <2>3, <2>4 DEF TypeOK, Resend, Push, irqs
<1>11. CASE Flush
  <2>1. /\ bh # "next" /\ bh' = bh /\ ~Full /\ Push(Head(queue)) /\ queue # <<>>
        /\ queue' = Tail(queue)
    BY <1>11 DEF Flush, irqs
  <2>2. Head(queue) \in Packets /\ queue' \in Seq(Packets)
    BY <1>1, <2>1, HeadTailProperties, EmptySeq
  <2>3. freeIdx' \in Indices /\ hostId' \in [0 .. Cnt - 1 -> Packets \cup {None}]
    BY <2>1, <2>2, PushStep
  <2>4. fw' \subseteq Packets
    BY <2>1, <2>2 DEF Push, TypeOK
  <2> QED BY <1>11, <2>2, <2>3, <2>4 DEF TypeOK, Flush, Push, irqs
<1>12. CASE UNCHANGED vars
  BY <1>12 DEF TypeOK, vars, ring, firmware, irqs
<1> QED BY <1>2, <1>3, <1>4, <1>5, <1>6, <1>7, <1>8, <1>9, <1>10, <1>11, <1>12 DEF Next, BhStep

\* A step that leaves the lists and the ring alone, and keeps nothing to be
\* sent again unless the firmware's task comes to it.
LEMMA Still ==
  ASSUME PlaceInv, UNCHANGED <<queue, ring, hodler, status, refs, fw>>,
         bh = "next" <=> bh' = "next",
         bh' \notin {"cfm", "next", "resend"} => hodler = <<>>
  PROVE  PlaceInv'
<1>1. /\ freeIdx' = freeIdx /\ usedIdx' = usedIdx /\ hostId' = hostId
      /\ queue' = queue /\ hodler' = hodler /\ status' = status /\ refs' = refs /\ fw' = fw
  BY DEF ring
<1>2. Used' = Used /\ Leaving' = Leaving /\ Gap(freeIdx, usedIdx)' = Gap(freeIdx, usedIdx)
  BY <1>1 DEF Used, Leaving
<1>3. InQueue' = InQueue /\ InHodler' = InHodler /\ InRing' = InRing
  BY <1>1, <1>2 DEF InQueue, InHodler, InRing
<1>4. RingSound'
  BY <1>1, <1>2 DEF RingSound, PlaceInv
<1>5. ListsInv'
  BY <1>1, <1>2, <1>3 DEF ListsInv, PlaceInv
<1>6. FwOwns'
  BY <1>1, <1>2 DEF FwOwns, PlaceInv
<1>7. RoomInv'
  BY <1>1, <1>2 DEF RoomInv, PlaceInv
<1> QED BY <1>4, <1>5, <1>6, <1>7 DEF PlaceInv

\* A packet is queued.
LEMMA OutputPlaces ==
  ASSUME TypeOK, PlaceInv, NEW t \in Tasks, NEW p \in Packets, Output(t, p)
  PROVE  PlaceInv'
<1>1. /\ freeIdx' = freeIdx /\ usedIdx' = usedIdx /\ hostId' = hostId /\ bh' = bh
      /\ queue' = Append(queue, p) /\ hodler' = hodler /\ fw' = fw
      /\ status' = [status EXCEPT ![p] = "none"] /\ refs' = [refs EXCEPT ![p] = @ + 1]
      /\ refs[p] = 0
  BY DEF Output, ring, firmware
<1>2. Used' = Used /\ Leaving' = Leaving /\ Gap(freeIdx, usedIdx)' = Gap(freeIdx, usedIdx)
  BY <1>1 DEF Used, Leaving
<1>3. InHodler' = InHodler /\ InRing' = InRing
  BY <1>1, <1>2 DEF InHodler, InRing
<1>4. p \notin InQueue \cup InRing \cup InHodler
  BY <1>1 DEF PlaceInv, ListsInv
<1>5. InQueue' = InQueue \cup {p} /\ Distinct(queue')
  <2>1. queue \in Seq(Packets) /\ Distinct(queue) /\ p \notin Elements(queue)
    BY <1>4, ListElements DEF TypeOK, PlaceInv, ListsInv
  <2> QED BY <1>1, <2>1, AppendFacts, ListElements
<1>6. \A q \in Packets : /\ refs'[q] = IF q = p THEN 1 ELSE refs[q]
                         /\ status'[q] = IF q = p THEN "none" ELSE status[q]
  BY <1>1 DEF TypeOK
<1>7. RingSound'
  BY <1>1, <1>2 DEF RingSound, PlaceInv
<1>8. ListsInv'
  <2>1. InQueue \subseteq Packets /\ InHodler \subseteq Packets
    BY DEF TypeOK, InQueue, InHodler
  <2>2. \A q \in Packets : refs'[q] = 1 <=> q \in InQueue' \cup InRing' \cup InHodler'
    BY <1>3, <1>5, <1>6 DEF PlaceInv, ListsInv
  <2>3. \A q \in InQueue' : status'[q] = "none"
    BY <1>5, <1>6, <2>1 DEF PlaceInv, ListsInv
  <2>4. \A q \in InHodler' : status'[q] = "retry"
    BY <1>3, <1>4, <1>6, <2>1 DEF PlaceInv, ListsInv
  <2> QED BY <1>1, <1>2, <1>3, <1>4, <1>5, <2>2, <2>3, <2>4 DEF PlaceInv, ListsInv
<1>9. FwOwns'
  BY <1>1, <1>2, <1>6 DEF FwOwns, PlaceInv, TypeOK
<1>10. RoomInv'
  BY <1>1, <1>2 DEF RoomInv, PlaceInv
<1> QED BY <1>7, <1>8, <1>9, <1>10 DEF PlaceInv

\* The firmware is done with a packet.
LEMMA StatusPlaces ==
  ASSUME TypeOK, PlaceInv, NEW p \in Packets, NEW s \in {"done", "retry"}, FwStatus(p, s)
  PROVE  PlaceInv'
<1>1. /\ freeIdx' = freeIdx /\ usedIdx' = usedIdx /\ hostId' = hostId /\ bh' = bh
      /\ queue' = queue /\ hodler' = hodler /\ refs' = refs
      /\ p \in fw /\ fw' = fw \ {p} /\ status' = [status EXCEPT ![p] = s]
  BY DEF FwStatus, ring
<1>2. Used' = Used /\ Leaving' = Leaving /\ Gap(freeIdx, usedIdx)' = Gap(freeIdx, usedIdx)
  BY <1>1 DEF Used, Leaving
<1>3. InQueue' = InQueue /\ InHodler' = InHodler /\ InRing' = InRing
  BY <1>1, <1>2 DEF InQueue, InHodler, InRing
<1>4. \A q \in Packets \ {p} : status'[q] = status[q]
  BY <1>1 DEF TypeOK
<1>5. p \in InRing /\ InQueue \subseteq Packets /\ InHodler \subseteq Packets
  BY <1>1 DEF PlaceInv, FwOwns, InRing, InQueue, InHodler, TypeOK
<1>6. RingSound'
  BY <1>1, <1>2 DEF RingSound, PlaceInv
<1>7. ListsInv'
  <2>1. /\ \A q \in InQueue' : status'[q] = "none"
        /\ \A q \in InHodler' : status'[q] = "retry"
    BY <1>3, <1>4, <1>5 DEF PlaceInv, ListsInv
  <2> QED BY <1>1, <1>2, <1>3, <2>1 DEF ListsInv, PlaceInv
<1>8. FwOwns'
  BY <1>1, <1>2, <1>4 DEF FwOwns, PlaceInv, TypeOK
<1>9. RoomInv'
  BY <1>1, <1>2 DEF RoomInv, PlaceInv
<1> QED BY <1>6, <1>7, <1>8, <1>9 DEF PlaceInv

\* A packet is given back, or dropped.
LEMMA GivenBack ==
  ASSUME TypeOK, PlaceInv, CfmFree \/ CfmDrop
  PROVE  PlaceInv'
<1>1. /\ freeIdx' = freeIdx /\ usedIdx' = usedIdx /\ hostId' = hostId
      /\ queue' = queue /\ hodler' = hodler /\ status' = status /\ fw' = fw
      /\ UNCHANGED ring
      /\ refs' = [refs EXCEPT ![Oldest] = @ - 1]
      /\ bh = "cfm" /\ bh' = "next" /\ Oldest # None /\ status[Oldest] # "none"
  BY DEF CfmFree, CfmDrop, ring, firmware
<1>2. /\ Used' = Used /\ Leaving = {} /\ Leaving' = {Desc(usedIdx)} /\ Desc(usedIdx) \in Used
      /\ RingSound' /\ Gap(freeIdx, usedIdx)' = Gap(freeIdx, usedIdx)
      /\ Gap(freeIdx, usedIdx) > 0 /\ Oldest \in InRing /\ InRing' = InRing \ {Oldest}
      /\ Oldest \in Packets
  BY <1>1, LeaveStep DEF PlaceInv
<1>3. InQueue' = InQueue /\ InHodler' = InHodler
  BY <1>1 DEF InQueue, InHodler
<1>4. \A q \in Packets : refs'[q] = IF q = Oldest THEN refs[q] - 1 ELSE refs[q]
  BY <1>1 DEF TypeOK
<1>5. refs[Oldest] = 1
  BY <1>2 DEF PlaceInv, ListsInv
<1>6. ListsInv'
  <2>1. \A q \in Packets : refs'[q] = 1 <=> q \in InQueue' \cup InRing' \cup InHodler'
    BY <1>2, <1>3, <1>4, <1>5 DEF PlaceInv, ListsInv
  <2>2. \A i, j \in Used' \ Leaving' : hostId'[i] = hostId'[j] => i = j
    BY <1>1, <1>2 DEF PlaceInv, ListsInv
  <2> QED BY <1>1, <1>2, <1>3, <2>1, <2>2 DEF PlaceInv, ListsInv
<1>7. FwOwns'
  <2> SUFFICES ASSUME NEW p \in fw
               PROVE  refs'[p] = 1 /\ status[p] = "none" /\ \E i \in Used' \ Leaving' : hostId[i] = p
    BY <1>1 DEF FwOwns
  <2>1. PICK i \in Used \ Leaving : hostId[i] = p
    BY DEF PlaceInv, FwOwns
  <2>2. p \in Packets /\ status[p] = "none" /\ refs[p] = 1 /\ p # Oldest
    BY <1>1 DEF PlaceInv, FwOwns, TypeOK
  <2>3. i # Desc(usedIdx)
    BY <2>1, <2>2 DEF Oldest
  <2> QED BY <1>2, <1>4, <2>1, <2>2, <2>3
<1>8. RoomInv'
  <2>1. Len(hodler) \in Nat /\ Gap(freeIdx, usedIdx) \in Int
    BY LenProperties, UsedFacts DEF TypeOK, PlaceInv
  <2> QED BY <1>1, <1>2, <2>1 DEF RoomInv, PlaceInv
<1> QED BY <1>2, <1>6, <1>7, <1>8 DEF PlaceInv

\* A packet is kept to be sent again.
LEMMA Held ==
  ASSUME TypeOK, PlaceInv, CfmHold
  PROVE  PlaceInv'
<1>1. /\ freeIdx' = freeIdx /\ usedIdx' = usedIdx /\ hostId' = hostId
      /\ queue' = queue /\ status' = status /\ fw' = fw /\ refs' = refs
      /\ UNCHANGED ring
      /\ hodler' = Append(hodler, Oldest)
      /\ bh = "cfm" /\ bh' = "next" /\ Oldest # None /\ status[Oldest] = "retry"
  BY DEF CfmHold, ring, firmware
<1>2. /\ Used' = Used /\ Leaving = {} /\ Leaving' = {Desc(usedIdx)} /\ Desc(usedIdx) \in Used
      /\ RingSound' /\ Gap(freeIdx, usedIdx)' = Gap(freeIdx, usedIdx)
      /\ Gap(freeIdx, usedIdx) > 0 /\ Oldest \in InRing /\ InRing' = InRing \ {Oldest}
      /\ Oldest \in Packets
  BY <1>1, LeaveStep DEF PlaceInv
<1>3. InQueue' = InQueue
  BY <1>1 DEF InQueue
<1>4. Oldest \notin InHodler \cup InQueue
  BY <1>2 DEF PlaceInv, ListsInv
<1>5. InHodler' = InHodler \cup {Oldest} /\ Distinct(hodler') /\ Len(hodler') = Len(hodler) + 1
  <2>1. hodler \in Seq(Packets) /\ Distinct(hodler) /\ Oldest \notin Elements(hodler)
    BY <1>4, ListElements DEF TypeOK, PlaceInv, ListsInv
  <2> QED BY <1>1, <1>2, <2>1, AppendFacts, ListElements
<1>6. ListsInv'
  <2>1. \A q \in Packets : refs'[q] = 1 <=> q \in InQueue' \cup InRing' \cup InHodler'
    BY <1>1, <1>2, <1>3, <1>5 DEF PlaceInv, ListsInv
  <2>2. \A i, j \in Used' \ Leaving' : hostId'[i] = hostId'[j] => i = j
    BY <1>1, <1>2 DEF PlaceInv, ListsInv
  <2> QED BY <1>1, <1>2, <1>3, <1>4, <1>5, <2>1, <2>2 DEF PlaceInv, ListsInv
<1>7. FwOwns'
  <2> SUFFICES ASSUME NEW p \in fw
               PROVE  refs[p] = 1 /\ status[p] = "none" /\ \E i \in Used' \ Leaving' : hostId[i] = p
    BY <1>1 DEF FwOwns
  <2>1. PICK i \in Used \ Leaving : hostId[i] = p
    BY DEF PlaceInv, FwOwns
  <2>2. status[p] = "none" /\ refs[p] = 1 /\ p # Oldest
    BY <1>1 DEF PlaceInv, FwOwns
  <2>3. i # Desc(usedIdx)
    BY <2>1, <2>2 DEF Oldest
  <2> QED BY <1>2, <2>1, <2>2, <2>3
<1>8. RoomInv'
  <2>1. Len(hodler) \in Nat /\ Gap(freeIdx, usedIdx) \in Int
    BY LenProperties, UsedFacts DEF TypeOK, PlaceInv
  <2> QED BY <1>1, <1>2, <1>5, <2>1 DEF RoomInv, PlaceInv
<1> QED BY <1>2, <1>6, <1>7, <1>8 DEF PlaceInv

\* The descriptor of a packet that left is freed.
LEMMA Freed ==
  ASSUME TypeOK, PlaceInv, CfmNext
  PROVE  PlaceInv'
<1>1. /\ queue' = queue /\ hodler' = hodler /\ status' = status /\ fw' = fw /\ refs' = refs
      /\ bh = "next" /\ bh' = "cfm"
  BY DEF CfmNext, firmware
<1>2. /\ Used' = Used \ {Desc(usedIdx)} /\ Leaving = {Desc(usedIdx)} /\ Leaving' = {}
      /\ Gap(freeIdx, usedIdx)' = Gap(freeIdx, usedIdx) - 1
      /\ Gap(freeIdx, usedIdx) \in 1 .. Cnt
      /\ \A i \in Used' : hostId'[i] = hostId[i]
      /\ InRing' = InRing /\ RingSound'
  BY FreeStep DEF PlaceInv
<1>3. InQueue' = InQueue /\ InHodler' = InHodler
  BY <1>1 DEF InQueue, InHodler
<1>4. Used' \ Leaving' = Used \ Leaving /\ Used \ Leaving = Used'
  BY <1>2
<1>5. ListsInv'
  <2>1. \A i, j \in Used' \ Leaving' : hostId'[i] = hostId'[j] => i = j
    BY <1>2, <1>4 DEF PlaceInv, ListsInv
  <2> QED BY <1>1, <1>2, <1>3, <2>1 DEF PlaceInv, ListsInv
<1>6. FwOwns'
  BY <1>1, <1>2, <1>4 DEF PlaceInv, FwOwns
<1>7. RoomInv'
  <2>1. Len(hodler) \in Nat
    BY LenProperties DEF TypeOK
  <2> QED BY <1>1, <1>2, <2>1 DEF RoomInv, PlaceInv
<1> QED BY <1>2, <1>5, <1>6, <1>7 DEF PlaceInv

\* A packet that was kept is sent again.
LEMMA Resent ==
  ASSUME TypeOK, PlaceInv, Resend
  PROVE  PlaceInv'
<1> DEFINE p == Head(hodler)
<1>1. /\ queue' = queue /\ hodler' = Tail(hodler) /\ refs' = refs
      /\ status' = [status EXCEPT ![p] = "none"] /\ fw' = fw \cup {p}
      /\ bh = "resend" /\ bh' = bh /\ hodler # <<>> /\ ~Full /\ Push(p)
  BY DEF Resend, Push, irqs
<1>2. p \in InHodler /\ InHodler' = InHodler \ {p} /\ Distinct(hodler') /\ p \in Packets
      /\ Len(hodler') = Len(hodler) - 1 /\ Len(hodler) \in Nat
  <2>1. hodler \in Seq(Packets) /\ hodler # <<>> /\ Distinct(hodler)
    BY <1>1 DEF TypeOK, PlaceInv, ListsInv
  <2> QED BY <1>1, <2>1, TailFacts, ListElements
<1> HIDE DEF p
<1>3. /\ Used' = Used \cup {Desc(freeIdx)} /\ Desc(freeIdx) \notin Used
      /\ Leaving = {} /\ Leaving' = {}
      /\ Gap(freeIdx, usedIdx) < Cnt /\ Gap(freeIdx, usedIdx)' = Gap(freeIdx, usedIdx) + 1
      /\ \A i \in Used : hostId'[i] = hostId[i]
      /\ hostId'[Desc(freeIdx)] = p
      /\ InRing' = InRing \cup {p} /\ RingSound'
  BY <1>1, <1>2, PushStep DEF PlaceInv
<1>4. InQueue' = InQueue /\ InQueue \subseteq Packets /\ InHodler \subseteq Packets
  BY <1>1 DEF InQueue, InHodler, TypeOK
<1>5. \A q \in Packets : status'[q] = IF q = p THEN "none" ELSE status[q]
  BY <1>1 DEF TypeOK
<1>6. ListsInv'
  <2>1. \A q \in Packets : refs'[q] = 1 <=> q \in InQueue' \cup InRing' \cup InHodler'
    BY <1>1, <1>2, <1>3, <1>4 DEF PlaceInv, ListsInv
  <2>2. \A i, j \in Used' \ Leaving' : hostId'[i] = hostId'[j] => i = j
    <3>1. \A i, j \in Used : hostId[i] = hostId[j] => i = j
      BY <1>3 DEF PlaceInv, ListsInv
    <3>2. \A i \in Used : hostId[i] \in InRing
      BY <1>3 DEF InRing
    <3>3. p \notin InRing
      BY <1>2 DEF PlaceInv, ListsInv
    <3> QED BY <1>3, <3>1, <3>2, <3>3
  <2>3. /\ \A q \in InQueue' : status'[q] = "none"
        /\ \A q \in InHodler' : status'[q] = "retry"
    BY <1>2, <1>4, <1>5 DEF PlaceInv, ListsInv
  <2>4. InRing' \cap (InQueue' \cup InHodler') = {} /\ InQueue' \cap InHodler' = {}
    BY <1>2, <1>3, <1>4 DEF PlaceInv, ListsInv
  <2> QED BY <1>1, <1>2, <2>1, <2>2, <2>3, <2>4 DEF PlaceInv, ListsInv
<1>7. FwOwns'
  <2>1. refs[p] = 1
    BY <1>2 DEF PlaceInv, ListsInv
  <2>2. \A q \in fw : /\ q \in Packets /\ refs[q] = 1 /\ status[q] = "none"
                     /\ \E i \in Used : hostId[i] = q
    BY <1>3 DEF PlaceInv, FwOwns, TypeOK
  <2>3. \A q \in fw' : /\ refs'[q] = 1 /\ status'[q] = "none"
                      /\ \E i \in Used' \ Leaving' : hostId'[i] = q
    <3> TAKE q \in fw'
    <3>1. CASE q = p
      BY <1>1, <1>2, <1>3, <1>5, <2>1, <3>1
    <3>2. CASE q \in fw
      BY <1>1, <1>3, <1>5, <2>2, <3>2
    <3> QED BY <1>1, <3>1, <3>2
  <2> QED BY <2>3 DEF FwOwns
<1>8. RoomInv'
  <2>1. Gap(freeIdx, usedIdx) \in Int
    BY UsedFacts DEF PlaceInv
  <2> QED BY <1>1, <1>2, <1>3, <2>1 DEF RoomInv, PlaceInv
<1> QED BY <1>3, <1>6, <1>7, <1>8 DEF PlaceInv

\* A packet that waited is sent.
LEMMA Flushed ==
  ASSUME TypeOK, PlaceInv, Flush
  PROVE  PlaceInv'
<1> DEFINE p == Head(queue)
<1>1. /\ queue' = Tail(queue) /\ hodler' = hodler /\ refs' = refs
      /\ status' = status /\ fw' = fw \cup {p}
      /\ bh = "flush" /\ bh' = bh /\ queue # <<>> /\ ~Full /\ Push(p)
  BY DEF Flush, Push, irqs
<1>2. p \in InQueue /\ InQueue' = InQueue \ {p} /\ Distinct(queue') /\ p \in Packets
  <2>1. queue \in Seq(Packets) /\ queue # <<>> /\ Distinct(queue)
    BY <1>1 DEF TypeOK, PlaceInv, ListsInv
  <2> QED BY <1>1, <2>1, TailFacts, ListElements
<1> HIDE DEF p
<1>3. /\ Used' = Used \cup {Desc(freeIdx)} /\ Desc(freeIdx) \notin Used
      /\ Leaving = {} /\ Leaving' = {}
      /\ Gap(freeIdx, usedIdx) < Cnt /\ Gap(freeIdx, usedIdx)' = Gap(freeIdx, usedIdx) + 1
      /\ \A i \in Used : hostId'[i] = hostId[i]
      /\ hostId'[Desc(freeIdx)] = p
      /\ InRing' = InRing \cup {p} /\ RingSound'
  BY <1>1, <1>2, PushStep DEF PlaceInv
<1>4. InHodler' = InHodler
  BY <1>1 DEF InHodler
<1>5. ListsInv'
  <2>1. \A q \in Packets : refs'[q] = 1 <=> q \in InQueue' \cup InRing' \cup InHodler'
    BY <1>1, <1>2, <1>3, <1>4 DEF PlaceInv, ListsInv
  <2>2. \A i, j \in Used' \ Leaving' : hostId'[i] = hostId'[j] => i = j
    <3>1. \A i, j \in Used : hostId[i] = hostId[j] => i = j
      BY <1>3 DEF PlaceInv, ListsInv
    <3>2. \A i \in Used : hostId[i] \in InRing
      BY <1>3 DEF InRing
    <3>3. p \notin InRing
      BY <1>2 DEF PlaceInv, ListsInv
    <3> QED BY <1>3, <3>1, <3>2, <3>3
  <2>3. /\ \A q \in InQueue' : status'[q] = "none"
        /\ \A q \in InHodler' : status'[q] = "retry"
    BY <1>1, <1>2, <1>4 DEF PlaceInv, ListsInv
  <2>4. InRing' \cap (InQueue' \cup InHodler') = {} /\ InQueue' \cap InHodler' = {}
    BY <1>2, <1>3, <1>4 DEF PlaceInv, ListsInv
  <2> QED BY <1>1, <1>2, <2>1, <2>2, <2>3, <2>4 DEF PlaceInv, ListsInv
<1>6. FwOwns'
  <2>1. refs[p] = 1 /\ status[p] = "none"
    BY <1>2 DEF PlaceInv, ListsInv
  <2> QED BY <1>1, <1>2, <1>3, <2>1 DEF PlaceInv, FwOwns, TypeOK
<1>7. RoomInv'
  <2>1. Gap(freeIdx, usedIdx) \in Int /\ Len(<<>>) = 0
    BY UsedFacts DEF PlaceInv
  <2>2. hodler = <<>>
    BY <1>1 DEF RoomInv, PlaceInv
  <2> QED BY <1>1, <1>3, <2>1, <2>2 DEF RoomInv, PlaceInv
<1> QED BY <1>3, <1>5, <1>6, <1>7 DEF PlaceInv

\* Every step keeps the places.
LEMMA PlaceStep ==
  ASSUME TypeOK, PlaceInv, [Next]_vars
  PROVE  PlaceInv'
<1>1. ASSUME NEW t \in Tasks, OutputIrq(t)
      PROVE  PlaceInv'
  BY <1>1, Still DEF OutputIrq, firmware, PlaceInv, RoomInv
<1>2. CASE FwRaise \/ FwOther \/ Isr
  BY <1>2, Still DEF FwRaise, FwOther, Isr, firmware, PlaceInv, RoomInv
<1>3. CASE Wake \/ Status \/ Reload \/ CfmEnd \/ Enable \/ Recheck \/ FlushEnd
  BY <1>3, Still DEF Wake, Status, Reload, CfmEnd, Enable, Recheck, FlushEnd,
     firmware, PlaceInv, RoomInv
<1>4. CASE ResendEnd
  <2>1. hodler = <<>>
    <3>1. CASE Full
      <4>1. Gap(freeIdx, usedIdx) = Cnt /\ Len(hodler) + Gap(freeIdx, usedIdx) <= Cnt
        BY <1>4, <3>1, UsedFacts DEF ResendEnd, PlaceInv, RoomInv
      <4>2. hodler \in Seq(Packets) /\ Len(hodler) \in Nat
        BY LenProperties DEF TypeOK
      <4>3. Len(hodler) = 0
        BY <4>1, <4>2
      <4> QED BY <4>2, <4>3, EmptySeq
    <3> QED BY <1>4, <3>1 DEF ResendEnd
  <2> QED BY <1>4, <2>1, Still DEF ResendEnd, firmware
<1>5. CASE UNCHANGED vars
  BY <1>5, Still DEF vars, firmware, PlaceInv, RoomInv
<1> QED BY <1>1, <1>2, <1>3, <1>4, <1>5, OutputPlaces, StatusPlaces, GivenBack, Held, Freed,
           Resent, Flushed DEF Next, BhStep

-------------------------------------------------------------------------------
(***************************************************************************)
(* What there is to do                                                     *)
(***************************************************************************)

\* Every step keeps what will wake the firmware's task.
LEMMA WakeStep ==
  ASSUME TypeOK, PlaceInv, WakeInv, [Next]_vars
  PROVE  WakeInv'
<1>1. RingSound /\ ListsInv
  BY DEF PlaceInv
<1>2. ASSUME UNCHANGED ring
      PROVE  Oldest' = Oldest /\ Full' = Full
  BY <1>2 DEF ring, Oldest, Full
<1>3. Oldest # None => Oldest \in Packets
  BY <1>1, UsedFacts
<1>4. ASSUME NEW t \in Tasks, OutputIrq(t)
      PROVE  WakeInv'
  BY <1>2, <1>4 DEF WakeInv, OutputIrq, IrqHandler, firmware
<1>5. ASSUME NEW t \in Tasks, NEW p \in Packets, Output(t, p)
      PROVE  WakeInv'
  <2>1. pc'[t] = "queued"
    BY <1>5 DEF Output, TypeOK
  <2>2. Oldest' # None /\ status'[Oldest'] # "none" => Oldest # None /\ status[Oldest] # "none"
    BY <1>2, <1>3, <1>5 DEF Output, TypeOK
  <2> QED BY <1>5, <2>1, <2>2 DEF WakeInv, Output, firmware, irqs
<1>6. ASSUME NEW p \in Packets, NEW s \in {"done", "retry"}, FwStatus(p, s)
      PROVE  WakeInv'
  BY <1>2, <1>6 DEF WakeInv, FwStatus, irqs
<1>7. CASE FwRaise \/ FwOther \/ Isr
  BY <1>2, <1>7 DEF WakeInv, FwRaise, FwOther, Isr, IrqHandler, firmware
<1>8. CASE Wake \/ Status \/ Reload
  BY <1>2, <1>8 DEF WakeInv, Wake, Status, Reload, firmware, irqs
<1>9. CASE CfmEnd \/ ResendEnd \/ Enable \/ Recheck \/ FlushEnd
  BY <1>2, <1>9 DEF WakeInv, CfmEnd, ResendEnd, Enable, Recheck, FlushEnd, firmware, irqs
<1>10. CASE CfmFree \/ CfmHold \/ CfmDrop \/ CfmNext
  BY <1>10 DEF WakeInv, CfmFree, CfmHold, CfmDrop, CfmNext
<1>11. CASE Resend
  <2>1. /\ hodler # <<>> /\ ~Full /\ Push(Head(hodler)) /\ bh = "resend" /\ bh' = bh
        /\ status' = [status EXCEPT ![Head(hodler)] = "none"]
        /\ UNCHANGED <<raw, st, fwIrq>>
    BY <1>11 DEF Resend, Push, irqs
  <2>2. Head(hodler) \in Packets
    BY <2>1, HeadTailProperties, EmptySeq DEF TypeOK
  <2>3. Oldest' = Head(hodler) \/ Oldest' = Oldest
    BY <1>1, <2>1, <2>2, PushStep
  <2>4. Oldest' # None /\ status'[Oldest'] # "none" => Oldest # None /\ status[Oldest] # "none"
    BY <1>3, <2>1, <2>2, <2>3 DEF TypeOK
  <2> QED BY <2>1, <2>4 DEF WakeInv
<1>12. CASE Flush
  <2>1. /\ queue # <<>> /\ ~Full /\ Push(Head(queue)) /\ bh = "flush" /\ bh' = bh
        /\ UNCHANGED <<raw, st, fwIrq, status, irqOn, event>>
    BY <1>12 DEF Flush, Push, irqs
  <2>2. Head(queue) \in Packets /\ Head(queue) = queue[1] /\ 1 \in 1 .. Len(queue)
    BY <2>1, HeadTailProperties, EmptySeq, LenProperties DEF TypeOK
  <2>3. Oldest' = Head(queue) \/ Oldest' = Oldest
    BY <1>1, <2>1, <2>2, PushStep
  <2>4. status[Head(queue)] = "none"
    BY <1>1, <2>2 DEF ListsInv, InQueue
  <2>5. Oldest' # None /\ status'[Oldest'] # "none" => Oldest # None /\ status[Oldest] # "none"
    BY <2>1, <2>3, <2>4
  <2> QED BY <2>1, <2>5 DEF WakeInv
<1>13. CASE UNCHANGED vars
  BY <1>2, <1>13 DEF WakeInv, vars, firmware, irqs
<1> QED BY <1>4, <1>5, <1>6, <1>7, <1>8, <1>9, <1>10, <1>11, <1>12, <1>13 DEF Next, BhStep

-------------------------------------------------------------------------------
(***************************************************************************)
(* The theorems                                                            *)
(***************************************************************************)

\* The ring is empty, and no packet is anywhere.
LEMMA InitIInv == Init => IInv
<1> SUFFICES ASSUME Init
             PROVE  IInv
  OBVIOUS
<1>1. TypeOK
  <2>1. Len(<<>>) = 0 /\ <<>> \in Seq(Packets)
    BY EmptySeq
  <2>2. 0 \in Indices /\ Len(<<>>) < HodlerLen
    BY <2>1 DEF Indices
  <2>3. /\ queue \in Seq(Packets) /\ hodler \in Seq(Packets) /\ Len(hodler) < HodlerLen
        /\ freeIdx \in Indices /\ usedIdx \in Indices
    BY <2>1, <2>2 DEF Init
  <2>4. /\ hostId \in [0 .. Cnt - 1 -> Packets \cup {None}]
        /\ status \in [Packets -> {"none", "done", "retry"}] /\ refs \in [Packets -> {0, 1}]
        /\ pc \in [Tasks -> {"idle", "queued"}]
    BY DEF Init
  <2> QED BY <2>3, <2>4 DEF Init, TypeOK, BhStates
<1>2. Gap(freeIdx, usedIdx) = 0
  BY GapFacts DEF Init, Indices
<1>3. Used = {} /\ Leaving = {}
  BY <1>2 DEF Used, Leaving, Init
<1>4. RingSound
  BY <1>2, <1>3 DEF RingSound, Init
<1>5. Len(queue) = 0 /\ Len(hodler) = 0
  BY EmptySeq DEF Init
<1>6. InQueue = {} /\ InHodler = {} /\ InRing = {}
  BY <1>3, <1>5 DEF InQueue, InHodler, InRing
<1>7. ListsInv
  BY <1>3, <1>5, <1>6 DEF ListsInv, Distinct, Init
<1>8. FwOwns /\ RoomInv
  BY <1>2, <1>5 DEF FwOwns, RoomInv, Init
<1>9. Oldest = None
  BY <1>1, <1>3, <1>4, UsedFacts
<1>10. WakeInv
  BY <1>9 DEF WakeInv, Init
<1> QED BY <1>1, <1>4, <1>7, <1>8, <1>10 DEF IInv

\* Every step keeps the inductive invariant.
LEMMA StepIInv == IInv /\ [Next]_vars => IInv'
BY TypeStep, PlaceStep, WakeStep DEF IInv, PlaceInv

\* The inductive invariant holds.
THEOREM Invariance == Spec => []IInv
BY InitIInv, StepIInv, PTL DEF Spec

\* A packet lwIP handed over is in the list, in one descriptor or in the
\* hodler until its reference is given back, and nowhere after that
\* (bl_tx.c:77-148, 160-267).
THEOREM EveryPacketInOnePlace == Spec => []OnePlace
<1>1. IInv => OnePlace
  <2> SUFFICES ASSUME IInv, NEW p \in Packets
               PROVE  IF refs[p] = 0 THEN Places(p) = {} ELSE \E x \in Places(p) : Places(p) = {x}
    BY DEF OnePlace
  <2>1. /\ Distinct(queue) /\ Distinct(hodler)
        /\ \A i, j \in Used \ Leaving : hostId[i] = hostId[j] => i = j
        /\ InQueue \cap InHodler = {} /\ InRing \cap (InQueue \cup InHodler) = {}
        /\ refs[p] = 1 <=> p \in InQueue \cup InRing \cup InHodler
        /\ refs[p] \in {0, 1}
    BY DEF IInv, ListsInv, TypeOK
  <2> DEFINE Q == {k \in 1 .. Len(queue) : queue[k] = p}
             R == {i \in Used \ Leaving : hostId[i] = p}
             H == {i \in 1 .. Len(hodler) : hodler[i] = p}
  <2>2. Places(p) = {<<"queue", k>> : k \in Q} \cup {<<"ring", i>> : i \in R}
                      \cup {<<"hodler", i>> : i \in H}
    BY DEF Places
  <2>3. p \in InQueue <=> Q # {}
    BY DEF InQueue
  <2>4. p \in InRing <=> R # {}
    BY DEF InRing
  <2>5. p \in InHodler <=> H # {}
    BY DEF InHodler
  <2>6. /\ \A i, j \in Q : i = j
        /\ \A i, j \in R : i = j
        /\ \A i, j \in H : i = j
    BY <2>1 DEF Distinct
  <2> HIDE DEF Q, R, H
  <2>7. CASE refs[p] = 0
    BY <2>1, <2>2, <2>3, <2>4, <2>5, <2>7
  <2>8. CASE p \in InQueue
    <3>1. PICK k \in Q : Q = {k}
      BY <2>3, <2>6, <2>8
    <3>2. R = {} /\ H = {}
      BY <2>1, <2>4, <2>5, <2>8
    <3>3. Places(p) = {<<"queue", k>>}
      BY <2>2, <3>1, <3>2
    <3> QED BY <2>1, <2>8, <3>3
  <2>9. CASE p \in InRing
    <3>1. PICK k \in R : R = {k}
      BY <2>4, <2>6, <2>9
    <3>2. Q = {} /\ H = {}
      BY <2>1, <2>3, <2>5, <2>9
    <3>3. Places(p) = {<<"ring", k>>}
      BY <2>2, <3>1, <3>2
    <3> QED BY <2>1, <2>9, <3>3
  <2>10. CASE p \in InHodler
    <3>1. PICK k \in H : H = {k}
      BY <2>5, <2>6, <2>10
    <3>2. R = {} /\ Q = {}
      BY <2>1, <2>3, <2>4, <2>10
    <3>3. Places(p) = {<<"hodler", k>>}
      BY <2>2, <3>1, <3>2
    <3> QED BY <2>1, <2>10, <3>3
  <2> QED BY <2>1, <2>7, <2>8, <2>9, <2>10
<1> QED BY <1>1, Invariance, PTL

\* The indices never pass each other, also when they wrap, and a descriptor
\* names a packet iff it is between them (ipc_host.c:215-238, 270-333).
THEOREM RingIsSound == Spec => []RingSound
<1>1. IInv => RingSound
  BY DEF IInv
<1> QED BY <1>1, Invariance, PTL

\* The driver keeps what the firmware is still sending (bl_tx.c:49-92).
THEOREM FirmwareOwns == Spec => []FwOwns
<1>1. IInv => FwOwns
  BY DEF IInv
<1> QED BY <1>1, Invariance, PTL

\* The firmware's task does not sleep over work (bl_irqs.c:73-104).
THEOREM NoSleepOverWork == Spec => []Quiet
<1>1. IInv => Quiet
  BY DEF IInv, RoomInv, WakeInv, Quiet
<1> QED BY <1>1, Invariance, PTL

\* What the tasks see of the transmit path is the service lwIP relies on
\* (bl_tx.c:77-148): packets go out in the order they came, and where the
\* hodler has room for a whole ring none is given back before it was sent.
THEOREM Refinement == Spec => ImplementsTxService
<1> DEFINE Sending == {p \in Packets : refs[p] = 1 /\ p \notin Range(queue) /\ status[p] # "done"}
           Sent == {p \in Packets : refs[p] = 1 /\ p \notin Range(queue) /\ status[p] = "done"}
<1>1. Init => Service!Init
  BY DEF Init, Service!Init
<1>2. IInv /\ [Next]_vars => [Service!Next]_<<queue, Sending, Sent>>
  <2> SUFFICES ASSUME IInv, [Next]_vars
               PROVE  \/ Service!Next
                      \/ queue' = queue /\ Sending' = Sending /\ Sent' = Sent
    OBVIOUS
  <2>1. /\ TypeOK /\ RingSound /\ ListsInv /\ FwOwns /\ RoomInv /\ PlaceInv
        /\ refs \in [Packets -> {0, 1}] /\ status \in [Packets -> {"none", "done", "retry"}]
        /\ queue \in Seq(Packets)
    BY DEF IInv, TypeOK, PlaceInv
  <2>2. Range(queue) = InQueue /\ Range(queue)' = InQueue'
    <3>1. DOMAIN queue = 1 .. Len(queue)
      BY <2>1, LenProperties
    <3>2. DOMAIN queue' = 1 .. Len(queue')
      <4>1. queue' \in Seq(Packets)
        BY <2>1, TypeStep DEF TypeOK
      <4> QED BY <4>1, LenProperties
    <3> QED BY <3>1, <3>2 DEF Range, InQueue
  <2>3. ASSUME UNCHANGED <<queue, status, refs>>
        PROVE  queue' = queue /\ Sending' = Sending /\ Sent' = Sent
    BY <2>3
  <2>4. ASSUME NEW t \in Tasks, NEW p \in Packets, Output(t, p)
        PROVE  Service!Next
    <3>1. /\ refs[p] = 0 /\ queue' = Append(queue, p)
          /\ refs' = [refs EXCEPT ![p] = @ + 1] /\ status' = [status EXCEPT ![p] = "none"]
      BY <2>4 DEF Output
    <3>2. p \notin InQueue
      BY <2>1, <3>1 DEF ListsInv
    <3>3. InQueue' = InQueue \cup {p}
      <4>1. Distinct(queue) /\ p \notin Elements(queue)
        BY <2>1, <3>2, ListElements DEF ListsInv
      <4> QED BY <2>1, <3>1, <4>1, AppendFacts, ListElements
    <3>4. \A q \in Packets \ {p} : refs'[q] = refs[q] /\ status'[q] = status[q]
      BY <2>1, <3>1
    <3>5. Sending' = Sending /\ Sent' = Sent
      BY <2>2, <3>1, <3>3, <3>4
    <3>6. p \notin Range(queue) \cup Sending \cup Sent
      BY <2>2, <3>1, <3>2
    <3>7. Service!Output(p)
      BY <3>1, <3>5, <3>6 DEF Service!Output, Service!Range, Range
    <3> QED BY <3>7 DEF Service!Next
  <2>5. ASSUME NEW p \in Packets, NEW s \in {"done", "retry"}, FwStatus(p, s)
        PROVE  \/ Service!Next
               \/ queue' = queue /\ Sending' = Sending /\ Sent' = Sent
    <3>1. /\ p \in fw /\ queue' = queue /\ refs' = refs /\ status' = [status EXCEPT ![p] = s]
      BY <2>5 DEF FwStatus
    <3>2. refs[p] = 1 /\ status[p] = "none" /\ p \notin InQueue
      BY <2>1, <3>1 DEF FwOwns, ListsInv, InRing
    <3>3. /\ \A q \in Packets \ {p} : status'[q] = status[q]
          /\ status'[p] = s
      BY <2>1, <3>1
    <3>4. p \in Sending
      BY <2>2, <3>2
    <3>5. CASE s = "done"
      <4>1. Sending' = Sending \ {p} /\ Sent' = Sent \cup {p}
        BY <2>2, <3>1, <3>2, <3>3, <3>5
      <4>2. Service!Succeed(p)
        BY <3>1, <3>4, <4>1 DEF Service!Succeed
      <4> QED BY <4>2 DEF Service!Next
    <3>6. CASE s = "retry"
      BY <3>1, <3>2, <3>3, <3>6
    <3> QED BY <3>5, <3>6
  <2>6. CASE CfmFree \/ CfmDrop
    <3>1. /\ queue' = queue /\ status' = status /\ refs' = [refs EXCEPT ![Oldest] = @ - 1]
          /\ bh = "cfm" /\ bh' = "next" /\ Oldest # None /\ UNCHANGED ring
      BY <2>6 DEF CfmFree, CfmDrop
    <3>2. Oldest \in Packets /\ Oldest \in InRing /\ Gap(freeIdx, usedIdx) > 0
      BY <2>1, <3>1, LeaveStep
    <3>3. refs[Oldest] = 1 /\ Oldest \notin InQueue
      BY <2>1, <3>2 DEF ListsInv
    <3>4. \A q \in Packets : refs'[q] = IF q = Oldest THEN 0 ELSE refs[q]
      BY <2>1, <3>1, <3>3
    <3>5. Sending' = Sending \ {Oldest} /\ Sent' = Sent \ {Oldest}
      BY <3>1, <3>4
    <3>6. Oldest \in Sent \/ (HodlerLen <= Cnt /\ Oldest \in Sending)
      <4>1. CASE CfmFree
        BY <2>2, <3>2, <3>3, <4>1 DEF CfmFree
      <4>2. CASE CfmDrop
        <5>1. Len(hodler) = HodlerLen - 1 /\ status[Oldest] = "retry"
          BY <4>2 DEF CfmDrop, HodlerFull
        <5>2. Len(hodler) + Gap(freeIdx, usedIdx) <= Cnt /\ Gap(freeIdx, usedIdx) \in 0 .. Cnt
          BY <2>1, <3>1, UsedFacts DEF RoomInv
        <5>3. HodlerLen <= Cnt
          BY <3>2, <5>1, <5>2
        <5>4. Oldest \in Sending
          BY <2>2, <3>2, <3>3, <5>1
        <5> QED BY <5>3, <5>4
      <4> QED BY <2>6, <4>1, <4>2
    <3>7. PICK p \in Packets : p = Oldest
      BY <3>2
    <3>8. Service!GiveBack(p)
      BY <3>1, <3>5, <3>6, <3>7 DEF Service!GiveBack
    <3>9. \E q \in Packets : Service!GiveBack(q)
      BY <3>8
    <3> QED BY <3>9 DEF Service!Next
  <2>7. CASE Resend
    <3>1. /\ queue' = queue /\ refs' = refs /\ hodler # <<>>
          /\ status' = [status EXCEPT ![Head(hodler)] = "none"]
      BY <2>7 DEF Resend
    <3>2. Head(hodler) \in Packets /\ Head(hodler) \in InHodler
      BY <2>1, <3>1, HeadTailProperties, EmptySeq, LenProperties DEF InHodler, TypeOK
    <3>3. status[Head(hodler)] = "retry"
      BY <2>1, <3>2 DEF ListsInv
    <3>4. \A q \in Packets : status'[q] = "done" <=> status[q] = "done"
      BY <2>1, <3>1, <3>2, <3>3
    <3> QED BY <3>1, <3>4
  <2>8. CASE Flush
    <3> DEFINE p == Head(queue)
    <3>1. /\ queue # <<>> /\ queue' = Tail(queue) /\ status' = status /\ refs' = refs
      BY <2>8 DEF Flush
    <3>2. p \in Packets /\ p \in InQueue /\ InQueue' = InQueue \ {p}
      <4>1. Distinct(queue)
        BY <2>1 DEF ListsInv
      <4> QED BY <2>1, <3>1, <4>1, TailFacts, ListElements
    <3>3. refs[p] = 1 /\ status[p] = "none"
      BY <2>1, <3>2 DEF ListsInv
    <3> HIDE DEF p
    <3>4. Sending' = Sending \cup {p} /\ Sent' = Sent
      BY <2>2, <3>1, <3>2, <3>3
    <3> QED BY <3>1, <3>4 DEF Service!Next, Service!Send, p
  <2>9. CASE \/ \E t \in Tasks : OutputIrq(t)
             \/ FwRaise \/ FwOther \/ Isr \/ Wake \/ Status \/ Reload \/ CfmEnd \/ CfmHold
             \/ CfmNext \/ ResendEnd \/ Enable \/ Recheck \/ FlushEnd \/ UNCHANGED vars
    BY <2>3, <2>9 DEF OutputIrq, FwRaise, FwOther, Isr, Wake, Status, Reload, CfmEnd, CfmHold,
       CfmNext, ResendEnd, Enable, Recheck, FlushEnd, vars
  <2> QED BY <2>4, <2>5, <2>6, <2>7, <2>8, <2>9 DEF Next, BhStep
<1> QED BY <1>1, <1>2, Invariance, PTL DEF Spec, Service!Spec, ImplementsTxService
===============================================================================
