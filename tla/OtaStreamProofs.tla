---------------------------- MODULE OtaStreamProofs ----------------------------
(***************************************************************************)
(* For a block of any size, images of any length and streams cut in any    *)
(* way: the image is written where it belongs and committed if and only if *)
(* it is complete and correct.                                             *)
(***************************************************************************)
EXTENDS OtaStream, TLAPS

\* The stream is at its beginning.
LEMMA InvInit == Init => IInv
<1> SUFFICES ASSUME Init PROVE IInv
  OBVIOUS
<1>1. Block \in Nat /\ Block > 0 /\ MaxSent \in Nat
  BY BlockAssumption
<1>2. server \in Servers /\ server.len \in Nat /\ server.sent \in 0 .. MaxSent
  BY ServersAssumption DEF Init
<1>3. TypeOK
  <2>1. /\ recv_buffer \in [0 .. Block - 1 -> Int]
        /\ flash \in [Offsets -> Int] /\ hashed \in [Offsets -> Int]
    BY DEF Init, Unread
  <2>2. /\ pos \in 0 .. Block + MaxSent /\ total \in 0 .. Block + MaxSent
        /\ buffer_offset \in 0 .. Block - 1 /\ flash_offset \in 0 .. MaxSent
    BY <1>1 DEF Init
  <2>3. found \in BOOLEAN /\ bin_size \in Nat /\ phase \in {"read", "commit", "stop"}
    BY DEF Init
  <2> QED BY <1>2, <2>1, <2>2, <2>3 DEF TypeOK
<1>4. InPlace /\ BufferInv /\ CountInv
  BY <1>1, <1>2 DEF Init, InPlace, BufferInv, CountInv, Offsets, Unread
<1>5. CommitExact /\ ExactInstalled
  BY <1>1, <1>2 DEF Init, CommitExact, ExactInstalled
<1> QED BY <1>3, <1>4, <1>5 DEF IInv

\* The numbers of a state.
LEMMA Numbers ==
  ASSUME IInv
  PROVE  /\ Block \in Nat /\ Block > 0 /\ MaxSent \in Nat
         /\ server \in Servers /\ server.len \in Nat /\ server.sent \in 0 .. MaxSent
         /\ pos \in Nat /\ total \in Nat /\ buffer_offset \in 0 .. Block - 1
         /\ flash_offset \in Nat /\ bin_size \in Nat
BY BlockAssumption, ServersAssumption DEF IInv, TypeOK

\* What a read leaves in the buffer.
LEMMA ReadFacts ==
  ASSUME IInv, NEW n \in 1 .. Block, Read(n)
  PROVE  /\ pos' = pos + n /\ pos + n <= Block + server.sent /\ pos + n <= Block + MaxSent
         /\ server' = server
         /\ buffer_offset + n \in 1 .. Block
         /\ recv_buffer' \in [0 .. Block - 1 -> Int]
         /\ \A i \in 0 .. buffer_offset + n - 1 : recv_buffer'[i] = pos - buffer_offset + i
<1>1. /\ Block \in Nat /\ pos \in Nat /\ buffer_offset \in Nat /\ server.sent \in 0 .. MaxSent
      /\ MaxSent \in Nat
  BY Numbers
<1>2. /\ pos' = pos + n /\ pos + n <= Block + server.sent /\ n <= Block - buffer_offset
      /\ server' = server
  BY DEF Read
<1>3. recv_buffer' = [i \in 0 .. Block - 1 |->
         IF buffer_offset <= i /\ i < buffer_offset + n THEN pos + (i - buffer_offset)
                                                       ELSE recv_buffer[i]]
  BY DEF Read
<1>4. \A i \in 0 .. buffer_offset - 1 : recv_buffer[i] = pos - buffer_offset + i
  BY DEF IInv, BufferInv, Read
<1>5. recv_buffer' \in [0 .. Block - 1 -> Int]
  <2>1. recv_buffer \in [0 .. Block - 1 -> Int]
    BY DEF IInv, TypeOK
  <2> QED BY <1>1, <1>3, <2>1
<1>6. ASSUME NEW i \in 0 .. buffer_offset + n - 1
      PROVE  recv_buffer'[i] = pos - buffer_offset + i
  <2>1. i \in 0 .. Block - 1
    BY <1>1, <1>2
  <2>2. CASE i < buffer_offset
    BY <1>1, <1>3, <1>4, <2>1, <2>2
  <2>3. CASE ~(i < buffer_offset)
    BY <1>1, <1>3, <2>1, <2>3
  <2> QED BY <2>2, <2>3
<1>7. pos + n <= Block + MaxSent /\ buffer_offset + n \in 1 .. Block
  BY <1>1, <1>2
<1> QED BY <1>2, <1>5, <1>6, <1>7

\* The header is not complete yet.
LEMMA HeaderInv ==
  ASSUME IInv, NEW n \in 1 .. Block, ReadHeader(n)
  PROVE  IInv'
<1>1. /\ Block \in Nat /\ pos \in Nat /\ total \in Nat /\ buffer_offset \in 0 .. Block - 1
      /\ flash_offset \in Nat /\ server \in Servers /\ server.len \in Nat /\ MaxSent \in Nat
  BY Numbers
<1>2. Read(n)
  BY DEF ReadHeader
<1>3. /\ pos' = pos + n /\ pos + n <= Block + server.sent /\ pos + n <= Block + MaxSent
      /\ server' = server /\ recv_buffer' \in [0 .. Block - 1 -> Int]
      /\ \A i \in 0 .. buffer_offset + n - 1 : recv_buffer'[i] = pos - buffer_offset + i
  BY <1>2, ReadFacts
<1>4. /\ ~found /\ ~found' /\ phase = "read" /\ phase' = "read" /\ bin_size' = bin_size
      /\ flash' = flash /\ flash_offset' = flash_offset /\ hashed' = hashed /\ found' = found
      /\ buffer_offset + n < Block /\ buffer_offset' = buffer_offset + n /\ total' = total + n
  BY DEF ReadHeader, Read
<1>5. pos = total /\ flash_offset = 0 /\ pos = buffer_offset /\ hashed = flash
  BY <1>4 DEF IInv, CountInv
<1>6. TypeOK'
  <2>1. buffer_offset' \in 0 .. Block - 1 /\ pos' \in 0 .. Block + MaxSent
        /\ total' \in 0 .. Block + MaxSent
    BY <1>1, <1>3, <1>4, <1>5
  <2> QED BY <1>1, <1>3, <1>4, <2>1 DEF IInv, TypeOK
<1>7. InPlace'
  BY <1>4 DEF IInv, InPlace
<1>8. BufferInv'
  BY <1>1, <1>3, <1>4, <1>5 DEF BufferInv
<1>9. CountInv'
  BY <1>1, <1>3, <1>4, <1>5 DEF CountInv
<1>10. CommitExact' /\ ExactInstalled'
  BY <1>1, <1>3, <1>4, <1>5 DEF CommitExact, ExactInstalled
<1> QED BY <1>6, <1>7, <1>8, <1>9, <1>10 DEF IInv

\* The header is complete.
LEMMA DoneInv ==
  ASSUME IInv, NEW n \in 1 .. Block, HeaderDone(n)
  PROVE  IInv'
<1>1. /\ Block \in Nat /\ Block > 0 /\ pos \in Nat /\ total \in Nat
      /\ buffer_offset \in 0 .. Block - 1
      /\ flash_offset \in Nat /\ server \in Servers /\ server.len \in Nat /\ MaxSent \in Nat
  BY Numbers
<1>2. Read(n)
  BY DEF HeaderDone
<1>3. /\ pos' = pos + n /\ pos + n <= Block + server.sent /\ pos + n <= Block + MaxSent
      /\ server' = server /\ recv_buffer' \in [0 .. Block - 1 -> Int]
  BY <1>2, ReadFacts
<1>4. /\ ~found /\ found' = TRUE /\ phase = "read" /\ phase' = "read" /\ bin_size' = server.len
      /\ flash' = flash /\ flash_offset' = flash_offset /\ hashed' = hashed
      /\ buffer_offset + n = Block /\ buffer_offset' = 0 /\ total' = total + n - Block
  BY DEF HeaderDone, Read
<1>5. pos = total /\ flash_offset = 0 /\ pos = buffer_offset
  BY <1>4 DEF IInv, CountInv
<1>6. pos' = Block /\ total' = 0
  BY <1>1, <1>3, <1>4, <1>5
<1>7. TypeOK'
  <2>1. /\ buffer_offset' \in 0 .. Block - 1 /\ pos' \in 0 .. Block + MaxSent
        /\ total' \in 0 .. Block + MaxSent
    BY <1>1, <1>4, <1>6
  <2>2. found' \in BOOLEAN /\ bin_size' \in Nat /\ phase' \in {"read", "commit", "stop"}
    BY <1>1, <1>4
  <2> QED BY <1>1, <1>3, <1>4, <2>1, <2>2 DEF IInv, TypeOK
<1>8. InPlace'
  BY <1>1, <1>4, <1>5, <1>6 DEF IInv, InPlace
<1>9. BufferInv'
  BY <1>1, <1>4, <1>5, <1>6 DEF BufferInv
<1>10. CountInv'
  <2>1. hashed = flash
    BY DEF IInv, CountInv
  <2> QED BY <1>1, <1>3, <1>4, <1>6, <2>1 DEF CountInv
<1>11. CommitExact'
  BY <1>4 DEF CommitExact
<1>12. ExactInstalled'
  <2>1. server'.len \in Nat
    BY <1>1, <1>3
  <2>2. ~(server'.len > 0 /\ pos' = Block + server'.len)
    BY <1>1, <1>6, <2>1
  <2> QED BY <2>2 DEF ExactInstalled
<1> QED BY <1>7, <1>8, <1>9, <1>10, <1>11, <1>12 DEF IInv

\* A piece of the image that neither fills the buffer nor ends the image.
LEMMA PartInv ==
  ASSUME IInv, NEW n \in 1 .. Block, ReadPart(n)
  PROVE  IInv'
<1>1. /\ Block \in Nat /\ Block > 0 /\ pos \in Nat /\ total \in Nat
      /\ buffer_offset \in 0 .. Block - 1
      /\ flash_offset \in Nat /\ server \in Servers /\ server.len \in Nat /\ MaxSent \in Nat
  BY Numbers
<1>2. Read(n)
  BY DEF ReadPart
<1>3. /\ pos' = pos + n /\ pos + n <= Block + server.sent /\ pos + n <= Block + MaxSent
      /\ server' = server /\ recv_buffer' \in [0 .. Block - 1 -> Int]
      /\ \A i \in 0 .. buffer_offset + n - 1 : recv_buffer'[i] = pos - buffer_offset + i
  BY <1>2, ReadFacts
<1>4. /\ found /\ found' = found /\ phase = "read" /\ phase' = "read" /\ bin_size' = bin_size
      /\ flash' = flash /\ flash_offset' = flash_offset /\ hashed' = hashed
      /\ total + n # bin_size
      /\ buffer_offset + n < Block /\ buffer_offset' = buffer_offset + n /\ total' = total + n
  BY DEF ReadPart, Read
<1>5. pos = Block + total /\ bin_size = server.len /\ hashed = flash
  BY <1>4 DEF IInv, CountInv
<1>6. flash_offset + buffer_offset = pos - Block
  BY <1>4 DEF IInv, InPlace
<1>7. TypeOK'
  <2>1. /\ buffer_offset' \in 0 .. Block - 1 /\ pos' \in 0 .. Block + MaxSent
        /\ total' \in 0 .. Block + MaxSent
    BY <1>1, <1>3, <1>4, <1>5
  <2> QED BY <1>1, <1>3, <1>4, <2>1 DEF IInv, TypeOK
<1>8. InPlace'
  BY <1>1, <1>3, <1>4, <1>6 DEF IInv, InPlace
<1>9. BufferInv'
  BY <1>1, <1>3, <1>4, <1>6 DEF BufferInv
<1>10. CountInv'
  BY <1>1, <1>3, <1>4, <1>5 DEF CountInv
<1>11. CommitExact'
  BY <1>4 DEF CommitExact
<1>12. ExactInstalled'
  <2>1. /\ server'.len = bin_size /\ server'.len \in Nat /\ pos' = Block + total + n
        /\ total + n # bin_size
    BY <1>1, <1>3, <1>4, <1>5
  <2>2. Block \in Nat /\ total \in Nat /\ n \in Nat
    BY <1>1
  <2>3. pos' # Block + server'.len
    BY <2>1, <2>2
  <2> QED BY <2>3 DEF ExactInstalled
<1> QED BY <1>7, <1>8, <1>9, <1>10, <1>11, <1>12 DEF IInv

\* What is written is the next piece of the body.
LEMMA WriteFacts ==
  ASSUME IInv, NEW n \in 1 .. Block, found, Read(n), Write(buffer_offset + n)
  PROVE  /\ flash_offset' = pos + n - Block /\ buffer_offset' = 0 /\ flash_offset' \in 0 .. MaxSent
         /\ flash' \in [Offsets -> Int] /\ hashed' = flash'
         /\ \A i \in Offsets : flash'[i] = IF i < flash_offset' THEN Block + i ELSE Unread
<1>1. /\ Block \in Nat /\ pos \in Nat /\ buffer_offset \in 0 .. Block - 1
      /\ flash_offset \in Nat /\ MaxSent \in Nat
  BY Numbers
<1>2. /\ pos + n <= Block + MaxSent /\ buffer_offset + n \in 1 .. Block
      /\ \A i \in 0 .. buffer_offset + n - 1 : recv_buffer'[i] = pos - buffer_offset + i
  BY ReadFacts
<1>3. flash_offset + buffer_offset = pos - Block /\ hashed = flash
  BY DEF IInv, InPlace, CountInv, Read
<1> DEFINE l == buffer_offset + n
<1> HIDE DEF l
<1>4. /\ flash' = [i \in Offsets |->
           IF flash_offset <= i /\ i < flash_offset + l
             THEN recv_buffer'[i - flash_offset] ELSE flash[i]]
      /\ hashed' = flash' /\ flash_offset' = flash_offset + l /\ buffer_offset' = 0
  BY <1>3 DEF Write, l
<1>5. flash_offset' = pos + n - Block /\ flash_offset' \in 0 .. MaxSent
  BY <1>1, <1>2, <1>3, <1>4 DEF l
<1>6. ASSUME NEW i \in Offsets
      PROVE  flash'[i] = IF i < flash_offset' THEN Block + i ELSE Unread
  <2>1. i \in Nat /\ flash[i] = IF i < flash_offset THEN Block + i ELSE Unread
    BY DEF IInv, InPlace, Offsets
  <2>2. CASE flash_offset <= i /\ i < flash_offset + l
    <3>1. i - flash_offset \in 0 .. l - 1
      BY <1>1, <1>2, <2>1, <2>2 DEF l
    <3>2. recv_buffer'[i - flash_offset] = pos - buffer_offset + (i - flash_offset)
      <4>1. \A j \in 0 .. l - 1 : recv_buffer'[j] = pos - buffer_offset + j
        BY <1>1, <1>2 DEF l
      <4> QED BY <3>1, <4>1
    <3>3. flash'[i] = recv_buffer'[i - flash_offset]
      BY <1>4, <2>2
    <3>4. pos - buffer_offset + (i - flash_offset) = Block + i
      BY <1>1, <1>3, <2>1
    <3> QED BY <1>4, <2>2, <3>2, <3>3, <3>4
  <2>3. CASE ~(flash_offset <= i /\ i < flash_offset + l)
    <3>1. flash'[i] = flash[i]
      BY <1>4, <2>3
    <3>2. i < flash_offset <=> i < flash_offset'
      BY <1>1, <1>2, <1>4, <2>1, <2>3 DEF l
    <3> QED BY <2>1, <3>1, <3>2
  <2> QED BY <2>2, <2>3
<1>7. flash' \in [Offsets -> Int]
  <2>1. \A i \in Offsets : flash'[i] \in Int
    BY <1>1, <1>6 DEF Offsets, Unread
  <2> QED BY <1>4, <2>1
<1> QED BY <1>4, <1>5, <1>6, <1>7

\* A block is written.
LEMMA BlockInv ==
  ASSUME IInv, NEW n \in 1 .. Block, WriteBlock(n)
  PROVE  IInv'
<1>1. /\ Block \in Nat /\ Block > 0 /\ pos \in Nat /\ total \in Nat
      /\ buffer_offset \in 0 .. Block - 1 /\ bin_size \in Nat
      /\ server \in Servers /\ server.len \in Nat /\ MaxSent \in Nat
  BY Numbers
<1>2. /\ Read(n) /\ found /\ Write(buffer_offset + n)
  BY DEF WriteBlock
<1>3. /\ phase = "read" /\ phase' = "read" /\ found' = found /\ bin_size' = bin_size
      /\ total' = total + n /\ total + n # bin_size
  BY DEF WriteBlock, Read
<1>4. /\ pos' = pos + n /\ pos + n <= Block + server.sent /\ pos + n <= Block + MaxSent
      /\ server' = server /\ recv_buffer' \in [0 .. Block - 1 -> Int]
  BY <1>2, ReadFacts
<1>5. /\ flash_offset' = pos + n - Block /\ buffer_offset' = 0 /\ flash_offset' \in 0 .. MaxSent
      /\ flash' \in [Offsets -> Int] /\ hashed' = flash'
      /\ \A i \in Offsets : flash'[i] = IF i < flash_offset' THEN Block + i ELSE Unread
  BY <1>2, WriteFacts
<1>6. pos = Block + total /\ bin_size = server.len
  BY <1>2 DEF IInv, CountInv
<1>7. TypeOK'
  <2>1. /\ buffer_offset' \in 0 .. Block - 1 /\ pos' \in 0 .. Block + MaxSent
        /\ total' \in 0 .. Block + MaxSent
    BY <1>1, <1>3, <1>4, <1>5, <1>6
  <2> QED BY <1>1, <1>3, <1>4, <1>5, <2>1 DEF IInv, TypeOK
<1>8. InPlace'
  BY <1>1, <1>3, <1>4, <1>5 DEF InPlace
<1>9. BufferInv'
  BY <1>1, <1>4, <1>5 DEF BufferInv
<1>10. CountInv'
  BY <1>1, <1>2, <1>3, <1>4, <1>5, <1>6 DEF CountInv
<1>11. CommitExact'
  BY <1>3 DEF CommitExact
<1>12. ExactInstalled'
  <2>1. /\ server'.len = bin_size /\ server'.len \in Nat /\ pos' = Block + total + n
        /\ total + n # bin_size
    BY <1>1, <1>3, <1>4, <1>6
  <2>2. Block \in Nat /\ total \in Nat /\ n \in Nat
    BY <1>1
  <2>3. pos' # Block + server'.len
    BY <2>1, <2>2
  <2> QED BY <2>3 DEF ExactInstalled
<1> QED BY <1>7, <1>8, <1>9, <1>10, <1>11, <1>12 DEF IInv

\* The end of the image is written and decided on.
LEMMA LastInv ==
  ASSUME IInv, NEW n \in 1 .. Block, WriteLast(n)
  PROVE  IInv'
<1>1. /\ Block \in Nat /\ Block > 0 /\ pos \in Nat /\ total \in Nat
      /\ buffer_offset \in 0 .. Block - 1 /\ bin_size \in Nat
      /\ server \in Servers /\ server.len \in Nat /\ MaxSent \in Nat
  BY Numbers
<1>2. Read(n) /\ found /\ Write(buffer_offset + n)
  BY DEF WriteLast
<1>3. /\ found' = found /\ bin_size' = bin_size /\ total' = total + n /\ total + n = bin_size
      /\ phase' = IF ShaRight THEN "commit" ELSE "stop"
  BY DEF WriteLast, Read
<1>4. /\ pos' = pos + n /\ pos + n <= Block + server.sent /\ pos + n <= Block + MaxSent
      /\ server' = server /\ recv_buffer' \in [0 .. Block - 1 -> Int]
  BY <1>2, ReadFacts
<1>5. /\ flash_offset' = pos + n - Block /\ buffer_offset' = 0 /\ flash_offset' \in 0 .. MaxSent
      /\ flash' \in [Offsets -> Int] /\ hashed' = flash'
      /\ \A i \in Offsets : flash'[i] = IF i < flash_offset' THEN Block + i ELSE Unread
  BY <1>2, WriteFacts
<1>6. pos = Block + total /\ bin_size = server.len
  BY <1>2 DEF IInv, CountInv
<1>7. flash_offset' = server.len
  BY <1>1, <1>3, <1>5, <1>6
<1>8. phase' = IF server.good THEN "commit" ELSE "stop"
  <2>1. \A i \in Offsets : i < server.len => hashed'[i] = Block + i
    BY <1>5, <1>7
  <2> QED BY <1>3, <2>1 DEF ShaRight
<1>9. TypeOK'
  <2>1. /\ buffer_offset' \in 0 .. Block - 1 /\ pos' \in 0 .. Block + MaxSent
        /\ total' \in 0 .. Block + MaxSent /\ phase' \in {"read", "commit", "stop"}
    BY <1>1, <1>3, <1>4, <1>5, <1>6
  <2> QED BY <1>1, <1>3, <1>4, <1>5, <2>1 DEF IInv, TypeOK
<1>10. InPlace'
  BY <1>5, <1>8 DEF InPlace
<1>11. BufferInv'
  BY <1>1, <1>4, <1>5 DEF BufferInv
<1>12. CountInv'
  BY <1>1, <1>2, <1>3, <1>4, <1>5, <1>6, <1>8 DEF CountInv
<1>13. CommitExact'
  BY <1>4, <1>5, <1>7, <1>8 DEF CommitExact
<1>14. ExactInstalled'
  BY <1>4, <1>8 DEF ExactInstalled
<1> QED BY <1>9, <1>10, <1>11, <1>12, <1>13, <1>14 DEF IInv

\* Every step keeps the invariant.
LEMMA InvNext == IInv /\ [Next]_vars => IInv'
<1> SUFFICES ASSUME IInv, [Next]_vars PROVE IInv'
  OBVIOUS
<1>1. ASSUME NEW n \in 1 .. Block,
             ReadHeader(n) \/ HeaderDone(n) \/ ReadPart(n) \/ WriteBlock(n) \/ WriteLast(n)
      PROVE  IInv'
  BY <1>1, HeaderInv, DoneInv, PartInv, BlockInv, LastInv
<1>2. CASE Stop
  <2>1. ExactInstalled'
    <3> SUFFICES ASSUME server.good, server.sent = server.len, server.len > 0,
                        pos = Block + server.len
                 PROVE  FALSE
      BY <1>2 DEF Stop, ExactInstalled
    <3> QED BY <1>2 DEF Stop, IInv, ExactInstalled
  <2> QED BY <1>2, <2>1 DEF Stop, IInv, TypeOK, InPlace, BufferInv, CountInv, CommitExact
<1>3. CASE UNCHANGED vars
  BY <1>3 DEF vars, IInv, TypeOK, InPlace, BufferInv, CountInv, CommitExact, ExactInstalled
<1> QED BY <1>1, <1>2, <1>3 DEF Next

\* The inductive invariant.
THEOREM Invariance == Spec => []IInv
BY InvInit, InvNext, PTL DEF Spec

\* The bytes of the image are where they belong, however the stream is cut.
THEOREM WrittenInPlace == Spec => []InPlace
<1>1. IInv => InPlace
  BY DEF IInv
<1> QED BY <1>1, Invariance, PTL

\* Only a whole and correct image is committed.
THEOREM OnlyWholeCommitted == Spec => []CommitExact
<1>1. IInv => CommitExact
  BY DEF IInv
<1> QED BY <1>1, Invariance, PTL

\* A whole and correct image is committed with its last byte.
THEOREM WholeIsCommitted == Spec => []ExactInstalled
<1>1. IInv => ExactInstalled
  BY DEF IInv
<1> QED BY <1>1, Invariance, PTL
===============================================================================
