------------------------------- MODULE OtaStream -------------------------------
(***************************************************************************)
(* How ota_tcp_cmd (bl_sys_ota_cli.c) cuts a TCP stream into the header,   *)
(* blocks it writes to flash, and the end of the image.  A byte is its     *)
(* position in the stream; the body follows the Block bytes of the header. *)
(***************************************************************************)
EXTENDS Integers

CONSTANTS Block,    \* OTA_PROGRAM_SIZE, and the size of the header
          MaxSent,  \* bound on the bytes of a body
          Servers   \* what servers send: the length in the header, the bytes
                    \* after it, and whether the first len of them have its SHA256

ASSUME BlockAssumption == Block \in Nat \ {0} /\ MaxSent \in Nat
ASSUME ServersAssumption ==
  Servers \subseteq [len : Nat, sent : 0 .. MaxSent, good : BOOLEAN]

Unread == -1
Offsets == 0 .. MaxSent - 1

VARIABLES server,
          pos,         \* bytes the stream has delivered
          total,
          recv_buffer, buffer_offset,
          found,       \* ota_header_found
          bin_size,
          flash, flash_offset,
          hashed,      \* the bytes that entered the SHA256, in this order
          phase        \* "read", "commit", "stop"

vars == <<server, pos, total, recv_buffer, buffer_offset, found, bin_size, flash,
          flash_offset, hashed, phase>>

Init ==
  /\ server \in Servers
  /\ pos = 0 /\ total = 0
  /\ recv_buffer = [i \in 0 .. Block - 1 |-> Unread] /\ buffer_offset = 0
  /\ found = FALSE
  /\ bin_size = 0
  /\ flash = [i \in Offsets |-> Unread] /\ flash_offset = 0
  /\ hashed = [i \in Offsets |-> Unread]
  /\ phase = "read"

\* read() delivers n bytes, at most as many as the buffer has room for.
Read(n) ==
  /\ phase = "read"
  /\ n <= Block - buffer_offset
  /\ pos + n <= Block + server.sent
  /\ pos' = pos + n
  /\ recv_buffer' = [i \in 0 .. Block - 1 |->
       IF buffer_offset <= i /\ i < buffer_offset + n THEN pos + (i - buffer_offset)
                                                     ELSE recv_buffer[i]]
  /\ UNCHANGED server

ReadHeader(n) ==
  /\ ~found /\ Read(n)
  /\ buffer_offset + n < Block
  /\ buffer_offset' = buffer_offset + n
  /\ total' = total + n
  /\ UNCHANGED <<found, bin_size, flash, flash_offset, hashed, phase>>

\* Mutant: the header stays in the total.
HeaderDoneKept(n) ==
  /\ ~found /\ Read(n)
  /\ buffer_offset + n = Block
  /\ buffer_offset' = 0
  /\ total' = total + n
  /\ found' = TRUE
  /\ bin_size' = server.len
  /\ UNCHANGED <<flash, flash_offset, hashed, phase>>

\* _check_ota_header accepts every header.
HeaderDone(n) ==
  /\ ~found /\ Read(n)
  /\ buffer_offset + n = Block
  /\ buffer_offset' = 0
  /\ total' = total + n - Block
  /\ found' = TRUE
  /\ bin_size' = server.len
  /\ UNCHANGED <<flash, flash_offset, hashed, phase>>

\* Neither the buffer is full nor the image at its end.
ReadPart(n) ==
  /\ found /\ Read(n)
  /\ total + n # bin_size /\ buffer_offset + n < Block
  /\ total' = total + n
  /\ buffer_offset' = buffer_offset + n
  /\ UNCHANGED <<found, bin_size, flash, flash_offset, hashed, phase>>

\* Mutant: the last write counts as a whole block.
WriteWhole(l) ==
  LET at(area, to) == [i \in Offsets |->
        IF to <= i /\ i < to + l THEN recv_buffer'[i - to] ELSE area[i]]
  IN
  /\ flash' = at(flash, flash_offset)
  /\ hashed' = at(hashed, flash_offset)
  /\ flash_offset' = flash_offset + Block
  /\ buffer_offset' = 0

\* bl_mtd_write and utils_sha256_update of the first l bytes of the buffer.
Write(l) ==
  LET at(area, to) == [i \in Offsets |->
        IF to <= i /\ i < to + l THEN recv_buffer'[i - to] ELSE area[i]]
  IN
  /\ flash' = at(flash, flash_offset)
  /\ hashed' = at(hashed, flash_offset)
  /\ flash_offset' = flash_offset + l
  /\ buffer_offset' = 0

\* A full block that does not end the image.
WriteBlock(n) ==
  /\ found /\ Read(n)
  /\ total + n # bin_size /\ buffer_offset + n = Block
  /\ total' = total + n
  /\ Write(Block)
  /\ UNCHANGED <<found, bin_size, phase>>

\* The SHA256 is the header's.
ShaRight == server.good /\ \A i \in Offsets : i < server.len => hashed'[i] = Block + i

\* The last bytes of the image: update the table and reboot if it is right.
WriteLast(n) ==
  /\ found /\ Read(n)
  /\ total + n = bin_size
  /\ total' = total + n
  /\ Write(buffer_offset + n)
  /\ phase' = IF ShaRight THEN "commit" ELSE "stop"
  /\ UNCHANGED <<found, bin_size>>

\* The connection fails, or the server has sent everything.
Stop ==
  /\ phase = "read"
  /\ phase' = "stop"
  /\ UNCHANGED <<server, pos, total, recv_buffer, buffer_offset, found, bin_size, flash,
                 flash_offset, hashed>>

Next ==
  \/ \E n \in 1 .. Block :
       ReadHeader(n) \/ HeaderDone(n) \/ ReadPart(n) \/ WriteBlock(n) \/ WriteLast(n)
  \/ Stop

Spec == Init /\ [][Next]_vars

-------------------------------------------------------------------------------
(***************************************************************************)
(* Properties                                                              *)
(***************************************************************************)

\* The type invariant: all that is written is inside what was sent.
TypeOK ==
  /\ server \in Servers
  /\ pos \in 0 .. Block + MaxSent /\ total \in 0 .. Block + MaxSent
  /\ recv_buffer \in [0 .. Block - 1 -> Int] /\ buffer_offset \in 0 .. Block - 1
  /\ found \in BOOLEAN /\ bin_size \in Nat
  /\ flash \in [Offsets -> Int] /\ hashed \in [Offsets -> Int]
  /\ flash_offset \in 0 .. MaxSent
  /\ phase \in {"read", "commit", "stop"}

\* Whatever the stream is cut into, the byte i of the image is at offset i of
\* the region, and nothing is lost between the two.
InPlace ==
  /\ \A i \in Offsets : flash[i] = IF i < flash_offset THEN Block + i ELSE Unread
  /\ found /\ phase = "read" => flash_offset + buffer_offset = pos - Block

\* An update is committed only with the whole image and nothing after it.
CommitExact ==
  phase = "commit" =>
    /\ server.good
    /\ flash_offset = server.len
    /\ \A i \in Offsets : flash[i] = IF i < server.len THEN Block + i ELSE Unread

\* An image that is sent completely and correctly is committed with its last
\* byte, however the stream is cut.
ExactInstalled ==
  server.good /\ server.sent = server.len /\ server.len > 0 /\ pos = Block + server.len
    => phase = "commit"

(***************************************************************************)
(* The inductive invariant (OtaStreamProofs)                               *)
(***************************************************************************)

\* What the buffer holds are the last bytes the stream delivered.
BufferInv ==
  /\ flash_offset + buffer_offset <= pos
  /\ phase = "read" =>
       \A i \in 0 .. buffer_offset - 1 : recv_buffer[i] = pos - buffer_offset + i

CountInv ==
  /\ pos <= Block + server.sent
  /\ hashed = flash
  /\ ~found => pos = total /\ flash_offset = 0
  /\ ~found /\ phase = "read" => pos = buffer_offset
  /\ ~found => phase # "commit"
  /\ found => pos = Block + total /\ bin_size = server.len
  /\ found /\ phase = "read" => total = 0 \/ total # bin_size

IInv == TypeOK /\ InPlace /\ BufferInv /\ CountInv /\ CommitExact /\ ExactInstalled
===============================================================================
