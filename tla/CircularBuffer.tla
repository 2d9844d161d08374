---------------------------- MODULE CircularBuffer ----------------------------
(***************************************************************************)
(* connector::tcp::CircularBuffer (connector/tcp/client/circularbuffer.hpp)*)
(* in which a TcpClient keeps the bytes to be sent and the unfinished      *)
(* message it received.  Sender (sender.hpp) passes its calls on to one.   *)
(*                                                                         *)
(* The two indices are equal when the buffer is empty and also when it is  *)
(* full; the reader index may rest one past the end, the writer index never*)
(* does.  The content is handed out as one piece of memory: m_readBuffer   *)
(* holds a copy, made again only when m_newDataFlag says that it is stale. *)
(*                                                                         *)
(* A call that the code refuses (writeData() without room) or that does    *)
(* nothing (shiftBuffer(0)) is no step.                                    *)
(***************************************************************************)
EXTENDS Integers, Sequences

CONSTANTS
  Bytes,     \* uint8_t
  Zero,      \* what memset() and fill() put
  Capacity   \* _Capacity

ASSUME CapacityAssumption == Capacity \in Nat \ {0} /\ Zero \in Bytes

Cells == 0 .. Capacity - 1

\* what a call of writeData() may be given: size < 1 and more than fits is refused
Writes == UNION {[1 .. k -> Bytes] : k \in 1 .. Capacity}

VARIABLES
  m_buffer,
  readBuffer,   \* m_readBuffer
  m_freeSpace, m_contentSize,
  m_writerIndex, m_readerIndex,
  m_emptyFlag, m_newDataFlag

sizes      == <<m_freeSpace, m_contentSize>>
bufferVars == <<m_buffer, readBuffer, sizes, m_writerIndex, m_readerIndex, m_emptyFlag,
                m_newDataFlag>>

Zeros == [i \in Cells |-> Zero]

CircularInit ==
  /\ m_buffer = Zeros /\ readBuffer = Zeros
  /\ m_freeSpace = Capacity /\ m_contentSize = 0
  /\ m_writerIndex = 0 /\ m_readerIndex = 0
  /\ m_emptyFlag = TRUE /\ m_newDataFlag = FALSE

Lesser(a, b) == IF a < b THEN a ELSE b

\* memset(&buffer[at], 0, size)
Erased(buffer, at, size) ==
  [i \in Cells |-> IF at <= i /\ i < at + size THEN Zero ELSE buffer[i]]

-----------------------------------------------------------------------------

clear ==
  /\ m_freeSpace' = Capacity /\ m_contentSize' = 0
  /\ m_readerIndex' = 0 /\ m_writerIndex' = 0
  /\ m_emptyFlag' = TRUE /\ m_newDataFlag' = TRUE
  /\ readBuffer' = Zeros /\ m_buffer' = Zeros

\* The bytes from the writer index to the reader index or to the end, and then
\* what is left from the beginning.
writeData(data) ==
  LET size           == Len(data)
      toWriteAtEnd   == IF m_readerIndex > m_writerIndex THEN size
                        ELSE Lesser(size, Capacity - m_writerIndex)
      toWriteAtBegin == size - toWriteAtEnd
  IN
  /\ 1 <= size /\ size <= m_freeSpace
  /\ m_buffer' = [i \in Cells |->
       IF i < toWriteAtBegin THEN data[toWriteAtEnd + i + 1]
       ELSE IF m_writerIndex <= i /\ i < m_writerIndex + toWriteAtEnd
            THEN data[i - m_writerIndex + 1] ELSE m_buffer[i]]
  /\ m_writerIndex' = IF toWriteAtBegin > 0 THEN toWriteAtBegin % Capacity
                      ELSE (m_writerIndex + toWriteAtEnd) % Capacity
  /\ m_contentSize' = m_contentSize + size
  /\ m_freeSpace' = m_freeSpace - size
  /\ m_emptyFlag' = FALSE /\ m_newDataFlag' = TRUE
  /\ UNCHANGED <<readBuffer, m_readerIndex>>

\* Mutant of copyData: the part at the beginning of the buffer is left out.
copyDataOnePiece ==
  [i \in Cells |-> IF ~m_emptyFlag /\ i < Lesser(m_contentSize, Capacity - m_readerIndex)
                   THEN m_buffer[m_readerIndex + i] ELSE readBuffer[i]]

\* What readBuffer is after the copy, in one piece or in two.
copyData ==
  LET toReadAtEnd == IF m_readerIndex < m_writerIndex THEN m_contentSize
                     ELSE Lesser(m_contentSize, Capacity - m_readerIndex)
  IN [i \in Cells |->
       IF m_emptyFlag \/ i >= m_contentSize THEN readBuffer[i]
       ELSE IF i < toReadAtEnd THEN m_buffer[m_readerIndex + i] ELSE m_buffer[i - toReadAtEnd]]

readData ==
  /\ m_newDataFlag
  /\ readBuffer' = copyData
  /\ m_newDataFlag' = FALSE
  /\ UNCHANGED <<m_buffer, sizes, m_writerIndex, m_readerIndex, m_emptyFlag>>

\* shiftBuffer() of a part: the reader index moves on by size, in one go or by way
\* of the end.  The slots that are erased with one go are the first ones, not the
\* ones that were read; none of them is in use.
shiftPart(size) ==
  LET atOnce       == m_readerIndex < m_writerIndex
      toReadAtEnd  == IF atOnce THEN size ELSE Lesser(size, Capacity - m_readerIndex)
      toReadAtBegin == size - toReadAtEnd
  IN
  /\ m_readerIndex' = IF toReadAtBegin > 0 THEN toReadAtBegin ELSE m_readerIndex + toReadAtEnd
  /\ m_buffer' = IF atOnce THEN Erased(m_buffer, 0, size)
                 ELSE Erased(Erased(m_buffer, m_readerIndex, toReadAtEnd), 0, toReadAtBegin)
  /\ m_contentSize' = m_contentSize - size
  /\ m_freeSpace' = m_freeSpace + size
  /\ m_newDataFlag' = TRUE
  /\ readBuffer' = Zeros
  /\ UNCHANGED <<m_writerIndex, m_emptyFlag>>

\* size is what send() took of the content, or what the receiver is done with.
\* The last test of the code, for a buffer that the shift left empty, never holds:
\* a shift of everything has returned before.
shiftBuffer(size) ==
  /\ size # 0 /\ ~m_emptyFlag
  /\ IF size = m_contentSize THEN clear ELSE shiftPart(size)

CircularNext ==
  \/ \E data \in Writes : writeData(data)
  \/ readData
  \/ \E size \in 1 .. m_contentSize : shiftBuffer(size)
  \/ clear

CircularSpec == CircularInit /\ [][CircularNext]_bufferVars

-----------------------------------------------------------------------------
(* Properties.                                                             *)

CircularTypeOK ==
  /\ m_buffer \in [Cells -> Bytes] /\ readBuffer \in [Cells -> Bytes]
  /\ m_freeSpace \in 0 .. Capacity /\ m_contentSize \in 0 .. Capacity
  /\ m_writerIndex \in Cells /\ m_readerIndex \in 0 .. Capacity
  /\ m_emptyFlag \in BOOLEAN /\ m_newDataFlag \in BOOLEAN

\* Slot of the byte number i of the content, counted from 0.
At(i) == IF m_readerIndex + i >= Capacity THEN m_readerIndex + i - Capacity ELSE m_readerIndex + i

Unsent == [i \in 1 .. m_contentSize |-> m_buffer[At(i - 1)]]

\* Full and empty are told apart although the indices are the same, the sizes and
\* the flag agree with the indices, and a copy that is taken for fresh is the
\* content in the order in which it was written.
CircularInv ==
  /\ CircularTypeOK
  /\ m_freeSpace + m_contentSize = Capacity
  /\ m_emptyFlag <=> (m_contentSize = 0)
  /\ m_emptyFlag => (m_readerIndex = 0 /\ m_writerIndex = 0)
  /\ m_writerIndex = At(m_contentSize) \/ (m_contentSize = Capacity /\ m_writerIndex = m_readerIndex % Capacity)
  /\ ~m_newDataFlag => \A i \in 0 .. m_contentSize - 1 : readBuffer[i] = m_buffer[At(i)]

Bytewise == INSTANCE ByteQueue WITH bytes <- Unsent

\* No byte is lost, repeated, reordered or overwritten, whether or not a write or
\* a read goes around the end: the buffer is a queue, what joins it is what was written,
\* and what readData() hands out, now or a while ago, is its content.
ImplementsByteQueue ==
  /\ Bytewise!ByteQueueSpec
  /\ [][m_contentSize' > m_contentSize =>
          \E data \in Writes : writeData(data) /\ Unsent' = Unsent \o data]_bufferVars
  /\ [](~m_newDataFlag => \A i \in 1 .. m_contentSize : readBuffer[i - 1] = Unsent[i])
=============================================================================
