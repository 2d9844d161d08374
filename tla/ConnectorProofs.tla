-------------------------- MODULE ConnectorProofs --------------------------
(***************************************************************************)
(* Proofs about the TCP connector: first about CircularBuffer, for every   *)
(* capacity and every set of bytes, then about TcpNetwork, for every set of*)
(* clients, servers and processes, every number of sockets and every way in*)
(* which the system calls fail.                                            *)
(***************************************************************************)
EXTENDS CircularBuffer, TcpNetwork, ChainProofs, SequenceTheorems, FiniteSetTheorems

-----------------------------------------------------------------------------
(* The indices.                                                            *)

\* An index that is one past the end is the first one.
LEMMA OnceAround ==
  ASSUME NEW x \in 0 .. Capacity
  PROVE  x % Capacity = IF x = Capacity THEN 0 ELSE x
BY CapacityAssumption

\* The writer index follows from the others.
LEMMA WriterIndex ==
  ASSUME CircularInv
  PROVE  /\ m_readerIndex \in 0 .. Capacity /\ m_contentSize \in 0 .. Capacity
         /\ m_writerIndex \in 0 .. Capacity - 1 /\ m_freeSpace = Capacity - m_contentSize
         /\ m_writerIndex = IF m_readerIndex + m_contentSize < Capacity THEN m_readerIndex + m_contentSize
                            ELSE IF m_readerIndex + m_contentSize = Capacity + Capacity THEN 0
                            ELSE m_readerIndex + m_contentSize - Capacity
<1>1. /\ m_readerIndex \in 0 .. Capacity /\ m_contentSize \in 0 .. Capacity
      /\ m_writerIndex \in 0 .. Capacity - 1 /\ m_freeSpace = Capacity - m_contentSize
  BY CapacityAssumption DEF CircularInv, CircularTypeOK, Cells
<1>2. m_readerIndex % Capacity = IF m_readerIndex = Capacity THEN 0 ELSE m_readerIndex
  BY <1>1, OnceAround
<1>3. m_writerIndex = At(m_contentSize)
        \/ (m_contentSize = Capacity /\ m_writerIndex = m_readerIndex % Capacity)
  BY DEF CircularInv
<1> QED BY <1>1, <1>2, <1>3, CapacityAssumption DEF At

\* Every byte of the content, and the one behind it if there is room, has a slot.
LEMMA Slot ==
  ASSUME m_readerIndex \in 0 .. Capacity, NEW i \in 0 .. Capacity - 1
  PROVE  At(i) \in Cells
BY CapacityAssumption DEF At, Cells

-----------------------------------------------------------------------------
(* The content.                                                            *)

LEMMA UnsentSeq ==
  ASSUME CircularInv
  PROVE  /\ Unsent \in Seq(Bytes) /\ Len(Unsent) = m_contentSize
         /\ \A i \in 1 .. m_contentSize : Unsent[i] = m_buffer[At(i - 1)]
<1>1. /\ m_contentSize \in Nat /\ m_contentSize <= Capacity /\ m_readerIndex \in 0 .. Capacity
      /\ m_buffer \in [Cells -> Bytes]
  BY CapacityAssumption DEF CircularInv, CircularTypeOK
<1>2. ASSUME NEW i \in 1 .. m_contentSize PROVE m_buffer[At(i - 1)] \in Bytes
  <2>1. PICK j \in 0 .. Capacity - 1 : j = i - 1 BY <1>1, CapacityAssumption
  <2>2. At(j) \in Cells BY <1>1, Slot
  <2> QED BY <1>1, <2>1, <2>2
<1>3. Unsent \in [1 .. m_contentSize -> Bytes] BY <1>2 DEF Unsent
<1>4. Unsent \in Seq(Bytes) BY <1>1, <1>3, SeqDef
<1>5. Len(Unsent) = m_contentSize BY <1>1, <1>3, <1>4, LenProperties
<1> QED BY <1>4, <1>5 DEF Unsent

-----------------------------------------------------------------------------
(* The invariant.                                                          *)

LEMMA InvInit == CircularInit => CircularInv
<1> SUFFICES ASSUME CircularInit PROVE CircularInv
  OBVIOUS
<1>1. Zeros \in [Cells -> Bytes] BY CapacityAssumption DEF Zeros
<1>2. CircularTypeOK
  <2>1. /\ m_freeSpace \in 0 .. Capacity /\ m_contentSize \in 0 .. Capacity
        /\ m_writerIndex \in Cells /\ m_readerIndex \in 0 .. Capacity
    BY CapacityAssumption DEF CircularInit, Cells
  <2>2. m_emptyFlag \in BOOLEAN /\ m_newDataFlag \in BOOLEAN BY DEF CircularInit
  <2> QED BY <1>1, <2>1, <2>2 DEF CircularInit, CircularTypeOK
<1>3. m_writerIndex = At(m_contentSize) BY CapacityAssumption DEF CircularInit, At
<1> QED BY <1>2, <1>3, CapacityAssumption DEF CircularInit, CircularInv

\* The two pieces of a write, of which the second begins where the buffer begins.
LEMMA Pieces ==
  ASSUME CircularInv, NEW size \in 1 .. m_freeSpace,
         NEW toEnd, toEnd = IF m_readerIndex > m_writerIndex THEN size
                            ELSE Lesser(size, Capacity - m_writerIndex)
  PROVE  /\ toEnd \in 0 .. size /\ m_writerIndex + toEnd <= Capacity
         /\ size > toEnd => m_writerIndex + toEnd = Capacity /\ size - toEnd < Capacity
         /\ \A j \in 0 .. size - 1 :
              At(m_contentSize + j) = IF j < toEnd THEN m_writerIndex + j ELSE j - toEnd
         /\ \A i \in 0 .. m_contentSize - 1 :
              At(i) >= size - toEnd /\ (At(i) < m_writerIndex \/ At(i) >= m_writerIndex + toEnd)
BY WriterIndex, CapacityAssumption DEF Lesser, At

LEMMA InvWrite == ASSUME CircularInv, NEW data \in Writes, writeData(data) PROVE CircularInv'
<1> DEFINE size    == Len(data)
           toEnd   == IF m_readerIndex > m_writerIndex THEN size
                      ELSE Lesser(size, Capacity - m_writerIndex)
           toBegin == size - toEnd
<1>1. /\ data \in [1 .. size -> Bytes] /\ size \in 1 .. m_freeSpace /\ m_freeSpace \in 0 .. Capacity
  <2>1. data \in Seq(Bytes) BY CapacityAssumption, SeqDef DEF Writes
  <2> QED BY <2>1, LenProperties, CapacityAssumption DEF writeData, CircularInv, CircularTypeOK
<1>2. /\ toEnd \in 0 .. size /\ m_writerIndex + toEnd <= Capacity
      /\ toBegin > 0 => m_writerIndex + toEnd = Capacity /\ toBegin < Capacity
  BY <1>1, Pieces
<1>3. m_buffer' \in [Cells -> Bytes]
  <2>1. /\ m_buffer \in [Cells -> Bytes] /\ m_writerIndex \in 0 .. Capacity - 1
    BY WriterIndex DEF CircularInv, CircularTypeOK
  <2>2. ASSUME NEW i \in Cells, i < toBegin PROVE data[toEnd + i + 1] \in Bytes
    <3>1. PICK j \in 1 .. size : j = toEnd + i + 1 BY <1>1, <1>2, <2>2, CapacityAssumption DEF Cells
    <3> QED BY <1>1, <3>1
  <2>3. ASSUME NEW i \in Cells, m_writerIndex <= i, i < m_writerIndex + toEnd
        PROVE  data[i - m_writerIndex + 1] \in Bytes
    <3>1. PICK j \in 1 .. size : j = i - m_writerIndex + 1
      BY <1>1, <1>2, <2>1, <2>3, CapacityAssumption DEF Cells
    <3> QED BY <1>1, <3>1
  <2>4. m_buffer' = [i \in Cells |->
           IF i < toBegin THEN data[toEnd + i + 1]
           ELSE IF m_writerIndex <= i /\ i < m_writerIndex + toEnd
                THEN data[i - m_writerIndex + 1] ELSE m_buffer[i]]
    BY DEF writeData
  <2> QED BY <2>1, <2>2, <2>3, <2>4
<1>4. m_writerIndex' = IF toBegin > 0 THEN toBegin % Capacity ELSE (m_writerIndex + toEnd) % Capacity
  BY DEF writeData
<1>5. /\ m_writerIndex' = IF toBegin > 0 THEN toBegin
                          ELSE IF m_writerIndex + size = Capacity THEN 0 ELSE m_writerIndex + size
      /\ m_writerIndex' \in Cells
  <2> HIDE DEF size, toEnd
  <2>1. m_writerIndex \in 0 .. Capacity - 1 BY WriterIndex
  <2>2. CASE toBegin > 0
    <3>1. toBegin \in 0 .. Capacity /\ toBegin # Capacity BY <1>1, <1>2, <2>2, CapacityAssumption
    <3> QED BY <1>4, <2>2, <3>1, OnceAround, CapacityAssumption DEF Cells
  <2>3. CASE ~(toBegin > 0)
    <3>1. toEnd = size /\ m_writerIndex + toEnd \in 0 .. Capacity
      BY <1>1, <1>2, <2>1, <2>3, CapacityAssumption
    <3> QED BY <1>4, <2>1, <2>3, <3>1, OnceAround, CapacityAssumption DEF Cells
  <2> QED BY <2>2, <2>3
<1>6. /\ m_contentSize' = m_contentSize + size /\ m_freeSpace' = m_freeSpace - size
      /\ m_readerIndex' = m_readerIndex /\ readBuffer' = readBuffer
      /\ m_emptyFlag' = FALSE /\ m_newDataFlag' = TRUE
  BY DEF writeData
<1>7. m_writerIndex' = At(m_contentSize)'
        \/ (m_contentSize' = Capacity /\ m_writerIndex' = m_readerIndex' % Capacity)
  <2>1. m_readerIndex % Capacity = IF m_readerIndex = Capacity THEN 0 ELSE m_readerIndex
    BY WriterIndex, OnceAround
  <2> HIDE DEF size, toEnd
  <2>2. /\ size \in Nat /\ size + m_contentSize <= Capacity /\ m_freeSpace \in Nat
        /\ toEnd \in Nat /\ toEnd <= size /\ (toEnd = size => m_writerIndex + size <= Capacity)
        /\ (toEnd < size => m_writerIndex + toEnd = Capacity)
    BY <1>1, <1>2, WriterIndex, CapacityAssumption
  <2> QED BY <1>5, <1>6, <2>1, <2>2, WriterIndex, CapacityAssumption DEF At
<1>8. /\ m_freeSpace' \in 0 .. Capacity /\ m_contentSize' \in 0 .. Capacity
      /\ m_freeSpace' + m_contentSize' = Capacity /\ m_contentSize' # 0
  <2>1. PICK k \in 1 .. m_freeSpace : k = size BY <1>1
  <2>2. m_contentSize' = m_contentSize + k /\ m_freeSpace' = m_freeSpace - k BY <1>6, <2>1
  <2> QED BY <2>2, WriterIndex, CapacityAssumption
<1>9. m_emptyFlag' \in BOOLEAN /\ m_newDataFlag' \in BOOLEAN /\ ~m_emptyFlag' /\ m_newDataFlag'
  BY <1>6
<1>10. CircularTypeOK' BY <1>3, <1>5, <1>6, <1>8, <1>9 DEF CircularInv, CircularTypeOK
<1> QED BY <1>7, <1>8, <1>9, <1>10 DEF CircularInv

LEMMA InvRead == ASSUME CircularInv, readData PROVE CircularInv'
<1>1. /\ m_contentSize \in 0 .. Capacity /\ m_readerIndex \in 0 .. Capacity
      /\ m_buffer \in [Cells -> Bytes] /\ readBuffer \in [Cells -> Bytes]
      /\ (m_emptyFlag <=> m_contentSize = 0)
  BY DEF CircularInv, CircularTypeOK
<1> DEFINE toReadAtEnd == IF m_readerIndex < m_writerIndex THEN m_contentSize
                          ELSE Lesser(m_contentSize, Capacity - m_readerIndex)
<1>2. ASSUME NEW i \in 0 .. m_contentSize - 1
      PROVE  /\ i \in Cells /\ At(i) \in Cells
             /\ copyData[i] = m_buffer[At(i)]
  <2>1. i \in Cells /\ i < m_contentSize /\ ~m_emptyFlag BY <1>1, <1>2, CapacityAssumption DEF Cells
  <2>2. At(i) = IF i < toReadAtEnd THEN m_readerIndex + i ELSE i - toReadAtEnd
    BY <1>1, <1>2, WriterIndex, CapacityAssumption DEF At, Lesser
  <2>3. copyData[i] = IF i < toReadAtEnd THEN m_buffer[m_readerIndex + i] ELSE m_buffer[i - toReadAtEnd]
    BY <1>1, <2>1, CapacityAssumption DEF copyData, Cells
  <2>4. At(i) \in Cells BY <1>1, <2>1, Slot, CapacityAssumption DEF Cells
  <2> HIDE DEF toReadAtEnd
  <2> QED BY <2>1, <2>2, <2>3, <2>4
<1>3. copyData \in [Cells -> Bytes]
  <2>1. ASSUME NEW i \in Cells PROVE copyData[i] \in Bytes
    <3>1. CASE m_emptyFlag \/ i >= m_contentSize BY <1>1, <3>1 DEF copyData
    <3>2. CASE ~(m_emptyFlag \/ i >= m_contentSize)
      <4>1. i \in 0 .. m_contentSize - 1 BY <1>1, <3>2, CapacityAssumption DEF Cells
      <4> QED BY <1>1, <1>2, <4>1
    <3> QED BY <3>1, <3>2
  <2>2. DOMAIN copyData = Cells /\ copyData = [i \in Cells |-> copyData[i]] BY DEF copyData
  <2> QED BY <2>1, <2>2
<1>4. CircularTypeOK' BY <1>3 DEF CircularInv, CircularTypeOK, readData, sizes
<1>5. m_writerIndex' = At(m_contentSize)'
        \/ (m_contentSize' = Capacity /\ m_writerIndex' = m_readerIndex' % Capacity)
  BY DEF CircularInv, readData, sizes, At
<1>6. \A i \in 0 .. m_contentSize' - 1 : readBuffer'[i] = m_buffer'[At(i)']
  BY <1>2 DEF readData, sizes, At
<1> QED BY <1>4, <1>5, <1>6 DEF CircularInv, readData, sizes

\* What is left of the content after a shift is where it was, and is not erased.
LEMMA Rest ==
  ASSUME CircularInv, NEW size \in 1 .. m_contentSize, size # m_contentSize, shiftPart(size)
  PROVE  /\ m_readerIndex' \in 0 .. Capacity
         /\ m_readerIndex' = IF m_readerIndex + size > Capacity
                             THEN m_readerIndex + size - Capacity ELSE m_readerIndex + size
         /\ \A i \in 0 .. m_contentSize - size - 1 :
              At(i)' = At(i + size) /\ m_buffer'[At(i)'] = m_buffer[At(i + size)]
<1> DEFINE atOnce        == m_readerIndex < m_writerIndex
           toReadAtEnd   == IF atOnce THEN size ELSE Lesser(size, Capacity - m_readerIndex)
           toReadAtBegin == size - toReadAtEnd
<1>1. m_readerIndex' = IF toReadAtBegin > 0 THEN toReadAtBegin ELSE m_readerIndex + toReadAtEnd
  BY DEF shiftPart
<1>2. /\ m_readerIndex' \in 0 .. Capacity
      /\ m_readerIndex' = IF m_readerIndex + size > Capacity
                          THEN m_readerIndex + size - Capacity ELSE m_readerIndex + size
  BY <1>1, WriterIndex, CapacityAssumption DEF Lesser
<1>3. ASSUME NEW i \in 0 .. m_contentSize - size - 1
      PROVE  At(i)' = At(i + size) /\ m_buffer'[At(i)'] = m_buffer[At(i + size)]
  <2>1. At(i)' = At(i + size) BY <1>2, WriterIndex, CapacityAssumption DEF At
  <2>2. PICK j \in 0 .. Capacity - 1 : j = i + size BY WriterIndex, CapacityAssumption
  <2>3. At(j) \in Cells BY WriterIndex, Slot
  <2>4. m_buffer' = IF atOnce THEN Erased(m_buffer, 0, size)
                    ELSE Erased(Erased(m_buffer, m_readerIndex, toReadAtEnd), 0, toReadAtBegin)
    BY DEF shiftPart
  <2>5. CASE atOnce
    <3>1. ~(At(j) < size) BY <2>2, <2>5, WriterIndex, CapacityAssumption DEF At
    <3>2. Erased(m_buffer, 0, size)[At(j)] = m_buffer[At(j)]
      BY <2>3, <3>1, CapacityAssumption DEF Erased, Cells
    <3> QED BY <2>1, <2>2, <2>4, <2>5, <3>2
  <2>6. CASE ~atOnce
    <3>1. /\ ~(At(j) < toReadAtBegin)
          /\ ~(m_readerIndex <= At(j) /\ At(j) < m_readerIndex + toReadAtEnd)
      BY <2>2, <2>6, WriterIndex, CapacityAssumption DEF At, Lesser
    <3>2. toReadAtEnd \in Int /\ toReadAtBegin \in Int /\ m_readerIndex \in Int
      BY WriterIndex, CapacityAssumption DEF Lesser
    <3> HIDE DEF toReadAtEnd, toReadAtBegin
    <3>3. Erased(m_buffer, m_readerIndex, toReadAtEnd)[At(j)] = m_buffer[At(j)]
      BY <2>3, <3>1 DEF Erased
    <3>4. Erased(Erased(m_buffer, m_readerIndex, toReadAtEnd), 0, toReadAtBegin)[At(j)]
            = Erased(m_buffer, m_readerIndex, toReadAtEnd)[At(j)]
      BY <2>3, <3>1, <3>2, CapacityAssumption DEF Erased, Cells
    <3> QED BY <2>1, <2>2, <2>4, <2>6, <3>3, <3>4
  <2> QED BY <2>5, <2>6
<1> QED BY <1>2, <1>3

LEMMA ErasedType ==
  ASSUME NEW b \in [Cells -> Bytes], NEW at, NEW size PROVE Erased(b, at, size) \in [Cells -> Bytes]
BY CapacityAssumption DEF Erased

LEMMA InvShift ==
  ASSUME CircularInv, NEW size \in 1 .. m_contentSize, size # m_contentSize, shiftPart(size)
  PROVE  CircularInv'
<1>1. /\ m_readerIndex' \in 0 .. Capacity
      /\ m_readerIndex' = IF m_readerIndex + size > Capacity
                          THEN m_readerIndex + size - Capacity ELSE m_readerIndex + size
  BY Rest
<1>2. /\ m_contentSize' = m_contentSize - size /\ m_freeSpace' = m_freeSpace + size
      /\ m_writerIndex' = m_writerIndex /\ m_emptyFlag' = m_emptyFlag
      /\ m_newDataFlag' = TRUE /\ readBuffer' = Zeros
  BY DEF shiftPart
<1>3. /\ m_contentSize' \in 0 .. Capacity /\ m_freeSpace' \in 0 .. Capacity
      /\ m_freeSpace' + m_contentSize' = Capacity /\ m_contentSize' # 0 /\ m_contentSize # 0
  BY <1>2, WriterIndex, CapacityAssumption
<1>4. m_buffer' \in [Cells -> Bytes]
  <2>1. m_buffer \in [Cells -> Bytes] BY DEF CircularInv, CircularTypeOK
  <2>2. PICK at1, size1, size2 : m_buffer' = Erased(m_buffer, 0, size1)
                              \/ m_buffer' = Erased(Erased(m_buffer, at1, size1), 0, size2)
    BY DEF shiftPart
  <2> QED BY <2>1, <2>2, ErasedType
<1>5. ~m_emptyFlag /\ m_emptyFlag \in BOOLEAN BY <1>3 DEF CircularInv, CircularTypeOK
<1>6. CircularTypeOK'
  <2>1. readBuffer' \in [Cells -> Bytes] BY <1>2, CapacityAssumption DEF Zeros
  <2>2. m_emptyFlag' \in BOOLEAN /\ m_newDataFlag' \in BOOLEAN BY <1>2, <1>5
  <2>3. m_writerIndex' \in Cells BY <1>2 DEF CircularInv, CircularTypeOK
  <2> QED BY <1>1, <1>3, <1>4, <2>1, <2>2, <2>3 DEF CircularTypeOK
<1>7. m_writerIndex' = At(m_contentSize)' BY <1>1, <1>2, WriterIndex, CapacityAssumption DEF At
<1> QED BY <1>2, <1>3, <1>5, <1>6, <1>7 DEF CircularInv

LEMMA InvClear == clear => CircularInv'
<1> SUFFICES ASSUME clear PROVE CircularInv'
  OBVIOUS
<1>1. Zeros \in [Cells -> Bytes] BY CapacityAssumption DEF Zeros
<1>2. CircularTypeOK'
  <2>1. /\ m_freeSpace' \in 0 .. Capacity /\ m_contentSize' \in 0 .. Capacity
        /\ m_writerIndex' \in Cells /\ m_readerIndex' \in 0 .. Capacity
    BY CapacityAssumption DEF clear, Cells
  <2>2. m_emptyFlag' \in BOOLEAN /\ m_newDataFlag' \in BOOLEAN BY DEF clear
  <2> QED BY <1>1, <2>1, <2>2 DEF clear, CircularTypeOK
<1>3. m_writerIndex' = At(m_contentSize)' BY CapacityAssumption DEF clear, At
<1> QED BY <1>2, <1>3, CapacityAssumption DEF clear, CircularInv

LEMMA InvNext == CircularInv /\ [CircularNext]_bufferVars => CircularInv'
<1> SUFFICES ASSUME CircularInv, [CircularNext]_bufferVars PROVE CircularInv'
  OBVIOUS
<1>1. ASSUME NEW size \in 1 .. m_contentSize, shiftBuffer(size) PROVE CircularInv'
  BY <1>1, InvShift, InvClear DEF shiftBuffer
<1>2. CASE UNCHANGED bufferVars
  BY <1>2 DEF CircularInv, CircularTypeOK, bufferVars, sizes, At
<1> QED BY <1>1, <1>2, InvWrite, InvRead, InvClear DEF CircularNext

\* The sizes and the flag agree with the indices, and a copy that is taken for fresh
\* is fresh (writeData(), readData(), shiftBuffer() and clear()).
THEOREM CircularInvariant == CircularSpec => []CircularInv
<1>1. CircularInv /\ [CircularNext]_bufferVars => CircularInv' BY InvNext
<1> QED BY <1>1, InvInit, PTL DEF CircularSpec

-----------------------------------------------------------------------------
(* The queue of bytes.                                                     *)

LEMMA AppendContent == ASSUME CircularInv, NEW data \in Writes, writeData(data) PROVE Unsent' = Unsent \o data
<1> DEFINE size  == Len(data)
           toEnd == IF m_readerIndex > m_writerIndex THEN size
                    ELSE Lesser(size, Capacity - m_writerIndex)
<1>1. data \in Seq(Bytes) BY CapacityAssumption, SeqDef DEF Writes
<1>2. /\ size \in 1 .. m_freeSpace /\ m_freeSpace = Capacity - m_contentSize
      /\ m_contentSize \in 0 .. Capacity
  BY <1>1, WriterIndex, LenProperties, CapacityAssumption DEF writeData
<1>3. /\ toEnd \in 0 .. size
      /\ \A j \in 0 .. size - 1 :
           At(m_contentSize + j) = IF j < toEnd THEN m_writerIndex + j ELSE j - toEnd
      /\ \A i \in 0 .. m_contentSize - 1 :
           At(i) >= size - toEnd /\ (At(i) < m_writerIndex \/ At(i) >= m_writerIndex + toEnd)
      /\ size > toEnd => m_writerIndex + toEnd = Capacity /\ size - toEnd < Capacity
  BY <1>2, Pieces
<1>4. m_buffer' = [i \in Cells |->
         IF i < size - toEnd THEN data[toEnd + i + 1]
         ELSE IF m_writerIndex <= i /\ i < m_writerIndex + toEnd
              THEN data[i - m_writerIndex + 1] ELSE m_buffer[i]]
  BY DEF writeData
<1>5. m_contentSize' = m_contentSize + size /\ m_readerIndex' = m_readerIndex BY DEF writeData
<1>6. /\ Unsent \in Seq(Bytes) /\ Len(Unsent) = m_contentSize
      /\ \A i \in 1 .. m_contentSize : Unsent[i] = m_buffer[At(i - 1)]
  BY UnsentSeq
<1>7. CircularInv' => (/\ Unsent \in Seq(Bytes) /\ Len(Unsent) = m_contentSize
                       /\ \A i \in 1 .. m_contentSize : Unsent[i] = m_buffer[At(i - 1)])'
  BY UnsentSeq, PTL
<1>8. /\ Unsent' \in Seq(Bytes) /\ Len(Unsent') = m_contentSize + size
      /\ \A i \in 1 .. m_contentSize + size : Unsent'[i] = m_buffer'[At(i - 1)']
  BY <1>5, <1>7, InvWrite
<1>9. /\ Unsent \o data \in Seq(Bytes) /\ Len(Unsent \o data) = m_contentSize + size
      /\ \A i \in 1 .. m_contentSize + size :
           (Unsent \o data)[i] = IF i <= m_contentSize THEN Unsent[i] ELSE data[i - m_contentSize]
  BY <1>1, <1>6, ConcatProperties
<1> HIDE DEF size, toEnd
<1>10. ASSUME NEW i \in 1 .. m_contentSize + size PROVE Unsent'[i] = (Unsent \o data)[i]
  <2>1. At(i - 1)' = At(i - 1) BY <1>5 DEF At
  <2>2. PICK k \in 0 .. Capacity - 1 : k = i - 1 BY <1>2, CapacityAssumption
  <2>3. At(k) \in Cells BY WriterIndex, Slot
  <2>4. CASE i <= m_contentSize
    <3>1. k \in 0 .. m_contentSize - 1 BY <1>2, <2>2, <2>4
    <3>a. At(k) >= size - toEnd /\ (At(k) < m_writerIndex \/ At(k) >= m_writerIndex + toEnd)
      BY <1>3, <3>1
    <3>b. ~(At(k) < size - toEnd) /\ ~(m_writerIndex <= At(k) /\ At(k) < m_writerIndex + toEnd)
      BY <1>2, <1>3, <2>3, <3>a, WriterIndex, CapacityAssumption DEF Cells
    <3>2. m_buffer'[At(k)] = m_buffer[At(k)] BY <1>4, <2>3, <3>b
    <3> QED BY <1>2, <1>6, <1>8, <1>9, <2>1, <2>2, <2>4, <3>2
  <2>5. CASE ~(i <= m_contentSize)
    <3>1. PICK j \in 0 .. size - 1 : k = m_contentSize + j BY <1>2, <2>2, <2>5
    <3>2. At(k) = IF j < toEnd THEN m_writerIndex + j ELSE j - toEnd BY <1>3, <3>1
    <3>3. m_writerIndex \in 0 .. Capacity - 1 BY WriterIndex
    <3>4. CASE j < toEnd
      <4>1. ~(At(k) < size - toEnd) /\ m_writerIndex <= At(k) /\ At(k) < m_writerIndex + toEnd
        BY <1>2, <1>3, <3>1, <3>2, <3>3, <3>4, CapacityAssumption, WriterIndex
      <4>2. m_buffer'[At(k)] = data[At(k) - m_writerIndex + 1] BY <1>4, <2>3, <4>1
      <4>3. At(k) - m_writerIndex + 1 = i - m_contentSize BY <1>2, <2>2, <3>1, <3>2, <3>3, <3>4
      <4> QED BY <1>8, <1>9, <2>1, <2>2, <2>5, <4>2, <4>3
    <3>5. CASE ~(j < toEnd)
      <4>1. At(k) < size - toEnd BY <1>2, <1>3, <3>2, <3>5
      <4>2. m_buffer'[At(k)] = data[toEnd + At(k) + 1] BY <1>4, <2>3, <4>1
      <4>3. toEnd + At(k) + 1 = i - m_contentSize BY <1>2, <1>3, <2>2, <3>1, <3>2, <3>5
      <4> QED BY <1>8, <1>9, <2>1, <2>2, <2>5, <4>2, <4>3
    <3> QED BY <3>4, <3>5
  <2> QED BY <2>4, <2>5
<1> QED BY <1>8, <1>9, <1>10, SeqEqual

LEMMA ShiftContent ==
  ASSUME CircularInv, NEW size \in 1 .. m_contentSize, size # m_contentSize, shiftPart(size)
  PROVE  Unsent' = SubSeq(Unsent, size + 1, Len(Unsent))
<1>1. m_contentSize' = m_contentSize - size BY DEF shiftPart
<1>2. /\ Unsent \in Seq(Bytes) /\ Len(Unsent) = m_contentSize
      /\ \A i \in 1 .. m_contentSize : Unsent[i] = m_buffer[At(i - 1)]
  BY UnsentSeq
<1>3. CircularInv' => (/\ Unsent \in Seq(Bytes) /\ Len(Unsent) = m_contentSize
                       /\ \A i \in 1 .. m_contentSize : Unsent[i] = m_buffer[At(i - 1)])'
  BY UnsentSeq, PTL
<1>4. /\ Unsent' \in Seq(Bytes) /\ Len(Unsent') = m_contentSize - size
      /\ \A i \in 1 .. m_contentSize - size : Unsent'[i] = m_buffer'[At(i - 1)']
  BY <1>1, <1>3, InvShift
<1>5. m_contentSize \in Nat BY WriterIndex, CapacityAssumption
<1>6. /\ SubSeq(Unsent, size + 1, m_contentSize) \in Seq(Bytes)
      /\ Len(SubSeq(Unsent, size + 1, m_contentSize)) = m_contentSize - size
      /\ \A i \in 1 .. m_contentSize - size :
           SubSeq(Unsent, size + 1, m_contentSize)[i] = Unsent[size + i]
  <2>1. \A i \in size + 1 .. m_contentSize : Unsent[i] \in Bytes
    BY <1>2, <1>5, ElementOfSeq
  <2> QED BY <1>5, <2>1, SubSeqProperties
<1>7. ASSUME NEW i \in 1 .. m_contentSize - size
      PROVE  Unsent'[i] = SubSeq(Unsent, size + 1, m_contentSize)[i]
  <2>1. PICK k \in 0 .. m_contentSize - size - 1 : k = i - 1 BY <1>5
  <2>2. m_buffer'[At(k)'] = m_buffer[At(k + size)] BY Rest
  <2>3. Unsent'[i] = m_buffer[At(k + size)] BY <1>4, <2>1, <2>2
  <2>4. PICK n \in 1 .. m_contentSize : n = size + i BY <1>5
  <2>5. Unsent[n] = m_buffer[At(n - 1)] BY <1>2
  <2>6. n - 1 = k + size BY <1>5, <2>1, <2>4
  <2> QED BY <1>6, <2>3, <2>4, <2>5, <2>6
<1> QED BY <1>2, <1>4, <1>6, <1>7, SeqEqual

LEMMA NoContent == ASSUME CircularInv, m_contentSize = 0 PROVE Unsent = << >>
BY UnsentSeq, EmptySeq

LEMMA SameContent ==
  ASSUME UNCHANGED <<m_buffer, m_contentSize, m_readerIndex>> PROVE Unsent' = Unsent
BY DEF Unsent, At

LEMMA FirstOf ==
  ASSUME NEW S, NEW u, NEW n \in Nat, \A i \in 1 .. n : u[i] \in S
  PROVE  /\ SubSeq(u, 1, n) \in Seq(S) /\ Len(SubSeq(u, 1, n)) = n
         /\ \A i \in 1 .. n : SubSeq(u, 1, n)[i] = u[i]
<1>1. /\ SubSeq(u, 1, n) \in Seq(S)
      /\ Len(SubSeq(u, 1, n)) = IF 1 <= n THEN n - 1 + 1 ELSE 0
      /\ \A i \in 1 .. n - 1 + 1 : SubSeq(u, 1, n)[i] = u[1 + i - 1]
  BY SubSeqProperties
<1>2. Len(SubSeq(u, 1, n)) = n BY <1>1
<1>3. ASSUME NEW i \in 1 .. n PROVE SubSeq(u, 1, n)[i] = u[i]
  <2>1. i \in 1 .. n - 1 + 1 /\ 1 + i - 1 = i OBVIOUS
  <2> QED BY <1>1, <2>1
<1> QED BY <1>1, <1>2, <1>3

LEMMA FirstBytes ==
  ASSUME NEW S, NEW s \in Seq(S), NEW t \in Seq(S)
  PROVE  /\ s \o t \in Seq(S) /\ Len(s \o t) = Len(s) + Len(t)
         /\ SubSeq(s \o t, 1, Len(s)) = s
<1> DEFINE n == Len(s)
<1>1. n \in Nat /\ Len(t) \in Nat BY LenProperties
<1>2. /\ s \o t \in Seq(S) /\ Len(s \o t) = n + Len(t)
      /\ \A i \in 1 .. n + Len(t) : (s \o t)[i] = IF i <= n THEN s[i] ELSE t[i - n]
  BY ConcatProperties
<1> HIDE DEF n
<1>3. ASSUME NEW i \in 1 .. n PROVE (s \o t)[i] = s[i] /\ s[i] \in S
  <2>1. i \in 1 .. n + Len(t) /\ i <= n BY <1>1
  <2> QED BY <1>2, <2>1, ElementOfSeq DEF n
<1>4. /\ SubSeq(s \o t, 1, n) \in Seq(S) /\ Len(SubSeq(s \o t, 1, n)) = n
      /\ \A i \in 1 .. n : SubSeq(s \o t, 1, n)[i] = (s \o t)[i]
  <2> DEFINE u == s \o t
  <2>1. \A i \in 1 .. n : u[i] \in S BY <1>3
  <2> HIDE DEF u
  <2>2. /\ SubSeq(u, 1, n) \in Seq(S) /\ Len(SubSeq(u, 1, n)) = n
        /\ \A i \in 1 .. n : SubSeq(u, 1, n)[i] = u[i]
    BY <1>1, <2>1, FirstOf
  <2> QED BY <2>2 DEF u
<1> QED BY <1>2, <1>3, <1>4, SeqEqual DEF n

\* A write is a step of the queue, and so is a shift.
LEMMA QueueWrite == ASSUME CircularInv, NEW data \in Writes, writeData(data) PROVE Bytewise!Write
<1>1. data \in Seq(Bytes) BY CapacityAssumption, SeqDef DEF Writes
<1>2. Unsent' = Unsent \o data BY AppendContent
<1>3. Unsent \in Seq(Bytes) /\ Len(Unsent) = m_contentSize BY UnsentSeq
<1>4. /\ Len(data) \in 1 .. m_freeSpace /\ m_freeSpace = Capacity - m_contentSize
      /\ m_contentSize \in 0 .. Capacity
  BY <1>1, WriterIndex, LenProperties, CapacityAssumption DEF writeData
<1>5. /\ Unsent \o data \in Seq(Bytes) /\ Len(Unsent \o data) = Len(Unsent) + Len(data)
      /\ SubSeq(Unsent \o data, 1, Len(Unsent)) = Unsent
  BY <1>1, <1>3, FirstBytes
<1> QED BY <1>2, <1>3, <1>4, <1>5, CapacityAssumption DEF Bytewise!Write

LEMMA QueueShift ==
  ASSUME CircularInv, NEW size \in 1 .. m_contentSize, shiftBuffer(size) PROVE Bytewise!Shift
<1>1. Unsent \in Seq(Bytes) /\ Len(Unsent) = m_contentSize /\ m_contentSize \in Nat
  BY UnsentSeq, WriterIndex, CapacityAssumption
<1>2. CASE size = m_contentSize
  <2>1. Unsent' = << >>
    <3>1. CircularInv' /\ m_contentSize' = 0 BY <1>2, InvClear DEF shiftBuffer, clear
    <3>2. (CircularInv /\ m_contentSize = 0 => Unsent = << >>)' BY NoContent, PTL
    <3> QED BY <3>1, <3>2
  <2>2. SubSeq(Unsent, Len(Unsent) + 1, Len(Unsent)) = << >>
    BY <1>1, SubSeqProperties, EmptySeq
  <2> QED BY <1>1, <2>1, <2>2 DEF Bytewise!Shift
<1>3. CASE size # m_contentSize
  BY <1>1, <1>3, ShiftContent DEF shiftBuffer, Bytewise!Shift
<1> QED BY <1>2, <1>3

LEMMA QueueClear == ASSUME CircularInv, clear PROVE Bytewise!Shift
<1>1. Unsent \in Seq(Bytes) /\ Len(Unsent) = m_contentSize /\ m_contentSize \in Nat
  BY UnsentSeq, WriterIndex, CapacityAssumption
<1>2. Unsent' = << >>
  <2>1. CircularInv' /\ m_contentSize' = 0 BY InvClear DEF clear
  <2>2. (CircularInv /\ m_contentSize = 0 => Unsent = << >>)' BY NoContent, PTL
  <2> QED BY <2>1, <2>2
<1>3. SubSeq(Unsent, Len(Unsent) + 1, Len(Unsent)) = << >> BY <1>1, SubSeqProperties, EmptySeq
<1> QED BY <1>1, <1>2, <1>3 DEF Bytewise!Shift

LEMMA QueueStep == CircularInv /\ [CircularNext]_bufferVars => [Bytewise!Write \/ Bytewise!Shift]_Unsent
<1> SUFFICES ASSUME CircularInv, [CircularNext]_bufferVars
             PROVE  Bytewise!Write \/ Bytewise!Shift \/ Unsent' = Unsent
  OBVIOUS
<1>1. CASE readData BY <1>1, SameContent DEF readData, sizes
<1>2. CASE UNCHANGED bufferVars BY <1>2, SameContent DEF bufferVars, sizes
<1> QED BY <1>1, <1>2, QueueWrite, QueueShift, QueueClear DEF CircularNext

\* What joins the queue is what was written.
LEMMA WhatIsWritten ==
  ASSUME CircularInv, [CircularNext]_bufferVars, m_contentSize' > m_contentSize
  PROVE  \E data \in Writes : writeData(data) /\ Unsent' = Unsent \o data
<1>1. m_contentSize \in Nat BY WriterIndex, CapacityAssumption
<1>2. ASSUME NEW size \in 1 .. m_contentSize, shiftBuffer(size) PROVE FALSE
  BY <1>1, <1>2 DEF shiftBuffer, clear, shiftPart
<1>3. CASE readData BY <1>1, <1>3 DEF readData, sizes
<1>4. CASE clear BY <1>1, <1>4 DEF clear
<1>5. CASE UNCHANGED bufferVars BY <1>1, <1>5 DEF bufferVars, sizes
<1> QED BY <1>2, <1>3, <1>4, <1>5, AppendContent DEF CircularNext

LEMMA FreshCopy ==
  CircularInv => (~m_newDataFlag => \A i \in 1 .. m_contentSize : readBuffer[i - 1] = Unsent[i])
<1> SUFFICES ASSUME CircularInv, ~m_newDataFlag, NEW i \in 1 .. m_contentSize
             PROVE  readBuffer[i - 1] = Unsent[i]
  OBVIOUS
<1>1. PICK j \in 0 .. m_contentSize - 1 : j = i - 1 BY WriterIndex, CapacityAssumption
<1>2. readBuffer[j] = m_buffer[At(j)] BY DEF CircularInv
<1> QED BY <1>1, <1>2, UnsentSeq

\* The buffer between a client and its socket is a queue of bytes, whatever its
\* capacity: what joins it is what was written, in order, and what readData() hands out
\* is its content.
THEOREM CircularImplementsByteQueue == CircularSpec => ImplementsByteQueue
<1>1. CircularInit => Unsent = << >>
  <2>1. CircularInit => m_contentSize = 0 BY DEF CircularInit
  <2> QED BY <2>1, InvInit, NoContent
<1>2. CircularInv /\ [CircularNext]_bufferVars => [Bytewise!Write \/ Bytewise!Shift]_Unsent
  BY QueueStep
<1>3. CircularInv /\ [CircularNext]_bufferVars
        => [m_contentSize' > m_contentSize
              => \E data \in Writes : writeData(data) /\ Unsent' = Unsent \o data]_bufferVars
  BY WhatIsWritten
<1> QED BY <1>1, <1>2, <1>3, FreshCopy, CircularInvariant, PTL
        DEF CircularSpec, ImplementsByteQueue, Bytewise!ByteQueueSpec

-----------------------------------------------------------------------------
(* The inductive invariant.                                                *)

PeerType == [m_fd : Fds \cup {Closed}, m_connectingFlag : BOOLEAN, m_inSendQueueFlag : BOOLEAN,
             m_autoreadFlag : BOOLEAN, m_messageToReadFlag : BOOLEAN, m_inConnectQueueFlag : BOOLEAN,
             content : 0 .. SendBufferSize, actor : {"none", "live", "leaving", "gone"}]

ServerType == [m_fd : Fds \cup {Closed}, m_registeredListen : BOOLEAN, m_serverProcesses : SUBSET Processes,
               actor : {"live", "gone"}]

SocketType == [state : {"free", "connecting", "up", "eof", "broken", "listening"},
               out : BOOLEAN, edge : BOOLEAN, unread : Nat]

RegType == [m_isRegisteredFlag : SUBSET Callbacks, chain : SUBSET Callbacks]

RunType == [callback : Callbacks \cup {"none", "destroyed"},
            events : SUBSET (Fds \X {"error", "out", "in"}), count : Nat]

NetType ==
  /\ client \in [Peers -> PeerType] /\ server \in [Servers -> ServerType] /\ socket \in [Fds -> SocketType]
  /\ DOMAIN m_clientBySocket \subseteq Fds /\ \A f \in DOMAIN m_clientBySocket : m_clientBySocket[f] \in Peers
  /\ DOMAIN m_serverBySocket \subseteq Fds /\ \A f \in DOMAIN m_serverBySocket : m_serverBySocket[f] \in Servers
  /\ m_connectQueue \in Seq(Clients) /\ m_listenQueue \in Seq(Servers)
  /\ m_sendQueue \in Seq(Fds) /\ m_readQueue \in Seq(Fds)
  /\ registration \in RegType
  /\ running \in RunType

HasSocket(c) == \E f \in DOMAIN m_clientBySocket : m_clientBySocket[f] = c

\* The sockets of clients, and the clients of sockets.
TableOk(f) ==
  /\ socket[f].state \in {"connecting", "up", "eof", "broken"} /\ client[m_clientBySocket[f]].actor = "live"
  /\ \/ client[m_clientBySocket[f]].m_fd = f
     \/ client[m_clientBySocket[f]].m_connectingFlag /\ f \in DOMAIN m_connectionPending

PeerOk(c) ==
  /\ client[c].m_fd # Closed =>
       /\ client[c].m_fd \in DOMAIN m_clientBySocket /\ m_clientBySocket[client[c].m_fd] = c
       /\ ~client[c].m_connectingFlag
  /\ client[c].m_connectingFlag =>
       client[c].actor = "live" /\ (client[c].m_inConnectQueueFlag <=> ~HasSocket(c))
  /\ client[c].m_inConnectQueueFlag => client[c].m_connectingFlag
  /\ client[c].m_inConnectQueueFlag <=> InChain(m_connectQueue, c)

PeerInv ==
  /\ \A f \in DOMAIN m_clientBySocket : TableOk(f)
  /\ \A f, g \in DOMAIN m_clientBySocket : m_clientBySocket[f] = m_clientBySocket[g] => f = g
  /\ DOMAIN m_connectionPending \subseteq DOMAIN m_clientBySocket
  /\ \A c \in Peers : PeerOk(c)
  /\ IsInjective(m_connectQueue)

\* The sockets of servers, and the servers of sockets.
ServerInv ==
  /\ \A f \in DOMAIN m_serverBySocket :
       socket[f].state = "listening" /\ server[m_serverBySocket[f]].m_fd = f
  /\ \A s \in Servers :
       /\ server[s].m_fd # Closed =>
            /\ server[s].m_fd \in DOMAIN m_serverBySocket /\ m_serverBySocket[server[s].m_fd] = s
            /\ ~server[s].m_registeredListen /\ server[s].actor = "live"
       /\ server[s].m_registeredListen => server[s].actor = "live"
       /\ InChain(m_listenQueue, s) => server[s].m_registeredListen
  /\ IsInjective(m_listenQueue)

\* What a client has to send, its flag and the queue.
SendInv ==
  \A c \in Peers :
    /\ client[c].m_fd = Closed => client[c].content = 0
    /\ client[c].m_connectingFlag => ~client[c].m_inSendQueueFlag
    /\ client[c].m_fd # Closed => (client[c].m_inSendQueueFlag <=> client[c].content > 0)
    /\ client[c].m_fd # Closed /\ client[c].m_inSendQueueFlag => InChain(m_sendQueue, client[c].m_fd)

Known == registration.m_isRegisteredFlag

\* A callback that is registered is in the chain, if it is one that is never unregistered.
RegInv ==
  /\ registration.chain \subseteq Known
  /\ running.callback # "destroyed" => Known \cap {"connect", "listen", "pending"} \subseteq registration.chain

\* What waits has its callback registered or under way.
CallInv ==
  /\ m_connectQueue # << >> => "connect" \in Known \/ running.callback = "connect"
  /\ m_listenQueue # << >> => "listen" \in Known \/ running.callback = "listen"
  /\ DOMAIN m_connectionPending # {} => "pending" \in Known \/ running.callback = "pending"
  /\ DOMAIN m_clientBySocket # {} => "epoll" \in Known \/ running.callback = "epoll"
  /\ DOMAIN m_serverBySocket # {} => "epoll" \in Known \/ running.callback \in {"epoll", "listen"}

\* What is left to be sent, by the socket: its bytes, or one thing when send() takes all.
Units  == IF "partial" \in Faults THEN SendBufferSize ELSE 1
ToSend == {e \in Fds \X (1 .. Units) :
             e[1] \in DOMAIN m_clientBySocket /\ e[2] <= client[m_clientBySocket[e[1]]].content}

SendsInv ==
  /\ (\E c \in Peers : client[c].m_fd # Closed /\ client[c].content > 0) =>
       "send" \in Known \/ running.callback = "send"
  /\ running.callback = "send" => running.count > Cardinality(ToSend)

\* What is to be read is seen by epoll or waits, or the client was told.
ReadOk(f) ==
  socket[f].state = "up" /\ ~socket[f].out /\ socket[f].unread > 0 =>
    \/ socket[f].edge \/ <<f, "in">> \in running.events \/ InChain(m_readQueue, f)
    \/ client[m_clientBySocket[f]].m_messageToReadFlag

ReadInv ==
  /\ \A d, e \in running.events : d[1] = e[1] => d = e
  /\ running.events # {} => running.callback = "epoll" /\ running.count = 1
  /\ \A f \in Fds : socket[f].state = "connecting" => socket[f].unread = 0
  /\ \A f \in DOMAIN m_connectionPending : socket[f].state \in {"connecting", "up"} => socket[f].out
  /\ \A f \in DOMAIN m_clientBySocket : ReadOk(f)

Careful == "giveUp" \notin Faults /\ "again" \notin Faults /\ "listenTwice" \notin Faults

NetInv == NetType /\ PeerInv /\ ServerInv /\ SendInv /\ ReadInv

WaitInv == RegInv /\ CallInv /\ SendsInv

\* What these abbreviate is expanded everywhere.
USE DEF RegType, RunType
-----------------------------------------------------------------------------
(* What a part of the invariant does not depend on.                        *)

\* What leaves tables, queue and flags of the clients alone leaves PeerInv.
LEMMA PeerFrame ==
  ASSUME NetType, PeerInv, UNCHANGED <<m_clientBySocket, m_connectionPending, m_connectQueue>>,
         \A c \in Peers : /\ client'[c].m_fd = client[c].m_fd /\ client'[c].actor = client[c].actor
                          /\ client'[c].m_connectingFlag = client[c].m_connectingFlag
                          /\ client'[c].m_inConnectQueueFlag = client[c].m_inConnectQueueFlag,
         \A f \in DOMAIN m_clientBySocket : socket'[f].state \in {"connecting", "up", "eof", "broken"}
  PROVE  PeerInv'
<1>1. \A f \in DOMAIN m_clientBySocket : m_clientBySocket[f] \in Peers
  BY DEF NetType
<1> QED BY <1>1 DEF PeerInv, TableOk, PeerOk, HasSocket, InChain

\* ... and ServerInv,
LEMMA ServerFrame ==
  ASSUME ServerInv, UNCHANGED <<server, m_serverBySocket, m_listenQueue>>,
         \A f \in DOMAIN m_serverBySocket : socket'[f].state = socket[f].state
  PROVE  ServerInv'
BY DEF ServerInv, InChain

\* ... and SendInv,
LEMMA SendFrame ==
  ASSUME SendInv, UNCHANGED m_sendQueue,
         \A c \in Peers : /\ client'[c].m_fd = client[c].m_fd /\ client'[c].content = client[c].content
                          /\ client'[c].m_connectingFlag = client[c].m_connectingFlag
                          /\ client'[c].m_inSendQueueFlag = client[c].m_inSendQueueFlag
  PROVE  SendInv'
BY DEF SendInv, InChain

\* ... and ReadInv.
LEMMA ReadFrame ==
  ASSUME NetType, ReadInv, UNCHANGED <<m_clientBySocket, m_connectionPending, m_readQueue, running, socket>>,
         \A c \in Peers : client'[c].m_messageToReadFlag = client[c].m_messageToReadFlag
  PROVE  ReadInv'
<1>1. \A f \in DOMAIN m_clientBySocket : m_clientBySocket[f] \in Peers
  BY DEF NetType
<1> QED BY <1>1 DEF ReadInv, ReadOk, InChain

\* One member of client changes.
LEMMA OnePeer ==
  ASSUME NetType, NEW c \in Peers, NEW m \in PeerType, client' = [client EXCEPT ![c] = m]
  PROVE  /\ client' \in [Peers -> PeerType] /\ client'[c] = m
         /\ \A d \in Peers : d # c => client'[d] = client[d]
BY DEF NetType

\* FD_DISCONNECTED is no descriptor.
LEMMA FdIsOpen ==
  ASSUME TcpAssumption, NEW f \in Fds
  PROVE  f # Closed
BY DEF TcpAssumption, Fds, Closed

\* A client without a socket, and not connecting, is not in the table.
LEMMA NoSocketOf ==
  ASSUME TcpAssumption, NetType, PeerInv, NEW c \in Peers, client[c].m_fd = Closed, ~client[c].m_connectingFlag
  PROVE  ~HasSocket(c)
<1>1. \A f \in DOMAIN m_clientBySocket : f \in Fds /\ f # Closed
  BY FdIsOpen DEF NetType
<1> QED BY <1>1 DEF PeerInv, TableOk, HasSocket

-----------------------------------------------------------------------------
(* Calls of clients.                                                       *)

LEMMA InvRegisterConnect ==
  ASSUME TcpAssumption, Careful, NetInv, NEW c \in Peers, registerConnect(c)
  PROVE  NetInv'
<1> USE DEF NetInv
<1>1. /\ c \in Clients /\ client[c].m_fd = Closed /\ ~client[c].m_connectingFlag /\ client[c].actor = "live"
      /\ client[c] \in PeerType /\ ~client[c].m_inSendQueueFlag /\ ~client[c].m_inConnectQueueFlag
  BY DEF registerConnect, NetType, PeerInv, PeerOk, Live, Careful
<1> DEFINE m == [client[c] EXCEPT !.m_connectingFlag = TRUE, !.m_inConnectQueueFlag = TRUE]
<1>2. client' = [client EXCEPT ![c] = m]
  BY DEF registerConnect, NetType
<1>3. m \in PeerType /\ m = [client[c] EXCEPT !.m_connectingFlag = TRUE, !.m_inConnectQueueFlag = TRUE]
  BY <1>1 DEF PeerType
<1> HIDE DEF m
<1>4. /\ client' \in [Peers -> PeerType] /\ client'[c] = m
      /\ \A d \in Peers : d # c => client'[d] = client[d]
  BY <1>2, <1>3, OnePeer
<1>5. /\ m_connectQueue' = Append(m_connectQueue, c) /\ registration' = registerCallbackOnce(registration, "connect")
      /\ UNCHANGED <<server, tables, m_listenQueue, m_sendQueue, m_readQueue, running, socket>>
  BY <1>1 DEF registerConnect
<1>6. /\ m_connectQueue' \in Seq(Clients)
      /\ \A b : InChain(m_connectQueue', b) <=> InChain(m_connectQueue, b) \/ b = c
      /\ IsInjective(m_connectQueue) /\ ~InChain(m_connectQueue, c) => IsInjective(m_connectQueue')
  BY <1>1, <1>5, AppendChain DEF NetType
<1>7. NetType'
  BY <1>4, <1>5, <1>6 DEF NetType, tables, registerCallbackOnce, Callbacks
<1>8. PeerInv'
  <2>1. ~HasSocket(c)
    BY <1>1, NoSocketOf
  <2>2. m.m_fd = Closed /\ m.m_connectingFlag /\ m.m_inConnectQueueFlag /\ m.actor = "live"
    BY <1>1, <1>3 DEF PeerType
  <2>3. \A f \in DOMAIN m_clientBySocket : m_clientBySocket[f] \in Peers \ {c}
    BY <2>1 DEF NetType, HasSocket
  <2>4. \A f \in DOMAIN m_clientBySocket : TableOk(f)'
    BY <1>4, <1>5, <2>3 DEF PeerInv, TableOk, tables
  <2>5. \A d \in Peers \ {c} : PeerOk(d)'
    BY <1>4, <1>5, <1>6 DEF PeerInv, PeerOk, tables, HasSocket
  <2>6. PeerOk(c)'
    BY <1>4, <1>5, <1>6, <2>1, <2>2 DEF PeerOk, tables, HasSocket
  <2>7. IsInjective(m_connectQueue')
    BY <1>1, <1>6 DEF PeerInv, PeerOk
  <2> QED BY <1>5, <2>4, <2>5, <2>6, <2>7 DEF PeerInv, tables
<1>9. SendInv'
  <2>1. m.m_fd = Closed /\ m.content = client[c].content /\ ~m.m_inSendQueueFlag
    BY <1>1, <1>3 DEF PeerType
  <2> QED BY <1>1, <1>4, <1>5, <2>1 DEF SendInv, InChain
<1>10. ServerInv'
  BY <1>5, ServerFrame DEF tables
<1>11. ReadInv'
  BY <1>1, <1>3, <1>4, <1>5, ReadFrame DEF tables, PeerType
<1> QED BY <1>7, <1>8, <1>9, <1>10, <1>11

LEMMA InvSendBase ==
  ASSUME TcpAssumption, NetInv, NEW c \in Peers, NEW size \in 1 .. SendBufferSize, sendBase(c, size)
  PROVE  NetInv'
<1> USE DEF NetInv
<1>1. /\ client[c].m_fd # Closed /\ client[c].content + size \in 1 .. SendBufferSize
      /\ client[c] \in PeerType /\ ~client[c].m_connectingFlag /\ client[c].m_fd \in Fds
  BY DEF sendBase, NetType, PeerInv, PeerOk, TcpAssumption, PeerType
<1> DEFINE m == [client[c] EXCEPT !.content = client[c].content + size, !.m_inSendQueueFlag = TRUE]
<1>2. client' = [client EXCEPT ![c] = m]
  BY DEF sendBase, NetType
<1>3. /\ m \in PeerType /\ m.m_fd = client[c].m_fd /\ m.actor = client[c].actor
      /\ m.m_connectingFlag = client[c].m_connectingFlag /\ m.m_inConnectQueueFlag = client[c].m_inConnectQueueFlag
      /\ m.m_messageToReadFlag = client[c].m_messageToReadFlag /\ m.m_inSendQueueFlag
      /\ m.content = client[c].content + size
  <2>1. client[c].content + size \in 0 .. SendBufferSize
    BY <1>1
  <2>2. m \in PeerType
    BY <1>1, <2>1 DEF PeerType
  <2> QED BY <1>1, <2>2 DEF PeerType
<1> HIDE DEF m
<1>4. /\ client' \in [Peers -> PeerType] /\ client'[c] = m
      /\ \A d \in Peers : d # c => client'[d] = client[d]
  BY <1>2, <1>3, OnePeer
<1>5. UNCHANGED <<server, tables, m_connectQueue, m_listenQueue, m_readQueue, running, socket>>
  BY DEF sendBase
<1>6. /\ m_sendQueue' \in Seq(Fds) /\ InChain(m_sendQueue', client[c].m_fd)
      /\ \A b : InChain(m_sendQueue, b) => InChain(m_sendQueue', b)
      /\ registration' \in RegType
  <2>1. CASE client[c].m_inSendQueueFlag
    BY <1>1, <2>1 DEF sendBase, NetType, SendInv
  <2>2. CASE ~client[c].m_inSendQueueFlag
    <3>1. m_sendQueue' = Append(m_sendQueue, client[c].m_fd) /\ registration' = registerCallbackOnce(registration, "send")
      BY <2>2 DEF sendBase
    <3>2. /\ m_sendQueue' \in Seq(Fds)
          /\ \A b : InChain(m_sendQueue', b) <=> InChain(m_sendQueue, b) \/ b = client[c].m_fd
      BY <1>1, <3>1, AppendChain DEF NetType
    <3> QED BY <3>1, <3>2 DEF registerCallbackOnce, Callbacks, NetType
  <2> QED BY <2>1, <2>2
<1>7. NetType'
  BY <1>4, <1>5, <1>6 DEF NetType, tables
<1>8. PeerInv'
  BY <1>3, <1>4, <1>5, PeerFrame DEF tables, PeerInv, TableOk
<1>9. SendInv'
  BY <1>1, <1>3, <1>4, <1>6 DEF SendInv
<1>10. ServerInv'
  BY <1>5, ServerFrame DEF tables
<1>11. ReadInv'
  BY <1>3, <1>4, <1>5, ReadFrame DEF tables
<1> QED BY <1>7, <1>8, <1>9, <1>10, <1>11

LEMMA InvSetAutoRead ==
  ASSUME NetInv, NEW c \in Peers, NEW autoread \in BOOLEAN, setAutoRead(c, autoread)
  PROVE  NetInv'
<1> USE DEF NetInv
<1> DEFINE m == [client[c] EXCEPT !.m_autoreadFlag = autoread]
<1>2. client' = [client EXCEPT ![c] = m]
  BY DEF setAutoRead, NetType
<1>3. /\ m \in PeerType /\ m.m_fd = client[c].m_fd /\ m.actor = client[c].actor
      /\ m.m_connectingFlag = client[c].m_connectingFlag /\ m.m_inConnectQueueFlag = client[c].m_inConnectQueueFlag
      /\ m.m_messageToReadFlag = client[c].m_messageToReadFlag /\ m.m_inSendQueueFlag = client[c].m_inSendQueueFlag
      /\ m.content = client[c].content
  <2>1. client[c] \in PeerType
    BY DEF NetType
  <2>2. m \in PeerType
    BY <2>1 DEF PeerType
  <2> QED BY <2>1, <2>2 DEF PeerType
<1> HIDE DEF m
<1>4. /\ client' \in [Peers -> PeerType] /\ client'[c] = m
      /\ \A d \in Peers : d # c => client'[d] = client[d]
  BY <1>2, <1>3, OnePeer
<1>5. UNCHANGED <<server, tables, queues, registration, running, socket>>
  BY DEF setAutoRead
<1>7. NetType'
  BY <1>4, <1>5 DEF NetType, tables, queues
<1>8. PeerInv'
  BY <1>3, <1>4, <1>5, PeerFrame DEF tables, queues, PeerInv, TableOk
<1>9. SendInv'
  BY <1>3, <1>4, <1>5, SendFrame DEF queues
<1>10. ServerInv'
  BY <1>5, ServerFrame DEF tables, queues
<1>11. ReadInv'
  BY <1>3, <1>4, <1>5, ReadFrame DEF tables, queues
<1> QED BY <1>7, <1>8, <1>9, <1>10, <1>11

-----------------------------------------------------------------------------
(* Sockets that are closed, with those who have them.                      *)

\* The clients of E and the servers of S lose their sockets, which are those of F.
Closing(E, S, F) ==
  /\ \A f \in DOMAIN m_clientBySocket : f \in F <=> m_clientBySocket[f] \in E
  /\ \A f \in DOMAIN m_serverBySocket : f \in F <=> m_serverBySocket[f] \in S
  /\ DOMAIN m_clientBySocket' = DOMAIN m_clientBySocket \ F
  /\ \A f \in DOMAIN m_clientBySocket' : m_clientBySocket'[f] = m_clientBySocket[f]
  /\ DOMAIN m_serverBySocket' = DOMAIN m_serverBySocket \ F
  /\ \A f \in DOMAIN m_serverBySocket' : m_serverBySocket'[f] = m_serverBySocket[f]
  /\ DOMAIN m_connectionPending' = DOMAIN m_connectionPending \ F
  /\ socket' = CloseAll(socket, F) /\ UNCHANGED queues
  /\ client' \in [Peers -> PeerType] /\ server' \in [Servers -> ServerType]
  /\ \A c \in Peers \ E : client'[c] = client[c]
  /\ \A c \in E : /\ client'[c].m_fd = Closed /\ ~client'[c].m_connectingFlag /\ ~client'[c].m_inConnectQueueFlag
                  /\ client'[c].content = 0 /\ ~client[c].m_inConnectQueueFlag
  /\ \A s \in Servers \ S : server'[s] = server[s]
  /\ \A s \in S : server'[s].m_fd = Closed /\ ~server'[s].m_registeredListen /\ ~server[s].m_registeredListen
  /\ registration' \in RegType
  /\ running' \in RunType
  /\ running'.events \subseteq running.events
  /\ \A f \in Fds \ F : <<f, "in">> \in running.events => <<f, "in">> \in running'.events
  /\ running'.events # {} => running'.callback = "epoll" /\ running'.count = 1

\* Sockets that are closed together with those who have them leave the rest in order.
LEMMA Ends ==
  ASSUME TcpAssumption, NetInv, NEW E \in SUBSET Peers, NEW S \in SUBSET Servers, NEW F, Closing(E, S, F)
  PROVE  NetInv'
<1> USE DEF NetInv, Closing
<1>1. /\ socket' \in [Fds -> SocketType]
      /\ \A f \in Fds : f \notin F => socket'[f] = socket[f]
      /\ \A f \in Fds : f \in F => socket'[f] = NoSocket
  BY DEF NetType, CloseAll, NoSocket, SocketType
<1>2. /\ m_connectQueue' = m_connectQueue /\ m_listenQueue' = m_listenQueue
      /\ m_sendQueue' = m_sendQueue /\ m_readQueue' = m_readQueue
  BY DEF queues
<1>3. /\ \A f \in DOMAIN m_clientBySocket : f \in Fds /\ m_clientBySocket[f] \in Peers
      /\ \A f \in DOMAIN m_serverBySocket : f \in Fds /\ m_serverBySocket[f] \in Servers
  BY DEF NetType
<1>4. NetType'
  BY <1>1, <1>2 DEF NetType
<1>5. PeerInv'
  <2>1. \A f \in DOMAIN m_clientBySocket' : TableOk(f)'
    BY <1>1, <1>3 DEF PeerInv, TableOk
  <2>2. \A f, g \in DOMAIN m_clientBySocket' : m_clientBySocket'[f] = m_clientBySocket'[g] => f = g
    BY DEF PeerInv
  <2>3. \A c \in Peers \ E : HasSocket(c)' <=> HasSocket(c)
    BY DEF HasSocket
  <2>4. \A c \in Peers \ E : PeerOk(c)'
    BY <1>2, <2>3 DEF PeerInv, PeerOk, InChain
  <2>5. \A c \in E : PeerOk(c)'
    BY <1>2 DEF PeerInv, PeerOk, InChain
  <2> QED BY <1>2, <2>1, <2>2, <2>4, <2>5 DEF PeerInv
<1>6. ServerInv'
  <2>1. \A f \in DOMAIN m_serverBySocket' : socket'[f].state = "listening" /\ server'[m_serverBySocket'[f]].m_fd = f
    BY <1>1, <1>3 DEF ServerInv
  <2> QED BY <1>2, <2>1 DEF ServerInv, InChain
<1>7. SendInv'
  BY <1>2 DEF SendInv, InChain
<1>8. ReadInv'
  <2>1. \A f \in DOMAIN m_clientBySocket' : ReadOk(f)'
    BY <1>1, <1>2, <1>3 DEF ReadInv, ReadOk, InChain
  <2>2. /\ \A f \in Fds : socket'[f].state = "connecting" => socket'[f].unread = 0
        /\ \A f \in DOMAIN m_connectionPending' : socket'[f].state \in {"connecting", "up"} => socket'[f].out
    BY <1>1, <1>3 DEF ReadInv, PeerInv, NoSocket
  <2> QED BY <2>1, <2>2 DEF ReadInv
<1> QED BY <1>4, <1>5, <1>6, <1>7, <1>8

\* What the end of disconnect() takes out of the chain.
LEMMA UnregisteredType ==
  ASSUME NEW r \in RegType, NEW clients, NEW servers
  PROVE  /\ Unregistered(r, clients, servers) \in RegType
         /\ Unregistered(r, clients, servers).m_isRegisteredFlag = r.m_isRegisteredFlag
         /\ Unregistered(r, clients, servers).chain \subseteq r.chain
         /\ r.chain \ {"send", "epoll"} \subseteq Unregistered(r, clients, servers).chain
BY DEF Unregistered

\* What registerCallbackOnce() adds.
LEMMA RegisteredType ==
  ASSUME NEW r \in RegType, NEW k \in Callbacks
  PROVE  /\ registerCallbackOnce(r, k) \in RegType
         /\ registerCallbackOnce(r, k).m_isRegisteredFlag = r.m_isRegisteredFlag \cup {k}
         /\ registerCallbackOnce(r, k).chain = IF k \in r.m_isRegisteredFlag THEN r.chain ELSE r.chain \cup {k}
BY DEF registerCallbackOnce

\* A client ends, with its socket if it has one.
LEMMA PeerEnds ==
  ASSUME TcpAssumption, NetInv, NEW c \in Peers, NEW m \in PeerType, client' = [client EXCEPT ![c] = m],
         m.m_fd = Closed, ~m.m_connectingFlag, m.content = 0,
         m.m_inConnectQueueFlag = client[c].m_inConnectQueueFlag \/ ~m.m_inConnectQueueFlag, Settled(c),
         IF client[c].m_fd = Closed THEN UNCHANGED <<socket, tables, registration>> ELSE disconnect({client[c].m_fd}),
         UNCHANGED <<server, queues, running>>
  PROVE  NetInv'
<1>1. ~client[c].m_connectingFlag /\ client[c].m_fd \notin DOMAIN m_connectionPending /\ ~client[c].m_inConnectQueueFlag
  BY DEF Settled, NetInv, PeerInv, PeerOk
<1>2. /\ client' \in [Peers -> PeerType] /\ client'[c] = m
      /\ \A d \in Peers : d # c => client'[d] = client[d]
  BY OnePeer DEF NetInv
<1>3. /\ server' \in [Servers -> ServerType]
      /\ registration \in RegType
      /\ running' \in RunType
      /\ running'.events # {} => running'.callback = "epoll" /\ running'.count = 1
  BY DEF NetInv, NetType, ReadInv
<1>4. CASE client[c].m_fd = Closed
  <2>1. ~HasSocket(c)
    BY <1>1, <1>4, NoSocketOf DEF NetInv
  <2>2. /\ DOMAIN m_clientBySocket' = DOMAIN m_clientBySocket \ {} /\ DOMAIN m_serverBySocket' = DOMAIN m_serverBySocket \ {}
        /\ DOMAIN m_connectionPending' = DOMAIN m_connectionPending \ {}
        /\ m_clientBySocket' = m_clientBySocket /\ m_serverBySocket' = m_serverBySocket
        /\ UNCHANGED registration
    BY <1>4 DEF tables
  <2>3. socket' = CloseAll(socket, {})
    BY <1>4 DEF CloseAll, NetInv, NetType
  <2>4. Closing({c}, {}, {})
    BY <1>1, <1>2, <1>3, <2>1, <2>2, <2>3 DEF Closing, HasSocket
  <2> QED BY <2>4, Ends
<1>5. CASE client[c].m_fd # Closed
  <2>1. PICK f \in Fds : f = client[c].m_fd
    BY <1>5 DEF NetInv, NetType, PeerType
  <2>2. f \in DOMAIN m_clientBySocket /\ m_clientBySocket[f] = c
    BY <1>5, <2>1 DEF NetInv, PeerInv, PeerOk
  <2>3. f \notin DOMAIN m_serverBySocket
    BY <2>2 DEF NetInv, PeerInv, TableOk, ServerInv
  <2>4. \A g \in DOMAIN m_clientBySocket : m_clientBySocket[g] = c => g = f
    BY <2>2 DEF NetInv, PeerInv
  <2>5. /\ DOMAIN m_clientBySocket' = DOMAIN m_clientBySocket \ {f}
        /\ \A g \in DOMAIN m_clientBySocket' : m_clientBySocket'[g] = m_clientBySocket[g]
        /\ DOMAIN m_serverBySocket' = DOMAIN m_serverBySocket \ {f}
        /\ \A g \in DOMAIN m_serverBySocket' : m_serverBySocket'[g] = m_serverBySocket[g]
        /\ socket' = CloseAll(socket, {f})
    BY <1>5, <2>1 DEF disconnect, Dropped
  <2>6. registration' \in RegType
    BY <1>3, <1>5, UnregisteredType DEF disconnect
  <2>7. DOMAIN m_connectionPending' = DOMAIN m_connectionPending \ {f}
    BY <1>1, <1>5, <2>1 DEF disconnect
  <2>8. Closing({c}, {}, {f})
    BY <1>1, <1>2, <1>3, <2>2, <2>3, <2>4, <2>5, <2>6, <2>7 DEF Closing
  <2> QED BY <2>8, Ends
<1> QED BY <1>4, <1>5

\* What selfDestroy() makes of a client's members.
LEMMA SelfDestroyedType ==
  ASSUME TcpAssumption, NEW m \in PeerType
  PROVE  /\ selfDestroyed(m) \in PeerType /\ selfDestroyed(m).m_fd = Closed
         /\ selfDestroyed(m).m_inConnectQueueFlag = m.m_inConnectQueueFlag
         /\ ~m.m_connectingFlag => ~selfDestroyed(m).m_connectingFlag
         /\ (m.m_fd = Closed => m.content = 0) => selfDestroyed(m).content = 0
<1>1. 0 \in 0 .. SendBufferSize
  BY DEF TcpAssumption
<1> QED BY <1>1 DEF selfDestroyed, PeerType, Closed

LEMMA InvSelfDestroy ==
  ASSUME TcpAssumption, Careful, NetInv, NEW c \in Peers, selfDestroy(c)
  PROVE  NetInv'
<1>1. Settled(c) /\ client[c] \in PeerType /\ (client[c].m_fd = Closed => client[c].content = 0)
  BY DEF selfDestroy, Careful, NetInv, NetType, SendInv
<1> DEFINE m == selfDestroyed(client[c])
<1>2. /\ m \in PeerType /\ m.m_fd = Closed /\ m.m_inConnectQueueFlag = client[c].m_inConnectQueueFlag
      /\ ~m.m_connectingFlag /\ m.content = 0
  BY <1>1, SelfDestroyedType DEF Settled
<1>3. client' = [client EXCEPT ![c] = m]
  BY DEF selfDestroy
<1> HIDE DEF m
<1> QED BY <1>1, <1>2, <1>3, PeerEnds DEF selfDestroy

LEMMA InvDisconnectBase ==
  ASSUME TcpAssumption, Careful, NetInv, NEW c \in Peers, disconnectBase(c)
  PROVE  NetInv'
<1>1. Settled(c) /\ client[c] \in PeerType /\ (client[c].m_fd = Closed => client[c].content = 0)
  BY DEF disconnectBase, Careful, NetInv, NetType, SendInv
<1>2. PICK d \in PeerType : d = selfDestroyed(client[c])
  BY <1>1, SelfDestroyedType
<1> DEFINE m == [d EXCEPT !.content = 0, !.m_connectingFlag = FALSE]
<1>3. /\ d.m_fd = Closed /\ d.m_inConnectQueueFlag = client[c].m_inConnectQueueFlag
  BY <1>1, <1>2, SelfDestroyedType
<1>4. m \in PeerType
  BY <1>2, 0 \in 0 .. SendBufferSize DEF PeerType, TcpAssumption
<1>5. /\ m.m_fd = Closed /\ m.m_inConnectQueueFlag = client[c].m_inConnectQueueFlag
      /\ ~m.m_connectingFlag /\ m.content = 0
  BY <1>2, <1>3 DEF PeerType
<1>6. client' = [client EXCEPT ![c] = m]
  BY <1>2 DEF disconnectBase
<1> HIDE DEF m
<1> QED BY <1>1, <1>4, <1>5, <1>6, PeerEnds DEF disconnectBase

\* The members of a client that is constructed.
LEMMA NewClientType ==
  ASSUME TcpAssumption
  PROVE  /\ NewClient \in PeerType /\ NewClient.m_fd = Closed /\ NewClient.content = 0 /\ NewClient.actor = "live"
         /\ ~NewClient.m_connectingFlag /\ ~NewClient.m_inSendQueueFlag /\ ~NewClient.m_inConnectQueueFlag
BY 0 \in 0 .. SendBufferSize DEF NewClient, PeerType, Closed, TcpAssumption

LEMMA InvOnDestroyRequest ==
  ASSUME TcpAssumption, NetInv, NEW c \in Peers, onDestroyRequest(c)
  PROVE  NetInv'
<1>1. client[c].actor = "leaving" /\ client[c] \in PeerType
  BY DEF onDestroyRequest, NetInv, NetType
<1>2. client[c].m_fd = Closed /\ ~client[c].m_connectingFlag
  BY <1>1 DEF NetInv, PeerInv, TableOk, PeerOk
<1>3. Closed \notin DOMAIN m_connectionPending
  BY FdIsOpen DEF NetInv, PeerInv, NetType
<1> DEFINE m == [NewClient EXCEPT !.actor = "gone"]
<1>4. /\ m \in PeerType /\ m.m_fd = Closed /\ m.content = 0 /\ ~m.m_connectingFlag /\ ~m.m_inConnectQueueFlag
  BY NewClientType DEF PeerType
<1>5. client' = [client EXCEPT ![c] = m]
  BY DEF onDestroyRequest
<1> HIDE DEF m
<1> QED BY <1>2, <1>3, <1>4, <1>5, PeerEnds DEF onDestroyRequest, Settled

-----------------------------------------------------------------------------
(* Calls of servers.                                                       *)

\* One member of server changes.
LEMMA OneServer ==
  ASSUME NetType, NEW s \in Servers, NEW m \in ServerType, server' = [server EXCEPT ![s] = m]
  PROVE  /\ server' \in [Servers -> ServerType] /\ server'[s] = m
         /\ \A t \in Servers : t # s => server'[t] = server[t]
BY DEF NetType

LEMMA InvRegisterListen ==
  ASSUME NetInv, NEW s \in Servers, registerListen(s)
  PROVE  NetInv'
<1> USE DEF NetInv
<1>1. /\ server[s] \in ServerType /\ server[s].m_fd = Closed /\ server[s].actor = "live" /\ ~server[s].m_registeredListen
      /\ registration' = registerCallbackOnce(registration, "listen") /\ m_listenQueue' = Append(m_listenQueue, s)
      /\ UNCHANGED <<client, tables, m_connectQueue, m_sendQueue, m_readQueue, running, socket>>
  BY DEF registerListen, NetType
<1> DEFINE m == [server[s] EXCEPT !.m_registeredListen = TRUE]
<1>2. m \in ServerType /\ m.m_fd = Closed /\ m.m_registeredListen /\ m.actor = "live"
  BY <1>1 DEF ServerType
<1>3. server' = [server EXCEPT ![s] = m]
  BY DEF registerListen
<1> HIDE DEF m
<1>4. /\ server' \in [Servers -> ServerType] /\ server'[s] = m
      /\ \A t \in Servers : t # s => server'[t] = server[t]
  BY <1>2, <1>3, OneServer
<1>5. /\ m_listenQueue' \in Seq(Servers)
      /\ \A b : InChain(m_listenQueue', b) <=> InChain(m_listenQueue, b) \/ b = s
      /\ IsInjective(m_listenQueue) /\ ~InChain(m_listenQueue, s) => IsInjective(m_listenQueue')
  BY <1>1, AppendChain DEF NetType
<1>6. registration' \in RegType
  BY <1>1, RegisteredType DEF NetType, Callbacks
<1>7. NetType'
  BY <1>1, <1>4, <1>5, <1>6 DEF NetType, tables
<1>8. PeerInv'
  BY <1>1, PeerFrame DEF tables, PeerInv, TableOk
<1>9. SendInv'
  BY <1>1, SendFrame
<1>10. ServerInv'
  <2>1. \A f \in DOMAIN m_serverBySocket : f # Closed /\ m_serverBySocket[f] \in Servers /\ m_serverBySocket[f] # s
    BY <1>1 DEF NetType, ServerInv, Fds, Closed
  <2> QED BY <1>1, <1>2, <1>4, <1>5, <2>1 DEF ServerInv, tables
<1>11. ReadInv'
  BY <1>1, ReadFrame DEF tables
<1> QED BY <1>7, <1>8, <1>9, <1>10, <1>11

\* No descriptor is in both tables.
LEMMA Disjoint ==
  ASSUME PeerInv, ServerInv, NEW f \in DOMAIN m_clientBySocket
  PROVE  f \notin DOMAIN m_serverBySocket
BY DEF PeerInv, TableOk, ServerInv

\* The facts of NetInv that most steps need.
LEMMA TypesKept ==
  ASSUME NetInv
  PROVE  /\ client \in [Peers -> PeerType] /\ server \in [Servers -> ServerType]
         /\ registration \in RegType
         /\ running \in RunType
         /\ running.events # {} => running.callback = "epoll" /\ running.count = 1
         /\ \A f \in DOMAIN m_clientBySocket : f \in Fds /\ f # Closed /\ m_clientBySocket[f] \in Peers
         /\ \A f \in DOMAIN m_serverBySocket : f \in Fds /\ f # Closed /\ m_serverBySocket[f] \in Servers
         /\ \A f \in DOMAIN m_connectionPending : f \in DOMAIN m_clientBySocket
<1>1. \A f \in Fds : f # Closed
  BY DEF Fds, Closed
<1> QED BY <1>1 DEF NetInv, NetType, ReadInv, PeerInv

\* The socket of a server, if it has one.
LEMMA SocketOfServer ==
  ASSUME NetInv, NEW s \in Servers
  PROVE  /\ \A f \in DOMAIN m_serverBySocket : f = server[s].m_fd <=> m_serverBySocket[f] = s
         /\ server[s].m_fd \notin DOMAIN m_clientBySocket
         /\ server[s].m_fd \notin DOMAIN m_connectionPending
<1>1. CASE server[s].m_fd = Closed
  BY <1>1, TypesKept DEF NetInv, ServerInv
<1>2. CASE server[s].m_fd # Closed
  <2>1. server[s].m_fd \in DOMAIN m_serverBySocket /\ m_serverBySocket[server[s].m_fd] = s
    BY <1>2 DEF NetInv, ServerInv
  <2> QED BY <2>1, Disjoint, TypesKept DEF NetInv, ServerInv
<1> QED BY <1>1, <1>2

LEMMA InvStopListening ==
  ASSUME TcpAssumption, Careful, NetInv, NEW s \in Servers, stopListening(s)
  PROVE  NetInv'
<1>1. server[s] \in ServerType /\ ~server[s].m_registeredListen /\ disconnect({server[s].m_fd}) /\ UNCHANGED <<client, queues, running>>
  BY DEF stopListening, Careful, NetInv, NetType
<1> DEFINE m == [server[s] EXCEPT !.m_registeredListen = FALSE, !.m_fd = Closed]
<1>2. m \in ServerType /\ m.m_fd = Closed /\ ~m.m_registeredListen
  BY <1>1 DEF ServerType
<1>3. server' = [server EXCEPT ![s] = m]
  BY DEF stopListening, NetInv, NetType
<1> HIDE DEF m
<1>4. /\ server' \in [Servers -> ServerType] /\ server'[s] = m
      /\ \A t \in Servers : t # s => server'[t] = server[t]
  BY <1>2, <1>3, OneServer DEF NetInv
<1>5. PICK f : f = server[s].m_fd
  OBVIOUS
<1>6. /\ DOMAIN m_clientBySocket' = DOMAIN m_clientBySocket \ {f}
      /\ \A g \in DOMAIN m_clientBySocket' : m_clientBySocket'[g] = m_clientBySocket[g]
      /\ DOMAIN m_serverBySocket' = DOMAIN m_serverBySocket \ {f}
      /\ \A g \in DOMAIN m_serverBySocket' : m_serverBySocket'[g] = m_serverBySocket[g]
      /\ socket' = CloseAll(socket, {f})
      /\ m_connectionPending' = m_connectionPending
  BY <1>1, <1>5 DEF disconnect, Dropped
<1>7. registration' \in RegType
  BY <1>1, TypesKept, UnregisteredType DEF disconnect
<1>8. /\ \A g \in DOMAIN m_serverBySocket : g = f <=> m_serverBySocket[g] = s
      /\ f \notin DOMAIN m_clientBySocket /\ f \notin DOMAIN m_connectionPending
  BY <1>5, SocketOfServer
<1>9. Closing({}, {s}, {f})
  <2>1. /\ \A g \in DOMAIN m_clientBySocket : g \in {f} <=> m_clientBySocket[g] \in {}
        /\ \A g \in DOMAIN m_serverBySocket : g \in {f} <=> m_serverBySocket[g] \in {s}
        /\ DOMAIN m_connectionPending' = DOMAIN m_connectionPending \ {f}
    BY <1>6, <1>8
  <2>2. /\ client' \in [Peers -> PeerType] /\ \A c \in Peers \ {} : client'[c] = client[c]
        /\ UNCHANGED queues
    BY <1>1, TypesKept
  <2>3. /\ running' \in RunType
        /\ running'.events # {} => running'.callback = "epoll" /\ running'.count = 1
        /\ running' = running
    BY <1>1, TypesKept
  <2>4. /\ \A t \in Servers \ {s} : server'[t] = server[t]
        /\ \A t \in {s} : server'[t].m_fd = Closed /\ ~server'[t].m_registeredListen /\ ~server[t].m_registeredListen
    BY <1>1, <1>2, <1>4
  <2> QED BY <1>4, <1>6, <1>7, <2>1, <2>2, <2>3, <2>4 DEF Closing
<1> QED BY <1>9, Ends

LEMMA InvServerDestroyed ==
  ASSUME TcpAssumption, Careful, NetInv, NEW s \in Servers, ServerDestroyed(s)
  PROVE  NetInv'
<1>1. PICK ends : ends = {p \in server[s].m_serverProcesses : client[p].actor # "gone"}
  OBVIOUS
<1>2. server[s] \in ServerType /\ ends \in SUBSET Peers
  BY <1>1 DEF NetInv, NetType, ServerType, Peers
<1>3. PICK F : F = {server[s].m_fd} \cup {client[p].m_fd : p \in ends}
  OBVIOUS
<1>4. /\ ~server[s].m_registeredListen /\ (\A p \in ends : Settled(p))
      /\ server' = [server EXCEPT ![s].m_registeredListen = FALSE, ![s].m_fd = Closed, ![s].actor = "gone"]
      /\ client' = [c \in Peers |-> IF c \in ends THEN selfDestroyed(client[c]) ELSE client[c]]
      /\ disconnect(F) /\ UNCHANGED <<queues, running>>
  BY <1>1, <1>3 DEF ServerDestroyed, Careful
<1> DEFINE m == [server[s] EXCEPT !.m_registeredListen = FALSE, !.m_fd = Closed, !.actor = "gone"]
<1>5. m \in ServerType /\ m.m_fd = Closed /\ ~m.m_registeredListen
  BY <1>2 DEF ServerType
<1>6. server' = [server EXCEPT ![s] = m]
  BY <1>4 DEF NetInv, NetType
<1> HIDE DEF m
<1>7. /\ server' \in [Servers -> ServerType] /\ server'[s] = m
      /\ \A t \in Servers : t # s => server'[t] = server[t]
  BY <1>5, <1>6, OneServer DEF NetInv
<1>8. \A c \in ends : /\ client[c] \in PeerType /\ ~client[c].m_connectingFlag /\ ~client[c].m_inConnectQueueFlag
                      /\ client[c].m_fd \notin DOMAIN m_connectionPending
                      /\ client[c].m_fd = Closed => client[c].content = 0
  BY <1>2, <1>4 DEF Settled, NetInv, NetType, PeerInv, PeerOk, SendInv
<1>9. \A c \in ends : /\ selfDestroyed(client[c]) \in PeerType /\ selfDestroyed(client[c]).m_fd = Closed
                      /\ ~selfDestroyed(client[c]).m_inConnectQueueFlag
                      /\ ~selfDestroyed(client[c]).m_connectingFlag
                      /\ selfDestroyed(client[c]).content = 0
  BY <1>8, SelfDestroyedType
<1>10. client' \in [Peers -> PeerType]
  BY <1>4, <1>9, TypesKept
<1>11. /\ \A c \in Peers \ ends : client'[c] = client[c]
       /\ \A c \in ends : /\ client'[c].m_fd = Closed /\ ~client'[c].m_connectingFlag /\ ~client'[c].m_inConnectQueueFlag
                          /\ client'[c].content = 0 /\ ~client[c].m_inConnectQueueFlag
  BY <1>2, <1>4, <1>8, <1>9
<1>12. \A f \in DOMAIN m_clientBySocket : f \in F <=> m_clientBySocket[f] \in ends
  <2> SUFFICES ASSUME NEW f \in DOMAIN m_clientBySocket
               PROVE  f \in F <=> m_clientBySocket[f] \in ends
    OBVIOUS
  <2>1. f # Closed /\ f # server[s].m_fd /\ m_clientBySocket[f] \in Peers
    BY SocketOfServer, TypesKept
  <2>2. ASSUME NEW p \in ends, f = client[p].m_fd PROVE m_clientBySocket[f] = p
    BY <1>2, <2>1, <2>2 DEF NetInv, PeerInv, PeerOk
  <2>3. ASSUME m_clientBySocket[f] \in ends PROVE f = client[m_clientBySocket[f]].m_fd
    BY <1>8, <2>3 DEF NetInv, PeerInv, TableOk
  <2> QED BY <1>3, <2>1, <2>2, <2>3
<1>13. \A f \in DOMAIN m_serverBySocket : f \in F <=> m_serverBySocket[f] = s
  <2> SUFFICES ASSUME NEW f \in DOMAIN m_serverBySocket
               PROVE  f \in F <=> f = server[s].m_fd
    BY SocketOfServer
  <2>1. f # Closed /\ f \notin DOMAIN m_clientBySocket
    BY Disjoint, TypesKept DEF NetInv
  <2>2. ASSUME NEW p \in ends PROVE f # client[p].m_fd
    BY <1>2, <2>1 DEF NetInv, PeerInv, PeerOk
  <2> QED BY <1>3, <2>2
<1>14. \A f \in DOMAIN m_connectionPending : f \notin F
  BY <1>3, <1>8, SocketOfServer
<1>15. /\ DOMAIN m_clientBySocket' = DOMAIN m_clientBySocket \ F
       /\ \A g \in DOMAIN m_clientBySocket' : m_clientBySocket'[g] = m_clientBySocket[g]
       /\ DOMAIN m_serverBySocket' = DOMAIN m_serverBySocket \ F
       /\ \A g \in DOMAIN m_serverBySocket' : m_serverBySocket'[g] = m_serverBySocket[g]
       /\ socket' = CloseAll(socket, F)
       /\ m_connectionPending' = m_connectionPending
  BY <1>4 DEF disconnect, Dropped
<1>16. registration' \in RegType
  BY <1>4, TypesKept, UnregisteredType DEF disconnect
<1>17. Closing(ends, {s}, F)
  <2>1. /\ \A g \in DOMAIN m_serverBySocket : g \in F <=> m_serverBySocket[g] \in {s}
        /\ DOMAIN m_connectionPending' = DOMAIN m_connectionPending \ F
    BY <1>13, <1>14, <1>15
  <2>2. UNCHANGED queues
    BY <1>4
  <2>3. /\ running' \in RunType
        /\ running'.events # {} => running'.callback = "epoll" /\ running'.count = 1
        /\ running' = running
    BY <1>4, TypesKept
  <2>4. /\ \A t \in Servers \ {s} : server'[t] = server[t]
        /\ \A t \in {s} : server'[t].m_fd = Closed /\ ~server'[t].m_registeredListen /\ ~server[t].m_registeredListen
    BY <1>4, <1>5, <1>7
  <2> QED BY <1>7, <1>10, <1>11, <1>12, <1>15, <1>16, <2>1, <2>2, <2>3, <2>4 DEF Closing
<1> QED BY <1>2, <1>17, Ends

LEMMA InvDestroyNotification ==
  ASSUME NetInv, NEW s \in Servers, NEW p \in Processes, DestroyNotification(s, p)
  PROVE  NetInv'
<1> USE DEF NetInv
<1>1. /\ server[s] \in ServerType /\ UNCHANGED <<client, tables, queues, registration, running, socket>>
  BY DEF DestroyNotification, NetType
<1> DEFINE m == [server[s] EXCEPT !.m_serverProcesses = server[s].m_serverProcesses \ {p}]
<1>2. /\ m \in ServerType /\ m.m_fd = server[s].m_fd /\ m.m_registeredListen = server[s].m_registeredListen
      /\ m.actor = server[s].actor
  BY <1>1 DEF ServerType
<1>3. server' = [server EXCEPT ![s] = m]
  BY DEF DestroyNotification
<1> HIDE DEF m
<1>4. /\ server' \in [Servers -> ServerType] /\ server'[s] = m
      /\ \A t \in Servers : t # s => server'[t] = server[t]
  BY <1>2, <1>3, OneServer
<1>7. NetType'
  BY <1>1, <1>4 DEF NetType, tables, queues
<1>8. PeerInv'
  BY <1>1, PeerFrame DEF tables, queues, PeerInv, TableOk
<1>9. SendInv'
  BY <1>1, SendFrame DEF queues
<1>10. ServerInv'
  <2>1. \A f \in DOMAIN m_serverBySocket : m_serverBySocket[f] \in Servers
    BY DEF NetType
  <2> QED BY <1>1, <1>2, <1>4, <2>1 DEF ServerInv, tables, queues, InChain
<1>11. ReadInv'
  BY <1>1, ReadFrame DEF tables, queues
<1> QED BY <1>7, <1>8, <1>9, <1>10, <1>11

-----------------------------------------------------------------------------
(* Callbacks: the steps between their loops.                               *)

\* Only the callback under way and the registration change.
LEMMA OnlyRunning ==
  ASSUME NetInv, UNCHANGED <<client, server, tables, queues, socket>>,
         registration' \in RegType,
         running' \in RunType,
         running.events = {}, running'.events = {}
  PROVE  NetInv'
<1> USE DEF NetInv
<1>1. NetType'
  BY DEF NetType, tables, queues
<1>2. PeerInv'
  BY PeerFrame DEF tables, queues, PeerInv, TableOk
<1>3. ServerInv'
  BY ServerFrame DEF tables, queues
<1>4. SendInv'
  BY SendFrame DEF queues
<1>5. ReadInv'
  BY DEF ReadInv, ReadOk, tables, queues
<1> QED BY <1>1, <1>2, <1>3, <1>4, <1>5

LEMMA IdleType ==
  /\ Idle \in RunType
  /\ Idle.callback = "none" /\ Idle.events = {}
BY DEF Idle

LEMMA InvCall ==
  ASSUME TcpAssumption, NetInv, NEW callback \in Callbacks, Call(callback)
  PROVE  NetInv'
<1>1. /\ UNCHANGED <<client, server, tables, queues, socket>> /\ running.events = {}
      /\ registration' = [m_isRegisteredFlag |-> registration.m_isRegisteredFlag \ {callback},
                          chain |-> registration.chain \ {callback}]
  BY DEF Call, Idle
<1>2. running' \in RunType /\ running'.events = {}
  BY DEF Call, Idle, TcpAssumption
<1>3. registration' \in RegType
  BY <1>1, TypesKept
<1> QED BY <1>1, <1>2, <1>3, OnlyRunning

LEMMA InvEnds ==
  ASSUME NetInv, ConnectEnd \/ ListenEnd \/ SendEnd
  PROVE  NetInv'
<1>1. /\ UNCHANGED <<client, server, tables, queues, socket>> /\ running' = Idle /\ running.callback # "epoll"
  BY DEF ConnectEnd, ListenEnd, SendEnd
<1>2. registration' \in RegType
  <2>1. registration' = registration \/ registration' = registerCallbackOnce(registration, "epoll")
    BY DEF ConnectEnd, ListenEnd, SendEnd
  <2>2. registerCallbackOnce(registration, "epoll") \in RegType
    BY TypesKept, RegisteredType DEF Callbacks
  <2> QED BY <2>1, <2>2, TypesKept
<1> QED BY <1>1, <1>2, IdleType, TypesKept, OnlyRunning

LEMMA InvEpollEnds ==
  ASSUME TcpAssumption, NetInv, EventsEnd \/ EpollEnd
  PROVE  NetInv'
<1>1. /\ UNCHANGED <<client, server, tables, queues, socket>> /\ running.events = {}
  BY TypesKept, TcpAssumption DEF EventsEnd, EpollEnd
<1>2. registration' \in RegType
  <2>1. registration' = registration \/ registration' = registerCallbackOnce(registration, "epoll")
    BY DEF EventsEnd, EpollEnd
  <2>2. registerCallbackOnce(registration, "epoll") \in RegType
    BY TypesKept, RegisteredType DEF Callbacks
  <2> QED BY <2>1, <2>2, TypesKept
<1>3. running' \in RunType /\ running'.events = {}
  <2>1. CASE EventsEnd
    <3>1. 2 + MaxReceivePerLoop \in Nat
      BY DEF TcpAssumption
    <3> QED BY <1>1, <2>1, <3>1, TypesKept DEF EventsEnd
  <2> QED BY <2>1, IdleType DEF EpollEnd
<1> QED BY <1>1, <1>2, <1>3, OnlyRunning

-----------------------------------------------------------------------------
(* The connect callback.                                                   *)

\* The first client of the queue is connecting and has no socket.
LEMMA FirstConnects ==
  ASSUME NetInv, m_connectQueue # << >>, NEW c, c = Head(m_connectQueue)
  PROVE  /\ c \in Peers /\ client[c].m_connectingFlag /\ client[c].m_inConnectQueueFlag /\ client[c].m_fd = Closed
         /\ client[c].actor = "live" /\ ~HasSocket(c) /\ client[c].content = 0 /\ ~client[c].m_inSendQueueFlag
         /\ client[c] \in PeerType
         /\ Tail(m_connectQueue) \in Seq(Clients) /\ IsInjective(Tail(m_connectQueue))
         /\ \A d : InChain(Tail(m_connectQueue), d) <=> InChain(m_connectQueue, d) /\ d # c
<1>1. /\ c \in Clients /\ InChain(m_connectQueue, c) /\ Tail(m_connectQueue) \in Seq(Clients)
      /\ \A d : InChain(m_connectQueue, d) <=> InChain(Tail(m_connectQueue), d) \/ d = c
      /\ IsInjective(Tail(m_connectQueue)) /\ ~InChain(Tail(m_connectQueue), c)
  BY HeadChain DEF NetInv, NetType, PeerInv
<1>2. c \in Peers
  BY <1>1 DEF Peers
<1> QED BY <1>1, <1>2 DEF NetInv, NetType, PeerInv, PeerOk, SendInv

\* ConnectFails, ConnectRefused: the client is out of the queue and has no socket.
LEMMA NotConnected ==
  ASSUME TcpAssumption, NetInv, m_connectQueue # << >>, NEW c, c = Head(m_connectQueue),
         m_connectQueue' = Tail(m_connectQueue),
         client' = [client EXCEPT ![c] = [ConnectFailed(@) EXCEPT !.m_inConnectQueueFlag = FALSE]],
         DOMAIN m_clientBySocket' = DOMAIN m_clientBySocket,
         \A f \in DOMAIN m_clientBySocket : m_clientBySocket'[f] = m_clientBySocket[f],
         DOMAIN m_connectionPending' = DOMAIN m_connectionPending,
         registration' \in RegType,
         UNCHANGED <<server, m_serverBySocket, m_listenQueue, m_sendQueue, m_readQueue, running, socket>>
  PROVE  NetInv'
<1> USE DEF NetInv
<1>1. /\ c \in Peers /\ client[c].m_connectingFlag /\ client[c].m_inConnectQueueFlag /\ client[c].m_fd = Closed
      /\ ~HasSocket(c) /\ client[c] \in PeerType
      /\ m_connectQueue' \in Seq(Clients) /\ IsInjective(m_connectQueue')
      /\ \A d : InChain(m_connectQueue', d) <=> InChain(m_connectQueue, d) /\ d # c
  BY FirstConnects
<1> DEFINE m == [ConnectFailed(client[c]) EXCEPT !.m_inConnectQueueFlag = FALSE]
<1>2. m \in PeerType
  BY <1>1, 0 \in 0 .. SendBufferSize DEF PeerType, ConnectFailed, TcpAssumption, Closed
<1>3. /\ m.m_fd = Closed /\ ~m.m_connectingFlag /\ ~m.m_inConnectQueueFlag /\ m.content = 0
  BY <1>1 DEF PeerType, ConnectFailed
<1>4. client' = [client EXCEPT ![c] = m]
  BY <1>1 DEF NetType
<1> HIDE DEF m
<1>5. /\ client' \in [Peers -> PeerType] /\ client'[c] = m
      /\ \A d \in Peers : d # c => client'[d] = client[d]
  BY <1>1, <1>2, <1>4, OnePeer
<1>6. \A f \in DOMAIN m_clientBySocket : m_clientBySocket[f] \in Peers \ {c}
  BY <1>1 DEF NetType, HasSocket
<1>7. NetType'
  BY <1>1, <1>5 DEF NetType
<1>8. PeerInv'
  <2>1. \A f \in DOMAIN m_clientBySocket : TableOk(f)'
    BY <1>5, <1>6 DEF PeerInv, TableOk
  <2>2. \A d \in Peers \ {c} : PeerOk(d)'
    BY <1>1, <1>5, <1>6 DEF PeerInv, PeerOk, HasSocket
  <2>3. PeerOk(c)'
    BY <1>1, <1>3, <1>5 DEF PeerOk
  <2> QED BY <1>1, <2>1, <2>2, <2>3 DEF PeerInv
<1>9. SendInv'
  BY <1>1, <1>3, <1>5 DEF SendInv
<1>10. ServerInv'
  BY ServerFrame
<1>11. ReadInv'
  BY <1>5, <1>6 DEF ReadInv, ReadOk
<1> QED BY <1>7, <1>8, <1>9, <1>10, <1>11

LEMMA InvConnectFails ==
  ASSUME TcpAssumption, NetInv, ConnectFails
  PROVE  NetInv'
<1>1. PICK c : c = Head(m_connectQueue)
  OBVIOUS
<1>2. /\ m_connectQueue # << >> /\ m_connectQueue' = Tail(m_connectQueue)
      /\ client' = [client EXCEPT ![c] = [ConnectFailed(@) EXCEPT !.m_inConnectQueueFlag = FALSE]]
      /\ UNCHANGED <<tables, registration>>
      /\ UNCHANGED <<server, m_serverBySocket, m_listenQueue, m_sendQueue, m_readQueue, running, socket>>
  BY <1>1 DEF ConnectFails, tables
<1> QED BY <1>1, <1>2, NotConnected, TypesKept DEF tables

LEMMA InvConnectRefused ==
  ASSUME TcpAssumption, NetInv, ConnectRefused
  PROVE  NetInv'
<1>1. PICK c : c = Head(m_connectQueue)
  OBVIOUS
<1>2. PICK f \in FreeFds :
        /\ client' = [[client EXCEPT ![c].m_inConnectQueueFlag = FALSE]
                        EXCEPT ![Emplaced(m_clientBySocket, f, c)[f]] = ConnectFailed(@)]
        /\ m_clientBySocket' = Dropped(m_clientBySocket, {f})
        /\ m_connectionPending' = Dropped(m_connectionPending, {f})
  BY <1>1 DEF ConnectRefused
<1>3. /\ m_connectQueue # << >> /\ m_connectQueue' = Tail(m_connectQueue)
      /\ registration' = Unregistered(registration, m_clientBySocket', m_serverBySocket)
      /\ UNCHANGED <<server, m_serverBySocket, m_listenQueue, m_sendQueue, m_readQueue, running, socket>>
  BY DEF ConnectRefused
<1>4. c \in Peers /\ client[c] \in PeerType
  BY <1>1, <1>3, FirstConnects
<1>5. f \notin DOMAIN m_clientBySocket /\ f \notin DOMAIN m_connectionPending
  BY DEF FreeFds, NetInv, PeerInv, TableOk
<1>6. Emplaced(m_clientBySocket, f, c)[f] = c
  BY <1>5 DEF Emplaced
<1>7. client' = [client EXCEPT ![c] = [ConnectFailed(@) EXCEPT !.m_inConnectQueueFlag = FALSE]]
  <2>1. client' = [client EXCEPT ![c] = ConnectFailed([client[c] EXCEPT !.m_inConnectQueueFlag = FALSE])]
    BY <1>2, <1>4, <1>6, TypesKept
  <2>2. ConnectFailed([client[c] EXCEPT !.m_inConnectQueueFlag = FALSE]) = [ConnectFailed(client[c]) EXCEPT !.m_inConnectQueueFlag = FALSE]
    BY <1>4 DEF ConnectFailed, PeerType
  <2> QED BY <2>1, <2>2
<1>8. /\ DOMAIN m_clientBySocket' = DOMAIN m_clientBySocket
      /\ \A g \in DOMAIN m_clientBySocket : m_clientBySocket'[g] = m_clientBySocket[g]
      /\ DOMAIN m_connectionPending' = DOMAIN m_connectionPending
  BY <1>2, <1>5 DEF Dropped
<1>9. registration' \in RegType
  BY <1>3, TypesKept, UnregisteredType
<1> QED BY <1>1, <1>3, <1>7, <1>8, <1>9, NotConnected

\* A socket that is free is in no table.
LEMMA FreeSocket ==
  ASSUME NetInv, NEW f \in FreeFds
  PROVE  /\ f \in Fds /\ f # Closed /\ socket[f].state = "free"
         /\ f \notin DOMAIN m_clientBySocket /\ f \notin DOMAIN m_connectionPending /\ f \notin DOMAIN m_serverBySocket
BY DEF FreeFds, NetInv, PeerInv, TableOk, ServerInv, Fds, Closed

\* The client c, which had none, has the new socket f, pending.
LEMMA NewSocket ==
  ASSUME TcpAssumption, NetInv, NEW c \in Peers, NEW f \in FreeFds, NEW m \in PeerType, NEW x \in SocketType, NEW y,
         client' = [client EXCEPT ![c] = m], ~HasSocket(c),
         m_clientBySocket' = Emplaced(m_clientBySocket, f, c),
         m_connectionPending' = Emplaced(m_connectionPending, f, y),
         m.actor = "live", m.content = 0, ~m.m_inSendQueueFlag, ~m.m_inConnectQueueFlag,
         (m.m_fd = f /\ ~m.m_connectingFlag) \/ (m.m_fd = Closed /\ m.m_connectingFlag),
         x.state \in {"connecting", "up"}, x.out, x.unread = 0,
         socket'[f] = x, socket' \in [Fds -> SocketType],
         \A g \in Fds \ {f} : /\ socket'[g].state = socket[g].state /\ socket'[g].out = socket[g].out
                              /\ socket[g].state = "listening" \/ socket'[g] = socket[g],
         m_connectQueue' \in Seq(Clients), IsInjective(m_connectQueue'),
         \A d : InChain(m_connectQueue', d) <=> InChain(m_connectQueue, d) /\ d # c,
         registration' \in RegType,
         running' \in RunType,
         running'.events \subseteq running.events,
         \A g \in DOMAIN m_clientBySocket : <<g, "in">> \in running.events => <<g, "in">> \in running'.events,
         running'.events # {} => running'.callback = "epoll" /\ running'.count = 1,
         server' \in [Servers -> ServerType],
         \A s \in Servers : /\ server'[s].m_fd = server[s].m_fd /\ server'[s].m_registeredListen = server[s].m_registeredListen
                            /\ server'[s].actor = server[s].actor,
         UNCHANGED <<m_serverBySocket, m_listenQueue, m_sendQueue, m_readQueue>>
  PROVE  NetInv'
<1>1. /\ f \in Fds /\ f # Closed /\ f \notin DOMAIN m_clientBySocket /\ f \notin DOMAIN m_connectionPending
      /\ f \notin DOMAIN m_serverBySocket
  BY FreeSocket
<1>2. /\ DOMAIN m_clientBySocket' = DOMAIN m_clientBySocket \cup {f} /\ m_clientBySocket'[f] = c
      /\ \A g \in DOMAIN m_clientBySocket : m_clientBySocket'[g] = m_clientBySocket[g]
      /\ DOMAIN m_connectionPending' = DOMAIN m_connectionPending \cup {f}
  BY <1>1 DEF Emplaced
<1>3. /\ client' \in [Peers -> PeerType] /\ client'[c] = m
      /\ \A d \in Peers : d # c => client'[d] = client[d]
  BY OnePeer DEF NetInv
<1>4. /\ \A g \in DOMAIN m_clientBySocket : /\ g \in Fds \ {f} /\ g # Closed /\ m_clientBySocket[g] \in Peers \ {c}
                                            /\ socket'[g] = socket[g]
      /\ \A g \in DOMAIN m_serverBySocket : g \in Fds \ {f} /\ m_serverBySocket[g] \in Servers
  <2>1. \A g \in DOMAIN m_clientBySocket : g \in Fds \ {f} /\ g # Closed /\ m_clientBySocket[g] \in Peers \ {c}
    BY <1>1, TypesKept DEF HasSocket
  <2>2. \A g \in DOMAIN m_clientBySocket : socket[g].state # "listening"
    BY DEF NetInv, PeerInv, TableOk
  <2> QED BY <1>1, <2>1, <2>2, TypesKept
<1>5. NetType'
  BY <1>1, <1>2, <1>3, <1>4 DEF NetInv, NetType
<1>6. PeerInv'
  <2>1. \A g \in DOMAIN m_clientBySocket : TableOk(g)'
    BY <1>2, <1>3, <1>4 DEF NetInv, PeerInv, TableOk
  <2>2. TableOk(f)'
    BY <1>2, <1>3 DEF TableOk
  <2>3. \A g, h \in DOMAIN m_clientBySocket' : m_clientBySocket'[g] = m_clientBySocket'[h] => g = h
    BY <1>2, <1>4 DEF NetInv, PeerInv
  <2>4. \A d \in Peers \ {c} : HasSocket(d)' <=> HasSocket(d)
    BY <1>2 DEF HasSocket
  <2>5. \A d \in Peers \ {c} : PeerOk(d)'
    BY <1>2, <1>3, <2>4 DEF NetInv, PeerInv, PeerOk
  <2>6. HasSocket(c)'
    BY <1>2 DEF HasSocket
  <2>7. PeerOk(c)'
    BY <1>1, <1>2, <1>3, <2>6 DEF PeerOk
  <2> QED BY <1>2, <2>1, <2>2, <2>3, <2>5, <2>7 DEF NetInv, PeerInv
<1>7. ServerInv'
  <2>1. \A g \in DOMAIN m_serverBySocket : socket'[g].state = "listening" /\ server'[m_serverBySocket[g]].m_fd = g
    BY <1>4 DEF NetInv, ServerInv
  <2>2. \A s \in Servers : InChain(m_listenQueue', s) <=> InChain(m_listenQueue, s)
    OBVIOUS
  <2> QED BY <2>1, <2>2 DEF NetInv, ServerInv
<1>8. SendInv'
  BY <1>3 DEF NetInv, SendInv, InChain
<1>9. ReadInv'
  <2>1. \A g \in DOMAIN m_clientBySocket : ReadOk(g)'
    BY <1>2, <1>3, <1>4 DEF NetInv, ReadInv, ReadOk, InChain
  <2>2. ReadOk(f)'
    BY DEF ReadOk
  <2>3. /\ \A g \in Fds : socket'[g].state = "connecting" => socket'[g].unread = 0
        /\ \A g \in DOMAIN m_connectionPending' : socket'[g].state \in {"connecting", "up"} => socket'[g].out
    BY <1>2, <1>4 DEF NetInv, ReadInv, PeerInv
  <2> QED BY <1>2, <2>1, <2>2, <2>3 DEF NetInv, ReadInv
<1> QED BY <1>5, <1>6, <1>7, <1>8, <1>9 DEF NetInv

LEMMA InvConnect ==
  ASSUME TcpAssumption, NetInv, NEW atonce \in BOOLEAN, Connect(atonce)
  PROVE  NetInv'
<1>1. PICK c : c = Head(m_connectQueue)
  OBVIOUS
<1>2. PICK f \in FreeFds :
        /\ socket' = [socket EXCEPT ![f] = [NoSocket EXCEPT !.state = IF atonce THEN "up" ELSE "connecting", !.out = TRUE]]
        /\ m_clientBySocket' = Emplaced(m_clientBySocket, f, c)
        /\ m_connectionPending' = Emplaced(m_connectionPending, f, c \in Timeouts)
        /\ client' = [client EXCEPT ![c] = [(IF atonce THEN onConnectBase(@, f) ELSE @) EXCEPT !.m_inConnectQueueFlag = FALSE]]
  BY <1>1 DEF Connect
<1>3. /\ m_connectQueue # << >> /\ m_connectQueue' = Tail(m_connectQueue)
      /\ registration' = registerCallbackOnce(registerCallbackOnce(registration, "epoll"), "pending")
      /\ UNCHANGED <<server, m_serverBySocket, m_listenQueue, m_sendQueue, m_readQueue, running>>
  BY DEF Connect
<1>4. /\ c \in Peers /\ client[c].m_connectingFlag /\ client[c].m_fd = Closed /\ client[c].actor = "live"
      /\ ~HasSocket(c) /\ client[c].content = 0 /\ ~client[c].m_inSendQueueFlag /\ client[c] \in PeerType
      /\ m_connectQueue' \in Seq(Clients) /\ IsInjective(m_connectQueue')
      /\ \A d : InChain(m_connectQueue', d) <=> InChain(m_connectQueue, d) /\ d # c
  BY <1>1, <1>3, FirstConnects
<1> DEFINE m == [(IF atonce THEN onConnectBase(client[c], f) ELSE client[c]) EXCEPT !.m_inConnectQueueFlag = FALSE]
           x == [NoSocket EXCEPT !.state = IF atonce THEN "up" ELSE "connecting", !.out = TRUE]
<1>5. client' = [client EXCEPT ![c] = m]
  BY <1>2
<1>6. f \in Fds /\ f # Closed
  BY FreeSocket
<1>7. /\ m \in PeerType /\ m.actor = "live" /\ m.content = 0 /\ ~m.m_inSendQueueFlag /\ ~m.m_inConnectQueueFlag
      /\ (m.m_fd = f /\ ~m.m_connectingFlag) \/ (m.m_fd = Closed /\ m.m_connectingFlag)
  <2>1. CASE atonce
    <3>1. onConnectBase(client[c], f) \in PeerType
      BY <1>4, <1>6 DEF onConnectBase, PeerType
    <3>2. m = [onConnectBase(client[c], f) EXCEPT !.m_inConnectQueueFlag = FALSE]
      BY <2>1
    <3>3. m \in PeerType
      BY <3>1, <3>2 DEF PeerType
    <3>4. PICK n \in PeerType : n = onConnectBase(client[c], f)
      BY <3>1
    <3>5. n.actor = "live" /\ n.content = 0 /\ ~n.m_inSendQueueFlag /\ n.m_fd = f /\ ~n.m_connectingFlag
      BY <1>4, <3>4 DEF onConnectBase, PeerType
    <3>6. m = [n EXCEPT !.m_inConnectQueueFlag = FALSE]
      BY <3>2, <3>4
    <3>7. m.actor = "live" /\ m.content = 0 /\ ~m.m_inSendQueueFlag /\ ~m.m_inConnectQueueFlag /\ m.m_fd = f /\ ~m.m_connectingFlag
      BY <3>4, <3>5, <3>6 DEF PeerType
    <3> HIDE DEF m
    <3> QED BY <3>3, <3>7
  <2>2. CASE ~atonce
    <3>1. m = [client[c] EXCEPT !.m_inConnectQueueFlag = FALSE]
      BY <2>2
    <3>2. m \in PeerType
      BY <1>4, <3>1 DEF PeerType
    <3> QED BY <1>4, <3>1, <3>2 DEF PeerType
  <2> QED BY <2>1, <2>2
<1>8. x \in SocketType /\ x.state \in {"connecting", "up"} /\ x.out /\ x.unread = 0
  BY DEF NoSocket, SocketType
<1>9. socket' = [socket EXCEPT ![f] = x]
  BY <1>2
<1> HIDE DEF m, x
<1>10. /\ socket' \in [Fds -> SocketType] /\ socket'[f] = x
       /\ \A g \in Fds \ {f} : socket'[g] = socket[g]
  BY <1>6, <1>8, <1>9 DEF NetInv, NetType
<1>11. registration' \in RegType
  BY <1>3, TypesKept, RegisteredType DEF Callbacks
<1> QED BY <1>2, <1>3, <1>4, <1>5, <1>7, <1>8, <1>10, <1>11, TypesKept, NewSocket

-----------------------------------------------------------------------------
(* The callbacks of pending connections, servers that listen, and sending. *)

\* What onConnectFailedBase() makes of a client's members.
LEMMA ConnectFailedType ==
  ASSUME TcpAssumption, NEW m \in PeerType
  PROVE  /\ ConnectFailed(m) \in PeerType /\ ConnectFailed(m).m_fd = Closed /\ ~ConnectFailed(m).m_connectingFlag
         /\ ConnectFailed(m).m_inConnectQueueFlag = m.m_inConnectQueueFlag /\ ConnectFailed(m).content = 0
<1>1. ConnectFailed(m) \in PeerType
  BY 0 \in 0 .. SendBufferSize DEF ConnectFailed, PeerType, TcpAssumption, Closed
<1> QED BY <1>1 DEF ConnectFailed, PeerType

\* A client in the table is not in the queue of those that are to be connected.
LEMMA NotQueued ==
  ASSUME NetInv, NEW f \in DOMAIN m_clientBySocket
  PROVE  ~client[m_clientBySocket[f]].m_inConnectQueueFlag
<1>1. PICK c \in Peers : c = m_clientBySocket[f]
  BY TypesKept
<1>2. HasSocket(c)
  BY <1>1 DEF HasSocket
<1> QED BY <1>1, <1>2 DEF NetInv, PeerInv, PeerOk

LEMMA InvPending ==
  ASSUME TcpAssumption, NetInv, onPendingConnectionCallback
  PROVE  NetInv'
<1>1. PICK late \in SUBSET {f \in DOMAIN m_connectionPending : m_connectionPending[f]} :
        /\ socket' = CloseAll(socket, late)
        /\ m_clientBySocket' = Dropped(m_clientBySocket, late)
        /\ client' = [c \in Peers |-> IF c \in {m_clientBySocket[f] : f \in late \cap DOMAIN m_clientBySocket}
                                      THEN ConnectFailed(client[c]) ELSE client[c]]
        /\ m_connectionPending' = Dropped(m_connectionPending, late)
        /\ registration' =
             LET r == IF late = {} THEN registration
                      ELSE Unregistered(registration, m_clientBySocket', m_serverBySocket)
             IN IF DOMAIN m_connectionPending' = {} THEN r ELSE registerCallbackOnce(r, "pending")
  BY DEF onPendingConnectionCallback
<1>2. PICK called : called = {m_clientBySocket[f] : f \in late \cap DOMAIN m_clientBySocket}
  OBVIOUS
<1>3. running.callback = "pending" /\ running' = Idle /\ UNCHANGED <<server, m_serverBySocket, queues>>
  BY DEF onPendingConnectionCallback
<1>4. called \in SUBSET Peers
  BY <1>2, TypesKept
<1>5. \A f \in DOMAIN m_clientBySocket : f \in late <=> m_clientBySocket[f] \in called
  BY <1>2 DEF NetInv, PeerInv
<1>6. \A f \in DOMAIN m_serverBySocket : f \notin late
  BY Disjoint, TypesKept DEF NetInv
<1>7. /\ client' \in [Peers -> PeerType] /\ \A c \in Peers \ called : client'[c] = client[c]
      /\ \A c \in called : client'[c] = ConnectFailed(client[c])
  BY <1>1, <1>2, <1>4, ConnectFailedType, TypesKept
<1>8. \A c \in called : ~client[c].m_inConnectQueueFlag
  BY <1>2, NotQueued
<1>9. \A c \in called : /\ client'[c].m_fd = Closed /\ ~client'[c].m_connectingFlag /\ ~client'[c].m_inConnectQueueFlag
                        /\ client'[c].content = 0 /\ ~client[c].m_inConnectQueueFlag
  BY <1>4, <1>7, <1>8, ConnectFailedType, TypesKept
<1>10. registration' \in RegType
  <2>1. PICK r \in RegType :
          r = IF late = {} THEN registration ELSE Unregistered(registration, m_clientBySocket', m_serverBySocket)
    BY TypesKept, UnregisteredType
  <2>2. registration' = r \/ registration' = registerCallbackOnce(r, "pending")
    BY <1>1, <2>1
  <2>3. registerCallbackOnce(r, "pending") \in RegType
    BY RegisteredType DEF Callbacks
  <2> QED BY <2>2, <2>3
<1>11. /\ DOMAIN m_clientBySocket' = DOMAIN m_clientBySocket \ late
       /\ \A g \in DOMAIN m_clientBySocket' : m_clientBySocket'[g] = m_clientBySocket[g]
       /\ DOMAIN m_serverBySocket' = DOMAIN m_serverBySocket \ late
       /\ m_serverBySocket' = m_serverBySocket
       /\ DOMAIN m_connectionPending' = DOMAIN m_connectionPending \ late
  BY <1>1, <1>3, <1>6 DEF Dropped
<1>12. running.events = {} /\ UNCHANGED <<queues, server>>
  BY <1>3, TypesKept
<1>13. Closing(called, {}, late)
  BY <1>1, <1>3, <1>5, <1>6, <1>7, <1>9, <1>10, <1>11, <1>12, IdleType, TypesKept DEF Closing
<1> QED BY <1>4, <1>13, Ends

\* The server at the head of the listen queue waits, and has no socket yet.
LEMMA FirstListens ==
  ASSUME NetInv, m_listenQueue # << >>, NEW s, s = Head(m_listenQueue)
  PROVE  /\ s \in Servers /\ server[s].m_registeredListen /\ server[s].m_fd = Closed /\ server[s].actor = "live"
         /\ server[s] \in ServerType /\ Tail(m_listenQueue) \in Seq(Servers) /\ IsInjective(Tail(m_listenQueue))
         /\ \A d : InChain(Tail(m_listenQueue), d) <=> InChain(m_listenQueue, d) /\ d # s
<1>1. /\ s \in Servers /\ InChain(m_listenQueue, s) /\ Tail(m_listenQueue) \in Seq(Servers)
      /\ \A d : InChain(m_listenQueue, d) <=> InChain(Tail(m_listenQueue), d) \/ d = s
      /\ IsInjective(Tail(m_listenQueue)) /\ ~InChain(Tail(m_listenQueue), s)
  BY HeadChain DEF NetInv, NetType, ServerInv
<1> QED BY <1>1 DEF NetInv, NetType, ServerInv

LEMMA InvListen ==
  ASSUME TcpAssumption, NetInv, NEW f \in Fds, Listen(f)
  PROVE  NetInv'
<1> USE DEF NetInv
<1>1. PICK s : s = Head(m_listenQueue)
  OBVIOUS
<1>2. /\ m_listenQueue # << >> /\ m_listenQueue' = Tail(m_listenQueue)
      /\ UNCHANGED <<client, m_clientBySocket, m_connectionPending, m_connectQueue, m_sendQueue, m_readQueue,
                     registration, running>>
  BY DEF Listen
<1>3. /\ s \in Servers /\ server[s].m_registeredListen /\ server[s].m_fd = Closed /\ server[s].actor = "live"
      /\ server[s] \in ServerType /\ m_listenQueue' \in Seq(Servers) /\ IsInjective(m_listenQueue')
      /\ \A d : InChain(m_listenQueue', d) <=> InChain(m_listenQueue, d) /\ d # s
  BY <1>1, <1>2, FirstListens
<1>4. \A g \in DOMAIN m_serverBySocket : g \in Fds /\ m_serverBySocket[g] \in Servers \ {s}
  BY <1>3, TypesKept DEF ServerInv
<1>5. CASE server' = [server EXCEPT ![s].m_registeredListen = FALSE] /\ UNCHANGED <<socket, m_serverBySocket>>
  <2> DEFINE m == [server[s] EXCEPT !.m_registeredListen = FALSE]
  <2>1. m \in ServerType /\ m.m_fd = Closed /\ ~m.m_registeredListen
    BY <1>3 DEF ServerType
  <2>2. server' = [server EXCEPT ![s] = m]
    BY <1>5
  <2> HIDE DEF m
  <2>3. /\ server' \in [Servers -> ServerType] /\ server'[s] = m
        /\ \A t \in Servers : t # s => server'[t] = server[t]
    BY <1>3, <2>1, <2>2, OneServer
  <2>4. NetType'
    BY <1>2, <1>3, <1>5, <2>3 DEF NetType
  <2>5. PeerInv'
    BY <1>2, <1>5, PeerFrame DEF PeerInv, TableOk
  <2>6. SendInv'
    BY <1>2, SendFrame
  <2>7. ServerInv'
    BY <1>3, <1>4, <1>5, <2>1, <2>3 DEF ServerInv
  <2>8. ReadInv'
    BY <1>2, <1>5, ReadFrame
  <2> QED BY <2>4, <2>5, <2>6, <2>7, <2>8
<1>6. CASE /\ f \in FreeFds
           /\ server' = [server EXCEPT ![s].m_registeredListen = FALSE, ![s].m_fd = f]
           /\ socket' = [socket EXCEPT ![f] = [NoSocket EXCEPT !.state = "listening"]]
           /\ m_serverBySocket' = Emplaced(m_serverBySocket, f, s)
  <2> DEFINE m == [server[s] EXCEPT !.m_registeredListen = FALSE, !.m_fd = f]
             x == [NoSocket EXCEPT !.state = "listening"]
  <2>1. m \in ServerType /\ m.m_fd = f /\ ~m.m_registeredListen /\ m.actor = "live"
    BY <1>3 DEF ServerType
  <2>2. server' = [server EXCEPT ![s] = m]
    BY <1>3, <1>6 DEF NetType
  <2>3. x \in SocketType /\ x.state = "listening"
    BY DEF NoSocket, SocketType
  <2>4. socket' = [socket EXCEPT ![f] = x]
    BY <1>6
  <2> HIDE DEF m, x
  <2>5. /\ server' \in [Servers -> ServerType] /\ server'[s] = m
        /\ \A t \in Servers : t # s => server'[t] = server[t]
    BY <1>3, <2>1, <2>2, OneServer
  <2>6. /\ f # Closed /\ f \notin DOMAIN m_clientBySocket /\ f \notin DOMAIN m_connectionPending
        /\ f \notin DOMAIN m_serverBySocket
    BY <1>6, FreeSocket
  <2>7. /\ DOMAIN m_serverBySocket' = DOMAIN m_serverBySocket \cup {f} /\ m_serverBySocket'[f] = s
        /\ \A g \in DOMAIN m_serverBySocket : m_serverBySocket'[g] = m_serverBySocket[g]
    BY <1>6, <2>6 DEF Emplaced
  <2>8. /\ socket' \in [Fds -> SocketType] /\ socket'[f] = x
        /\ \A g \in Fds : g # f => socket'[g] = socket[g]
    BY <2>3, <2>4 DEF NetType
  <2>9. NetType'
    BY <1>2, <1>3, <1>4, <2>5, <2>7, <2>8 DEF NetType
  <2>10. PeerInv'
    <3>1. \A g \in DOMAIN m_clientBySocket : socket'[g] = socket[g]
      BY <2>6, <2>8, TypesKept
    <3> QED BY <1>2, <3>1, PeerFrame DEF PeerInv, TableOk
  <2>11. SendInv'
    BY <1>2, SendFrame
  <2>12. ServerInv'
    <3>1. \A g \in DOMAIN m_serverBySocket' : socket'[g].state = "listening" /\ server'[m_serverBySocket'[g]].m_fd = g
      BY <1>4, <2>1, <2>3, <2>5, <2>6, <2>7, <2>8 DEF ServerInv
    <3> QED BY <1>3, <2>1, <2>5, <2>7, <3>1 DEF ServerInv
  <2>13. ReadInv'
    <3>1. \A g \in DOMAIN m_clientBySocket : socket'[g] = socket[g] /\ m_clientBySocket[g] \in Peers
      BY <2>6, <2>8, TypesKept
    <3>2. \A g \in DOMAIN m_clientBySocket : ReadOk(g)'
      BY <1>2, <3>1 DEF ReadInv, ReadOk, InChain
    <3> QED BY <1>2, <2>3, <2>6, <2>8, <3>1, <3>2, TypesKept DEF ReadInv
  <2> QED BY <2>9, <2>10, <2>11, <2>12, <2>13
<1> QED BY <1>1, <1>5, <1>6 DEF Listen

\* Only what a client has to send, and the queue, change.
LEMMA InvSend ==
  ASSUME TcpAssumption, NetInv, NEW sent \in 0 .. SendBufferSize, Send(sent)
  PROVE  NetInv'
<1> USE DEF NetInv
<1>1. PICK f : f = Head(m_sendQueue)
  OBVIOUS
<1>2. /\ running.callback = "send" /\ m_sendQueue # << >> /\ running.count > 0
      /\ UNCHANGED <<server, tables, m_connectQueue, m_listenQueue, m_readQueue, registration, socket>>
  BY DEF Send
<1>3. /\ f \in Fds /\ Tail(m_sendQueue) \in Seq(Fds)
      /\ \A g : InChain(m_sendQueue, g) <=> InChain(Tail(m_sendQueue), g) \/ g = f
  BY <1>1, <1>2, HeadChain DEF NetType
<1>4. UNCHANGED <<m_clientBySocket, m_connectionPending, m_serverBySocket>>
  BY <1>2 DEF tables
<1>5. CASE f \in DOMAIN m_clientBySocket /\ client[m_clientBySocket[f]].content > 0
  <2>1. PICK c \in Peers : c = m_clientBySocket[f]
    BY <1>5, TypesKept
  <2>2. PICK left : left = client[c].content - sent
    OBVIOUS
  <2>3. /\ sent \in 1 .. client[c].content
        /\ client' = [client EXCEPT ![c].content = left, ![c].m_inSendQueueFlag = IF left = 0 THEN FALSE ELSE @]
        /\ m_sendQueue' = IF left > 0 THEN Append(Tail(m_sendQueue), f) ELSE Tail(m_sendQueue)
        /\ running' = [running EXCEPT !.count = @ - 1]
    BY <1>1, <1>5, <2>1, <2>2 DEF Send
  <2>4. client[c] \in PeerType /\ left \in 0 .. SendBufferSize
    BY <2>2, <2>3, TcpAssumption DEF NetType, PeerType, TcpAssumption
  <2>5. client[c].m_fd = f /\ ~client[c].m_connectingFlag /\ client[c].m_inSendQueueFlag
    <3>1. client[c].m_fd # Closed
      BY <1>5, <2>1 DEF SendInv
    <3> QED BY <1>5, <2>1, <3>1 DEF SendInv, PeerInv, PeerOk, TableOk
  <2> DEFINE m == [client[c] EXCEPT !.content = left, !.m_inSendQueueFlag = IF left = 0 THEN FALSE ELSE @]
  <2>6. m \in PeerType
    BY <2>4, <2>5 DEF PeerType
  <2>7. /\ m.m_fd = f /\ m.actor = client[c].actor /\ ~m.m_connectingFlag
        /\ m.m_inConnectQueueFlag = client[c].m_inConnectQueueFlag
        /\ m.m_messageToReadFlag = client[c].m_messageToReadFlag
        /\ m.m_connectingFlag = client[c].m_connectingFlag
        /\ m.content = left /\ (m.m_inSendQueueFlag <=> left > 0)
    BY <2>4, <2>5 DEF PeerType
  <2>8. client' = [client EXCEPT ![c] = m]
    BY <2>3 DEF NetType
  <2> HIDE DEF m
  <2>9. /\ client' \in [Peers -> PeerType] /\ client'[c] = m
        /\ \A d \in Peers : d # c => client'[d] = client[d]
    BY <2>6, <2>8, OnePeer
  <2>10. /\ m_sendQueue' \in Seq(Fds)
         /\ left > 0 => InChain(m_sendQueue', f)
         /\ \A g : g # f /\ InChain(m_sendQueue, g) => InChain(m_sendQueue', g)
    BY <1>3, <2>3, AppendChain
  <2>11. /\ running' \in RunType
         /\ running'.events = running.events /\ running.events = {}
    BY <1>2, <2>3, TypesKept
  <2>12. NetType'
    BY <1>2, <1>4, <2>9, <2>10, <2>11 DEF NetType
  <2>13. PeerInv'
    BY <1>2, <1>4, <2>5, <2>7, <2>9, PeerFrame DEF PeerInv, TableOk
  <2>14. ServerInv'
    BY <1>2, <1>4, ServerFrame
  <2>15. SendInv'
    <3>1. \A d \in Peers : d # c => client[d].m_fd # f \/ client[d].m_fd = Closed
      BY <1>5, <2>1 DEF PeerInv, PeerOk
    <3>2. f # Closed
      BY FdIsOpen, <1>3
    <3> QED BY <2>4, <2>7, <2>9, <2>10, <3>1, <3>2 DEF SendInv
  <2>16. ReadInv'
    <3>1. \A g \in DOMAIN m_clientBySocket : client'[m_clientBySocket[g]].m_messageToReadFlag = client[m_clientBySocket[g]].m_messageToReadFlag
      BY <2>7, <2>9, TypesKept
    <3> QED BY <1>2, <1>4, <2>11, <3>1 DEF ReadInv, ReadOk
  <2> QED BY <2>12, <2>13, <2>14, <2>15, <2>16
<1>6. CASE ~(f \in DOMAIN m_clientBySocket /\ client[m_clientBySocket[f]].content > 0)
  <2>1. m_sendQueue' = Tail(m_sendQueue) /\ UNCHANGED <<client, running>>
    BY <1>1, <1>6 DEF Send
  <2>2. NetType'
    BY <1>2, <1>3, <1>4, <2>1 DEF NetType
  <2>3. PeerInv'
    BY <1>2, <1>4, <2>1, PeerFrame DEF PeerInv, TableOk
  <2>4. ServerInv'
    BY <1>2, <1>4, ServerFrame
  <2>5. SendInv'
    <3>1. \A c \in Peers : client[c].m_fd # Closed /\ client[c].m_inSendQueueFlag => client[c].m_fd # f
      BY <1>6 DEF PeerInv, PeerOk, SendInv
    <3> QED BY <1>3, <2>1, <3>1 DEF SendInv
  <2>6. ReadInv'
    BY <1>2, <1>4, <2>1, ReadFrame
  <2> QED BY <2>2, <2>3, <2>4, <2>5, <2>6
<1> QED BY <1>5, <1>6

-----------------------------------------------------------------------------
(* The epoll callback.                                                     *)

\* What the network does of an event that is not about the socket leaves the rest.
LEMMA RestOfEvents ==
  ASSUME NetInv, running.callback = "epoll", running.count = 1, NEW f \in Fds,
         running' = [running EXCEPT !.events = {e \in @ : e[1] # f}]
  PROVE  /\ running' \in RunType
         /\ running'.events \subseteq running.events /\ running'.callback = "epoll" /\ running'.count = 1
         /\ \A g \in Fds \ {f} : <<g, "in">> \in running.events => <<g, "in">> \in running'.events
BY TypesKept

LEMMA InvEpollWait ==
  ASSUME TcpAssumption, NetInv, epoll_wait
  PROVE  NetInv'
<1> USE DEF NetInv
<1>1. PICK fds \in SUBSET {f \in Fds : Ready(f) # {}} :
        /\ running' = [running EXCEPT !.count = 1, !.events = {<<f, CHOOSE what \in Ready(f) : TRUE>> : f \in fds}]
        /\ socket' = [f \in Fds |-> IF f \in fds THEN [socket[f] EXCEPT !.edge = FALSE] ELSE socket[f]]
  BY DEF epoll_wait
<1>2. /\ running.callback = "epoll" /\ running.count = 0 /\ UNCHANGED <<client, server, tables, queues, registration>>
  BY DEF epoll_wait
<1>3. /\ UNCHANGED <<m_clientBySocket, m_serverBySocket, m_connectionPending, m_connectQueue, m_listenQueue, m_sendQueue, m_readQueue>>
  BY <1>2 DEF tables, queues
<1>4. running.events = {}
  BY <1>2, TypesKept
<1>5. \A f \in fds : f \in Fds /\ (CHOOSE what \in Ready(f) : TRUE) \in Ready(f)
  OBVIOUS
<1>6. \A f \in Fds : Ready(f) \subseteq {"error", "out", "in"}
  BY DEF Ready
<1>7. /\ running' \in RunType
      /\ running'.events = {<<f, CHOOSE what \in Ready(f) : TRUE>> : f \in fds}
      /\ running'.callback = "epoll" /\ running'.count = 1
  <2>1. {<<f, CHOOSE what \in Ready(f) : TRUE>> : f \in fds} \in SUBSET (Fds \X {"error", "out", "in"})
    BY <1>5, <1>6
  <2> QED BY <1>1, <1>2, <2>1, TypesKept
<1>8. /\ socket' \in [Fds -> SocketType]
      /\ \A f \in Fds : /\ socket'[f].state = socket[f].state /\ socket'[f].out = socket[f].out
                        /\ socket'[f].unread = socket[f].unread
                        /\ f \notin fds => socket'[f].edge = socket[f].edge
  <2>1. \A f \in Fds : socket[f] \in SocketType
    BY DEF NetType
  <2>2. \A f \in Fds : [socket[f] EXCEPT !.edge = FALSE] \in SocketType
    BY <2>1 DEF SocketType
  <2> QED BY <1>1, <2>1, <2>2 DEF SocketType
<1>9. NetType'
  BY <1>2, <1>3, <1>7, <1>8 DEF NetType
<1>10. PeerInv'
  BY <1>2, <1>3, <1>8, PeerFrame, TypesKept DEF PeerInv, TableOk
<1>11. ServerInv'
  BY <1>2, <1>3, <1>8, ServerFrame, TypesKept
<1>12. SendInv'
  BY <1>2, <1>3, SendFrame
<1>13. ReadInv'
  <2>1. \A d, e \in running'.events : d[1] = e[1] => d = e
    <3>1. PICK told : told = [f \in fds |-> CHOOSE what \in Ready(f) : TRUE]
      OBVIOUS
    <3>2. running'.events = {<<f, told[f]>> : f \in fds}
      BY <1>7, <3>1
    <3> QED BY <3>2
  <2>2. \A f \in DOMAIN m_clientBySocket : ReadOk(f)'
    <3> SUFFICES ASSUME NEW f \in DOMAIN m_clientBySocket, socket[f].state = "up", ~socket[f].out, socket[f].unread > 0
                 PROVE  \/ socket'[f].edge \/ <<f, "in">> \in running'.events \/ InChain(m_readQueue, f)
                        \/ client[m_clientBySocket[f]].m_messageToReadFlag
      BY <1>2, <1>3, <1>8, TypesKept DEF ReadOk
    <3>1. f \in Fds /\ ReadOk(f)
      BY TypesKept DEF ReadInv
    <3>2. CASE f \in fds
      <4>1. Ready(f) \subseteq {"in"}
        BY DEF Ready
      <4> QED BY <1>5, <1>7, <3>2, <4>1
    <3>3. CASE f \notin fds
      BY <1>4, <1>8, <3>1, <3>3 DEF ReadOk
    <3> QED BY <3>2, <3>3
  <2> QED BY <1>3, <1>7, <1>8, <2>1, <2>2, TypesKept DEF ReadInv
<1> QED BY <1>9, <1>10, <1>11, <1>12, <1>13

LEMMA InvBroken ==
  ASSUME TcpAssumption, NetInv, running.callback = "epoll", running.count = 1, NEW f \in Fds, Broken(f),
         running' = [running EXCEPT !.events = {e \in @ : e[1] # f}]
  PROVE  NetInv'
<1>1. /\ socket' = CloseAll(socket, {f}) /\ UNCHANGED queues
      /\ client' = IF f \notin DOMAIN m_clientBySocket THEN client
                   ELSE [client EXCEPT ![m_clientBySocket[f]] =
                           IF f \in DOMAIN m_connectionPending THEN ConnectFailed(@) ELSE ConnectionLost(@)]
      /\ server' = IF f \notin DOMAIN m_serverBySocket THEN server
                   ELSE [server EXCEPT ![m_serverBySocket[f]] = onListenStoppedBase(@)]
      /\ m_clientBySocket' = Dropped(m_clientBySocket, {f})
      /\ m_serverBySocket' = Dropped(m_serverBySocket, {f})
      /\ m_connectionPending' = IF f \in DOMAIN m_clientBySocket THEN Dropped(m_connectionPending, {f})
                                ELSE m_connectionPending
      /\ registration' = Unregistered(registration, m_clientBySocket', m_serverBySocket')
  BY DEF Broken, End
<1>2. /\ DOMAIN m_clientBySocket' = DOMAIN m_clientBySocket \ {f}
      /\ \A g \in DOMAIN m_clientBySocket' : m_clientBySocket'[g] = m_clientBySocket[g]
      /\ DOMAIN m_serverBySocket' = DOMAIN m_serverBySocket \ {f}
      /\ \A g \in DOMAIN m_serverBySocket' : m_serverBySocket'[g] = m_serverBySocket[g]
      /\ DOMAIN m_connectionPending' = DOMAIN m_connectionPending \ {f}
  <2>1. f \notin DOMAIN m_clientBySocket => f \notin DOMAIN m_connectionPending
    BY TypesKept
  <2> QED BY <1>1, <2>1 DEF Dropped
<1>3. registration' \in RegType
  BY <1>1, TypesKept, UnregisteredType
<1>4. PICK E \in SUBSET Peers :
        /\ \A g \in DOMAIN m_clientBySocket : g \in {f} <=> m_clientBySocket[g] \in E
        /\ client' \in [Peers -> PeerType]
        /\ \A c \in Peers \ E : client'[c] = client[c]
        /\ \A c \in E : /\ client'[c].m_fd = Closed /\ ~client'[c].m_connectingFlag /\ ~client'[c].m_inConnectQueueFlag
                        /\ client'[c].content = 0 /\ ~client[c].m_inConnectQueueFlag
  <2>1. CASE f \notin DOMAIN m_clientBySocket
    <3>1. \A g \in DOMAIN m_clientBySocket : g \in {f} <=> m_clientBySocket[g] \in {}
      BY <2>1
    <3>2. client' = client
      BY <1>1, <2>1
    <3> QED BY <3>1, <3>2, TypesKept
  <2>2. CASE f \in DOMAIN m_clientBySocket
    <3>1. PICK c \in Peers : c = m_clientBySocket[f]
      BY <2>2, TypesKept
    <3>2. \A g \in DOMAIN m_clientBySocket : g = f <=> m_clientBySocket[g] = c
      BY <2>2, <3>1 DEF NetInv, PeerInv
    <3>3. PICK m : m = IF f \in DOMAIN m_connectionPending THEN ConnectFailed(client[c]) ELSE ConnectionLost(client[c])
      OBVIOUS
    <3>4. client' = [client EXCEPT ![c] = m]
      BY <1>1, <2>2, <3>1, <3>3
    <3>5. client[c] \in PeerType /\ ~client[c].m_inConnectQueueFlag
      BY <2>2, <3>1, NotQueued, TypesKept
    <3>6. /\ m \in PeerType /\ m.m_fd = Closed /\ ~m.m_connectingFlag /\ m.content = 0 /\ ~m.m_inConnectQueueFlag
      <4>1. CASE f \in DOMAIN m_connectionPending
        BY <3>3, <3>5, <4>1, ConnectFailedType
      <4>2. CASE f \notin DOMAIN m_connectionPending
        <5>1. client[c].m_fd = f /\ f # Closed
          BY <2>2, <3>1, <4>2, FdIsOpen DEF NetInv, PeerInv, TableOk
        <5>2. ~client[c].m_connectingFlag
          BY <5>1 DEF NetInv, PeerInv, PeerOk
        <5>3. m = ConnectionLost(client[c])
          BY <3>3, <4>2
        <5>4. m \in PeerType
          BY <3>5, <5>3, 0 \in 0 .. SendBufferSize DEF ConnectionLost, PeerType, TcpAssumption, Closed
        <5> QED BY <3>5, <5>2, <5>3, <5>4 DEF ConnectionLost, PeerType
      <4> QED BY <4>1, <4>2
    <3>7. /\ client' \in [Peers -> PeerType] /\ client'[c] = m
          /\ \A d \in Peers : d # c => client'[d] = client[d]
      BY <3>4, <3>6, OnePeer DEF NetInv
    <3>8. /\ \A g \in DOMAIN m_clientBySocket : g \in {f} <=> m_clientBySocket[g] \in {c}
          /\ \A d \in Peers \ {c} : client'[d] = client[d]
          /\ \A d \in {c} : /\ client'[d].m_fd = Closed /\ ~client'[d].m_connectingFlag /\ ~client'[d].m_inConnectQueueFlag
                            /\ client'[d].content = 0 /\ ~client[d].m_inConnectQueueFlag
      BY <3>2, <3>5, <3>6, <3>7
    <3>9. {c} \in SUBSET Peers
      OBVIOUS
    <3> QED BY <3>7, <3>8, <3>9
  <2> QED BY <2>1, <2>2
<1>5. PICK S \in SUBSET Servers :
        /\ \A g \in DOMAIN m_serverBySocket : g \in {f} <=> m_serverBySocket[g] \in S
        /\ server' \in [Servers -> ServerType]
        /\ \A s \in Servers \ S : server'[s] = server[s]
        /\ \A s \in S : server'[s].m_fd = Closed /\ ~server'[s].m_registeredListen /\ ~server[s].m_registeredListen
  <2>1. CASE f \notin DOMAIN m_serverBySocket
    <3>1. \A g \in DOMAIN m_serverBySocket : g \in {f} <=> m_serverBySocket[g] \in {}
      BY <2>1
    <3>2. server' = server
      BY <1>1, <2>1
    <3> QED BY <3>1, <3>2, TypesKept
  <2>2. CASE f \in DOMAIN m_serverBySocket
    <3>1. PICK s \in Servers : s = m_serverBySocket[f]
      BY <2>2, TypesKept
    <3>2. server[s].m_fd = f /\ f # Closed
      BY <2>2, <3>1, FdIsOpen DEF NetInv, ServerInv
    <3>3. ~server[s].m_registeredListen /\ server[s] \in ServerType
      BY <3>2, TypesKept DEF NetInv, ServerInv
    <3>4. PICK m : m = onListenStoppedBase(server[s])
      OBVIOUS
    <3>5. m \in ServerType /\ m.m_fd = Closed /\ ~m.m_registeredListen
      BY <3>3, <3>4 DEF onListenStoppedBase, ServerType
    <3>6. server' = [server EXCEPT ![s] = m]
      BY <1>1, <2>2, <3>1, <3>4
    <3>7. /\ server' \in [Servers -> ServerType] /\ server'[s] = m
          /\ \A t \in Servers : t # s => server'[t] = server[t]
      BY <3>5, <3>6, OneServer DEF NetInv
    <3>8. \A g \in DOMAIN m_serverBySocket : g \in {f} <=> m_serverBySocket[g] \in {s}
      BY <3>2, SocketOfServer
    <3>9. /\ \A t \in Servers \ {s} : server'[t] = server[t]
          /\ \A t \in {s} : server'[t].m_fd = Closed /\ ~server'[t].m_registeredListen /\ ~server[t].m_registeredListen
      BY <3>3, <3>5, <3>7
    <3>10. {s} \in SUBSET Servers
      OBVIOUS
    <3> QED BY <3>7, <3>8, <3>9, <3>10
  <2> QED BY <2>1, <2>2
<1>6. Closing(E, S, {f})
  BY <1>1, <1>2, <1>3, <1>4, <1>5, RestOfEvents DEF Closing
<1> QED BY <1>6, Ends

LEMMA InvNotModified ==
  ASSUME TcpAssumption, NetInv, running.callback = "epoll", running.count = 1, NEW f \in Fds, NotModified(f),
         running' = [running EXCEPT !.events = {e \in @ : e[1] # f}]
  PROVE  NetInv'
<1>1. f \in DOMAIN m_connectionPending /\ f \in DOMAIN m_clientBySocket
  BY DEF NotModified, Connecting
<1>2. PICK c \in Peers : c = m_clientBySocket[f]
  BY <1>1, TypesKept
<1>3. PICK m : m = ConnectionLost(onConnectBase(client[c], f))
  OBVIOUS
<1>4. /\ client' = [client EXCEPT ![c] = m] /\ socket' = CloseAll(socket, {f}) /\ UNCHANGED queues
      /\ m_clientBySocket' = Dropped(m_clientBySocket, {f}) /\ m_connectionPending' = Dropped(m_connectionPending, {f})
      /\ registration' = Unregistered(registerCallbackOnce(registration, "epoll"), m_clientBySocket', m_serverBySocket)
      /\ UNCHANGED <<server, m_serverBySocket, queues>>
  BY <1>2, <1>3 DEF NotModified
<1>5. client[c] \in PeerType /\ ~client[c].m_inConnectQueueFlag
  BY <1>1, <1>2, NotQueued, TypesKept
<1>6. m \in PeerType /\ m.m_fd = Closed /\ ~m.m_connectingFlag /\ m.content = 0 /\ ~m.m_inConnectQueueFlag
  <2>1. PICK n : n = onConnectBase(client[c], f)
    OBVIOUS
  <2>2. n \in PeerType
    BY <1>5, <2>1 DEF onConnectBase, PeerType
  <2>3. ~n.m_connectingFlag /\ ~n.m_inConnectQueueFlag
    BY <1>5, <2>1 DEF onConnectBase, PeerType
  <2>4. m = ConnectionLost(n)
    BY <1>3, <2>1
  <2>5. m \in PeerType
    BY <2>2, <2>4, 0 \in 0 .. SendBufferSize DEF ConnectionLost, PeerType, TcpAssumption, Closed
  <2> QED BY <2>2, <2>3, <2>4, <2>5 DEF ConnectionLost, PeerType
<1>7. /\ client' \in [Peers -> PeerType] /\ client'[c] = m
      /\ \A d \in Peers : d # c => client'[d] = client[d]
  BY <1>4, <1>6, OnePeer DEF NetInv
<1>8. /\ \A d \in Peers \ {c} : client'[d] = client[d]
      /\ \A d \in {c} : /\ client'[d].m_fd = Closed /\ ~client'[d].m_connectingFlag /\ ~client'[d].m_inConnectQueueFlag
                        /\ client'[d].content = 0 /\ ~client[d].m_inConnectQueueFlag
  BY <1>5, <1>6, <1>7
<1>9. \A g \in DOMAIN m_clientBySocket : g \in {f} <=> m_clientBySocket[g] \in {c}
  BY <1>1, <1>2 DEF NetInv, PeerInv
<1>10. f \notin DOMAIN m_serverBySocket
  BY <1>1, Disjoint DEF NetInv
<1>11. /\ DOMAIN m_clientBySocket' = DOMAIN m_clientBySocket \ {f}
       /\ \A g \in DOMAIN m_clientBySocket' : m_clientBySocket'[g] = m_clientBySocket[g]
       /\ DOMAIN m_serverBySocket' = DOMAIN m_serverBySocket \ {f}
       /\ m_serverBySocket' = m_serverBySocket /\ server' = server
       /\ DOMAIN m_connectionPending' = DOMAIN m_connectionPending \ {f}
  BY <1>4, <1>10 DEF Dropped
<1>12. registration' \in RegType
  <2>1. registerCallbackOnce(registration, "epoll") \in RegType
    BY TypesKept, RegisteredType DEF Callbacks
  <2> QED BY <1>4, <2>1, UnregisteredType
<1>13. server' \in [Servers -> ServerType]
  BY <1>11, TypesKept
<1>14. \A g \in DOMAIN m_serverBySocket : g \in {f} <=> m_serverBySocket[g] \in {}
  BY <1>10
<1>15. Closing({c}, {}, {f})
  BY <1>4, <1>7, <1>8, <1>9, <1>11, <1>12, <1>13, <1>14, RestOfEvents DEF Closing
<1> QED BY <1>15, Ends

\* An event that was told and of which nothing is left to be done.
LEMMA EventDone ==
  ASSUME NetInv, running.callback = "epoll", running.count = 1, NEW f \in Fds,
         running' = [running EXCEPT !.events = {e \in @ : e[1] # f}],
         f \notin DOMAIN m_clientBySocket \/ <<f, "in">> \notin running.events,
         DOMAIN m_connectionPending' = DOMAIN m_connectionPending,
         UNCHANGED <<client, server, m_clientBySocket, m_serverBySocket, queues, registration, socket>>
  PROVE  NetInv'
<1> USE DEF NetInv
<1>1. /\ m_connectQueue' = m_connectQueue /\ m_listenQueue' = m_listenQueue
      /\ m_sendQueue' = m_sendQueue /\ m_readQueue' = m_readQueue
  BY DEF queues
<1>2. NetType'
  BY <1>1, RestOfEvents DEF NetType
<1>3. PeerInv'
  BY <1>1 DEF PeerInv, TableOk, PeerOk, HasSocket
<1>4. ServerInv'
  BY <1>1, ServerFrame
<1>5. SendInv'
  BY <1>1, SendFrame
<1>6. ReadInv'
  <2>1. \A g \in DOMAIN m_clientBySocket : ReadOk(g)'
    BY <1>1, RestOfEvents, TypesKept DEF ReadInv, ReadOk
  <2> QED BY <2>1, RestOfEvents DEF ReadInv
<1> QED BY <1>2, <1>3, <1>4, <1>5, <1>6

LEMMA InvCompleteConnection ==
  ASSUME TcpAssumption, NetInv, running.callback = "epoll", running.count = 1, NEW f \in Fds, onCompleteConnection(f),
         running' = [running EXCEPT !.events = {e \in @ : e[1] # f}]
  PROVE  NetInv'
<1>1. /\ <<f, "out">> \in running.events /\ m_connectionPending' = Dropped(m_connectionPending, {f})
      /\ UNCHANGED <<server, m_clientBySocket, m_serverBySocket, queues>>
  BY DEF onCompleteConnection
<1>2. CASE ~Connecting(f)
  <2>1. f \notin DOMAIN m_connectionPending
    BY <1>2, TypesKept DEF Connecting
  <2>2. DOMAIN m_connectionPending' = DOMAIN m_connectionPending
    BY <1>1, <2>1 DEF Dropped
  <2>3. UNCHANGED <<client, socket, registration>>
    BY <1>2 DEF onCompleteConnection
  <2>4. <<f, "in">> \notin running.events
    <3>1. <<f, "in">>[1] = <<f, "out">>[1] /\ <<f, "in">> # <<f, "out">>
      OBVIOUS
    <3> QED BY <1>1, <3>1 DEF NetInv, ReadInv
  <2> QED BY <1>1, <2>2, <2>3, <2>4, EventDone
<1>3. CASE Connecting(f)
  <2>1. PICK c \in Peers : c = m_clientBySocket[f] /\ f \in DOMAIN m_clientBySocket /\ f \in DOMAIN m_connectionPending
    BY <1>3, TypesKept DEF Connecting
  <2>2. PICK m : m = onConnectBase(client[c], f)
    OBVIOUS
  <2>3. /\ client' = [client EXCEPT ![c] = m]
        /\ socket' = [socket EXCEPT ![f].out = FALSE, ![f].edge = socket[f].unread > 0]
        /\ registration' = registerCallbackOnce(registration, "epoll")
    BY <1>3, <2>1, <2>2 DEF onCompleteConnection
  <2>4. /\ client[c] \in PeerType /\ ~client[c].m_inConnectQueueFlag /\ client[c].actor = "live" /\ f # Closed
        /\ client[c].m_fd = f \/ (client[c].m_connectingFlag /\ client[c].m_fd = Closed)
    BY <2>1, NotQueued, TypesKept DEF NetInv, PeerInv, TableOk, PeerOk
  <2>5. m \in PeerType
    BY <2>2, <2>4 DEF onConnectBase, PeerType
  <2>6. /\ m.m_fd = f /\ ~m.m_connectingFlag /\ ~m.m_inConnectQueueFlag /\ m.actor = "live"
        /\ m.content = client[c].content /\ m.m_inSendQueueFlag = client[c].m_inSendQueueFlag
        /\ m.m_messageToReadFlag = client[c].m_messageToReadFlag
    BY <2>2, <2>4 DEF onConnectBase, PeerType
  <2>7. /\ client' \in [Peers -> PeerType] /\ client'[c] = m
        /\ \A d \in Peers : d # c => client'[d] = client[d]
    BY <2>3, <2>5, OnePeer DEF NetInv
  <2>8. /\ socket' \in [Fds -> SocketType] /\ socket'[f].state = socket[f].state /\ ~socket'[f].out
        /\ socket'[f].unread = socket[f].unread /\ (socket[f].unread > 0 => socket'[f].edge)
        /\ \A g \in Fds : g # f => socket'[g] = socket[g]
    <3>1. socket[f] \in SocketType
      BY DEF NetInv, NetType
    <3>2. PICK seen \in BOOLEAN : seen = (socket[f].unread > 0)
      <4>1. CASE socket[f].unread > 0
        BY <4>1, Zenon
      <4>2. CASE ~(socket[f].unread > 0)
        <5>1. (socket[f].unread > 0) = FALSE
          BY <4>2
        <5> QED BY <5>1, Zenon
      <4> QED BY <4>1, <4>2
    <3>3. PICK x : x = [socket[f] EXCEPT !.out = FALSE, !.edge = seen]
      OBVIOUS
    <3>4. x \in SocketType /\ x.state = socket[f].state /\ ~x.out /\ x.unread = socket[f].unread /\ x.edge = seen
      <4>1. x \in SocketType
        BY <3>1, <3>3 DEF SocketType
      <4> QED BY <3>1, <3>3, <4>1 DEF SocketType
    <3>5. socket' = [socket EXCEPT ![f] = x]
      BY <2>3, <3>2, <3>3 DEF NetInv, NetType
    <3> QED BY <3>2, <3>4, <3>5 DEF NetInv, NetType
  <2>9. /\ m_connectQueue' = m_connectQueue /\ m_listenQueue' = m_listenQueue
        /\ m_sendQueue' = m_sendQueue /\ m_readQueue' = m_readQueue
    BY <1>1 DEF queues
  <2>10. registration' \in RegType
    BY <2>3, TypesKept, RegisteredType DEF Callbacks
  <2>11. DOMAIN m_connectionPending' = DOMAIN m_connectionPending \ {f}
    BY <1>1 DEF Dropped
  <2>12. \A g \in DOMAIN m_clientBySocket : g # f => m_clientBySocket[g] # c /\ m_clientBySocket[g] \in Peers /\ g \in Fds
    BY <2>1, TypesKept DEF NetInv, PeerInv
  <2>13. NetType'
    BY <1>1, <2>7, <2>8, <2>9, <2>10, RestOfEvents DEF NetInv, NetType
  <2>14. PeerInv'
    <3>1. \A g \in DOMAIN m_clientBySocket : g # f => TableOk(g)'
      BY <1>1, <2>7, <2>8, <2>11, <2>12 DEF NetInv, PeerInv, TableOk
    <3>2. TableOk(f)'
      BY <1>1, <2>1, <2>6, <2>7, <2>8 DEF NetInv, PeerInv, TableOk
    <3>3. \A d \in Peers \ {c} : PeerOk(d)'
      BY <1>1, <2>7, <2>9 DEF NetInv, PeerInv, PeerOk, HasSocket
    <3>4. PeerOk(c)'
      BY <1>1, <2>1, <2>4, <2>6, <2>7, <2>9 DEF NetInv, PeerInv, PeerOk
    <3> QED BY <1>1, <2>9, <2>11, <3>1, <3>2, <3>3, <3>4 DEF NetInv, PeerInv
  <2>15. ServerInv'
    <3>1. \A g \in DOMAIN m_serverBySocket : socket'[g].state = socket[g].state
      BY <2>8, TypesKept
    <3> QED BY <1>1, <2>9, <3>1, ServerFrame DEF NetInv
  <2>16. SendInv'
    BY <2>4, <2>6, <2>7, <2>9 DEF NetInv, SendInv
  <2>17. ReadInv'
    <3>1. \A g \in DOMAIN m_clientBySocket : g # f => ReadOk(g)'
      BY <1>1, <2>7, <2>8, <2>9, <2>12, RestOfEvents DEF NetInv, ReadInv, ReadOk
    <3>2. ReadOk(f)'
      BY <1>1, <2>8 DEF ReadOk
    <3>4. /\ \A g \in Fds : socket'[g].state = "connecting" => socket'[g].unread = 0
          /\ \A g \in DOMAIN m_connectionPending' : socket'[g].state \in {"connecting", "up"} => socket'[g].out
      BY <2>8, <2>11, TypesKept DEF NetInv, ReadInv
    <3> QED BY <1>1, <3>1, <3>2, <3>4, RestOfEvents DEF NetInv, ReadInv
  <2> QED BY <2>13, <2>14, <2>15, <2>16, <2>17 DEF NetInv
<1> QED BY <1>2, <1>3

LEMMA InvNewConnection ==
  ASSUME TcpAssumption, NetInv, running.callback = "epoll", running.count = 1, NEW f \in Fds, onNewConnection(f),
         running' = [running EXCEPT !.events = {e \in @ : e[1] # f}]
  PROVE  NetInv'
<1>1. PICK s \in Servers : s = m_serverBySocket[f]
  BY TypesKept DEF onNewConnection
<1>2. /\ f \in DOMAIN m_serverBySocket /\ f \notin DOMAIN m_clientBySocket /\ UNCHANGED <<m_serverBySocket, queues>>
  BY Disjoint DEF onNewConnection, NetInv
<1>3. CASE UNCHANGED <<client, server, m_clientBySocket, m_connectionPending, registration, socket>>
  BY <1>2, <1>3, EventDone
<1>4. ASSUME NEW p \in {q \in Processes : client[q].actor = "none"}, NEW g \in FreeFds, NEW mayTimeOut \in BOOLEAN,
             socket' = [socket EXCEPT ![f].unread = @ - 1, ![g] = [NoSocket EXCEPT !.state = "up", !.out = TRUE]],
             socket[f].unread > 0,
             server' = [server EXCEPT ![s].m_serverProcesses = @ \cup {p}],
             client' = [client EXCEPT ![p] = [NewClient EXCEPT !.m_fd = g]],
             m_clientBySocket' = Emplaced(m_clientBySocket, g, p),
             m_connectionPending' = Emplaced(m_connectionPending, g, mayTimeOut),
             registration' = registerCallbackOnce(registerCallbackOnce(registration, "pending"), "epoll")
      PROVE  NetInv'
  <2>1. p \in Peers /\ client[p].actor = "none"
    BY DEF Peers
  <2>2. ~HasSocket(p) /\ ~client[p].m_inConnectQueueFlag /\ ~InChain(m_connectQueue, p)
    BY <2>1 DEF NetInv, PeerInv, TableOk, PeerOk, HasSocket
  <2>3. g \in Fds /\ g # Closed /\ g # f
    BY <1>2, FreeSocket
  <2>4. PICK m : m = [NewClient EXCEPT !.m_fd = g]
    OBVIOUS
  <2>5. m \in PeerType
    BY <2>3, <2>4, NewClientType DEF PeerType
  <2>6. /\ m.actor = "live" /\ m.content = 0 /\ ~m.m_inSendQueueFlag /\ ~m.m_inConnectQueueFlag
        /\ m.m_fd = g /\ ~m.m_connectingFlag
    BY <2>3, <2>4, NewClientType DEF PeerType
  <2>7. client' = [client EXCEPT ![p] = m]
    BY <1>4, <2>4
  <2>8. PICK x : x = [NoSocket EXCEPT !.state = "up", !.out = TRUE]
    OBVIOUS
  <2>9. x \in SocketType /\ x.state = "up" /\ x.out /\ x.unread = 0
    BY <2>8 DEF NoSocket, SocketType
  <2>10. /\ socket' \in [Fds -> SocketType] /\ socket'[g] = x
         /\ \A h \in Fds \ {g} : /\ socket'[h].state = socket[h].state /\ socket'[h].out = socket[h].out
                                 /\ socket[h].state = "listening" \/ socket'[h] = socket[h]
    <3>1. socket[f] \in SocketType /\ socket[f].state = "listening"
      BY <1>2 DEF NetInv, NetType, ServerInv
    <3>2. PICK y : y = [socket[f] EXCEPT !.unread = @ - 1]
      OBVIOUS
    <3>3. y \in SocketType /\ y.state = socket[f].state /\ y.out = socket[f].out
      BY <1>4, <3>1, <3>2 DEF SocketType
    <3>4. socket' = [[socket EXCEPT ![f] = y] EXCEPT ![g] = x]
      BY <1>4, <2>8, <3>2
    <3> QED BY <2>3, <2>9, <3>1, <3>3, <3>4 DEF NetInv, NetType
  <2>11. /\ m_connectQueue' \in Seq(Clients) /\ IsInjective(m_connectQueue')
         /\ \A d : InChain(m_connectQueue', d) <=> InChain(m_connectQueue, d) /\ d # p
         /\ UNCHANGED <<m_serverBySocket, m_listenQueue, m_sendQueue, m_readQueue>>
    <3>1. m_connectQueue' = m_connectQueue
      BY <1>2 DEF queues
    <3>2. m_connectQueue \in Seq(Clients) /\ IsInjective(m_connectQueue)
      BY DEF NetInv, NetType, PeerInv
    <3> QED BY <1>2, <2>2, <3>1, <3>2 DEF queues
  <2>12. /\ server' \in [Servers -> ServerType]
         /\ \A t \in Servers : /\ server'[t].m_fd = server[t].m_fd /\ server'[t].m_registeredListen = server[t].m_registeredListen
                               /\ server'[t].actor = server[t].actor
    <3>1. server[s] \in ServerType
      BY TypesKept
    <3>2. PICK n : n = [server[s] EXCEPT !.m_serverProcesses = server[s].m_serverProcesses \cup {p}]
      OBVIOUS
    <3>3. n \in ServerType /\ n.m_fd = server[s].m_fd /\ n.m_registeredListen = server[s].m_registeredListen /\ n.actor = server[s].actor
      BY <3>1, <3>2 DEF ServerType
    <3>4. server' = [server EXCEPT ![s] = n]
      BY <1>4, <3>2
    <3> QED BY <3>3, <3>4, OneServer DEF NetInv
  <2>13. registration' \in RegType
    BY <1>4, TypesKept, RegisteredType DEF Callbacks
  <2>14. /\ running' \in RunType
         /\ running'.events \subseteq running.events
         /\ running'.events # {} => running'.callback = "epoll" /\ running'.count = 1
    BY RestOfEvents
  <2>15. \A h \in DOMAIN m_clientBySocket : <<h, "in">> \in running.events => <<h, "in">> \in running'.events
    BY <1>2, RestOfEvents, TypesKept
  <2> QED BY <1>4, <2>1, <2>2, <2>5, <2>6, <2>7, <2>9, <2>10, <2>11, <2>12, <2>13, <2>14, <2>15, NewSocket
<1> QED BY <1>1, <1>3, <1>4 DEF onNewConnection

\* Only what is to be read of the sockets of clients changes.
LEMMA OnlyReading ==
  ASSUME NetInv, client' \in [Peers -> PeerType],
         \A c \in Peers : /\ client'[c].m_fd = client[c].m_fd /\ client'[c].actor = client[c].actor
                          /\ client'[c].m_connectingFlag = client[c].m_connectingFlag
                          /\ client'[c].m_inConnectQueueFlag = client[c].m_inConnectQueueFlag
                          /\ client'[c].content = client[c].content /\ client'[c].m_inSendQueueFlag = client[c].m_inSendQueueFlag,
         m_readQueue' \in Seq(Fds), socket' \in [Fds -> SocketType],
         \A g \in Fds : /\ socket'[g].state = socket[g].state /\ socket'[g].out = socket[g].out
                        /\ socket'[g].unread <= socket[g].unread,
         running' \in RunType,
         running'.events \subseteq running.events,
         running'.events # {} => running'.callback = "epoll" /\ running'.count = 1,
         UNCHANGED <<server, tables, m_connectQueue, m_listenQueue, m_sendQueue, registration>>,
         \A g \in DOMAIN m_clientBySocket : ReadOk(g)'
  PROVE  NetInv'
<1> USE DEF NetInv
<1>1. UNCHANGED <<m_clientBySocket, m_serverBySocket, m_connectionPending>>
  BY DEF tables
<1>2. NetType'
  BY <1>1 DEF NetType
<1>3. PeerInv'
  <2>1. \A f \in DOMAIN m_clientBySocket : socket'[f].state \in {"connecting", "up", "eof", "broken"}
    BY TypesKept DEF PeerInv, TableOk
  <2> QED BY <1>1, <2>1, PeerFrame
<1>4. ServerInv'
  BY <1>1, TypesKept, ServerFrame
<1>5. SendInv'
  BY <1>1, SendFrame
<1>6. ReadInv'
  <2>1. \A g \in Fds : socket'[g].unread \in Nat /\ socket[g].unread \in Nat
    BY DEF NetType, SocketType
  <2>2. \A g \in Fds : socket'[g].state = "connecting" => socket'[g].unread = 0
    BY <2>1 DEF ReadInv
  <2> QED BY <1>1, <2>2, TypesKept DEF ReadInv
<1> QED BY <1>2, <1>3, <1>4, <1>5, <1>6

LEMMA FlagType ==
  ASSUME NEW m \in PeerType, NEW told \in BOOLEAN, NEW n, n = [m EXCEPT !.m_messageToReadFlag = told]
  PROVE  /\ n \in PeerType /\ n.m_fd = m.m_fd /\ n.actor = m.actor /\ n.m_connectingFlag = m.m_connectingFlag
         /\ n.m_inConnectQueueFlag = m.m_inConnectQueueFlag /\ n.content = m.content
         /\ n.m_inSendQueueFlag = m.m_inSendQueueFlag /\ n.m_messageToReadFlag = told
<1>1. n \in PeerType
  BY DEF PeerType
<1> QED BY <1>1 DEF PeerType

\* A client is told, or not, that there is something to read.
LEMMA FlagSet ==
  ASSUME NetType, NEW c \in Peers, NEW told \in BOOLEAN, client' = [client EXCEPT ![c].m_messageToReadFlag = told]
  PROVE  /\ client' \in [Peers -> PeerType]
         /\ \A d \in Peers : /\ client'[d].m_fd = client[d].m_fd /\ client'[d].actor = client[d].actor
                             /\ client'[d].m_connectingFlag = client[d].m_connectingFlag
                             /\ client'[d].m_inConnectQueueFlag = client[d].m_inConnectQueueFlag
                             /\ client'[d].content = client[d].content
                             /\ client'[d].m_inSendQueueFlag = client[d].m_inSendQueueFlag
                             /\ d # c => client'[d].m_messageToReadFlag = client[d].m_messageToReadFlag
         /\ client'[c].m_messageToReadFlag = told
<1>1. client[c] \in PeerType
  BY DEF NetType
<1>2. PICK n : n = [client[c] EXCEPT !.m_messageToReadFlag = told]
  OBVIOUS
<1>3. /\ n \in PeerType /\ n.m_fd = client[c].m_fd /\ n.actor = client[c].actor
      /\ n.m_connectingFlag = client[c].m_connectingFlag
      /\ n.m_inConnectQueueFlag = client[c].m_inConnectQueueFlag /\ n.content = client[c].content
      /\ n.m_inSendQueueFlag = client[c].m_inSendQueueFlag /\ n.m_messageToReadFlag = told
  BY <1>1, <1>2, FlagType
<1>4. client' = [client EXCEPT ![c] = n]
  BY <1>2
<1>5. /\ client' \in [Peers -> PeerType] /\ client'[c] = n
      /\ \A d \in Peers : d # c => client'[d] = client[d]
  BY <1>3, <1>4, OnePeer
<1> QED BY <1>3, <1>5

LEMMA InvReadable ==
  ASSUME TcpAssumption, NetInv, running.callback = "epoll", running.count = 1, NEW f \in Fds, Readable(f),
         running' = [running EXCEPT !.events = {e \in @ : e[1] # f}]
  PROVE  NetInv'
<1>1. UNCHANGED <<server, tables, m_connectQueue, m_listenQueue, m_sendQueue, registration, socket>>
  BY DEF Readable
<1>2. /\ running' \in RunType
      /\ running'.events \subseteq running.events
      /\ running'.events # {} => running'.callback = "epoll" /\ running'.count = 1
      /\ \A g \in Fds \ {f} : <<g, "in">> \in running.events => <<g, "in">> \in running'.events
  BY RestOfEvents
<1>3. /\ socket' \in [Fds -> SocketType]
      /\ \A g \in Fds : /\ socket'[g].state = socket[g].state /\ socket'[g].out = socket[g].out
                        /\ socket'[g].unread <= socket[g].unread
  BY <1>1 DEF NetInv, NetType, SocketType
<1>4. CASE f \notin DOMAIN m_clientBySocket
  <2>1. UNCHANGED <<client, m_readQueue>>
    BY <1>4 DEF Readable, addToReadQueue
  <2> QED BY <1>1, <1>4, <2>1, EventDone DEF tables, queues
<1>5. CASE f \in DOMAIN m_clientBySocket
  <2>1. PICK c \in Peers : c = m_clientBySocket[f]
    BY <1>5, TypesKept
  <2>2. CASE client[c].m_autoreadFlag
    <3>1. m_readQueue' = Append(m_readQueue, f) /\ client' = client
      BY <1>5, <2>1, <2>2 DEF Readable, addToReadQueue
    <3>2. /\ m_readQueue' \in Seq(Fds)
          /\ \A b : InChain(m_readQueue', b) <=> InChain(m_readQueue, b) \/ b = f
      BY <3>1, AppendChain DEF NetInv, NetType
    <3>3. \A g \in DOMAIN m_clientBySocket : ReadOk(g)'
      BY <1>1, <1>2, <3>1, <3>2, TypesKept DEF NetInv, ReadInv, ReadOk, tables
    <3> QED BY <1>1, <1>2, <1>3, <3>1, <3>2, <3>3, TypesKept, OnlyReading
  <2>3. CASE ~client[c].m_autoreadFlag
    <3>1. m_readQueue' = m_readQueue /\ client' = [client EXCEPT ![c].m_messageToReadFlag = TRUE]
      BY <1>5, <2>1, <2>3 DEF Readable, addToReadQueue
    <3>2. /\ client' \in [Peers -> PeerType]
          /\ \A d \in Peers : /\ client'[d].m_fd = client[d].m_fd /\ client'[d].actor = client[d].actor
                              /\ client'[d].m_connectingFlag = client[d].m_connectingFlag
                              /\ client'[d].m_inConnectQueueFlag = client[d].m_inConnectQueueFlag
                              /\ client'[d].content = client[d].content
                              /\ client'[d].m_inSendQueueFlag = client[d].m_inSendQueueFlag
                              /\ d # c => client'[d].m_messageToReadFlag = client[d].m_messageToReadFlag
          /\ client'[c].m_messageToReadFlag
      BY <3>1, FlagSet DEF NetInv
    <3>3. \A g \in DOMAIN m_clientBySocket : ReadOk(g)'
      BY <1>1, <1>2, <2>1, <3>1, <3>2, TypesKept DEF NetInv, ReadInv, ReadOk, tables
    <3>4. m_readQueue' \in Seq(Fds)
      BY <3>1 DEF NetInv, NetType
    <3> QED BY <1>1, <1>2, <1>3, <3>2, <3>3, <3>4, OnlyReading
  <2> QED BY <2>2, <2>3
<1> QED BY <1>4, <1>5

\* One recv() takes what is there for one.
LEMMA Taken ==
  ASSUME NetType, NEW f,
         socket' = IF f \in Fds /\ socket[f].unread > 0 THEN [socket EXCEPT ![f].unread = @ - 1] ELSE socket
  PROVE  /\ socket' \in [Fds -> SocketType]
         /\ \A g \in Fds : /\ socket'[g].state = socket[g].state /\ socket'[g].out = socket[g].out
                           /\ socket'[g].edge = socket[g].edge /\ socket'[g].unread <= socket[g].unread
                           /\ g # f => socket'[g].unread = socket[g].unread
                           /\ g = f /\ socket'[g].unread > 0 => socket[g].unread > 1
<1>1. \A g \in Fds : socket[g] \in SocketType
  BY DEF NetType
<1>2. CASE f \in Fds /\ socket[f].unread > 0
  <2>1. PICK x : x = [socket[f] EXCEPT !.unread = @ - 1]
    OBVIOUS
  <2>2. x \in SocketType /\ x.state = socket[f].state /\ x.out = socket[f].out /\ x.edge = socket[f].edge /\ x.unread = socket[f].unread - 1
    BY <1>1, <1>2, <2>1 DEF SocketType
  <2>3. socket' = [socket EXCEPT ![f] = x]
    BY <1>2, <2>1
  <2>4. \A g \in Fds : socket[g].unread \in Nat
    BY <1>1 DEF SocketType
  <2>5. socket' \in [Fds -> SocketType] /\ socket'[f] = x /\ \A g \in Fds : g # f => socket'[g] = socket[g]
    BY <1>2, <2>2, <2>3 DEF NetType
  <2> QED BY <1>2, <2>2, <2>4, <2>5
<1>3. CASE ~(f \in Fds /\ socket[f].unread > 0)
  <2>1. \A g \in Fds : socket[g].unread \in Nat
    BY <1>1 DEF SocketType
  <2> QED BY <1>3, <2>1 DEF NetType
<1> QED BY <1>2, <1>3

LEMMA InvReadSockets ==
  ASSUME TcpAssumption, NetInv, readSockets
  PROVE  NetInv'
<1>1. PICK f : f = Head(m_readQueue)
  OBVIOUS
<1>2. /\ running.callback = "epoll" /\ running.count > 2 /\ m_readQueue # << >>
      /\ recv(f, Tail(m_readQueue)) /\ running' = [running EXCEPT !.count = @ - 1]
      /\ UNCHANGED <<server, tables, m_connectQueue, m_listenQueue, m_sendQueue, registration>>
  BY <1>1 DEF readSockets
<1>3. PICK rest \in Seq(Fds) :
        /\ rest = Tail(m_readQueue) /\ f \in Fds
        /\ \A g : InChain(m_readQueue, g) <=> InChain(rest, g) \/ g = f
  BY <1>1, <1>2, HeadChain DEF NetInv, NetType
<1>4. PICK full \in BOOLEAN, again \in BOOLEAN :
        /\ again <=> f \in DOMAIN m_clientBySocket /\ socket[f].state = "up" /\ full
        /\ f \in DOMAIN m_clientBySocket /\ socket[f].state = "up" /\ socket[f].unread # 1 => full
        /\ socket' = IF f \in Fds /\ socket[f].unread > 0 THEN [socket EXCEPT ![f].unread = @ - 1] ELSE socket
        /\ IF again /\ client[m_clientBySocket[f]].m_autoreadFlag
           THEN m_readQueue' = Append(rest, f) /\ UNCHANGED client
           ELSE /\ m_readQueue' = rest
                /\ client' = IF again THEN [client EXCEPT ![m_clientBySocket[f]].m_messageToReadFlag = TRUE] ELSE client
  BY <1>2, <1>3 DEF recv
<1>5. /\ socket' \in [Fds -> SocketType]
      /\ \A g \in Fds : /\ socket'[g].state = socket[g].state /\ socket'[g].out = socket[g].out
                        /\ socket'[g].edge = socket[g].edge /\ socket'[g].unread <= socket[g].unread
                        /\ g # f => socket'[g].unread = socket[g].unread
                        /\ g = f /\ socket'[g].unread > 0 => socket[g].unread > 1
  BY <1>4, Taken DEF NetInv
<1>6. running.events = {}
  BY <1>2, TypesKept
<1>7. /\ running' \in RunType
      /\ running'.events = {}
  BY <1>2, <1>6, TypesKept
<1>8. m_clientBySocket' = m_clientBySocket
  BY <1>2 DEF tables
<1>9. CASE again
  <2>1. PICK c \in Peers : c = m_clientBySocket[f] /\ f \in DOMAIN m_clientBySocket
    BY <1>4, <1>9, TypesKept
  <2>2. CASE client[c].m_autoreadFlag
    <3>1. m_readQueue' = Append(rest, f) /\ client' = client
      BY <1>4, <1>9, <2>1, <2>2
    <3>2. /\ m_readQueue' \in Seq(Fds)
          /\ \A b : InChain(m_readQueue', b) <=> InChain(m_readQueue, b)
      <4>1. /\ Append(rest, f) \in Seq(Fds)
            /\ \A b : InChain(Append(rest, f), b) <=> InChain(rest, b) \/ b = f
        <5>1. f \in Fds
          BY <1>3
        <5> QED BY <5>1, AppendChain
      <4> QED BY <1>3, <3>1, <4>1
    <3>3. \A g \in DOMAIN m_clientBySocket : ReadOk(g)'
      <4>1. \A g \in DOMAIN m_clientBySocket : ReadOk(g) /\ g \in Fds /\ m_clientBySocket[g] \in Peers
        BY TypesKept DEF NetInv, ReadInv
      <4>2. \A g \in DOMAIN m_clientBySocket : g # f => ReadOk(g)'
        BY <1>3, <1>5, <1>6, <1>8, <3>1, <3>2, <4>1 DEF ReadOk
      <4>3. f \in DOMAIN m_clientBySocket => ReadOk(f)'
        BY <1>3, <1>5, <1>6, <1>8, <3>1, <3>2, <4>1 DEF ReadOk
      <4> QED BY <4>2, <4>3
    <3> QED BY <1>2, <1>5, <1>7, <3>1, <3>2, <3>3, TypesKept, OnlyReading
  <2>3. CASE ~client[c].m_autoreadFlag
    <3>1. m_readQueue' = rest /\ client' = [client EXCEPT ![c].m_messageToReadFlag = TRUE]
      BY <1>4, <1>9, <2>1, <2>3
    <3>2. /\ client' \in [Peers -> PeerType]
          /\ \A d \in Peers : /\ client'[d].m_fd = client[d].m_fd /\ client'[d].actor = client[d].actor
                              /\ client'[d].m_connectingFlag = client[d].m_connectingFlag
                              /\ client'[d].m_inConnectQueueFlag = client[d].m_inConnectQueueFlag
                              /\ client'[d].content = client[d].content
                              /\ client'[d].m_inSendQueueFlag = client[d].m_inSendQueueFlag
                              /\ d # c => client'[d].m_messageToReadFlag = client[d].m_messageToReadFlag
          /\ client'[c].m_messageToReadFlag
      BY <3>1, FlagSet DEF NetInv
    <3>3. \A g \in DOMAIN m_clientBySocket : ReadOk(g)'
      <4>1. \A g \in DOMAIN m_clientBySocket : ReadOk(g) /\ g \in Fds /\ m_clientBySocket[g] \in Peers
        BY TypesKept DEF NetInv, ReadInv
      <4>2. \A g \in DOMAIN m_clientBySocket : g # f => ReadOk(g)'
        <5>1. \A g \in DOMAIN m_clientBySocket : g # f => m_clientBySocket[g] # c
          BY <2>1 DEF NetInv, PeerInv
        <5>2. \A g \in DOMAIN m_clientBySocket : g # f => (InChain(m_readQueue, g) <=> InChain(m_readQueue', g))
          BY <1>3, <3>1
        <5>3. \A g \in DOMAIN m_clientBySocket : g # f => client'[m_clientBySocket[g]].m_messageToReadFlag = client[m_clientBySocket[g]].m_messageToReadFlag
          BY <3>2, <4>1, <5>1
        <5> QED BY <1>5, <1>6, <1>8, <4>1, <5>2, <5>3 DEF ReadOk
      <4>3. f \in DOMAIN m_clientBySocket => ReadOk(f)'
        BY <1>3, <1>5, <1>6, <1>8, <2>1, <3>1, <3>2, <4>1 DEF ReadOk
      <4> QED BY <4>2, <4>3
    <3>4. m_readQueue' \in Seq(Fds)
      BY <1>3, <3>1
    <3> QED BY <1>2, <1>5, <1>7, <3>2, <3>3, <3>4, OnlyReading
  <2> QED BY <2>2, <2>3
<1>10. CASE ~again
  <2>1. m_readQueue' = rest /\ client' = client
    BY <1>4, <1>10
  <2>2. f \in DOMAIN m_clientBySocket /\ socket[f].state = "up" => socket[f].unread = 1
    BY <1>4, <1>10
  <2>3. \A g \in DOMAIN m_clientBySocket : ReadOk(g)'
    <3>1. \A g \in DOMAIN m_clientBySocket : ReadOk(g) /\ g \in Fds /\ m_clientBySocket[g] \in Peers
      BY TypesKept DEF NetInv, ReadInv
    <3>2. \A g \in DOMAIN m_clientBySocket : g # f => ReadOk(g)'
      BY <1>3, <1>5, <1>6, <1>8, <2>1, <2>2, <3>1 DEF ReadOk
    <3>3. f \in DOMAIN m_clientBySocket => ReadOk(f)'
      BY <1>3, <1>5, <1>6, <1>8, <2>1, <2>2, <3>1 DEF ReadOk
    <3> QED BY <3>2, <3>3
  <2> QED BY <1>2, <1>3, <1>5, <1>7, <2>1, <2>3, TypesKept, OnlyReading
<1> QED BY <1>9, <1>10

LEMMA InvReadSocket ==
  ASSUME TcpAssumption, NetInv, NEW c \in Peers, readSocket(c)
  PROVE  NetInv'
<1>1. PICK f : f = client[c].m_fd
  OBVIOUS
<1>2. /\ client[c].m_messageToReadFlag
      /\ UNCHANGED <<server, tables, m_connectQueue, m_listenQueue, m_sendQueue, registration, running>>
  BY DEF readSocket
<1>3. PICK more \in BOOLEAN, told \in BOOLEAN :
        /\ f \in Fds /\ socket[f].state = "up" /\ socket[f].unread # 1 => more
        /\ socket' = IF f \in Fds /\ socket[f].unread > 0 THEN [socket EXCEPT ![f].unread = @ - 1] ELSE socket
        /\ m_readQueue' = IF f \in Fds /\ socket[f].state = "up" /\ more /\ client[c].m_autoreadFlag
                          THEN Append(m_readQueue, f) ELSE m_readQueue
        /\ told <=> f \in Fds /\ socket[f].state = "up" /\ more /\ ~client[c].m_autoreadFlag
        /\ client' = [client EXCEPT ![c].m_messageToReadFlag = told]
  <2>1. PICK more \in BOOLEAN :
          LET open == f \in Fds /\ socket[f].state = "up" IN
          /\ (open /\ socket[f].unread # 1) => more
          /\ socket' = IF f \in Fds /\ socket[f].unread > 0 THEN [socket EXCEPT ![f].unread = @ - 1] ELSE socket
          /\ m_readQueue' = IF open /\ more /\ client[c].m_autoreadFlag THEN Append(m_readQueue, f) ELSE m_readQueue
          /\ client' = [client EXCEPT ![c].m_messageToReadFlag = open /\ more /\ ~client[c].m_autoreadFlag]
    BY <1>1 DEF readSocket
  <2>2. PICK told \in BOOLEAN : told = (f \in Fds /\ socket[f].state = "up" /\ more /\ ~client[c].m_autoreadFlag)
    <3>1. CASE f \in Fds /\ socket[f].state = "up" /\ more /\ ~client[c].m_autoreadFlag
      BY <3>1, Zenon
    <3>2. CASE ~(f \in Fds /\ socket[f].state = "up" /\ more /\ ~client[c].m_autoreadFlag)
      <4>1. (f \in Fds /\ socket[f].state = "up" /\ more /\ ~client[c].m_autoreadFlag) = FALSE
        BY <3>2
      <4> QED BY <4>1, Zenon
    <3> QED BY <3>1, <3>2
  <2>3. client' = [client EXCEPT ![c].m_messageToReadFlag = told]
    BY <2>1, <2>2, Zenon
  <2> QED BY <2>1, <2>2, <2>3
<1>4. /\ client' \in [Peers -> PeerType]
      /\ \A d \in Peers : /\ client'[d].m_fd = client[d].m_fd /\ client'[d].actor = client[d].actor
                          /\ client'[d].m_connectingFlag = client[d].m_connectingFlag
                          /\ client'[d].m_inConnectQueueFlag = client[d].m_inConnectQueueFlag
                          /\ client'[d].content = client[d].content
                          /\ client'[d].m_inSendQueueFlag = client[d].m_inSendQueueFlag
                          /\ d # c => client'[d].m_messageToReadFlag = client[d].m_messageToReadFlag
      /\ client'[c].m_messageToReadFlag = told
  BY <1>3, FlagSet DEF NetInv
<1>5. /\ socket' \in [Fds -> SocketType]
      /\ \A g \in Fds : /\ socket'[g].state = socket[g].state /\ socket'[g].out = socket[g].out
                        /\ socket'[g].edge = socket[g].edge /\ socket'[g].unread <= socket[g].unread
                        /\ g # f => socket'[g].unread = socket[g].unread
                        /\ g = f /\ socket'[g].unread > 0 => socket[g].unread > 1
  BY <1>3, Taken DEF NetInv
<1>6. /\ m_readQueue' \in Seq(Fds)
      /\ \A b : InChain(m_readQueue, b) => InChain(m_readQueue', b)
      /\ f \in Fds /\ socket[f].state = "up" /\ more /\ client[c].m_autoreadFlag => InChain(m_readQueue', f)
  BY <1>3, AppendChain DEF NetInv, NetType
<1>7. m_clientBySocket' = m_clientBySocket /\ running' = running
  BY <1>2 DEF tables
<1>8. ASSUME NEW g \in DOMAIN m_clientBySocket PROVE ReadOk(g)'
  <2>1. g \in Fds /\ m_clientBySocket[g] \in Peers /\ ReadOk(g)
    BY TypesKept DEF NetInv, ReadInv
  <2>2. CASE m_clientBySocket[g] # c
    <3>1. g # f
      BY <1>1, <2>2, TypesKept, FdIsOpen, <2>1 DEF NetInv, PeerInv, PeerOk
    <3> QED BY <1>4, <1>5, <1>6, <1>7, <2>1, <2>2, <3>1 DEF ReadOk
  <2>3. CASE m_clientBySocket[g] = c /\ client[c].m_fd # g
    <3>1. g \in DOMAIN m_connectionPending
      BY <2>3 DEF NetInv, PeerInv, TableOk
    <3>2. socket[g].state = "up" => socket[g].out
      BY <3>1 DEF NetInv, ReadInv
    <3> QED BY <1>5, <2>1, <3>2 DEF ReadOk
  <2>4. CASE m_clientBySocket[g] = c /\ client[c].m_fd = g
    BY <1>1, <1>3, <1>4, <1>5, <1>6, <1>7, <2>1, <2>4 DEF ReadOk
  <2> QED BY <2>2, <2>3, <2>4
<1> QED BY <1>2, <1>4, <1>5, <1>6, <1>7, <1>8, TypesKept, OnlyReading

-----------------------------------------------------------------------------
(* The end of the network, and the kernel.                                 *)

LEMMA InvNetworkDestroyed ==
  ASSUME TcpAssumption, NetInv, NetworkDestroyed
  PROVE  NetInv'
<1>1. /\ \A c \in Peers : client[c].actor \in {"none", "gone"}
      /\ \A s \in Servers : server[s].actor = "gone"
      /\ running = Idle /\ running' = [Idle EXCEPT !.callback = "destroyed"]
      /\ socket' = CloseAll(socket, DOMAIN m_clientBySocket \cup DOMAIN m_serverBySocket)
      /\ m_clientBySocket' = Nothing /\ m_serverBySocket' = Nothing
      /\ m_connectionPending' = Dropped(m_connectionPending, DOMAIN m_clientBySocket)
      /\ registration' = [registration EXCEPT !.chain = {}]
      /\ UNCHANGED <<client, server, queues>>
  BY DEF NetworkDestroyed
<1>2. DOMAIN m_clientBySocket = {}
  <2> SUFFICES ASSUME NEW f \in DOMAIN m_clientBySocket PROVE FALSE
    OBVIOUS
  <2>1. client[m_clientBySocket[f]].actor = "live" /\ m_clientBySocket[f] \in Peers
    BY TypesKept DEF NetInv, PeerInv, TableOk
  <2> QED BY <1>1, <2>1
<1>3. DOMAIN m_serverBySocket = {}
  <2> SUFFICES ASSUME NEW f \in DOMAIN m_serverBySocket PROVE FALSE
    OBVIOUS
  <2>1. server[m_serverBySocket[f]].m_fd = f /\ f # Closed /\ m_serverBySocket[f] \in Servers
    BY TypesKept DEF NetInv, ServerInv
  <2>2. server[m_serverBySocket[f]].actor = "live"
    BY <2>1 DEF NetInv, ServerInv
  <2> QED BY <1>1, <2>1, <2>2
<1>4. DOMAIN m_connectionPending = {}
  BY <1>2 DEF NetInv, PeerInv
<1>5. /\ DOMAIN m_clientBySocket' = {} /\ DOMAIN m_serverBySocket' = {} /\ DOMAIN m_connectionPending' = {}
  BY <1>1, <1>4 DEF Nothing, Dropped
<1>6. socket' = CloseAll(socket, {})
  BY <1>1, <1>2, <1>3
<1>7. registration' \in RegType
  BY <1>1, TypesKept
<1>8. /\ running' \in RunType
      /\ running'.events = {} /\ running.events = {}
  BY <1>1 DEF Idle
<1>9. client' = client /\ server' = server /\ UNCHANGED queues
  BY <1>1
<1>10. Closing({}, {}, {})
  BY <1>2, <1>3, <1>4, <1>5, <1>6, <1>7, <1>8, <1>9, TypesKept DEF Closing
<1> QED BY <1>10, Ends

\* Only one socket changes; what is to be read of it is told.
LEMMA OnlySocket ==
  ASSUME NetInv, NEW f \in Fds, NEW x \in SocketType, socket' = [socket EXCEPT ![f] = x],
         UNCHANGED <<client, server, tables, queues, registration, running>>,
         x.state = socket[f].state \/ (socket[f].state \in {"connecting", "up"} /\ x.state \in {"up", "eof", "broken"}),
         x.state # "connecting", x.state = "up" => x.out = socket[f].out,
         x.state = "up" /\ x.unread > 0 => x.edge
  PROVE  NetInv'
<1> USE DEF NetInv
<1>1. /\ socket' \in [Fds -> SocketType] /\ socket'[f] = x
      /\ \A g \in Fds : g # f => socket'[g] = socket[g]
  BY DEF NetType
<1>2. /\ m_connectQueue' = m_connectQueue /\ m_listenQueue' = m_listenQueue
      /\ m_sendQueue' = m_sendQueue /\ m_readQueue' = m_readQueue
      /\ m_clientBySocket' = m_clientBySocket /\ m_serverBySocket' = m_serverBySocket
      /\ m_connectionPending' = m_connectionPending
      /\ client' = client /\ server' = server /\ registration' = registration /\ running' = running
  BY DEF tables, queues
<1>3. NetType'
  BY <1>1, <1>2 DEF NetType
<1>4. PeerInv'
  <2>1. \A g \in DOMAIN m_clientBySocket : socket'[g].state \in {"connecting", "up", "eof", "broken"}
    BY <1>1, TypesKept DEF PeerInv, TableOk
  <2> QED BY <1>2, <2>1, PeerFrame
<1>5. ServerInv'
  <2>1. \A g \in DOMAIN m_serverBySocket : socket'[g].state = socket[g].state
    BY <1>1, TypesKept DEF ServerInv
  <2> QED BY <1>2, <2>1, ServerFrame
<1>6. SendInv'
  BY <1>2, SendFrame
<1>7. ReadInv'
  <2>1. \A g \in DOMAIN m_clientBySocket : ReadOk(g)'
    BY <1>1, <1>2, TypesKept DEF ReadInv, ReadOk
  <2>2. /\ \A g \in Fds : socket'[g].state = "connecting" => socket'[g].unread = 0
        /\ \A g \in DOMAIN m_connectionPending' : socket'[g].state \in {"connecting", "up"} => socket'[g].out
    BY <1>1, <1>2, TypesKept DEF ReadInv
  <2> QED BY <1>2, <2>1, <2>2 DEF ReadInv
<1> QED BY <1>3, <1>4, <1>5, <1>6, <1>7

LEMMA InvToState ==
  ASSUME NetInv, NEW f \in Fds, NEW from, NEW to, ToState(f, from, to),
         <<from, to>> \in {<<"connecting", "up">>, <<"connecting", "broken">>, <<"up", "broken">>, <<"up", "eof">>}
  PROVE  NetInv'
<1>1. socket[f] \in SocketType /\ socket[f].state = from
  BY DEF ToState, NetInv, NetType
<1>2. UNCHANGED <<client, server, tables, queues, registration, running>>
  BY DEF ToState
<1>3. PICK e \in BOOLEAN : e = (to = "eof")
  <2>1. CASE to = "eof"
    BY <2>1, Zenon
  <2>2. CASE to # "eof"
    <3>1. (to = "eof") = FALSE
      BY <2>2
    <3> QED BY <3>1, Zenon
  <2> QED BY <2>1, <2>2
<1>4. PICK x : x = IF to = "broken" THEN [NoSocket EXCEPT !.state = to] ELSE [socket[f] EXCEPT !.state = to, !.edge = e]
  OBVIOUS
<1>5. socket' = [socket EXCEPT ![f] = x]
  BY <1>3, <1>4 DEF ToState
<1>6. CASE to = "broken"
  <2>1. x \in SocketType /\ x.state = "broken"
    BY <1>4, <1>6 DEF NoSocket, SocketType
  <2> QED BY <1>1, <1>2, <1>5, <2>1, OnlySocket
<1>7. CASE to # "broken"
  <2>1. x = [socket[f] EXCEPT !.state = to, !.edge = e]
    BY <1>4, <1>7
  <2>2. x \in SocketType
    BY <1>1, <2>1 DEF SocketType
  <2>3. x.state = to /\ x.out = socket[f].out /\ x.unread = socket[f].unread
    BY <1>1, <2>1 DEF SocketType
  <2>4. from = "connecting" => socket[f].unread = 0
    BY <1>1 DEF NetInv, ReadInv
  <2>5. from \in {"connecting", "up"} /\ to \in {"up", "eof"} /\ (to = "up" => from = "connecting")
    BY <1>7
  <2>6. socket[f].state \in {"connecting", "up"} /\ x.state \in {"up", "eof", "broken"} /\ x.state # "connecting"
    BY <1>1, <2>3, <2>5
  <2>7. x.state = "up" => x.out = socket[f].out
    BY <2>3
  <2>8. x.state = "up" /\ x.unread > 0 => x.edge
    BY <2>3, <2>4, <2>5
  <2> QED BY <1>2, <1>5, <2>2, <2>6, <2>7, <2>8, OnlySocket
<1> QED BY <1>6, <1>7

LEMMA InvRemote ==
  ASSUME NetInv, NEW f \in Fds, Remote(f)
  PROVE  NetInv'
<1>1. PICK from, to : /\ ToState(f, from, to)
                      /\ <<from, to>> \in {<<"connecting", "up">>, <<"connecting", "broken">>, <<"up", "broken">>, <<"up", "eof">>}
  BY DEF Remote
<1> QED BY <1>1, InvToState

LEMMA InvArrive ==
  ASSUME NetInv, NEW f \in Fds, Arrive(f)
  PROVE  NetInv'
<1>1. socket[f] \in SocketType /\ socket[f].state \in {"up", "listening"}
  BY DEF Arrive, NetInv, NetType
<1>2. UNCHANGED <<client, server, tables, queues, registration, running>>
  BY DEF Arrive
<1>3. PICK e \in BOOLEAN : e = (socket[f].state = "up")
  <2>1. CASE socket[f].state = "up"
    BY <2>1, Zenon
  <2>2. CASE socket[f].state # "up"
    <3>1. (socket[f].state = "up") = FALSE
      BY <2>2
    <3> QED BY <3>1, Zenon
  <2> QED BY <2>1, <2>2
<1>4. PICK x : x = [socket[f] EXCEPT !.unread = @ + 1, !.edge = e]
  OBVIOUS
<1>5. socket' = [socket EXCEPT ![f] = x]
  BY <1>3, <1>4 DEF Arrive, NetInv, NetType
<1>6. x \in SocketType
  <2>1. PICK n \in Nat : n = socket[f].unread + 1
    BY <1>1 DEF SocketType
  <2>2. x = [socket[f] EXCEPT !.unread = n, !.edge = e]
    BY <1>4, <2>1
  <2> QED BY <1>1, <2>2 DEF SocketType
<1>7. x.state = socket[f].state /\ x.out = socket[f].out /\ x.edge = e
  BY <1>1, <1>4 DEF SocketType
<1>8. x.state = "up" => x.edge
  BY <1>3, <1>7
<1> QED BY <1>1, <1>2, <1>5, <1>6, <1>7, <1>8, OnlySocket

-----------------------------------------------------------------------------
(* The sockets agree.                                                      *)

\* The network before its first client.
LEMMA InvTcpInit == TcpAssumption /\ TcpInit => NetInv
<1> SUFFICES ASSUME TcpAssumption, TcpInit PROVE NetInv
  OBVIOUS
<1>1. PICK cast \in Casts :
        /\ client = [c \in Peers |-> IF c \in cast THEN NewClient ELSE [NewClient EXCEPT !.actor = "none"]]
        /\ server = [s \in Servers |-> [m_fd |-> Closed, m_registeredListen |-> FALSE, m_serverProcesses |-> {},
                                        actor |-> IF s \in cast THEN "live" ELSE "gone"]]
  BY DEF TcpInit
<1>2. /\ DOMAIN m_clientBySocket = {} /\ DOMAIN m_serverBySocket = {} /\ DOMAIN m_connectionPending = {}
      /\ m_connectQueue = << >> /\ m_listenQueue = << >> /\ m_sendQueue = << >> /\ m_readQueue = << >>
      /\ registration = [m_isRegisteredFlag |-> {}, chain |-> {}]
      /\ running = Idle /\ socket = [f \in Fds |-> NoSocket]
  BY DEF TcpInit, Nothing
<1>3. [NewClient EXCEPT !.actor = "none"] \in PeerType
  BY NewClientType DEF PeerType
<1>4. \A c \in Peers : /\ client[c] \in PeerType /\ client[c].m_fd = Closed /\ client[c].content = 0
                       /\ ~client[c].m_connectingFlag /\ ~client[c].m_inConnectQueueFlag /\ ~client[c].m_inSendQueueFlag
  BY <1>1, <1>3, NewClientType DEF PeerType
<1>5. client \in [Peers -> PeerType]
  BY <1>1, <1>3, NewClientType
<1>6. server \in [Servers -> ServerType] /\ \A s \in Servers : server[s].m_fd = Closed /\ ~server[s].m_registeredListen
  BY <1>1 DEF ServerType
<1>7. socket \in [Fds -> SocketType] /\ \A f \in Fds : socket[f].state = "free"
  BY <1>2 DEF SocketType, NoSocket
<1>8. << >> \in Seq(Clients) /\ << >> \in Seq(Servers) /\ << >> \in Seq(Fds)
  OBVIOUS
<1>9. NetType
  BY <1>2, <1>5, <1>6, <1>7, <1>8, IdleType DEF NetType
<1>10. PeerInv
  BY <1>2, <1>4, EmptyChain DEF PeerInv, PeerOk
<1>11. ServerInv
  BY <1>2, <1>6, EmptyChain DEF ServerInv
<1>12. SendInv
  BY <1>4 DEF SendInv
<1>13. ReadInv
  BY <1>2, <1>7, IdleType DEF ReadInv
<1> QED BY <1>9, <1>10, <1>11, <1>12, <1>13 DEF NetInv

LEMMA InvEvent ==
  ASSUME TcpAssumption, NetInv, NEW f \in Fds, Event(f)
  PROVE  NetInv'
BY InvBroken, InvCompleteConnection, InvNotModified, InvNewConnection, InvReadable DEF Event

LEMMA InvStutter ==
  ASSUME NetInv, UNCHANGED tcpVars
  PROVE  NetInv'
<1>1. UNCHANGED <<client, server, tables, queues, registration, running, socket>>
  BY DEF tcpVars
<1> QED BY <1>1 DEF NetInv, NetType, PeerInv, TableOk, PeerOk, HasSocket, ServerInv, SendInv, ReadInv, ReadOk, InChain, tables, queues

\* Every step keeps the inductive invariant.
LEMMA InvTcpNext == TcpAssumption /\ Careful /\ NetInv /\ [TcpNext]_tcpVars => NetInv'
<1> SUFFICES ASSUME TcpAssumption, Careful, NetInv, [TcpNext]_tcpVars PROVE NetInv'
  OBVIOUS
<1>1. ASSUME ClientCalls PROVE NetInv'
  BY <1>1, InvRegisterConnect, InvDisconnectBase, InvSelfDestroy, InvOnDestroyRequest, InvReadSocket, InvSendBase, InvSetAutoRead
     DEF ClientCalls
<1>2. ASSUME ServerCalls PROVE NetInv'
  BY <1>2, InvRegisterListen, InvStopListening, InvServerDestroyed, InvDestroyNotification DEF ServerCalls
<1>3. ASSUME NetworkStep PROVE NetInv'
  BY <1>3, InvCall, InvConnectFails, InvConnectRefused, InvConnect, InvEnds, InvPending, InvListen, InvSend, InvEpollWait,
     InvEvent, InvEpollEnds, InvReadSockets, InvNetworkDestroyed DEF NetworkStep
<1>4. ASSUME NEW f \in Fds, Remote(f) \/ Arrive(f) PROVE NetInv'
  BY <1>4, InvRemote, InvArrive
<1>5. ASSUME UNCHANGED tcpVars PROVE NetInv'
  BY <1>5, InvStutter
<1> QED BY <1>1, <1>2, <1>3, <1>4, <1>5 DEF TcpNext

\* The inductive invariant implies the property.
LEMMA InvAgrees == NetInv => SocketsAgree
<1> SUFFICES ASSUME NetInv PROVE SocketsAgree
  OBVIOUS
<1>1. TcpTypeOK
  <2>1. \A c \in Peers : /\ client[c].m_fd \in Fds \cup {Closed} /\ client[c].content \in 0 .. SendBufferSize
                         /\ client[c].actor \in {"none", "live", "leaving", "gone"}
    BY DEF NetInv, NetType, PeerType
  <2>2. registration.chain \cup registration.m_isRegisteredFlag \subseteq Callbacks
    BY DEF NetInv, NetType
  <2> QED BY <2>1, <2>2, TypesKept DEF TcpTypeOK, Range
<1>2. \A f \in DOMAIN m_clientBySocket :
        /\ socket[f].state # "free" /\ client[m_clientBySocket[f]].actor \in {"live", "leaving"}
        /\ client[m_clientBySocket[f]].m_fd = f
             \/ (client[m_clientBySocket[f]].m_connectingFlag /\ f \in DOMAIN m_connectionPending)
  BY DEF NetInv, PeerInv, TableOk
<1>3. \A c \in Peers : /\ client[c].m_fd # Closed =>
                            client[c].m_fd \in DOMAIN m_clientBySocket /\ m_clientBySocket[client[c].m_fd] = c
                       /\ client[c].m_connectingFlag =>
                            (client[c].m_inConnectQueueFlag <=> ~\E f \in DOMAIN m_clientBySocket : m_clientBySocket[f] = c)
                       /\ client[c].m_inConnectQueueFlag <=> c \in Range(m_connectQueue)
  BY DEF NetInv, PeerInv, PeerOk, HasSocket, InChain, Range
<1>4. \A s \in Servers : /\ server[s].m_fd # Closed =>
                              server[s].m_fd \in DOMAIN m_serverBySocket /\ m_serverBySocket[server[s].m_fd] = s
                         /\ s \in Range(m_listenQueue) => server[s].m_registeredListen
  BY DEF NetInv, ServerInv, InChain, Range
<1>5. \A f \in DOMAIN m_serverBySocket : socket[f].state = "listening" /\ server[m_serverBySocket[f]].m_fd = f
  BY DEF NetInv, ServerInv
<1> QED BY <1>1, <1>2, <1>3, <1>4, <1>5 DEF SocketsAgree

\* The tables of the Network, the members of clients and servers, the queues and the
\* kernel's sockets agree at every step of the five callbacks and of the calls between
\* them (network.hpp, client.hpp, server.hpp), whichever system calls fail, as long as
\* users are Careful.
THEOREM SocketsAlwaysAgree ==
  ASSUME Careful
  PROVE  TcpSpec => []SocketsAgree
<1>1. TcpInit => NetInv
  BY InvTcpInit, TcpAssumption
<1>2. NetInv /\ [TcpNext]_tcpVars => NetInv'
  BY InvTcpNext, TcpAssumption
<1> QED BY <1>1, <1>2, InvAgrees, PTL DEF TcpSpec


-----------------------------------------------------------------------------
(* Whatever waits is served.                                               *)

\* r becomes s: the callbacks of K are registered, and send and epoll may be taken
\* out of the chain.
Keeps(r, s, K) ==
  /\ s.m_isRegisteredFlag = r.m_isRegisteredFlag \cup K
  /\ s.chain \subseteq r.chain \cup K
  /\ r.chain \ {"send", "epoll"} \subseteq s.chain
  /\ (K \ r.m_isRegisteredFlag) \ {"send", "epoll"} \subseteq s.chain

\* What waits after the step waited before, or has its callback in K.
NoMoreWaits(K) ==
  /\ m_connectQueue' # << >> => m_connectQueue # << >> \/ "connect" \in K
  /\ m_listenQueue' # << >> => m_listenQueue # << >> \/ "listen" \in K
  /\ DOMAIN m_connectionPending' # {} => DOMAIN m_connectionPending # {} \/ "pending" \in K
  /\ DOMAIN m_clientBySocket' # {} => DOMAIN m_clientBySocket # {} \/ "epoll" \in K
  /\ DOMAIN m_serverBySocket' # {} => DOMAIN m_serverBySocket # {} \/ running.callback = "listen"
  /\ \A c \in Peers : client'[c].m_fd # Closed /\ client'[c].content > 0 =>
       (client[c].m_fd # Closed /\ client[c].content > 0) \/ "send" \in K

\* Nothing is registered,
LEMMA KeepsSelf ==
  ASSUME NEW r \in RegType
  PROVE  Keeps(r, r, {})
BY DEF Keeps

\* ... or one callback,
LEMMA KeepsRegistered ==
  ASSUME NEW r \in RegType, NEW k \in Callbacks
  PROVE  Keeps(r, registerCallbackOnce(r, k), {k}) /\ registerCallbackOnce(r, k) \in RegType
BY DEF Keeps, RegType, registerCallbackOnce

\* ... or some are taken out of the chain,
LEMMA KeepsUnregistered ==
  ASSUME NEW r \in RegType, NEW clients, NEW servers
  PROVE  Keeps(r, Unregistered(r, clients, servers), {}) /\ Unregistered(r, clients, servers) \in RegType
BY UnregisteredType DEF Keeps, RegType

\* ... or one after the other.
LEMMA KeepsBoth ==
  ASSUME NEW r, NEW s, NEW t, NEW K, NEW L, Keeps(r, s, K), Keeps(s, t, L)
  PROVE  Keeps(r, t, K \cup L)
BY DEF Keeps

\* What waits afterwards waited before or is registered: then it is served.
LEMMA WaitFrame ==
  ASSUME WaitInv, NEW K, Keeps(registration, registration', K), NoMoreWaits(K),
         running'.callback = running.callback, running.callback # "send"
  PROVE  WaitInv'
<1>1. Known \subseteq Known' /\ K \subseteq Known'
  BY DEF Keeps, Known
<1>2. RegInv'
  BY DEF WaitInv, RegInv, Keeps, Known
<1>3. CallInv'
  BY <1>1 DEF WaitInv, CallInv, NoMoreWaits
<1>4. SendsInv'
  BY <1>1 DEF WaitInv, SendsInv, NoMoreWaits
<1> QED BY <1>2, <1>3, <1>4 DEF WaitInv

\* Nothing that waits changes but that a client ends.
LEMMA WaitEnds ==
  ASSUME NetInv, WaitInv, NEW E \in SUBSET Peers,
         \A c \in Peers \ E : client'[c] = client[c],
         \A c \in E : client'[c].m_fd = Closed \/ client'[c].content = 0,
         DOMAIN m_clientBySocket' \subseteq DOMAIN m_clientBySocket,
         DOMAIN m_serverBySocket' \subseteq DOMAIN m_serverBySocket,
         DOMAIN m_connectionPending' \subseteq DOMAIN m_connectionPending, UNCHANGED queues,
         Keeps(registration, registration', {}),
         running'.callback = running.callback, running.callback # "send"
  PROVE  WaitInv'
<1>1. \A c \in Peers : client'[c].m_fd # Closed /\ client'[c].content > 0 => client[c].m_fd # Closed /\ client[c].content > 0
  <2> TAKE c \in Peers
  <2>1. CASE c \in E
    BY <2>1 DEF NetInv, SendInv
  <2>2. CASE c \notin E
    BY <2>2
  <2> QED BY <2>1, <2>2
<1>2. NoMoreWaits({})
  BY <1>1 DEF NoMoreWaits, queues
<1> QED BY <1>2, WaitFrame

\* One client calls or is called.
LEMMA WaitClient ==
  ASSUME NetInv, NEW c \in Peers, WaitInv, 
         registerConnect(c) \/ (\E size \in 1 .. SendBufferSize : sendBase(c, size))
           \/ (\E autoread \in BOOLEAN : setAutoRead(c, autoread)) \/ readSocket(c)
  PROVE  WaitInv'
<1>1. registration \in RegType /\ client[c] \in PeerType /\ client \in [Peers -> PeerType]
  BY DEF NetInv, NetType, RegType
<1>2. CASE registerConnect(c)
  <2>1. \A d \in Peers : client'[d].m_fd = client[d].m_fd /\ client'[d].content = client[d].content
    BY <1>1, <1>2 DEF registerConnect, PeerType
  <2>2. running.callback # "send" /\ UNCHANGED <<running, tables, m_listenQueue>>
    BY <1>2 DEF registerConnect, Live
  <2>3. CASE client[c].m_inConnectQueueFlag
    <3>1. UNCHANGED <<m_connectQueue, registration>>
      BY <1>2, <2>3 DEF registerConnect
    <3>2. NoMoreWaits({})
      BY <2>1, <2>2, <3>1 DEF NoMoreWaits, tables
    <3> QED BY <1>1, <2>2, <3>1, <3>2, KeepsSelf, WaitFrame
  <2>4. CASE ~client[c].m_inConnectQueueFlag
    <3>1. registration' = registerCallbackOnce(registration, "connect")
      BY <1>2, <2>4 DEF registerConnect
    <3>2. NoMoreWaits({"connect"})
      BY <2>1, <2>2 DEF NoMoreWaits, tables
    <3>3. Keeps(registration, registration', {"connect"})
      BY <1>1, <3>1, KeepsRegistered DEF Callbacks
    <3> QED BY <2>2, <3>2, <3>3, WaitFrame
  <2> QED BY <2>3, <2>4
<1>3. ASSUME NEW size \in 1 .. SendBufferSize, sendBase(c, size)
      PROVE  WaitInv'
  <2>1. /\ \A d \in Peers \ {c} : client'[d] = client[d]
        /\ client[c].m_fd # Closed
    BY <1>1, <1>3 DEF sendBase
  <2>2. running.callback # "send" /\ UNCHANGED <<running, tables, m_listenQueue, m_connectQueue>>
    BY <1>3 DEF sendBase, Live
  <2>3. CASE client[c].m_inSendQueueFlag
    <3>1. UNCHANGED registration /\ client[c].content > 0
      BY <1>3, <2>1, <2>3 DEF sendBase, NetInv, SendInv
    <3>2. NoMoreWaits({})
      BY <2>1, <2>2, <3>1 DEF NoMoreWaits, tables
    <3> QED BY <1>1, <2>2, <3>1, <3>2, KeepsSelf, WaitFrame
  <2>4. CASE ~client[c].m_inSendQueueFlag
    <3>1. registration' = registerCallbackOnce(registration, "send")
      BY <1>3, <2>4 DEF sendBase
    <3>2. NoMoreWaits({"send"})
      BY <2>1, <2>2 DEF NoMoreWaits, tables
    <3>3. Keeps(registration, registration', {"send"})
      BY <1>1, <3>1, KeepsRegistered DEF Callbacks
    <3> QED BY <2>2, <3>2, <3>3, WaitFrame
  <2> QED BY <2>3, <2>4
<1>4. CASE (\E autoread \in BOOLEAN : setAutoRead(c, autoread)) \/ readSocket(c)
  <2>1. \A d \in Peers : client'[d].m_fd = client[d].m_fd /\ client'[d].content = client[d].content
    <3>1. CASE \E autoread \in BOOLEAN : setAutoRead(c, autoread)
      BY <1>1, <3>1 DEF setAutoRead, PeerType
    <3>2. CASE readSocket(c)
      BY <1>1, <3>2 DEF readSocket, PeerType
    <3> QED BY <1>4, <3>1, <3>2
  <2>2. running.callback # "send" /\ UNCHANGED <<running, tables, m_listenQueue, m_connectQueue, registration>>
    BY <1>4 DEF setAutoRead, readSocket, Live, queues
  <2>3. NoMoreWaits({})
    BY <2>1, <2>2 DEF NoMoreWaits, tables
  <2> QED BY <1>1, <2>2, <2>3, KeepsSelf, WaitFrame
<1> QED BY <1>2, <1>3, <1>4

\* Sockets are disconnected: the tables shrink.
LEMMA Disconnected ==
  ASSUME registration \in RegType, NEW fds, disconnect(fds)
  PROVE  /\ DOMAIN m_clientBySocket' \subseteq DOMAIN m_clientBySocket
         /\ DOMAIN m_serverBySocket' \subseteq DOMAIN m_serverBySocket
         /\ m_connectionPending' = m_connectionPending /\ Keeps(registration, registration', {})
<1>1. registration' = Unregistered(registration, m_clientBySocket', m_serverBySocket')
  BY DEF disconnect
<1>2. Keeps(registration, registration', {})
  BY <1>1, KeepsUnregistered
<1> QED BY <1>2 DEF disconnect, Dropped

LEMMA WaitClientEnds ==
  ASSUME TcpAssumption, NetInv, WaitInv, NEW c \in Peers,
         disconnectBase(c) \/ selfDestroy(c) \/ onDestroyRequest(c)
  PROVE  WaitInv'
<1>1. registration \in RegType /\ client[c] \in PeerType /\ client \in [Peers -> PeerType]
  BY DEF NetInv, NetType, RegType
<1>2. /\ \A d \in Peers \ {c} : client'[d] = client[d]
      /\ client'[c].m_fd = Closed \/ client'[c].content = 0
  <2>1. CASE disconnectBase(c)
    <3>1. PICK d \in PeerType : d = selfDestroyed(client[c]) /\ d.m_fd = Closed
      BY <1>1, SelfDestroyedType
    <3>2. client' = [client EXCEPT ![c] = [d EXCEPT !.content = 0, !.m_connectingFlag = FALSE]]
      BY <2>1, <3>1 DEF disconnectBase
    <3> QED BY <1>1, <3>1, <3>2 DEF PeerType
  <2>2. CASE selfDestroy(c)
    <3>1. client' = [client EXCEPT ![c] = selfDestroyed(client[c])] /\ selfDestroyed(client[c]).m_fd = Closed
      BY <1>1, <2>2, SelfDestroyedType DEF selfDestroy
    <3> QED BY <1>1, <3>1
  <2>3. CASE onDestroyRequest(c)
    BY <1>1, <2>3 DEF onDestroyRequest, NewClient
  <2> QED BY <2>1, <2>2, <2>3
<1>3. /\ running.callback # "send" /\ UNCHANGED running /\ UNCHANGED queues
      /\ IF client[c].m_fd = Closed THEN UNCHANGED <<socket, tables, registration>> ELSE disconnect({client[c].m_fd})
  BY DEF disconnectBase, selfDestroy, onDestroyRequest, Live, Idle
<1>4. /\ DOMAIN m_clientBySocket' \subseteq DOMAIN m_clientBySocket
      /\ DOMAIN m_serverBySocket' \subseteq DOMAIN m_serverBySocket
      /\ DOMAIN m_connectionPending' \subseteq DOMAIN m_connectionPending /\ Keeps(registration, registration', {})
  <2>1. CASE client[c].m_fd = Closed
    BY <1>1, <1>3, <2>1, KeepsSelf DEF tables
  <2>2. CASE client[c].m_fd # Closed
    BY <1>1, <1>3, <2>2, Disconnected
  <2> QED BY <2>1, <2>2
<1>5. PICK E \in SUBSET Peers : E = {c}
  OBVIOUS
<1>6. /\ \A d \in Peers \ E : client'[d] = client[d]
      /\ \A d \in E : client'[d].m_fd = Closed \/ client'[d].content = 0
  BY <1>2, <1>5
<1>7. UNCHANGED queues /\ running'.callback = running.callback /\ running.callback # "send"
  BY <1>3
<1> QED BY <1>4, <1>6, <1>7, WaitEnds

LEMMA WaitServer ==
  ASSUME TcpAssumption, NetInv, WaitInv, NEW s \in Servers,
         registerListen(s) \/ stopListening(s) \/ ServerDestroyed(s)
           \/ (\E p \in Processes : DestroyNotification(s, p))
  PROVE  WaitInv'
<1>1. registration \in RegType /\ client \in [Peers -> PeerType]
  BY DEF NetInv, NetType, RegType
<1>2. running.callback # "send" /\ UNCHANGED running
  BY DEF registerListen, stopListening, ServerDestroyed, DestroyNotification, Idle
<1>3. CASE registerListen(s)
  <2>1. NoMoreWaits({"listen"})
    BY <1>3 DEF registerListen, NoMoreWaits, tables
  <2>2. Keeps(registration, registration', {"listen"})
    BY <1>1, <1>3, KeepsRegistered DEF registerListen, Callbacks
  <2> QED BY <1>2, <2>1, <2>2, WaitFrame
<1>4. CASE stopListening(s)
  <2>1. UNCHANGED <<client, queues>> /\ disconnect({server[s].m_fd})
    BY <1>4 DEF stopListening
  <2> QED BY <1>1, <1>2, <2>1, Disconnected, WaitEnds
<1>5. CASE ServerDestroyed(s)
  <2> DEFINE E == {p \in server[s].m_serverProcesses : client[p].actor # "gone"} \cap Peers
  <2>1. /\ \A c \in Peers \ E : client'[c] = client[c]
        /\ \A c \in E : client'[c] = selfDestroyed(client[c])
        /\ UNCHANGED queues
    BY <1>5 DEF ServerDestroyed
  <2>2. \A c \in E : client'[c].m_fd = Closed
    BY <1>1, <2>1, SelfDestroyedType
  <2>3. PICK fds : disconnect(fds)
    BY <1>5 DEF ServerDestroyed
  <2>4. /\ DOMAIN m_clientBySocket' \subseteq DOMAIN m_clientBySocket
        /\ DOMAIN m_serverBySocket' \subseteq DOMAIN m_serverBySocket
        /\ m_connectionPending' = m_connectionPending /\ Keeps(registration, registration', {})
    BY <1>1, <2>3, Disconnected
  <2> HIDE DEF E
  <2>5. E \in SUBSET Peers
    BY DEF E
  <2> QED BY <1>2, <2>1, <2>2, <2>4, <2>5, WaitEnds
<1>6. CASE \E p \in Processes : DestroyNotification(s, p)
  <2>1. UNCHANGED <<client, tables, queues, registration>>
    BY <1>6 DEF DestroyNotification
  <2> QED BY <1>1, <1>2, <2>1, KeepsSelf, WaitEnds DEF tables
<1> QED BY <1>3, <1>4, <1>5, <1>6

\* What waits waits on, and so does what is registered and what runs.
LEMMA WaitKernel ==
  ASSUME WaitInv, UNCHANGED <<client, tables, m_connectQueue, m_listenQueue, registration, running>>
  PROVE  WaitInv'
<1>1. UNCHANGED <<client, registration, running, m_clientBySocket, m_serverBySocket, m_connectionPending,
                  m_connectQueue, m_listenQueue>>
  BY DEF tables
<1>2. Known' = Known /\ ToSend' = ToSend
  BY <1>1 DEF Known, ToSend
<1> QED BY <1>1, <1>2 DEF WaitInv, RegInv, CallInv, SendsInv

-----------------------------------------------------------------------------
(* What is left to be sent.                                                *)

\* There is an end to what is to be sent.
LEMMA SendsBounded ==
  ASSUME TcpAssumption
  PROVE  /\ Units \in Nat \ {0}
         /\ IsFiniteSet(ToSend) /\ Cardinality(ToSend) \in Nat /\ Cardinality(ToSend) <= MaxFd * Units
<1>1. Units \in Nat \ {0} /\ MaxFd \in Nat
  BY DEF Units, TcpAssumption
<1>2. /\ IsFiniteSet(Fds) /\ Cardinality(Fds) = MaxFd
      /\ IsFiniteSet(1 .. Units) /\ Cardinality(1 .. Units) = Units
  <2>1. \A n \in Nat : IsFiniteSet(1 .. n) /\ Cardinality(1 .. n) = n
    <3> TAKE n \in Nat
    <3>1. IsFiniteSet(1 .. n) /\ Cardinality(1 .. n) = IF 1 > n THEN 0 ELSE n - 1 + 1
      BY FS_Interval
    <3> QED BY <3>1
  <2> QED BY <1>1, <2>1 DEF Fds
<1>3. /\ IsFiniteSet(Fds \X (1 .. Units)) /\ Cardinality(Fds \X (1 .. Units)) = MaxFd * Units
  BY <1>2, FS_Product
<1>4. ToSend \subseteq Fds \X (1 .. Units)
  BY DEF ToSend
<1>5. IsFiniteSet(ToSend) /\ Cardinality(ToSend) <= MaxFd * Units
  BY <1>3, <1>4, FS_Subset
<1> QED BY <1>1, <1>5, FS_CardinalityType

LEMMA WaitCall ==
  ASSUME TcpAssumption, MaxSendPerLoop > MaxFd * Units, NetInv, WaitInv, NEW k \in Callbacks, Call(k)
  PROVE  WaitInv'
<1>1. /\ running.callback = "none" /\ Known' = Known \ {k} /\ running'.callback = k
      /\ registration'.chain = registration.chain \ {k} /\ k # "destroyed"
      /\ UNCHANGED <<client, m_clientBySocket, m_serverBySocket, m_connectionPending, m_connectQueue, m_listenQueue>>
  BY DEF Call, Idle, Known, tables, queues, Callbacks, NetInv, NetType
<1>2. RegInv'
  BY <1>1 DEF WaitInv, RegInv
<1>3. CallInv'
  BY <1>1 DEF WaitInv, CallInv
<1>4. (\E c \in Peers : client'[c].m_fd # Closed /\ client'[c].content > 0) =>
        "send" \in Known' \/ running'.callback = "send"
  BY <1>1 DEF WaitInv, SendsInv
<1>5. k = "send" => running'.count > Cardinality(ToSend')
  <2>1. SUFFICES ASSUME k = "send" PROVE running'.count > Cardinality(ToSend')
    OBVIOUS
  <2>2. running'.count = MaxSendPerLoop
    BY <2>1 DEF Call, Idle
  <2>3. ToSend' = ToSend
    BY <1>1 DEF ToSend
  <2>4. Cardinality(ToSend') <= MaxFd * Units /\ Cardinality(ToSend') \in Nat
    BY <2>3, SendsBounded
  <2>5. MaxFd * Units \in Nat /\ MaxSendPerLoop \in Nat
    BY SendsBounded DEF TcpAssumption
  <2> QED BY <2>2, <2>4, <2>5
<1>6. SendsInv'
  BY <1>1, <1>4, <1>5 DEF SendsInv
<1> QED BY <1>2, <1>3, <1>6 DEF WaitInv

\* The client at the head of the queue connects, or fails to.
LEMMA WaitConnect ==
  ASSUME TcpAssumption, NetInv, WaitInv, ConnectFails \/ ConnectRefused \/ (\E atonce \in BOOLEAN : Connect(atonce))
  PROVE  WaitInv'
<1> DEFINE c == Head(m_connectQueue)
<1>1. registration \in RegType /\ client \in [Peers -> PeerType] /\ m_connectQueue # << >> /\ running.callback = "connect"
  BY DEF NetInv, NetType, RegType, ConnectFails, ConnectRefused, Connect
<1>2. c \in Peers /\ client[c] \in PeerType /\ client[c].m_fd = Closed /\ client[c].content = 0
  BY <1>1, FirstConnects DEF NetInv, SendInv
<1> HIDE DEF c
<1>3. CASE ConnectFails
  <2>1. \A d \in Peers \ {c} : client'[d] = client[d]
    BY <1>1, <1>3 DEF ConnectFails, c
  <2>2. client'[c].content = 0
    BY <1>1, <1>2, <1>3 DEF ConnectFails, ConnectFailed, PeerType, c
  <2>3. \A d \in Peers : client'[d].content > 0 => client'[d] = client[d]
    BY <2>1, <2>2
  <2>4. UNCHANGED <<running, registration, m_clientBySocket, m_serverBySocket, m_connectionPending, m_listenQueue>>
    BY <1>3 DEF ConnectFails, tables
  <2>5. NoMoreWaits({})
    BY <1>1, <2>3, <2>4 DEF NoMoreWaits
  <2> QED BY <1>1, <2>4, <2>5, KeepsSelf, WaitFrame
<1>4. CASE ConnectRefused
  <2>1. PICK f \in FreeFds :
          /\ client' = [[client EXCEPT ![c].m_inConnectQueueFlag = FALSE]
                          EXCEPT ![Emplaced(m_clientBySocket, f, c)[f]] = ConnectFailed(@)]
          /\ m_clientBySocket' = Dropped(m_clientBySocket, {f})
          /\ m_connectionPending' = Dropped(m_connectionPending, {f})
    BY <1>4 DEF ConnectRefused, c
  <2>2. f \notin DOMAIN m_clientBySocket
    BY <2>1 DEF FreeFds, NetInv, PeerInv, TableOk
  <2>3. Emplaced(m_clientBySocket, f, c)[f] = c
    BY <2>2 DEF Emplaced
  <2>4. \A d \in Peers \ {c} : client'[d] = client[d]
    BY <1>1, <1>2, <2>1, <2>3
  <2>5. client'[c].content = 0
    BY <1>1, <1>2, <2>1, <2>3 DEF ConnectFailed, PeerType
  <2>6. NoMoreWaits({})
    BY <1>1, <1>2, <1>4, <2>1, <2>4, <2>5 DEF ConnectRefused, NoMoreWaits, Dropped
  <2>7. Keeps(registration, registration', {}) /\ UNCHANGED running
    BY <1>1, <1>4, KeepsUnregistered DEF ConnectRefused
  <2> QED BY <1>1, <2>6, <2>7, WaitFrame
<1>5. ASSUME NEW atonce \in BOOLEAN, Connect(atonce)
      PROVE  WaitInv'
  <2>1. PICK f \in FreeFds :
          client' = [client EXCEPT ![c] =
            [(IF atonce THEN onConnectBase(@, f) ELSE @) EXCEPT !.m_inConnectQueueFlag = FALSE]]
    BY <1>5 DEF Connect, c
  <2>2. \A d \in Peers \ {c} : client'[d] = client[d]
    BY <1>1, <2>1
  <2>3. client'[c].content = 0
    BY <1>1, <1>2, <2>1 DEF onConnectBase, PeerType
  <2>4. PICK r \in RegType : r = registerCallbackOnce(registration, "epoll") /\ Keeps(registration, r, {"epoll"})
    BY <1>1, KeepsRegistered DEF Callbacks
  <2>5. Keeps(r, registration', {"pending"})
    BY <1>5, <2>4, KeepsRegistered DEF Callbacks, Connect
  <2>6. Keeps(registration, registration', {"epoll"} \cup {"pending"})
    BY <2>4, <2>5, KeepsBoth
  <2>7. \A d \in Peers : client'[d].content > 0 => client'[d] = client[d]
    BY <2>2, <2>3
  <2>8. UNCHANGED <<running, m_serverBySocket, m_listenQueue>>
    BY <1>5 DEF Connect
  <2>9. NoMoreWaits({"epoll"} \cup {"pending"})
    BY <1>1, <2>7, <2>8 DEF NoMoreWaits
  <2> QED BY <1>1, <2>6, <2>8, <2>9, WaitFrame
<1> QED BY <1>3, <1>4, <1>5

\* A callback ends, and nothing waits for it or it is registered again.
LEMMA WaitIdle ==
  ASSUME NetInv, WaitInv, UNCHANGED <<client, tables, queues>>, running' = Idle,
         NEW K, Keeps(registration, registration', K), running.callback # "destroyed",
         running.callback = "connect" => m_connectQueue = << >>,
         running.callback = "listen" => m_listenQueue = << >> /\ (DOMAIN m_serverBySocket # {} => "epoll" \in K),
         running.callback = "epoll" => "epoll" \in K, running.callback # "pending",
         running.callback = "send" => \A c \in Peers : client[c].m_fd # Closed => client[c].content = 0
  PROVE  WaitInv'
<1>1. /\ UNCHANGED <<client, m_clientBySocket, m_serverBySocket, m_connectionPending, m_connectQueue, m_listenQueue>>
      /\ running'.callback = "none"
  BY DEF tables, queues, Idle
<1>2. Known \subseteq Known' /\ K \subseteq Known'
  BY DEF Keeps, Known
<1>3. RegInv'
  BY DEF WaitInv, RegInv, Keeps, Known
<1>4. CallInv'
  BY <1>1, <1>2 DEF WaitInv, CallInv
<1>5. SendsInv'
  BY <1>1, <1>2 DEF WaitInv, SendsInv
<1> QED BY <1>3, <1>4, <1>5 DEF WaitInv

LEMMA WaitCallbackEnds ==
  ASSUME TcpAssumption, NetInv, WaitInv, ConnectEnd \/ ListenEnd \/ SendEnd \/ EpollEnd
  PROVE  WaitInv'
<1>1. registration \in RegType /\ UNCHANGED <<client, tables, queues>> /\ running' = Idle
  BY DEF NetInv, NetType, RegType, ConnectEnd, ListenEnd, SendEnd, EpollEnd
<1>2. CASE ConnectEnd
  <2>1. /\ running.callback = "connect" /\ m_connectQueue = << >> /\ UNCHANGED registration
    BY <1>2 DEF ConnectEnd
  <2> QED BY <1>1, <2>1, KeepsSelf, WaitIdle
<1>3. CASE ListenEnd
  <2>1. PICK K : Keeps(registration, registration', K) /\ (DOMAIN m_serverBySocket # {} => "epoll" \in K)
    <3>1. CASE DOMAIN m_serverBySocket = {}
      BY <1>1, <1>3, <3>1, KeepsSelf DEF ListenEnd
    <3>2. CASE DOMAIN m_serverBySocket # {}
      BY <1>1, <1>3, <3>2, KeepsRegistered DEF ListenEnd, Callbacks
    <3> QED BY <3>1, <3>2
  <2>2. running.callback = "listen" /\ m_listenQueue = << >>
    BY <1>3 DEF ListenEnd
  <2> QED BY <1>1, <2>1, <2>2, WaitIdle
<1>4. CASE SendEnd
  <2>1. \A c \in Peers : client[c].m_fd # Closed => client[c].content = 0
    <3>1. CASE m_sendQueue = << >>
      <4>1. \A x : ~InChain(m_sendQueue, x)
        BY <3>1 DEF InChain
      <4>2. \A c \in Peers : client[c] \in PeerType
        BY DEF NetInv, NetType
      <4> QED BY <4>1, <4>2 DEF NetInv, SendInv, PeerType
    <3>2. CASE running.count = 0
      <4>1. running.callback = "send" /\ running.count > Cardinality(ToSend)
        BY <1>4 DEF SendEnd, WaitInv, SendsInv
      <4> QED BY <3>2, <4>1, SendsBounded
    <3> QED BY <1>4, <3>1, <3>2 DEF SendEnd
  <2>2. running.callback = "send" /\ UNCHANGED registration
    BY <1>4 DEF SendEnd
  <2> QED BY <1>1, <2>1, <2>2, KeepsSelf, WaitIdle
<1>5. CASE EpollEnd
  <2>1. running.callback = "epoll" /\ Keeps(registration, registration', {"epoll"})
    BY <1>1, <1>5, KeepsRegistered DEF EpollEnd, Callbacks
  <2> QED BY <1>1, <2>1, WaitIdle
<1> QED BY <1>2, <1>3, <1>4, <1>5

LEMMA WaitPending ==
  ASSUME NetInv, WaitInv, onPendingConnectionCallback
  PROVE  WaitInv'
<1>1. registration \in RegType /\ client \in [Peers -> PeerType] /\ running.callback = "pending" /\ running'.callback = "none"
  BY DEF NetInv, NetType, RegType, onPendingConnectionCallback, Idle
<1>2. PICK late, called :
        /\ m_clientBySocket' = Dropped(m_clientBySocket, late)
        /\ client' = [c \in Peers |-> IF c \in called THEN ConnectFailed(client[c]) ELSE client[c]]
        /\ registration' =
             LET r == IF late = {} THEN registration
                      ELSE Unregistered(registration, m_clientBySocket', m_serverBySocket)
             IN IF DOMAIN m_connectionPending' = {} THEN r ELSE registerCallbackOnce(r, "pending")
  BY DEF onPendingConnectionCallback
<1>3. DOMAIN m_clientBySocket' \subseteq DOMAIN m_clientBySocket /\ UNCHANGED <<m_serverBySocket, m_connectQueue, m_listenQueue>>
  BY <1>2 DEF Dropped, onPendingConnectionCallback, queues
<1>4. \A c \in Peers : client'[c].content > 0 => client'[c] = client[c]
  <2> TAKE c \in Peers
  <2>1. CASE c \in called
    <3>1. client'[c] = ConnectFailed(client[c]) /\ client[c] \in PeerType
      BY <1>1, <1>2, <2>1
    <3> QED BY <3>1 DEF ConnectFailed, PeerType
  <2>2. CASE c \notin called
    BY <1>2, <2>2
  <2> QED BY <2>1, <2>2
<1>5. PICK K : Keeps(registration, registration', K) /\ (DOMAIN m_connectionPending' # {} => "pending" \in K)
  <2>1. PICK r \in RegType :
          /\ r = IF late = {} THEN registration ELSE Unregistered(registration, m_clientBySocket', m_serverBySocket)
          /\ Keeps(registration, r, {})
    BY <1>1, KeepsSelf, KeepsUnregistered
  <2>2. CASE DOMAIN m_connectionPending' = {}
    BY <1>2, <2>1, <2>2
  <2>3. CASE DOMAIN m_connectionPending' # {}
    <3>1. registration' = registerCallbackOnce(r, "pending")
      BY <1>2, <2>1, <2>3
    <3>2. Keeps(r, registration', {"pending"})
      BY <3>1, KeepsRegistered DEF Callbacks
    <3>3. Keeps(registration, registration', {} \cup {"pending"})
      BY <2>1, <3>2, KeepsBoth
    <3> QED BY <3>3
  <2> QED BY <2>2, <2>3
<1>6. Known \subseteq Known' /\ K \subseteq Known'
  BY <1>5 DEF Keeps, Known
<1>7. RegInv'
  BY <1>1, <1>5 DEF WaitInv, RegInv, Keeps, Known
<1>8. CallInv'
  BY <1>1, <1>3, <1>5, <1>6 DEF WaitInv, CallInv
<1>9. SendsInv'
  BY <1>1, <1>4, <1>6 DEF WaitInv, SendsInv
<1> QED BY <1>7, <1>8, <1>9 DEF WaitInv

LEMMA WaitListen ==
  ASSUME NetInv, WaitInv, NEW f \in Fds, Listen(f)
  PROVE  WaitInv'
<1>1. /\ registration \in RegType /\ running.callback = "listen" /\ m_listenQueue # << >>
      /\ UNCHANGED <<client, registration, running, m_clientBySocket, m_connectionPending, m_connectQueue>>
  BY DEF NetInv, NetType, RegType, Listen
<1>2. NoMoreWaits({})
  BY <1>1 DEF NoMoreWaits
<1> QED BY <1>1, <1>2, KeepsSelf, WaitFrame

LEMMA WaitSend ==
  ASSUME TcpAssumption, NetInv, WaitInv, NEW sent \in 0 .. SendBufferSize, Send(sent)
  PROVE  WaitInv'
<1>1. PICK f : f = Head(m_sendQueue)
  OBVIOUS
<1>2. /\ running.callback = "send" /\ m_sendQueue # << >> /\ running.count \in Nat
      /\ UNCHANGED <<tables, m_connectQueue, m_listenQueue, registration>>
      /\ running \in RunType
  BY DEF Send, NetInv, NetType
<1>3. f \in Fds
  BY <1>1, <1>2, HeadChain DEF NetInv, NetType
<1>4. UNCHANGED <<m_clientBySocket, m_connectionPending, m_serverBySocket>>
  BY <1>2 DEF tables
<1>5. CASE f \in DOMAIN m_clientBySocket /\ client[m_clientBySocket[f]].content > 0
  <2>1. PICK c \in Peers : c = m_clientBySocket[f]
    BY <1>5, TypesKept DEF NetInv
  <2>2. PICK left : left = client[c].content - sent
    OBVIOUS
  <2>3. /\ sent \in 1 .. client[c].content /\ ("partial" \in Faults \/ left = 0)
        /\ client' = [client EXCEPT ![c].content = left, ![c].m_inSendQueueFlag = IF left = 0 THEN FALSE ELSE @]
        /\ running' = [running EXCEPT !.count = @ - 1]
    BY <1>1, <1>5, <2>1, <2>2 DEF Send
  <2>4. client[c] \in PeerType /\ client \in [Peers -> PeerType] /\ client[c].content \in 1 .. SendBufferSize
    BY <1>5, <2>1 DEF NetInv, NetType, PeerType, TcpAssumption
  <2>5. left \in 0 .. SendBufferSize /\ left < client[c].content
    BY <2>2, <2>3, <2>4 DEF TcpAssumption
  <2>6. /\ client'[c].content = left /\ client'[c].m_fd = client[c].m_fd
        /\ \A d \in Peers : d # c => client'[d] = client[d]
    BY <2>3, <2>4 DEF PeerType
  <2>7. PICK e : e = <<f, IF "partial" \in Faults THEN client[c].content ELSE 1>>
    OBVIOUS
  <2>8. e \in ToSend /\ e \notin ToSend'
    <3>1. CASE "partial" \in Faults
      BY <1>3, <1>4, <1>5, <2>1, <2>4, <2>5, <2>6, <2>7, <3>1 DEF ToSend, Units
    <3>2. CASE "partial" \notin Faults
      BY <1>3, <1>4, <1>5, <2>1, <2>3, <2>4, <2>6, <2>7, <3>2 DEF ToSend, Units
    <3> QED BY <3>1, <3>2
  <2>9. ToSend' \subseteq ToSend
    <3>1. \A g \in DOMAIN m_clientBySocket : /\ client[m_clientBySocket[g]].content \in Nat
                                             /\ client'[m_clientBySocket[g]].content \in Nat
                                             /\ client'[m_clientBySocket[g]].content <= client[m_clientBySocket[g]].content
      BY <2>4, <2>5, <2>6, TypesKept DEF NetInv, PeerType
    <3> QED BY <1>4, <3>1, SendsBounded DEF ToSend
  <2>10. Cardinality(ToSend') \in Nat /\ Cardinality(ToSend') <= Cardinality(ToSend) - 1
    <3>1. IsFiniteSet(ToSend \ {e}) /\ Cardinality(ToSend \ {e}) = Cardinality(ToSend) - 1
      BY <2>8, SendsBounded, FS_RemoveElement
    <3>2. ToSend' \subseteq ToSend \ {e}
      BY <2>8, <2>9
    <3>3. IsFiniteSet(ToSend') /\ Cardinality(ToSend') <= Cardinality(ToSend \ {e})
      BY <3>1, <3>2, FS_Subset
    <3> QED BY <3>1, <3>3, FS_CardinalityType
  <2>11. running'.callback = "send" /\ running'.count > Cardinality(ToSend')
    <3>1. running.count > Cardinality(ToSend) /\ Cardinality(ToSend) \in Nat
      BY <1>2, SendsBounded DEF WaitInv, SendsInv
    <3>2. running'.callback = "send" /\ running'.count = running.count - 1
      BY <1>2, <2>3
    <3> QED BY <1>2, <2>10, <3>1, <3>2
  <2>12. Known' = Known
    BY <1>2 DEF Known
  <2>13. SendsInv'
    BY <2>11 DEF SendsInv
  <2>14. CallInv'
    BY <1>2, <1>4, <2>11, <2>12 DEF WaitInv, CallInv
  <2>15. RegInv'
    BY <1>2, <2>11, <2>12 DEF WaitInv, RegInv
  <2> QED BY <2>13, <2>14, <2>15 DEF WaitInv
<1>6. CASE ~(f \in DOMAIN m_clientBySocket /\ client[m_clientBySocket[f]].content > 0)
  <2>1. UNCHANGED <<client, running>>
    BY <1>1, <1>6 DEF Send
  <2> QED BY <1>2, <2>1, WaitKernel
<1> QED BY <1>5, <1>6

\* A step of the epoll callback that neither opens nor closes.
LEMMA WaitReading ==
  ASSUME NetInv, WaitInv, running.callback = "epoll", running'.callback = "epoll",
         UNCHANGED <<tables, m_connectQueue, m_listenQueue, registration>>,
         \A c \in Peers : client'[c].m_fd = client[c].m_fd /\ client'[c].content = client[c].content
  PROVE  WaitInv'
<1>1. NoMoreWaits({})
  BY DEF NoMoreWaits, tables
<1>2. Keeps(registration, registration', {})
  BY KeepsSelf DEF NetInv, NetType, RegType
<1> QED BY <1>1, <1>2, WaitFrame

LEMMA WaitReads ==
  ASSUME NetInv, WaitInv, epoll_wait \/ EventsEnd \/ readSockets \/ (\E f \in Fds : Event(f) /\ Readable(f))
  PROVE  WaitInv'
<1>1. client \in [Peers -> PeerType] /\ m_readQueue \in Seq(Fds)
      /\ running \in RunType
  BY DEF NetInv, NetType
<1>2. running.callback = "epoll" /\ running'.callback = "epoll"
  BY <1>1 DEF epoll_wait, EventsEnd, readSockets, Event
<1>3. UNCHANGED <<tables, m_connectQueue, m_listenQueue, registration>>
  BY DEF epoll_wait, EventsEnd, readSockets, Readable, queues
<1>4. client' = client \/ \E f \in DOMAIN m_clientBySocket : client' = [client EXCEPT ![m_clientBySocket[f]].m_messageToReadFlag = TRUE]
  <2>1. CASE epoll_wait \/ EventsEnd
    BY <2>1 DEF epoll_wait, EventsEnd
  <2>2. CASE readSockets
    BY <2>2 DEF readSockets, recv
  <2>3. CASE \E f \in Fds : Event(f) /\ Readable(f)
    BY <2>3 DEF Readable, addToReadQueue
  <2> QED BY <2>1, <2>2, <2>3
<1>5. \A c \in Peers : client'[c].m_fd = client[c].m_fd /\ client'[c].content = client[c].content
  <2>1. CASE client' = client
    BY <2>1
  <2>2. ASSUME NEW f \in DOMAIN m_clientBySocket,
               client' = [client EXCEPT ![m_clientBySocket[f]].m_messageToReadFlag = TRUE]
        PROVE  \A c \in Peers : client'[c].m_fd = client[c].m_fd /\ client'[c].content = client[c].content
    <3>1. m_clientBySocket[f] \in Peers
      BY TypesKept
    <3> QED BY <2>2, <3>1, FlagSet DEF NetInv
  <2> QED BY <1>4, <2>1, <2>2
<1> QED BY <1>2, <1>3, <1>5, WaitReading

LEMMA WaitDestroyed ==
  ASSUME WaitInv, NetworkDestroyed
  PROVE  WaitInv'
<1>1. /\ running.callback = "none" /\ running'.callback = "destroyed" /\ Known' = Known /\ registration'.chain = {}
      /\ DOMAIN m_clientBySocket' = {} /\ DOMAIN m_serverBySocket' = {}
      /\ DOMAIN m_connectionPending' \subseteq DOMAIN m_connectionPending
      /\ UNCHANGED <<client, m_connectQueue, m_listenQueue>>
  BY DEF NetworkDestroyed, Idle, Nothing, Known, Dropped, queues
<1>2. RegInv'
  BY <1>1 DEF RegInv
<1>3. CallInv'
  BY <1>1 DEF WaitInv, CallInv
<1>4. SendsInv'
  BY <1>1 DEF WaitInv, SendsInv
<1> QED BY <1>2, <1>3, <1>4 DEF WaitInv

LEMMA WaitBroken ==
  ASSUME NetInv, WaitInv, running.callback = "epoll", running'.callback = "epoll", NEW f \in Fds, Broken(f)
  PROVE  WaitInv'
<1>1. /\ UNCHANGED queues
      /\ client' = IF f \notin DOMAIN m_clientBySocket THEN client
                   ELSE [client EXCEPT ![m_clientBySocket[f]] =
                           IF f \in DOMAIN m_connectionPending THEN ConnectFailed(@) ELSE ConnectionLost(@)]
      /\ m_clientBySocket' = Dropped(m_clientBySocket, {f}) /\ m_serverBySocket' = Dropped(m_serverBySocket, {f})
      /\ m_connectionPending' = IF f \in DOMAIN m_clientBySocket THEN Dropped(m_connectionPending, {f})
                                ELSE m_connectionPending
      /\ registration' = Unregistered(registration, m_clientBySocket', m_serverBySocket')
  BY DEF Broken, End
<1>2. PICK E \in SUBSET Peers : /\ \A c \in Peers \ E : client'[c] = client[c]
                                /\ \A c \in E : client'[c].m_fd = Closed \/ client'[c].content = 0
  <2>1. CASE f \notin DOMAIN m_clientBySocket
    <3>1. \A c \in Peers \ {} : client'[c] = client[c]
      BY <1>1, <2>1
    <3>2. {} \in SUBSET Peers
      OBVIOUS
    <3> QED BY <3>1, <3>2
  <2>2. CASE f \in DOMAIN m_clientBySocket
    <3>1. PICK c \in Peers : c = m_clientBySocket[f]
      BY <2>2, TypesKept
    <3>2. PICK m : m = IF f \in DOMAIN m_connectionPending THEN ConnectFailed(client[c]) ELSE ConnectionLost(client[c])
      OBVIOUS
    <3>3. client' = [client EXCEPT ![c] = m] /\ client[c] \in PeerType /\ client \in [Peers -> PeerType]
      BY <1>1, <2>2, <3>1, <3>2, TypesKept
    <3>4. m.m_fd = Closed
      BY <3>2, <3>3 DEF ConnectFailed, ConnectionLost, PeerType
    <3>5. /\ \A d \in Peers \ {c} : client'[d] = client[d]
          /\ \A d \in {c} : client'[d].m_fd = Closed \/ client'[d].content = 0
      BY <3>3, <3>4
    <3>6. {c} \in SUBSET Peers
      OBVIOUS
    <3> QED BY <3>5, <3>6
  <2> QED BY <2>1, <2>2
<1>3. /\ DOMAIN m_clientBySocket' \subseteq DOMAIN m_clientBySocket
      /\ DOMAIN m_serverBySocket' \subseteq DOMAIN m_serverBySocket
      /\ DOMAIN m_connectionPending' \subseteq DOMAIN m_connectionPending
  BY <1>1 DEF Dropped
<1>4. Keeps(registration, registration', {})
  BY <1>1, KeepsUnregistered DEF NetInv, NetType, RegType
<1>5. running'.callback = running.callback /\ running.callback # "send" /\ UNCHANGED queues
  BY <1>1
<1> QED BY <1>2, <1>3, <1>4, <1>5, WaitEnds

LEMMA WaitCompleteConnection ==
  ASSUME NetInv, WaitInv, running.callback = "epoll", running'.callback = "epoll", NEW f \in Fds,
         onCompleteConnection(f) \/ NotModified(f)
  PROVE  WaitInv'
<1>1. registration \in RegType /\ client \in [Peers -> PeerType]
  BY DEF NetInv, NetType, RegType
<1>2. /\ UNCHANGED <<m_serverBySocket, m_connectQueue, m_listenQueue>>
      /\ DOMAIN m_connectionPending' \subseteq DOMAIN m_connectionPending
      /\ DOMAIN m_clientBySocket' \subseteq DOMAIN m_clientBySocket
  BY DEF onCompleteConnection, NotModified, Dropped, queues
<1>3. \A c \in Peers : client'[c].m_fd # Closed /\ client'[c].content > 0 => client[c].m_fd # Closed /\ client[c].content > 0
  <2>1. CASE Connecting(f)
    <3>1. PICK c \in Peers : c = m_clientBySocket[f] /\ f \in DOMAIN m_clientBySocket
      BY <2>1, TypesKept DEF Connecting
    <3>2. client[c] \in PeerType /\ (client[c].m_fd = Closed => client[c].content = 0)
      BY TypesKept DEF NetInv, SendInv
    <3>3. PICK n : n = onConnectBase(client[c], f)
      OBVIOUS
    <3>4. n \in PeerType /\ n.content = client[c].content
      <4>1. n \in PeerType
        BY <3>2, <3>3 DEF onConnectBase, PeerType
      <4> QED BY <3>2, <3>3, <4>1 DEF onConnectBase, PeerType
    <3>5. CASE onCompleteConnection(f)
      <4>1. client' = [client EXCEPT ![c] = n]
        BY <2>1, <3>1, <3>3, <3>5 DEF onCompleteConnection
      <4>2. client'[c] = n /\ \A d \in Peers \ {c} : client'[d] = client[d]
        BY <1>1, <4>1
      <4> QED BY <3>2, <3>4, <4>2
    <3>6. CASE NotModified(f)
      <4>1. client' = [client EXCEPT ![c] = ConnectionLost(n)]
        BY <3>1, <3>3, <3>6 DEF NotModified
      <4>2. ConnectionLost(n).m_fd = Closed
        BY <3>4 DEF ConnectionLost, PeerType
      <4>3. client'[c].m_fd = Closed /\ \A d \in Peers \ {c} : client'[d] = client[d]
        BY <1>1, <4>1, <4>2
      <4> QED BY <4>3
    <3> QED BY <3>5, <3>6
  <2>2. CASE ~Connecting(f)
    <3>1. client' = client
      BY <2>2 DEF onCompleteConnection, NotModified
    <3> QED BY <3>1
  <2> QED BY <2>1, <2>2
<1>4. PICK K : Keeps(registration, registration', K)
  <2>1. PICK r \in RegType : r = registerCallbackOnce(registration, "epoll") /\ Keeps(registration, r, {"epoll"})
    BY <1>1, KeepsRegistered DEF Callbacks
  <2>2. registration' = registration \/ registration' = r \/ registration' = Unregistered(r, m_clientBySocket', m_serverBySocket)
    BY <2>1 DEF onCompleteConnection, NotModified
  <2>3. Keeps(r, Unregistered(r, m_clientBySocket', m_serverBySocket), {})
    BY KeepsUnregistered
  <2>4. Keeps(registration, Unregistered(r, m_clientBySocket', m_serverBySocket), {"epoll"} \cup {})
    BY <2>1, <2>3, KeepsBoth
  <2> QED BY <1>1, <2>1, <2>2, <2>4, KeepsSelf
<1>5. NoMoreWaits(K)
  BY <1>2, <1>3 DEF NoMoreWaits
<1> QED BY <1>4, <1>5, WaitFrame

LEMMA WaitNewConnection ==
  ASSUME NetInv, WaitInv, running.callback = "epoll", running'.callback = "epoll", NEW f \in Fds, onNewConnection(f)
  PROVE  WaitInv'
<1>1. registration \in RegType /\ client \in [Peers -> PeerType]
  BY DEF NetInv, NetType, RegType
<1>2. f \in DOMAIN m_serverBySocket /\ UNCHANGED <<m_serverBySocket, m_connectQueue, m_listenQueue>>
  BY DEF onNewConnection, queues
<1>3. CASE UNCHANGED <<client, server, m_clientBySocket, m_connectionPending, registration, socket>>
  <2>1. NoMoreWaits({})
    BY <1>2, <1>3 DEF NoMoreWaits
  <2> QED BY <1>1, <1>3, <2>1, KeepsSelf, WaitFrame
<1>4. ASSUME NEW p \in Processes, NEW g \in FreeFds, 
             client' = [client EXCEPT ![p] = [NewClient EXCEPT !.m_fd = g]],
             registration' = registerCallbackOnce(registerCallbackOnce(registration, "pending"), "epoll")
      PROVE  WaitInv'
  <2>1. p \in Peers
    BY DEF Peers
  <2>2. \A d \in Peers : client'[d].content > 0 => client'[d] = client[d]
    BY <1>1, <1>4, <2>1 DEF NewClient
  <2>3. PICK r \in RegType : r = registerCallbackOnce(registration, "pending") /\ Keeps(registration, r, {"pending"})
    BY <1>1, KeepsRegistered DEF Callbacks
  <2>4. Keeps(r, registration', {"epoll"})
    BY <1>4, <2>3, KeepsRegistered DEF Callbacks
  <2>5. Keeps(registration, registration', {"pending"} \cup {"epoll"})
    BY <2>3, <2>4, KeepsBoth
  <2>6. NoMoreWaits({"pending"} \cup {"epoll"})
    BY <1>2, <2>2 DEF NoMoreWaits
  <2> QED BY <2>5, <2>6, WaitFrame
<1> QED BY <1>3, <1>4 DEF onNewConnection

-----------------------------------------------------------------------------

\* At the start nothing waits.
LEMMA WaitInit == TcpInit => WaitInv
<1> SUFFICES ASSUME TcpInit PROVE WaitInv
  OBVIOUS
<1>1. /\ m_connectQueue = << >> /\ m_listenQueue = << >> /\ Known = {} /\ registration.chain = {}
      /\ DOMAIN m_clientBySocket = {} /\ DOMAIN m_serverBySocket = {} /\ DOMAIN m_connectionPending = {}
      /\ running.callback = "none"
  BY DEF TcpInit, Known, Nothing, Idle
<1>2. \A c \in Peers : client[c].m_fd = Closed
  BY DEF TcpInit, NewClient
<1> QED BY <1>1, <1>2 DEF WaitInv, RegInv, CallInv, SendsInv

\* Every step keeps what waits served.
LEMMA WaitNext ==
  ASSUME TcpAssumption, MaxSendPerLoop > MaxFd * Units, NetInv, WaitInv, [TcpNext]_tcpVars
  PROVE  WaitInv'
<1>1. ASSUME ClientCalls PROVE WaitInv'
  BY <1>1, WaitClient, WaitClientEnds DEF ClientCalls
<1>2. ASSUME ServerCalls PROVE WaitInv'
  BY <1>2, WaitServer DEF ServerCalls
<1>3. ASSUME NetworkStep PROVE WaitInv'
  <2>1. ASSUME NEW f \in Fds, Event(f) PROVE WaitInv'
    <3>1. running.callback = "epoll" /\ running'.callback = "epoll"
      BY <2>1 DEF Event, NetInv, NetType
    <3> QED BY <2>1, <3>1, WaitBroken, WaitCompleteConnection, WaitNewConnection, WaitReads DEF Event
  <2> QED BY <1>3, <2>1, WaitCall, WaitConnect, WaitCallbackEnds, WaitPending, WaitListen, WaitSend, WaitReads,
             WaitDestroyed DEF NetworkStep
<1>4. ASSUME NEW f \in Fds, Remote(f) \/ Arrive(f) PROVE WaitInv'
  <2>1. UNCHANGED <<client, tables, m_connectQueue, m_listenQueue, registration, running>>
    BY <1>4 DEF Remote, Arrive, ToState, queues
  <2> QED BY <2>1, WaitKernel
<1>5. ASSUME UNCHANGED tcpVars PROVE WaitInv'
  <2>1. UNCHANGED <<client, tables, m_connectQueue, m_listenQueue, registration, running>>
    BY <1>5 DEF tcpVars, queues
  <2> QED BY <2>1, WaitKernel
<1> QED BY <1>1, <1>2, <1>3, <1>4, <1>5 DEF TcpNext

\* What is registered and not forgotten is in the chain.
LEMMA InvServed == NetInv /\ WaitInv => Served
<1> SUFFICES ASSUME NetInv, WaitInv PROVE Served
  OBVIOUS
<1>1. \A c \in Peers : client[c].m_fd # Closed /\ client[c].content > 0 => client[c].m_fd \in Range(m_sendQueue)
  BY DEF NetInv, SendInv, InChain, Range
<1>2. ASSUME running = Idle
      PROVE  /\ m_connectQueue # << >> => "connect" \in registration.chain
             /\ m_listenQueue # << >> => "listen" \in registration.chain
             /\ DOMAIN m_connectionPending \cap DOMAIN m_clientBySocket # {} => "pending" \in registration.chain
             /\ DOMAIN m_clientBySocket \cup DOMAIN m_serverBySocket # {} => "epoll" \in registration.chain \cup Forgotten
             /\ (\E c \in Peers : client[c].m_fd # Closed /\ client[c].content > 0) =>
                  "send" \in registration.chain \cup Forgotten
  <2>1. running.callback = "none"
    BY <1>2 DEF Idle
  <2>2. \A k \in Known : /\ k \in registration.chain \cup Forgotten
                         /\ k \in {"connect", "listen", "pending"} => k \in registration.chain
    BY <2>1 DEF Known, Forgotten, WaitInv, RegInv
  <2>3. /\ m_connectQueue # << >> => "connect" \in Known
        /\ m_listenQueue # << >> => "listen" \in Known
        /\ DOMAIN m_connectionPending # {} => "pending" \in Known
        /\ DOMAIN m_clientBySocket \cup DOMAIN m_serverBySocket # {} => "epoll" \in Known
    BY <2>1 DEF WaitInv, CallInv
  <2>4. (\E c \in Peers : client[c].m_fd # Closed /\ client[c].content > 0) => "send" \in Known
    BY <2>1 DEF WaitInv, SendsInv
  <2> QED BY <2>2, <2>3, <2>4
<1>3. \A f \in DOMAIN m_clientBySocket :
        socket[f].state = "up" /\ ~socket[f].out /\ socket[f].unread > 0 =>
          \/ socket[f].edge \/ <<f, "in">> \in running.events \/ f \in Range(m_readQueue)
          \/ client[m_clientBySocket[f]].m_messageToReadFlag
  BY DEF NetInv, ReadInv, ReadOk, InChain, Range
<1> QED BY <1>1, <1>2, <1>3 DEF Served

\* Whatever waits in the Network has a callback of network.hpp that will come for it,
\* when the send callback can send all there is before it reaches _MaxSendPerLoop.
THEOREM AlwaysServed ==
  ASSUME Careful, MaxSendPerLoop > MaxFd * Units
  PROVE  TcpSpec => []Served
<1>1. TcpInit => NetInv /\ WaitInv
  BY InvTcpInit, WaitInit, TcpAssumption
<1>2. (NetInv /\ WaitInv) /\ [TcpNext]_tcpVars => (NetInv /\ WaitInv)'
  BY InvTcpNext, WaitNext, TcpAssumption
<1> QED BY <1>1, <1>2, InvServed, PTL DEF TcpSpec
=============================================================================
