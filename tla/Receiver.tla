------------------------------- MODULE Receiver -------------------------------
(***************************************************************************)
(* connector::tcp::Receiver (connector/tcp/client/receiver.hpp): cuts the  *)
(* bytes that a socket delivers in pieces of any length into messages, by  *)
(* the header that starts each of them.  What is incomplete stays in       *)
(* m_buffer, a CircularBuffer, which is a sequence here.                   *)
(*                                                                         *)
(* A step is one call of onDataReceived(), one round of the loop of        *)
(* processData(), which hands over at most one message, or its return.     *)
(***************************************************************************)
EXTENDS Integers, Sequences, SequencesExt

CONSTANTS
  Streams,           \* what a peer may send: each a sequence of messages
  HeaderSizes,       \* what setHeaderSize() may have been given
  ReceiveCapacity,   \* _Capacity
  MaxDataPerRead,    \* most bytes of one recv()
  getHeaderSize(_),  \* the client's callbacks, from the bytes of a header
  getDataSize(_, _)

Fewer(a, b)  == IF a < b THEN a ELSE b
Larger(a, b) == IF a < b THEN b ELSE a

\* All bytes that a peer may send
Octets == UNION {UNION {Range(m) : m \in Range(s)} : s \in Streams}

\* A header fits the buffer, and the callbacks can make something of any bytes.
ASSUME ReceiverAssumption ==
  /\ ReceiveCapacity \in Nat /\ MaxDataPerRead \in Nat \ {0}
  /\ HeaderSizes \subseteq 0 .. ReceiveCapacity
  /\ \A s \in Streams : s \in Seq(Seq(Octets))
  /\ \A h \in HeaderSizes \ {0} : \A least \in [1 .. h -> Octets] :
       /\ getHeaderSize(least) \in 0 .. ReceiveCapacity
       /\ \A header \in [1 .. Larger(h, getHeaderSize(least)) -> Octets] :
            getDataSize(header, getHeaderSize(least)) \in Nat


VARIABLES
  m_messageHeaderMinimumSize,
  sent,      \* the messages that the peer sends
  arriving,  \* bytes of them that are still to be read from the socket
  fragment,  \* content of m_buffer
  m_overflowSize, m_otherCompleteMessageFlag,
  stage,     \* idle, the origin of the data of the processData() under way, or recursion
  data,      \* what this processData() has still to look at
  entered,   \* whether it is past its tests, in the loop
  after,     \* what its caller does next: nothing, shift the buffer, or clear it and go on
  rest,      \* ... with these bytes
  delivered, \* history: what onDataReceived() of the client was given
  dropped    \* history: how many bytes onOverflowDataReceived() was given

wire         == <<m_messageHeaderMinimumSize, sent, arriving>>
history      == <<delivered, dropped>>
receiverVars == <<wire, fragment, m_overflowSize, m_otherCompleteMessageFlag, stage, data,
                  entered, after, rest, history>>

ReceiverInit ==
  /\ m_messageHeaderMinimumSize \in HeaderSizes /\ sent \in Streams /\ arriving = FlattenSeq(sent)
  /\ fragment = << >> /\ m_overflowSize = 0 /\ m_otherCompleteMessageFlag = FALSE
  /\ stage = "idle" /\ data = << >> /\ entered = FALSE /\ after = "return" /\ rest = << >>
  /\ delivered = << >> /\ dropped = 0

First(s, n)  == SubSeq(s, 1, n)
Behind(s, n) == SubSeq(s, n + 1, Len(s))

\* m_buffer.writeData(): all or nothing
Written(s) == IF Len(fragment) + Len(s) <= ReceiveCapacity THEN fragment \o s ELSE fragment

\* The callbacks look at what is there whenever they are called: the bytes that each
\* header has, and then the header.
HeaderSize(s)  == getHeaderSize(First(s, m_messageHeaderMinimumSize))
DataSize(s)    == getDataSize(First(s, Larger(m_messageHeaderMinimumSize, HeaderSize(s))), HeaderSize(s))
MessageSize(s) == HeaderSize(s) + DataSize(s)

\* Mutant of setOtherCompleteMessageFlag: a complete header is enough.
setOtherCompleteMessageFlagEarly(s) ==
  /\ m_messageHeaderMinimumSize # 0 /\ Len(s) >= m_messageHeaderMinimumSize
  /\ HeaderSize(s) # 0 /\ Len(s) >= HeaderSize(s)

\* What setOtherCompleteMessageFlag() finds: s begins with a complete message.
setOtherCompleteMessageFlag(s) ==
  /\ m_messageHeaderMinimumSize # 0 /\ Len(s) >= m_messageHeaderMinimumSize
  /\ HeaderSize(s) # 0 /\ Len(s) >= HeaderSize(s)
  /\ DataSize(s) # 0 /\ Len(s) >= MessageSize(s)

-----------------------------------------------------------------------------
(* onDataReceived(): n bytes come from the socket.                         *)

\* The bytes are only kept.
Keep(n) ==
  /\ fragment' = Written(First(arriving, n))
  /\ UNCHANGED <<m_overflowSize, stage, data, entered, after, rest, history>>

\* processData() begins; fragment' is up to the caller.
Process(s, origin, then, next) ==
  /\ stage' = origin /\ data' = s /\ entered' = FALSE /\ after' = then /\ rest' = next
  /\ UNCHANGED history

\* No header at all: everything is handed over as it comes.
PassOn(n) ==
  /\ m_messageHeaderMinimumSize = 0
  /\ delivered' = Append(delivered, First(arriving, n))
  /\ m_otherCompleteMessageFlag' = FALSE
  /\ UNCHANGED <<fragment, m_overflowSize, stage, data, entered, after, rest, dropped>>

\* Nothing is left from before: processData() of what came.
NewMessage(n) ==
  /\ m_messageHeaderMinimumSize # 0 /\ fragment = << >>
  /\ Process(First(arriving, n), "NEWMESSAGE", "return", << >>)
  /\ UNCHANGED <<fragment, m_overflowSize, m_otherCompleteMessageFlag>>

\* Mutant of doCompleteMsg: the bytes that came before are overwritten.
doCompleteMsgForgets(n) ==
  /\ m_messageHeaderMinimumSize # 0 /\ fragment # << >>
  /\ fragment' = First(arriving, n)
  /\ UNCHANGED <<m_overflowSize, m_otherCompleteMessageFlag, stage, data, entered, after, rest, history>>

\* doCompleteMsg(): n bytes behind a fragment.  Bytes that do not complete the
\* minimum header or the header are kept; else kept is the fragment with as much
\* of them as a complete header needs, and more is what comes behind it.
doCompleteMsg(n) ==
  LET joined  == fragment \o First(arriving, n)
      header  == HeaderSize(joined)
      kept    == First(joined, Larger(Len(fragment), Larger(m_messageHeaderMinimumSize, header)))
      more    == Behind(joined, Len(kept))
      msgSize == MessageSize(kept)
      sizeToComplete == msgSize - header - Len(kept)
  IN
  /\ m_messageHeaderMinimumSize # 0 /\ fragment # << >>
  /\ IF \/ Len(fragment) < m_messageHeaderMinimumSize /\ Len(joined) <= m_messageHeaderMinimumSize
        \/ Len(fragment) < header /\ Len(joined) <= header
     THEN Keep(n)
     \* too small a buffer: dropData() finds nothing to drop, the fragment goes unseen
     ELSE IF msgSize > ReceiveCapacity
     THEN /\ m_overflowSize' = msgSize - Len(kept)
          /\ fragment' = << >>
          /\ Process(more, "BUFFER", "return", << >>)
     ELSE IF msgSize > Len(joined)
     THEN Keep(n)
     ELSE IF ReceiveCapacity - Len(kept) > Len(more)
     THEN /\ fragment' = joined
          /\ Process(joined, "BUFFER", "shift", joined) /\ UNCHANGED m_overflowSize
     \* no room for all that came; a negative size takes the data pointer out of the data
     ELSE /\ UNCHANGED m_overflowSize
          /\ IF sizeToComplete < 0
             THEN Process(more, "lost", "return", << >>) /\ UNCHANGED fragment
             ELSE /\ fragment' = kept \o First(more, sizeToComplete)
                  /\ Process(fragment', "BUFFER", "clear", Behind(more, sizeToComplete))
  /\ m_otherCompleteMessageFlag' =
       IF stage' = "BUFFER" /\ after' = "clear" THEN setOtherCompleteMessageFlag(rest')
       ELSE m_otherCompleteMessageFlag

onDataReceived(n) ==
  /\ stage = "idle"
  /\ arriving' = Behind(arriving, n) /\ UNCHANGED <<m_messageHeaderMinimumSize, sent>>
  /\ PassOn(n) \/ NewMessage(n) \/ doCompleteMsg(n)

-----------------------------------------------------------------------------
(* processData(): one round.                                               *)

\* It returns with left not looked at, and its caller goes on.
Return(buffer, left) ==
  IF after = "clear"
  THEN /\ fragment' = << >>
       /\ stage' = "NEWMESSAGE" /\ data' = rest /\ entered' = FALSE /\ after' = "return" /\ rest' = << >>
  ELSE /\ fragment' = IF after = "shift" THEN Behind(buffer, Len(rest) - Len(left)) ELSE buffer
       /\ stage' = "idle" /\ data' = << >> /\ entered' = FALSE /\ after' = "return" /\ rest' = << >>

\* dropData() of a message that is too long for the buffer
dropData ==
  LET n == Fewer(Len(data), m_overflowSize) IN
  /\ m_overflowSize > 0
  /\ m_overflowSize' = m_overflowSize - n
  /\ dropped' = dropped + n
  /\ IF n < m_overflowSize THEN Return(fragment, Behind(data, n))
     ELSE data' = Behind(data, n) /\ UNCHANGED <<fragment, stage, entered, after, rest>>
  /\ UNCHANGED <<m_otherCompleteMessageFlag, delivered>>

\* Less than a header: kept at the entry, ignored behind a message.
NoHeader ==
  /\ m_overflowSize = 0 /\ Len(data) < m_messageHeaderMinimumSize
  /\ Return(IF entered THEN fragment ELSE Written(data), data)
  /\ UNCHANGED <<m_overflowSize, m_otherCompleteMessageFlag, history>>

\* No size in the header: everything is handed over, and is not taken from the buffer.
NoSize ==
  /\ m_overflowSize = 0 /\ Len(data) >= m_messageHeaderMinimumSize
  /\ \/ HeaderSize(data) = 0
     \/ Len(data) >= HeaderSize(data) /\ DataSize(data) = 0
  /\ delivered' = Append(delivered, data)
  /\ m_otherCompleteMessageFlag' = FALSE
  /\ Return(fragment, data)
  /\ UNCHANGED <<m_overflowSize, dropped>>

\* The header, or the message, is incomplete.
Incomplete ==
  /\ m_overflowSize = 0 /\ Len(data) >= m_messageHeaderMinimumSize /\ HeaderSize(data) # 0
  /\ \/ /\ Len(data) < HeaderSize(data)
        /\ Return(Written(data), data)
     \/ /\ Len(data) >= HeaderSize(data) /\ DataSize(data) # 0
        /\ MessageSize(data) <= ReceiveCapacity /\ MessageSize(data) > Len(data)
        /\ Return(IF stage = "NEWMESSAGE" THEN Written(data) ELSE fragment, data)
  /\ UNCHANGED <<m_overflowSize, m_otherCompleteMessageFlag, history>>

\* The message is too long for the buffer: processData() again, with the number of
\* bytes that will be missing.  If none is, the calls never end.
Overflow ==
  /\ m_overflowSize = 0 /\ Len(data) >= m_messageHeaderMinimumSize /\ HeaderSize(data) # 0
  /\ Len(data) >= HeaderSize(data) /\ DataSize(data) # 0
  /\ MessageSize(data) > ReceiveCapacity
  /\ m_overflowSize' = MessageSize(data) - Fewer(Len(data), MessageSize(data))
  /\ stage' = IF m_overflowSize' = 0 THEN "lost" ELSE stage
  /\ entered' = FALSE
  /\ UNCHANGED <<fragment, m_otherCompleteMessageFlag, data, after, rest, history>>

\* A complete message.
Complete ==
  /\ m_overflowSize = 0 /\ Len(data) >= m_messageHeaderMinimumSize /\ HeaderSize(data) # 0
  /\ Len(data) >= HeaderSize(data) /\ DataSize(data) # 0
  /\ MessageSize(data) <= ReceiveCapacity /\ MessageSize(data) <= Len(data)
  /\ m_otherCompleteMessageFlag' = setOtherCompleteMessageFlag(Behind(data, MessageSize(data)))
  /\ delivered' = Append(delivered, First(data, MessageSize(data)))
  /\ data' = Behind(data, MessageSize(data))
  /\ entered' = TRUE
  /\ UNCHANGED <<fragment, m_overflowSize, stage, after, rest, dropped>>

processData ==
  /\ stage \in {"BUFFER", "NEWMESSAGE"}
  /\ dropData \/ NoHeader \/ NoSize \/ Incomplete \/ Overflow \/ Complete
  /\ UNCHANGED wire

ReceiverNext ==
  \/ \E n \in 1 .. Fewer(Len(arriving), MaxDataPerRead) : onDataReceived(n)
  \/ processData

ReceiverSpec == ReceiverInit /\ [][ReceiverNext]_receiverVars

-----------------------------------------------------------------------------
(* Properties.                                                             *)

\* The peer sends messages with a fixed header of one byte and some data, and the
\* buffer has room for one of them together with one read.
Sized ==
  /\ m_messageHeaderMinimumSize = 1
  /\ \A m \in Range(sent) :
       /\ HeaderSize(m) = 1 /\ Len(m) = MessageSize(m) /\ Len(m) > 1
       /\ Len(m) + MaxDataPerRead <= ReceiveCapacity

\* However the stream is cut into reads, the client is given the messages that
\* were sent, whole, once and in order; between two reads no complete message is
\* kept back and no byte is lost; and the flag that tells the client that another
\* message follows is down behind the last one.
Framed ==
  /\ IsPrefix(delivered, sent)
  /\ stage = "idle" =>
       /\ FlattenSeq(delivered) \o fragment \o arriving = FlattenSeq(sent)
       /\ Len(delivered) < Len(sent) => Len(fragment) < Len(sent[Len(delivered) + 1])
       /\ ~m_otherCompleteMessageFlag

\* onDataReceived() is called with complete messages where the header has one byte;
\* what is kept always fits the buffer.
FramesRight == /\ Sized => Framed
               /\ Len(fragment) <= ReceiveCapacity /\ m_overflowSize >= 0

\* "callback triggered upon complete data reception (according to size specified in
\* header)": for headers of any length.
CompleteReception ==
  (/\ m_messageHeaderMinimumSize # 0
   /\ \A m \in Range(sent) :
        /\ HeaderSize(m) = m_messageHeaderMinimumSize /\ Len(m) = MessageSize(m)
        /\ Len(m) > m_messageHeaderMinimumSize /\ Len(m) + MaxDataPerRead <= ReceiveCapacity)
  => Framed
=============================================================================
