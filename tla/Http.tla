-------------------------------- MODULE Http --------------------------------
(***************************************************************************)
(* HttpServerProcess (connector/http/server/serverprocess.hpp), which gets *)
(* the bytes of a connection in pieces, however they are cut, and finds    *)
(* the requests in them.  A byte is one of a line's end, CR or LF, a whole *)
(* Content-Length field, which is its number, or another.  A client sends  *)
(* its next request when the one before was handed to onCompleteRequest(). *)
(*                                                                         *)
(* What is in front of the final LF is the header; it and what follows in  *)
(* the same piece are the body.                                            *)
(***************************************************************************)
EXTENDS Integers, Sequences, FiniteSets, SequencesExt, FiniteSetsExt

CONSTANTS
  CR, LF, Other,  \* bytes
  Requests,       \* headers without the empty line that ends them
  MaxHeaderSize,
  MaxRequests     \* bound: requests of a connection


VARIABLES
  sentRequests,   \* by the client
  unread,         \* what is left of the last one
  m_state, m_httpHeader, m_httpBody, m_bodyLengthToGet,
  complete,       \* the requests handed to onCompleteRequest(): header, body
  process         \* "up", "dying" or "gone"

parserVars == <<m_state, m_httpHeader, m_httpBody, m_bodyLengthToGet>>
httpVars   == <<sentRequests, unread, parserVars, complete, process>>

HttpInit ==
  /\ sentRequests = << >> /\ unread = << >>
  /\ m_state = 0 /\ m_httpHeader = << >> /\ m_httpBody = << >> /\ m_bodyLengthToGet = -1
  /\ complete = << >> /\ process = "up"

-----------------------------------------------------------------------------

\* A byte, or a field in the place of one
Symbols == {CR, LF, Other} \cup Nat

EndOfHeader == <<CR, LF, CR, LF>>

contentLength(header) ==
  LET fields == {i \in DOMAIN header : header[i] \in Nat} IN IF fields = {} THEN << >> ELSE <<header[Min(fields)]>>

\* All that the client sends for a request
Sent(request) ==
  request \o EndOfHeader \o
    (IF contentLength(request) = << >> THEN << >> ELSE [i \in 1 .. contentLength(request)[1] |-> Other])

clientSends ==
  /\ Len(complete) >= Len(sentRequests) /\ Len(sentRequests) < MaxRequests
  /\ process # "gone"
  /\ \E request \in Requests :
       sentRequests' = Append(sentRequests, request) /\ unread' = unread \o Sent(request)
  /\ UNCHANGED <<parserVars, complete, process>>

\* How much of the end of the header is matched after each byte of a piece, from a
\* state on.  A byte that does not fit is not looked at again, as the first of
\* another end.
Scan(state, data) ==
  LET after[i \in 0 .. Len(data)] ==
        IF i = 0 THEN state
        ELSE IF after[i - 1] = 4 THEN 4
        ELSE IF data[i] = EndOfHeader[after[i - 1] + 1] THEN after[i - 1] + 1
        ELSE 0
  IN after

\* A request has no empty line of its own and hides none of the one that ends it, as
\* one that ends in a single CR would.
ASSUME HttpAssumption ==
  /\ {CR, LF, Other} \cap Nat = {} /\ CR # LF /\ Other \notin {CR, LF}
  /\ MaxHeaderSize \in Nat /\ MaxRequests \in Nat
  /\ Requests \subseteq {r \in Seq(Symbols) : Scan(0, r)[Len(r)] = 0}

\* Mutant of matched: each piece is searched for the end of the header from new.
matchedAnew(data) == Scan(0, data)

\* m_state after each byte of a piece
matched(data) == Scan(m_state, data)

\* onCompleteRequest(), after clearBuffer(), which leaves m_bodyLengthToGet
HandOver(header, body, left) ==
  /\ complete' = Append(complete, [header |-> header, body |-> body])
  /\ m_state' = 0 /\ m_httpHeader' = << >> /\ m_httpBody' = << >> /\ m_bodyLengthToGet' = left
  /\ UNCHANGED process

\* The header ends in this piece; the byte that ends it counts as one of the body.
\* Without a length, what is left is what an earlier request left.
HeaderEnds(data) ==
  LET i      == Min({k \in DOMAIN data : matched(data)[k] = 4})
      header == m_httpHeader \o SubSeq(data, 1, i - 1)
      body   == m_httpBody \o SubSeq(data, i, Len(data))
      length == contentLength(header)
      left   == IF length = << >> THEN m_bodyLengthToGet ELSE length[1] - (Len(data) - i + 1)
  IN
  /\ matched(data)[Len(data)] = 4
  /\ IF left > 0
     THEN /\ m_state' = 4 /\ m_httpHeader' = header /\ m_httpBody' = body /\ m_bodyLengthToGet' = left
          /\ UNCHANGED <<complete, process>>
     ELSE HandOver(header, body, left)

\* It does not, and may be too long: an error is sent, and the process goes when
\* that is sent.
HeaderContinues(data) ==
  /\ matched(data)[Len(data)] < 4
  /\ IF Len(m_httpHeader) + Len(data) > MaxHeaderSize
     THEN /\ process' = "dying"
          /\ m_state' = 0 /\ m_httpHeader' = << >> /\ m_httpBody' = << >>
     ELSE /\ m_state' = matched(data)[Len(data)] /\ m_httpHeader' = m_httpHeader \o data
          /\ UNCHANGED <<m_httpBody, process>>
  /\ UNCHANGED <<complete, m_bodyLengthToGet>>

\* The body takes no more bytes than are missing.
BodyContinues(data) ==
  LET body == m_httpBody \o SubSeq(data, 1, Min({Len(data), m_bodyLengthToGet}))
      left == m_bodyLengthToGet - Len(data)
  IN
  IF left > 0
  THEN m_httpBody' = body /\ m_bodyLengthToGet' = left /\ UNCHANGED <<m_state, m_httpHeader, complete, process>>
  ELSE HandOver(m_httpHeader, body, left)

onHttpReceived ==
  /\ process # "gone"
  /\ \E n \in 1 .. Len(unread) :
       LET data == SubSeq(unread, 1, n) IN
       /\ unread' = SubSeq(unread, n + 1, Len(unread))
       /\ IF m_state = 4 THEN BodyContinues(data) ELSE HeaderEnds(data) \/ HeaderContinues(data)
  /\ UNCHANGED sentRequests

\* sendDocument(), in answer to a request, of a file that is not there or does not fit
giveUpConnection ==
  /\ process = "up" /\ Len(complete) = Len(sentRequests) /\ complete # << >>
  /\ process' = "dying" /\ m_state' = 0 /\ m_httpHeader' = << >> /\ m_httpBody' = << >>
  /\ UNCHANGED <<sentRequests, unread, m_bodyLengthToGet, complete>>

\* The sender is cleared; the request that is being read is not.
onTimeout ==
  /\ process = "up"
  /\ process' = "dying"
  /\ UNCHANGED <<sentRequests, unread, parserVars, complete>>

\* SelfDestructAfterResponseCallback, once the sender is empty
selfDestruct ==
  /\ process = "dying"
  /\ process' = "gone"
  /\ UNCHANGED <<sentRequests, unread, parserVars, complete>>

HttpNext == clientSends \/ onHttpReceived \/ giveUpConnection \/ onTimeout \/ selfDestruct

\* The connector alone.
HttpSpec == HttpInit /\ [][HttpNext]_httpVars

-----------------------------------------------------------------------------
(* Properties.                                                             *)

\* A request that has arrived has been handed over, once and in its turn, in whatever
\* pieces it came and whatever came before it on the connection, and its header is
\* complete; a request without a body comes with nothing else.
RequestsAnswered ==
  process = "up" =>
    /\ unread = << >> => Len(complete) = Len(sentRequests)
    /\ Len(complete) \in {Len(sentRequests) - 1, Len(sentRequests)}
    /\ \A i \in DOMAIN complete :
         /\ IsSuffix(sentRequests[i] \o <<CR, LF, CR>>, complete[i].header)
         /\ contentLength(sentRequests[i]) = << >> => complete[i].body = <<LF>>

\* A request is complete when it is said to be: header and body are what was sent.
RequestsWhole ==
  \A i \in DOMAIN complete : complete[i].header \o complete[i].body = Sent(sentRequests[i])
=============================================================================
