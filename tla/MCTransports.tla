---------------------------- MODULE MCTransports ----------------------------
(***************************************************************************)
(* Small instances of the containers and of what carries data into a core  *)
(* and out of it: the chains (ForwardChain, DoubleChain), the bus to       *)
(* another thread (BusChannel) and the connectors (CircularBuffer,         *)
(* Receiver, TcpNetwork, Http).  They have no state in common: a behaviour *)
(* is one of the part that focus names, and the others rest in one of their*)
(* initial states.                                                         *)
(***************************************************************************)
EXTENDS BusChannel, MCReceiver, CircularBuffer, TcpNetwork, MCHttp, ForwardChain, DoubleChain

CONSTANTS c1, c2, p1, s1

VARIABLE focus

\* Two clients together, or a server
MCCasts == {{c1, c2}, {s1}}

Resting(part, choice) == focus = part \/ choice

MCTransportsInit ==
  /\ focus \in {"bus", "buffer", "receiver", "network", "http", "forward", "double"}
  /\ BusInit /\ CircularInit /\ ReceiverInit /\ TcpInit /\ HttpInit
  /\ ForwardInit /\ DoubleInit
  /\ Resting("bus", array_ = CHOOSE a \in [Slots -> Data] : TRUE)
  /\ Resting("receiver", /\ sent = CHOOSE s \in Streams : TRUE
                         /\ m_messageHeaderMinimumSize = CHOOSE h \in HeaderSizes : TRUE)
  /\ Resting("network", \A c \in Clients : client[c].actor = "none")

Connectors     == <<bufferVars, receiverVars, tcpVars, httpVars>>
Containers     == <<forwardVars, doubleVars>>
transportsVars == <<focus, busVars, Connectors, Containers>>

BusPart(step) == focus = "bus" /\ step /\ UNCHANGED <<focus, Connectors, Containers>>

ConnectorPart ==
  /\ \/ focus = "buffer"   /\ CircularNext /\ UNCHANGED <<receiverVars, tcpVars, httpVars>>
     \/ focus = "receiver" /\ ReceiverNext /\ UNCHANGED <<bufferVars, tcpVars, httpVars>>
     \/ focus = "network"  /\ TcpNext      /\ UNCHANGED <<bufferVars, receiverVars, httpVars>>
     \/ focus = "http"     /\ HttpNext     /\ UNCHANGED <<bufferVars, receiverVars, tcpVars>>
  /\ UNCHANGED <<focus, busVars, Containers>>

ContainerPart ==
  /\ \/ focus = "forward" /\ ForwardNext /\ UNCHANGED doubleVars
     \/ focus = "double"  /\ DoubleNext  /\ UNCHANGED forwardVars
  /\ UNCHANGED <<focus, busVars, Connectors>>

MCTransportsNext == BusPart(BusNext) \/ ConnectorPart \/ ContainerPart

\* Of the threads, the one that reads from the bus is known to go on, as in
\* BusFairSpec.
MCTransportsSpec ==
  /\ MCTransportsInit /\ [][MCTransportsNext]_transportsVars
  /\ WF_transportsVars(BusPart(Subscriber))
=============================================================================
