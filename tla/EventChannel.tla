----------------------------- MODULE EventChannel -----------------------------
(***************************************************************************)
(* What the engine promises about the events one node sends to another,    *)
(* without locks, flags, chains handed over or node life cycles: a queue   *)
(* from which the receiver takes events one by one, keeping or rejecting   *)
(* each, and a way back to the sender for what was rejected or cannot be   *)
(* taken.                                                                  *)
(* NodeSync implements it for every pair of nodes.                         *)
(***************************************************************************)
EXTENDS Integers, Sequences

VARIABLES
  queue,     \* events not taken yet, oldest first
  rejected,  \* events taken and turned down, on their way back
  fate,      \* fate[e]: what became of the e-th event sent
  orphans    \* events whose source actors no longer exist

chanVars == <<queue, rejected, fate, orphans>>

Elements(s) == {s[i] : i \in DOMAIN s}

ChanInit == queue = << >> /\ rejected = << >> /\ fate = << >> /\ orphans = {}

Send ==
  /\ fate' = Append(fate, "pending")
  /\ queue' = Append(queue, Len(fate) + 1)
  /\ UNCHANGED <<rejected, orphans>>

\* The receiver has the oldest event ...
Deliver ==
  /\ queue # << >>
  /\ fate' = [fate EXCEPT ![Head(queue)] = "delivered"]
  /\ queue' = Tail(queue)
  /\ UNCHANGED <<rejected, orphans>>

\* ... or turns it down.
Reject ==
  /\ queue # << >>
  /\ rejected' = Append(rejected, Head(queue))
  /\ queue' = Tail(queue)
  /\ UNCHANGED <<fate, orphans>>

\* The receiver thinks better of an event it has had.
Recall ==
  \E e \in DOMAIN fate :
    /\ fate[e] = "delivered"
    /\ fate' = [fate EXCEPT ![e] = "pending"]
    /\ rejected' = Append(rejected, e)
    /\ UNCHANGED <<queue, orphans>>

\* fate once every event of S went back: to its source, if there still is one.
SentBack(S) ==
  [e \in DOMAIN fate |->
     IF e \notin S THEN fate[e]
     ELSE IF e \in orphans THEN "discarded" ELSE "returned"]

\* The rejected events go back to the sender, and with them the k oldest of the
\* queue, k being 0 while the receiver is there to take them.  The sender may
\* answer with a new event, which is queued or, with the receiver gone, comes
\* back at once.
GiveBack ==
  \E k \in 0 .. Len(queue) :
    LET back == Elements(rejected) \cup Elements(SubSeq(queue, 1, k))
        rest == SubSeq(queue, k + 1, Len(queue))
    IN
    /\ back # {}
    /\ rejected' = << >>
    /\ \/ fate' = SentBack(back) /\ queue' = rest
       \/ fate' = Append(SentBack(back), "pending")
            /\ queue' = Append(rest, Len(fate) + 1)
       \/ fate' = Append(SentBack(back), "returned") /\ queue' = rest
    /\ UNCHANGED orphans

\* The sender's node goes away, and the source of every event so far with it.
Abandon ==
  /\ orphans' = DOMAIN fate
  /\ UNCHANGED <<queue, rejected, fate>>

ChanNext == Send \/ Deliver \/ Reject \/ Recall \/ GiveBack \/ Abandon

ChanSpec == ChanInit /\ [][ChanNext]_chanVars
=============================================================================
