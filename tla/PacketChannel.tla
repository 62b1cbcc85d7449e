---------------------------- MODULE PacketChannel ----------------------------
(***************************************************************************)
(* What the packet path promises, without buffers, threads or locks: a     *)
(* FIFO channel from the socket to the packet processor.  While it is open *)
(* packets enter at one end in the order they were received and leave at   *)
(* the other in the same order, none lost, none duplicated.  Once it is    *)
(* closing packets may be discarded, but the ones that are left keep their *)
(* order.  It opens empty: no packet of one session is seen by the next.   *)
(***************************************************************************)
EXTENDS Integers, Sequences

CONSTANTS Payload,    \* contents of packets
          BatchSize   \* most packets that enter at once

VARIABLES open, inflight

channelVars == <<open, inflight>>

Init == inflight = <<>> /\ open \in BOOLEAN

Enter ==
    \E num \in 1..BatchSize : \E msg \in [1..num -> Payload] :
        /\ inflight' = inflight \o msg
        /\ UNCHANGED open

Leave ==
    \E num \in 1..Len(inflight) :
        /\ inflight' = SubSeq(inflight, num + 1, Len(inflight))
        /\ UNCHANGED open

Close ==
    /\ open
    /\ open' = FALSE
    /\ UNCHANGED inflight

\* t is s with some of its elements left out.
IsSubsequence(t, s) ==
    \E place \in [DOMAIN t -> DOMAIN s] :
        /\ \A i, j \in DOMAIN t : i < j => place[i] < place[j]
        /\ \A i \in DOMAIN t : t[i] = s[place[i]]

Discard ==
    /\ ~open
    /\ UNCHANGED open
    /\ IsSubsequence(inflight', inflight)

Open ==
    /\ ~open
    /\ inflight = <<>>
    /\ open' = TRUE
    /\ UNCHANGED inflight

Next == Enter \/ Leave \/ Close \/ Discard \/ Open

Spec == Init /\ [][Next]_channelVars
=============================================================================
