------------------------ MODULE PacketChannel_proofs ------------------------
(***************************************************************************)
(* Whose a packet buffer is, and what becomes of the packets: no buffer is *)
(* in two places (NoSharing), none of an earlier session is in any         *)
(* (NoStalePackets), and so PacketPipeline implements PacketChannel.  The  *)
(* proofs rest on the invariants of PacketPipeline_proofs; two more        *)
(* are needed, Owned and Closing.                                          *)
(***************************************************************************)
EXTENDS PacketPipeline_proofs

(***************************************************************************)
(* No buffer twice in a container; none in both of two.  All are of one    *)
(* pool, unless _start is called while the threads still run.              *)
(***************************************************************************)
Distinct(s)    == \A i, j \in DOMAIN s : s[i] = s[j] => i = j
Disjoint(s, t) == \A i \in DOMAIN s : \A j \in DOMAIN t : s[i] # t[j]
OfPool(s, g)   == \A i \in DOMAIN s : s[i][1] = g

Apart(a, b, c, d, e) ==
    /\ Distinct(a) /\ Distinct(b) /\ Distinct(c) /\ Distinct(d) /\ Distinct(e)
    /\ Disjoint(a, b) /\ Disjoint(a, c) /\ Disjoint(a, d) /\ Disjoint(a, e)
    /\ Disjoint(b, c) /\ Disjoint(b, d) /\ Disjoint(b, e)
    /\ Disjoint(c, d) /\ Disjoint(c, e)
    /\ Disjoint(d, e)

OfOnePool(a, b, c, d, e, g) ==
    OfPool(a, g) /\ OfPool(b, g) /\ OfPool(c, g) /\ OfPool(d, g) /\ OfPool(e, g)

Owned ==
    /\ Apart(m_empty_buffers, bufQue, m_full_buffers, pktsToProcess, pktsToRecycle)
    /\ ~live => OfOnePool(m_empty_buffers, bufQue, m_full_buffers, pktsToProcess,
                          pktsToRecycle, generation)

-----------------------------------------------------------------------------
(***************************************************************************)
(* Lemmas about sequences.                                                 *)
(***************************************************************************)
LEMMA Nothing ==
    Distinct(<<>>) /\ \A u : Disjoint(<<>>, u) /\ Disjoint(u, <<>>) /\ OfPool(<<>>, u)
BY DEF Distinct, Disjoint, OfPool

LEMMA Symmetric == ASSUME NEW s, NEW t, Disjoint(s, t) PROVE Disjoint(t, s)
BY DEF Disjoint

LEMMA Split ==
    ASSUME NEW S, NEW s \in Seq(S), NEW num \in 0..Len(s)
    PROVE  /\ Distinct(s) => /\ Distinct(Front(s, num)) /\ Distinct(Rest(s, num))
                             /\ Disjoint(Front(s, num), Rest(s, num))
           /\ \A u : Disjoint(s, u) => Disjoint(Front(s, num), u) /\ Disjoint(Rest(s, num), u)
           /\ \A g : OfPool(s, g) => OfPool(Front(s, num), g) /\ OfPool(Rest(s, num), g)
<1>. DEFINE front == Front(s, num)
            rest  == Rest(s, num)
<1>1. /\ Len(s) \in Nat /\ DOMAIN s = 1..Len(s)
      /\ DOMAIN front = 1..num /\ \A i \in 1..num : front[i] = s[i] /\ i \in DOMAIN s
      /\ DOMAIN rest = 1..Len(s) - num
      /\ \A i \in 1..Len(s) - num : rest[i] = s[i + num] /\ i + num \in DOMAIN s
  <2>1. Len(s) \in Nat /\ DOMAIN s = 1..Len(s) /\ num \in Int /\ num <= Len(s)
    BY LenProperties
  <2>2. /\ front \in Seq(S) /\ Len(front) = num /\ \A i \in 1..num : front[i] = s[i]
        /\ rest \in Seq(S) /\ Len(rest) = Len(s) - num
        /\ \A i \in 1..Len(s) - num : rest[i] = s[i + num]
    BY FrontRest
  <2>. HIDE DEF front, rest
  <2>3. DOMAIN front = 1..num /\ DOMAIN rest = 1..Len(s) - num
    BY <2>2, LenProperties
  <2>. QED  BY <2>1, <2>2, <2>3
<1>. HIDE DEF front, rest
<1>2. ASSUME Distinct(s) PROVE Distinct(front) /\ Distinct(rest) /\ Disjoint(front, rest)
  <2>1. Distinct(front)
    BY <1>1, <1>2 DEF Distinct
  <2>2. Distinct(rest)
    <3>1. ASSUME NEW i \in DOMAIN rest, NEW j \in DOMAIN rest, rest[i] = rest[j] PROVE i = j
      <4>1. i + num \in DOMAIN s /\ j + num \in DOMAIN s /\ s[i + num] = s[j + num]
        BY <1>1, <3>1
      <4>2. i + num = j + num
        BY <1>2, <4>1 DEF Distinct
      <4>. QED  BY <1>1, <4>2
    <3>. QED  BY <3>1 DEF Distinct
  <2>3. Disjoint(front, rest)
    <3>1. ASSUME NEW i \in DOMAIN front, NEW j \in DOMAIN rest, front[i] = rest[j] PROVE FALSE
      <4>1. i \in DOMAIN s /\ j + num \in DOMAIN s /\ s[i] = s[j + num]
        BY <1>1, <3>1
      <4>2. i = j + num
        BY <1>2, <4>1 DEF Distinct
      <4>. QED  BY <1>1, <4>2
    <3>. QED  BY <3>1 DEF Disjoint
  <2>. QED  BY <2>1, <2>2, <2>3
<1>3. ASSUME NEW u, Disjoint(s, u) PROVE Disjoint(front, u) /\ Disjoint(rest, u)
  BY <1>1, <1>3 DEF Disjoint
<1>4. ASSUME NEW g, OfPool(s, g) PROVE OfPool(front, g) /\ OfPool(rest, g)
  BY <1>1, <1>4 DEF OfPool
<1>. QED  BY <1>2, <1>3, <1>4 DEF front, rest

LEMMA Join ==
    ASSUME NEW S, NEW s \in Seq(S), NEW t \in Seq(S)
    PROVE  /\ Distinct(s) /\ Distinct(t) /\ Disjoint(s, t) => Distinct(s \o t)
           /\ \A u : Disjoint(s, u) /\ Disjoint(t, u) => Disjoint(s \o t, u)
           /\ \A g : OfPool(s, g) /\ OfPool(t, g) => OfPool(s \o t, g)
<1>. DEFINE st == s \o t
<1>1. /\ Len(s) \in Nat /\ Len(t) \in Nat /\ DOMAIN s = 1..Len(s) /\ DOMAIN t = 1..Len(t)
      /\ DOMAIN st = 1..Len(s) + Len(t)
      /\ \A i \in DOMAIN st : \/ i \in DOMAIN s /\ st[i] = s[i]
                              \/ /\ i - Len(s) \in DOMAIN t /\ i \notin DOMAIN s
                                 /\ st[i] = t[i - Len(s)]
  BY LenProperties, ConcatProperties
<1>. HIDE DEF st
<1>2. ASSUME Distinct(s), Distinct(t), Disjoint(s, t) PROVE Distinct(st)
  <2>1. ASSUME NEW i \in DOMAIN st, NEW j \in DOMAIN st, st[i] = st[j] PROVE i = j
    <3>1. CASE i \in DOMAIN s /\ j \in DOMAIN s
      BY <1>1, <1>2, <2>1, <3>1 DEF Distinct
    <3>2. CASE i \notin DOMAIN s /\ j \notin DOMAIN s
      <4>1. i - Len(s) = j - Len(s)
        BY <1>1, <1>2, <2>1, <3>2 DEF Distinct
      <4>. QED  BY <1>1, <4>1
    <3>3. CASE (i \in DOMAIN s /\ j \notin DOMAIN s) \/ (i \notin DOMAIN s /\ j \in DOMAIN s)
      BY <1>1, <1>2, <2>1, <3>3 DEF Disjoint
    <3>. QED  BY <3>1, <3>2, <3>3
  <2>. QED  BY <2>1 DEF Distinct
<1>3. ASSUME NEW u, Disjoint(s, u), Disjoint(t, u) PROVE Disjoint(st, u)
  BY <1>1, <1>3 DEF Disjoint
<1>4. ASSUME NEW g, OfPool(s, g), OfPool(t, g) PROVE OfPool(st, g)
  BY <1>1, <1>4 DEF OfPool
<1>. QED  BY <1>2, <1>3, <1>4 DEF st

-----------------------------------------------------------------------------
(***************************************************************************)
(* The containers stay apart: a buffer only moves from one to another, and *)
(* a new pool comes when no thread holds a buffer any more.  What is left  *)
(* in the full container then keeps its buffers: they are not of the pool. *)
(***************************************************************************)
LEMMA OwnedInit == Init => Owned
BY Nothing DEF Init, Owned, Apart, OfOnePool

LEMMA OwnedReader == ASSUME IInv, Owned, ReaderStep PROVE Owned'
<1>. USE PipelineAssumption
<1>0. /\ bufQue \in Seq(Buffers) /\ m_empty_buffers \in Seq(Buffers)
      /\ m_full_buffers \in Seq(Buffers) /\ pktsRead \in 0..PktsPerRead
      /\ Len(bufQue) \in Nat /\ Len(m_empty_buffers) \in Nat
  BY LengthsNat DEF IInv, TypeOK
<1>1. UNCHANGED <<pktsToProcess, pktsToRecycle, live, generation>>
  BY DEF ReaderStep, ReaderBegin, ReaderPop, ReaderSleep, PointIovecs, ReaderLoop, Receive,
     ReceiveNothing, ReceiveFails, PushCheck, Push, PushNotify, ReaderRecycleCheck,
     ReaderRecycle, ReaderEnd, processorVars, controlVars
<1>2. ASSUME UNCHANGED <<m_empty_buffers, bufQue, m_full_buffers>> PROVE Owned'
  BY <1>1, <1>2 DEF Owned
<1>3. ASSUME NEW num \in 0..Len(bufQue), bufQue' = Rest(bufQue, num),
             UNCHANGED <<m_empty_buffers, m_full_buffers>>
      PROVE  Owned'
  BY <1>0, <1>1, <1>3, Split, Symmetric DEF Owned, Apart, OfOnePool
<1>4. CASE ReaderPop
  <2>1. CASE UNCHANGED <<bufferVars, bufQue>>
    BY <1>2, <2>1 DEF bufferVars
  <2>2. CASE /\ PopEmpty(bufQue, PktsPerRead)
             /\ Len(bufQue) < PktsPerRead
             /\ ~m_shuttingDown
             /\ empties_available(PktsPerRead - Len(bufQue))
    <3>. DEFINE request == PktsPerRead - Len(bufQue)
                front   == Front(m_empty_buffers, request)
                rest    == Rest(m_empty_buffers, request)
    <3>1. request \in 0..Len(m_empty_buffers)
      BY <1>0, <2>2 DEF empties_available
    <3>2. front \in Seq(Buffers)
      BY <1>0, <3>1, FrontRest
    <3>3. bufQue' = front \o bufQue /\ m_empty_buffers' = rest /\ UNCHANGED m_full_buffers
      BY <2>2 DEF PopEmpty
    <3>4. /\ Distinct(front) /\ Distinct(rest) /\ Disjoint(front, rest)
          /\ \A u : Disjoint(m_empty_buffers, u) => Disjoint(front, u) /\ Disjoint(rest, u)
          /\ \A g : OfPool(m_empty_buffers, g) => OfPool(front, g) /\ OfPool(rest, g)
      BY <1>0, <3>1, Split DEF Owned, Apart
    <3>. HIDE DEF request, front, rest
    <3>5. /\ Distinct(front) /\ Distinct(bufQue) /\ Disjoint(front, bufQue) =>
                Distinct(front \o bufQue)
          /\ \A u : Disjoint(front, u) /\ Disjoint(bufQue, u) => Disjoint(front \o bufQue, u)
          /\ \A g : OfPool(front, g) /\ OfPool(bufQue, g) => OfPool(front \o bufQue, g)
      BY <1>0, <3>2, Join
    <3>6. Disjoint(bufQue, rest)
      BY <3>4, Symmetric DEF Owned, Apart
    <3>. QED  BY <1>1, <3>3, <3>4, <3>5, <3>6, Symmetric DEF Owned, Apart, OfOnePool
  <2>. QED  BY <1>4, <2>1, <2>2 DEF ReaderPop
<1>5. CASE PushCheck
  <2>1. pktsRead \in 0..Len(bufQue)
    BY <1>0, <1>5 DEF IInv, ReaderInv, Pointed, PushCheck
  <2>. QED  BY <1>2, <1>3, <1>5, <2>1 DEF PushCheck, bufferVars
<1>6. CASE Push
  <2>. DEFINE front == Front(bufQue, pktsRead)
              rest  == Rest(bufQue, pktsRead)
  <2>1. pktsRead \in 0..Len(bufQue)
    BY <1>0, <1>6 DEF IInv, ReaderInv, Pointed, Push
  <2>2. front \in Seq(Buffers)
    BY <1>0, <2>1, FrontRest
  <2>3. /\ m_full_buffers' = m_full_buffers \o front /\ bufQue' = rest
        /\ UNCHANGED m_empty_buffers
    BY <1>6 DEF Push, PushFull
  <2>4. /\ Distinct(front) /\ Distinct(rest) /\ Disjoint(front, rest)
        /\ \A u : Disjoint(bufQue, u) => Disjoint(front, u) /\ Disjoint(rest, u)
        /\ \A g : OfPool(bufQue, g) => OfPool(front, g) /\ OfPool(rest, g)
    BY <1>0, <2>1, Split DEF Owned, Apart
  <2>. HIDE DEF front, rest
  <2>5. /\ Distinct(m_full_buffers) /\ Distinct(front) /\ Disjoint(m_full_buffers, front) =>
              Distinct(m_full_buffers \o front)
        /\ \A u : Disjoint(m_full_buffers, u) /\ Disjoint(front, u) =>
              Disjoint(m_full_buffers \o front, u)
        /\ \A g : OfPool(m_full_buffers, g) /\ OfPool(front, g) =>
              OfPool(m_full_buffers \o front, g)
    BY <1>0, <2>2, Join
  <2>6. /\ Disjoint(m_full_buffers, front) /\ Disjoint(m_full_buffers, rest)
        /\ Disjoint(bufQue, m_empty_buffers) /\ Disjoint(m_full_buffers, m_empty_buffers)
    BY <2>4, Symmetric DEF Owned, Apart
  <2>. QED  BY <1>1, <2>3, <2>4, <2>5, <2>6, Symmetric DEF Owned, Apart, OfOnePool
<1>7. CASE ReaderRecycleCheck
  <2>1. CASE bufQue' = <<>>
    BY <1>1, <1>7, <2>1, Nothing DEF ReaderRecycleCheck, bufferVars, Owned, Apart, OfOnePool
  <2>2. CASE UNCHANGED bufQue
    BY <1>2, <1>7, <2>2 DEF ReaderRecycleCheck, bufferVars
  <2>. QED  BY <1>7, <2>1, <2>2 DEF ReaderRecycleCheck
<1>8. CASE ReaderRecycle
  <2>1. /\ m_empty_buffers' = m_empty_buffers \o bufQue /\ bufQue' = <<>>
        /\ UNCHANGED m_full_buffers
    BY <1>8 DEF ReaderRecycle, RecycleBuffers
  <2>2. /\ Distinct(m_empty_buffers \o bufQue)
        /\ \A u : Disjoint(m_empty_buffers, u) /\ Disjoint(bufQue, u) =>
              Disjoint(m_empty_buffers \o bufQue, u)
        /\ \A g : OfPool(m_empty_buffers, g) /\ OfPool(bufQue, g) =>
              OfPool(m_empty_buffers \o bufQue, g)
    BY <1>0, Join DEF Owned, Apart
  <2>. QED  BY <1>1, <2>1, <2>2, Nothing DEF Owned, Apart, OfOnePool
<1>9. CASE ~(ReaderPop \/ PushCheck \/ Push \/ ReaderRecycleCheck \/ ReaderRecycle)
  <2>1. UNCHANGED <<m_empty_buffers, bufQue, m_full_buffers>>
    BY <1>9 DEF ReaderStep, ReaderBegin, ReaderSleep, PointIovecs, ReaderLoop, Receive,
       ReceiveNothing, ReceiveFails, PushNotify, ReaderEnd, bufferVars
  <2>. QED  BY <1>2, <2>1
<1>. QED  BY <1>4, <1>5, <1>6, <1>7, <1>8, <1>9

LEMMA OwnedProcessor == ASSUME IInv, Owned, ProcessorStep PROVE Owned'
<1>. USE PipelineAssumption
<1>0. /\ pktsToProcess \in Seq(Buffers) /\ pktsToRecycle \in Seq(Buffers)
      /\ m_empty_buffers \in Seq(Buffers) /\ m_full_buffers \in Seq(Buffers)
      /\ Len(pktsToProcess) \in Nat /\ Len(m_full_buffers) \in Nat
  BY LengthsNat DEF IInv, TypeOK
<1>1. UNCHANGED <<bufQue, live, generation>>
  BY DEF ProcessorStep, ProcessorBegin, ProcessorLoop, ProcessorPop, PopFull, ProcessorSleep,
     Process, ProcessorRecycleCheck, ProcessorRecycle, ProcessorRecycleNotify, ProcessorEnd,
     readerVars, controlVars
<1>2. ASSUME UNCHANGED <<m_empty_buffers, m_full_buffers, pktsToProcess, pktsToRecycle>>
      PROVE  Owned'
  BY <1>1, <1>2 DEF Owned
<1>3. CASE ProcessorPop
  <2>1. CASE UNCHANGED <<bufferVars, pktsToProcess>>
    BY <1>2, <1>3, <2>1 DEF ProcessorPop, bufferVars
  <2>2. CASE /\ PopFull(pktsToProcess, PktsPerPush)
             /\ Len(pktsToProcess) < PktsPerPush
             /\ ~m_shuttingDown
             /\ full_available(PktsPerPush - Len(pktsToProcess))
    <3>. DEFINE request == PktsPerPush - Len(pktsToProcess)
                front   == Front(m_full_buffers, request)
                rest    == Rest(m_full_buffers, request)
    <3>1. request \in 0..Len(m_full_buffers)
      BY <1>0, <2>2 DEF full_available
    <3>2. front \in Seq(Buffers)
      BY <1>0, <3>1, FrontRest
    <3>3. /\ pktsToProcess' = pktsToProcess \o front /\ m_full_buffers' = rest
          /\ UNCHANGED m_empty_buffers
      BY <2>2 DEF PopFull
    <3>4. /\ Distinct(front) /\ Distinct(rest) /\ Disjoint(front, rest)
          /\ \A u : Disjoint(m_full_buffers, u) => Disjoint(front, u) /\ Disjoint(rest, u)
          /\ \A g : OfPool(m_full_buffers, g) => OfPool(front, g) /\ OfPool(rest, g)
      BY <1>0, <3>1, Split DEF Owned, Apart
    <3>. HIDE DEF request, front, rest
    <3>5. /\ Distinct(pktsToProcess) /\ Distinct(front) /\ Disjoint(pktsToProcess, front) =>
                Distinct(pktsToProcess \o front)
          /\ \A u : Disjoint(pktsToProcess, u) /\ Disjoint(front, u) =>
                Disjoint(pktsToProcess \o front, u)
          /\ \A g : OfPool(pktsToProcess, g) /\ OfPool(front, g) =>
                OfPool(pktsToProcess \o front, g)
      BY <1>0, <3>2, Join
    <3>6. UNCHANGED pktsToRecycle
      BY <1>3 DEF ProcessorPop
    <3>7. /\ Disjoint(m_full_buffers, m_empty_buffers) /\ Disjoint(m_full_buffers, bufQue)
          /\ Disjoint(pktsToProcess, m_empty_buffers) /\ Disjoint(pktsToProcess, bufQue)
          /\ Disjoint(pktsToProcess, m_full_buffers)
      BY Symmetric DEF Owned, Apart
    <3>8. /\ Disjoint(pktsToProcess, front) /\ Disjoint(pktsToProcess, rest)
      BY <3>4, Symmetric DEF Owned, Apart
    <3>9. Distinct(pktsToProcess \o front)
      BY <3>4, <3>5, <3>8 DEF Owned, Apart
    <3>10. /\ Disjoint(pktsToProcess \o front, m_empty_buffers)
           /\ Disjoint(pktsToProcess \o front, bufQue)
           /\ Disjoint(pktsToProcess \o front, rest)
           /\ Disjoint(pktsToProcess \o front, pktsToRecycle)
           /\ Disjoint(rest, m_empty_buffers) /\ Disjoint(rest, bufQue)
           /\ Disjoint(rest, pktsToRecycle)
      BY <3>4, <3>5, <3>7, <3>8 DEF Owned, Apart
    <3>. QED
      BY <1>1, <3>3, <3>4, <3>5, <3>6, <3>9, <3>10, Symmetric DEF Owned, Apart, OfOnePool
  <2>. QED  BY <1>3, <2>1, <2>2 DEF ProcessorPop
<1>4. ASSUME NEW num \in 0..PktsPerPush, Process(num) PROVE Owned'
  <2>1. CASE stop["processor"]
    BY <1>2, <1>4, <2>1 DEF Process, bufferVars
  <2>2. CASE ~stop["processor"]
    <3>. DEFINE front == Front(pktsToProcess, num)
                rest  == Rest(pktsToProcess, num)
    <3>1. num \in 0..Len(pktsToProcess)
      BY <1>4, <1>0, <2>2 DEF Process
    <3>2. front \in Seq(Buffers)
      BY <1>0, <3>1, FrontRest
    <3>3. /\ pktsToRecycle' = pktsToRecycle \o front /\ pktsToProcess' = rest
          /\ UNCHANGED <<m_empty_buffers, m_full_buffers>>
      BY <1>4, <2>2 DEF Process, bufferVars
    <3>4. /\ Distinct(front) /\ Distinct(rest) /\ Disjoint(front, rest)
          /\ \A u : Disjoint(pktsToProcess, u) => Disjoint(front, u) /\ Disjoint(rest, u)
          /\ \A g : OfPool(pktsToProcess, g) => OfPool(front, g) /\ OfPool(rest, g)
      BY <1>0, <3>1, Split DEF Owned, Apart
    <3>. HIDE DEF front, rest
    <3>5. /\ Distinct(pktsToRecycle) /\ Distinct(front) /\ Disjoint(pktsToRecycle, front) =>
                Distinct(pktsToRecycle \o front)
          /\ \A u : Disjoint(pktsToRecycle, u) /\ Disjoint(front, u) =>
                Disjoint(pktsToRecycle \o front, u)
          /\ \A g : OfPool(pktsToRecycle, g) /\ OfPool(front, g) =>
                OfPool(pktsToRecycle \o front, g)
      BY <1>0, <3>2, Join
    <3>6. /\ Disjoint(pktsToProcess, m_empty_buffers) /\ Disjoint(pktsToProcess, bufQue)
          /\ Disjoint(pktsToProcess, m_full_buffers)
          /\ Disjoint(pktsToRecycle, m_empty_buffers) /\ Disjoint(pktsToRecycle, bufQue)
          /\ Disjoint(pktsToRecycle, m_full_buffers)
      BY Symmetric DEF Owned, Apart
    <3>7. Disjoint(pktsToRecycle, front) /\ Disjoint(pktsToRecycle, rest)
      BY <3>4, Symmetric DEF Owned, Apart
    <3>8. /\ Distinct(pktsToRecycle \o front)
          /\ Disjoint(pktsToRecycle \o front, m_empty_buffers)
          /\ Disjoint(pktsToRecycle \o front, bufQue)
          /\ Disjoint(pktsToRecycle \o front, m_full_buffers)
          /\ Disjoint(pktsToRecycle \o front, rest)
          /\ Disjoint(rest, m_empty_buffers) /\ Disjoint(rest, bufQue)
          /\ Disjoint(rest, m_full_buffers)
      BY <3>4, <3>5, <3>6, <3>7 DEF Owned, Apart
    <3>. QED  BY <1>1, <3>3, <3>4, <3>5, <3>8, Symmetric DEF Owned, Apart, OfOnePool
  <2>. QED  BY <2>1, <2>2
<1>5. CASE ProcessorRecycleCheck
  <2>1. UNCHANGED <<m_empty_buffers, m_full_buffers>>
    BY <1>5 DEF ProcessorRecycleCheck, bufferVars
  <2>2. \/ UNCHANGED <<pktsToProcess, pktsToRecycle>>
        \/ pktsToProcess' = <<>> /\ UNCHANGED pktsToRecycle
        \/ pktsToRecycle' = <<>> /\ UNCHANGED pktsToProcess
    BY <1>5 DEF ProcessorRecycleCheck
  <2>. QED  BY <1>1, <1>2, <2>1, <2>2, Nothing DEF Owned, Apart, OfOnePool
<1>6. CASE ProcessorRecycle
  <2>1. UNCHANGED m_full_buffers
    BY <1>6 DEF ProcessorRecycle, RecycleBuffers
  <2>2. /\ Disjoint(pktsToProcess, bufQue) /\ Disjoint(pktsToProcess, m_full_buffers)
        /\ Disjoint(pktsToRecycle, bufQue) /\ Disjoint(pktsToRecycle, m_full_buffers)
        /\ Disjoint(pktsToRecycle, pktsToProcess)
    BY Symmetric DEF Owned, Apart
  <2>3. CASE recycling = "unprocessed"
    <3>1. /\ m_empty_buffers' = m_empty_buffers \o pktsToProcess
          /\ pktsToProcess' = <<>> /\ UNCHANGED pktsToRecycle
      BY <1>6, <2>3 DEF ProcessorRecycle, RecycleBuffers
    <3>2. /\ Distinct(m_empty_buffers \o pktsToProcess)
          /\ \A u : Disjoint(m_empty_buffers, u) /\ Disjoint(pktsToProcess, u) =>
                Disjoint(m_empty_buffers \o pktsToProcess, u)
          /\ \A g : OfPool(m_empty_buffers, g) /\ OfPool(pktsToProcess, g) =>
                OfPool(m_empty_buffers \o pktsToProcess, g)
      BY <1>0, Join DEF Owned, Apart
    <3>. QED  BY <1>1, <2>1, <2>2, <3>1, <3>2, Nothing DEF Owned, Apart, OfOnePool
  <2>4. CASE recycling # "unprocessed"
    <3>1. /\ m_empty_buffers' = m_empty_buffers \o pktsToRecycle
          /\ pktsToRecycle' = <<>> /\ UNCHANGED pktsToProcess
      BY <1>6, <2>4 DEF ProcessorRecycle, RecycleBuffers
    <3>2. /\ Distinct(m_empty_buffers \o pktsToRecycle)
          /\ \A u : Disjoint(m_empty_buffers, u) /\ Disjoint(pktsToRecycle, u) =>
                Disjoint(m_empty_buffers \o pktsToRecycle, u)
          /\ \A g : OfPool(m_empty_buffers, g) /\ OfPool(pktsToRecycle, g) =>
                OfPool(m_empty_buffers \o pktsToRecycle, g)
      BY <1>0, Join DEF Owned, Apart
    <3>. QED  BY <1>1, <2>1, <2>2, <3>1, <3>2, Nothing DEF Owned, Apart, OfOnePool
  <2>. QED  BY <2>3, <2>4
<1>7. CASE /\ ~(ProcessorPop \/ ProcessorRecycleCheck \/ ProcessorRecycle)
           /\ ~\E num \in 0..PktsPerPush : Process(num)
  <2>1. UNCHANGED <<m_empty_buffers, m_full_buffers, pktsToProcess, pktsToRecycle>>
    BY <1>7 DEF ProcessorStep, ProcessorBegin, ProcessorLoop, ProcessorSleep,
       ProcessorRecycleNotify, ProcessorEnd, bufferVars
  <2>. QED  BY <1>2, <2>1
<1>. QED  BY <1>3, <1>4, <1>5, <1>6, <1>7

LEMMA OwnedStep == ASSUME IInv, CountInv, Owned, [Next]_vars PROVE Owned'
<1>1. ASSUME UNCHANGED <<m_empty_buffers, bufQue, m_full_buffers, pktsToProcess,
                         pktsToRecycle, live, generation>>
      PROVE  Owned'
  BY <1>1 DEF Owned
<1>2. CASE ControlStep
  <2>1. ASSUME NEW g \in 1..Generations, InitializeBuffers(g) PROVE Owned'
    <3>1. /\ m_empty_buffers' = Pool(g) /\ generation' = g
          /\ UNCHANGED <<bufQue, m_full_buffers, pktsToProcess, pktsToRecycle>>
          /\ cpc = "destroyed" /\ (~live' => call = "start")
      BY <2>1 DEF InitializeBuffers, Initialize, processorVars
    <3>2. /\ bufQue = <<>> /\ pktsToProcess = <<>> /\ pktsToRecycle = <<>>
          /\ ~live' => m_full_buffers = <<>>
      BY <3>1 DEF IInv, CountInv, PhaseInv, ReaderInv, ProcessorInv
    <3>3. Distinct(Pool(g)) /\ OfPool(Pool(g), g)
      BY CapacityAssumption DEF Pool, Distinct, OfPool
    <3>4. Disjoint(Pool(g), m_full_buffers)
      <4>1. \A j \in DOMAIN m_full_buffers :
               m_full_buffers[j] \in Buffers /\ Holds(m_full_buffers, m_full_buffers[j])
        BY LenProperties, ElementOfSeq DEF IInv, TypeOK, Holds
      <4>2. \A j \in DOMAIN m_full_buffers : m_full_buffers[j][1] # g
        BY <2>1, <4>1 DEF InitializeBuffers, Unreferenced
      <4>. QED  BY <3>3, <4>2 DEF Disjoint, OfPool
    <3>5. \A u : Disjoint(u, <<>>) /\ Disjoint(<<>>, u) /\ OfPool(<<>>, u)
      BY Nothing
    <3>. QED  BY <3>1, <3>2, <3>3, <3>4, <3>5, Nothing DEF Owned, Apart, OfOnePool
  <2>2. CASE BufferClearFull
    BY <2>2, Nothing DEF BufferClearFull, ClearFull, Owned, Apart, OfOnePool, readerVars,
       processorVars
  <2>3. CASE BufferClearEmpty
    BY <2>3, Nothing DEF BufferClearEmpty, ClearEmpty, Owned, Apart, OfOnePool, readerVars,
       processorVars
  <2>4. CASE \/ ShutDownReader \/ ShutDownProcessor \/ BufferRaise \/ BufferNotifyEmpty
             \/ BufferNotifyFull \/ JoinReader \/ JoinProcessor \/ StopReturns
             \/ SetupReader \/ SpawnReader \/ SpawnProcessor
    <3>1. UNCHANGED <<m_empty_buffers, bufQue, m_full_buffers, pktsToProcess, pktsToRecycle,
                      live, generation>>
      BY <2>4 DEF ShutDownReader, ShutDownProcessor, ShutDownThread, BufferRaise,
         RaiseShuttingDown, BufferNotifyEmpty, BufferNotifyFull, JoinReader, JoinProcessor,
         StopReturns, SetupReader, SpawnReader, SpawnProcessor, bufferVars, readerVars,
         processorVars
    <3>. QED  BY <1>1, <3>1
  <2>. QED  BY <1>2, <2>1, <2>2, <2>3, <2>4 DEF ControlStep
<1>3. CASE SpuriousWakeup \/ UNCHANGED vars \/ \E operation \in Operations : Call(operation)
  BY <1>1, <1>3 DEF SpuriousWakeup, Call, vars, bufferVars, readerVars, processorVars,
     controlVars
<1>. QED  BY <1>2, <1>3, OwnedReader, OwnedProcessor DEF Next

\* The invariant about the owners of the buffers.
THEOREM OwnedAlways == ASSUME ~StopRacesStart PROVE Spec => []Owned
<1>1. ASSUME IInv, CountInv, Owned, [Next]_vars PROVE Owned'
  BY <1>1, OwnedStep
<1>. QED  BY <1>1, OwnedInit, Inductive, Counted, PTL DEF Spec

(***************************************************************************)
(* NoSharing: the two threads never work on the same packet, not even when *)
(* a running component is started again.                                   *)
(***************************************************************************)
THEOREM NothingShared == ASSUME ~StopRacesStart PROVE Spec => []NoSharing
<1>1. ASSUME Owned PROVE NoSharing
  <2>1. \A c \in 1..5 : Distinct(Containers[c])
    BY <1>1 DEF Owned, Apart, Containers
  <2>2. \A c, d \in 1..5 : c # d => Disjoint(Containers[c], Containers[d])
    <3>1. ASSUME NEW c \in 1..5, NEW d \in 1..5, c < d PROVE Disjoint(Containers[c], Containers[d])
      BY <1>1, <3>1 DEF Owned, Apart, Containers
    <3>2. ASSUME NEW c \in 1..5, NEW d \in 1..5, c > d PROVE Disjoint(Containers[c], Containers[d])
      BY <3>1, <3>2, Symmetric
    <3>. QED  BY <3>1, <3>2
  <2>. QED  BY <2>1, <2>2 DEF NoSharing, Distinct, Disjoint
<1>. QED  BY <1>1, OwnedAlways, PTL

(***************************************************************************)
(* NoStalePackets: after a stop and a start nothing received before them   *)
(* is left, whatever sessions, live ones included, came before.            *)
(***************************************************************************)
THEOREM NothingStale == ASSUME ~StopRacesStart PROVE Spec => []NoStalePackets
<1>1. ASSUME Owned PROVE NoStalePackets
  BY <1>1 DEF Owned, OfOnePool, OfPool, NoStalePackets
<1>. QED  BY <1>1, OwnedAlways, PTL

-----------------------------------------------------------------------------
(***************************************************************************)
(* The socket.  An object claims to be running only while its thread is    *)
(* between its first and its last line, so setConnectionInfo always does   *)
(* open the socket, and the thread it is opened for closes it.             *)
(***************************************************************************)
SocketInv ==
    /\ running["reader"] => rpc \notin {"none", "spawned", "finished"}
    /\ running["processor"] => ppc \notin {"none", "spawned", "finished"}
    /\ sockOpen /\ rpc \in {"none", "finished"} => cpc = "spawnReader"

LEMMA SocketStep == ASSUME IInv, SocketInv, [Next]_vars PROVE SocketInv'
<1>. USE DEF SocketInv
<1>0. running \in [{"reader", "processor"} -> BOOLEAN]
  BY DEF IInv, TypeOK, Threads
<1>1. ASSUME UNCHANGED <<rpc, ppc, running, sockOpen>>, cpc # "spawnReader" PROVE SocketInv'
  BY <1>1
<1>2. CASE ReaderStep
  <2>1. UNCHANGED cpc /\ cpc \notin {"setup", "spawnReader"}
    BY <1>2 DEF ReaderStep, ReaderBegin, ReaderPop, ReaderSleep, PointIovecs, ReaderLoop,
       Receive, ReceiveNothing, ReceiveFails, PushCheck, Push, PushNotify, ReaderRecycleCheck,
       ReaderRecycle, ReaderEnd, controlVars, IInv, PhaseInv
  <2>2. CASE ReaderBegin \/ ReaderEnd
    BY <1>0, <2>1, <2>2 DEF ReaderBegin, ReaderEnd, processorVars
  <2>3. CASE PushNotify
    BY <2>1, <2>3 DEF PushNotify, Notify, flagVars
  <2>4. CASE ~(ReaderBegin \/ ReaderEnd \/ PushNotify)
    <3>1. /\ UNCHANGED <<ppc, sockOpen>> /\ rpc' \notin {"none", "spawned", "finished"}
          /\ running'["processor"] = running["processor"]
      BY <1>0, <1>2, <2>4 DEF ReaderStep, ReaderPop, ReaderSleep, PointIovecs, ReaderLoop,
         Receive, ReceiveNothing, ReceiveFails, ReaderGivesUp, PushCheck, Push,
         ReaderRecycleCheck, ReaderRecycle, processorVars, flagVars
    <3>. QED  BY <2>1, <3>1
  <2>. QED  BY <2>2, <2>3, <2>4
<1>3. CASE ProcessorStep
  <2>1. recycling \in {"processed", "unprocessed", "last"}
    BY DEF IInv, TypeOK
  <2>2. UNCHANGED <<cpc, sockOpen>>
    BY <1>3 DEF ProcessorStep, ProcessorBegin, ProcessorLoop, ProcessorPop, ProcessorSleep,
       Process, ProcessorRecycleCheck, ProcessorRecycle, ProcessorRecycleNotify, ProcessorEnd,
       controlVars
  <2>3. rpc' = rpc \/ (rpc = "waiting" /\ rpc' = "pop")
    BY <1>3 DEF ProcessorStep, ProcessorBegin, ProcessorLoop, ProcessorPop, ProcessorSleep,
       Process, ProcessorRecycleCheck, ProcessorRecycle, ProcessorRecycleNotify, Notify,
       ProcessorEnd, readerVars
  <2>4. running'["reader"] = running["reader"]
    BY <1>0, <1>3 DEF ProcessorStep, ProcessorBegin, ProcessorLoop, ProcessorPop,
       ProcessorSleep, Process, ProcessorRecycleCheck, ProcessorRecycle,
       ProcessorRecycleNotify, ProcessorEnd, flagVars
  <2>5. running'["processor"] => ppc' \notin {"none", "spawned", "finished"}
    BY <1>0, <1>3, <2>1 DEF ProcessorStep, ProcessorBegin, ProcessorLoop, ProcessorPop,
       ProcessorSleep, Process, ProcessorRecycleCheck, ProcessorRecycle, AfterRecycle,
       ProcessorRecycleNotify, ProcessorEnd, flagVars
  <2>. QED  BY <2>2, <2>3, <2>4, <2>5
<1>4. CASE SpuriousWakeup
  BY <1>4 DEF SpuriousWakeup, flagVars, controlVars
<1>5. ASSUME NEW operation, Call(operation) PROVE SocketInv'
  BY <1>1, <1>5 DEF Call, readerVars, processorVars, flagVars
<1>6. CASE ControlStep
  <2>1. CASE ShutDownReader \/ ShutDownProcessor
    BY <1>0, <2>1 DEF ShutDownReader, ShutDownProcessor, ShutDownThread, readerVars,
       processorVars
  <2>2. CASE BufferNotifyEmpty \/ BufferNotifyFull
    BY <2>2 DEF BufferNotifyEmpty, BufferNotifyFull, Notify, flagVars, processorVars, readerVars
  <2>3. CASE JoinReader
    BY <2>3 DEF JoinReader, processorVars, flagVars
  <2>4. CASE JoinProcessor
    BY <2>4 DEF JoinProcessor, readerVars, flagVars
  <2>5. CASE SetupReader
    BY <2>5 DEF SetupReader, readerVars, processorVars, flagVars
  <2>6. CASE SpawnReader
    BY <2>6 DEF SpawnReader, processorVars, flagVars, IInv, PhaseInv
  <2>7. CASE SpawnProcessor
    BY <2>7 DEF SpawnProcessor, readerVars, flagVars, IInv, PhaseInv
  <2>8. CASE \/ BufferRaise \/ BufferClearFull \/ BufferClearEmpty \/ StopReturns
             \/ \E g \in 1..Generations : InitializeBuffers(g)
    BY <1>1, <2>8 DEF BufferRaise, BufferClearFull, BufferClearEmpty, StopReturns,
       InitializeBuffers, readerVars, processorVars, flagVars
  <2>. QED
    BY <1>6, <2>1, <2>2, <2>3, <2>4, <2>5, <2>6, <2>7, <2>8 DEF ControlStep
<1>7. CASE UNCHANGED vars
  BY <1>7 DEF vars, readerVars, processorVars, flagVars, controlVars
<1>. QED  BY <1>2, <1>3, <1>4, <1>5, <1>6, <1>7 DEF Next

(***************************************************************************)
(* SocketClosed: destroyBuffersAndJoinThreads leaves no thread, no buffer  *)
(* in a thread's hands and no open socket behind.                          *)
(***************************************************************************)
THEOREM NothingLeft == ASSUME ~StopRacesStart PROVE Spec => []SocketClosed
<1>1. Init => SocketInv
  BY DEF Init, SocketInv, Threads
<1>2. ASSUME IInv, SocketInv, [Next]_vars PROVE SocketInv'
  BY <1>2, SocketStep
<1>3. ASSUME IInv, SocketInv PROVE SocketClosed
  <2>. SUFFICES ASSUME cpc = "destroyed" PROVE ThreadsGone /\ ~sockOpen
    BY DEF SocketClosed
  <2>1. NoThreads /\ ~sockOpen
    BY <1>3 DEF IInv, PhaseInv, SocketInv, NoThreads
  <2>2. bufQue = <<>> /\ pktsToProcess = <<>> /\ pktsToRecycle = <<>>
    BY <1>3, <2>1 DEF IInv, ReaderInv, ProcessorInv, NoThreads
  <2>3. running \in [Threads -> BOOLEAN] /\ \A t \in Threads : running[t] = FALSE
    BY <1>3, <2>1 DEF IInv, TypeOK, SocketInv, NoThreads, Threads
  <2>4. running = [t \in Threads |-> FALSE]
    BY <2>3
  <2>. QED  BY <2>1, <2>2, <2>4 DEF ThreadsGone
<1>. QED  BY <1>1, <1>2, <1>3, Inductive, PTL DEF Spec

-----------------------------------------------------------------------------
(***************************************************************************)
(* The refinement.  In flight are the packets in the buffers of Line; the  *)
(* channel is closed from the moment the processor has been told to shut   *)
(* down, and until then nobody empties a container of the line (Closing).  *)
(***************************************************************************)
Line == pktsToProcess \o m_full_buffers \o Received

Image(s, d) == [i \in DOMAIN s |-> d[s[i]]]

Opened == ~m_shuttingDown /\ cpc # "raise"

Closing ==
    /\ stop["processor"] /\ ppc \notin {"none", "spawned"} => ~Opened
    /\ recycling # "processed" => ~Opened

Packets == Payload \cup {NoData}

LEMMA ImageSeq ==
    ASSUME NEW s \in Seq(Buffers), NEW d \in [Buffers -> Packets]
    PROVE  /\ Image(s, d) \in Seq(Packets) /\ Len(Image(s, d)) = Len(s)
           /\ \A i \in 1..Len(s) : Image(s, d)[i] = d[s[i]]
<1>1. Len(s) \in Nat /\ DOMAIN s = 1..Len(s) /\ \A i \in 1..Len(s) : s[i] \in Buffers
  BY LenProperties, ElementOfSeq
<1>2. Image(s, d) \in [1..Len(s) -> Packets]
  BY <1>1 DEF Image
<1>3. Image(s, d) \in Seq(Packets)
  BY <1>1, <1>2, SeqDef
<1>4. Len(Image(s, d)) = Len(s)
  BY <1>1, <1>2, <1>3, LenProperties
<1>. QED  BY <1>1, <1>3, <1>4 DEF Image

LEMMA ImageConcat ==
    ASSUME NEW s \in Seq(Buffers), NEW t \in Seq(Buffers), NEW d \in [Buffers -> Packets]
    PROVE  Image(s \o t, d) = Image(s, d) \o Image(t, d)
<1>1. /\ s \o t \in Seq(Buffers) /\ Len(s \o t) = Len(s) + Len(t)
      /\ \A i \in 1..Len(s) + Len(t) :
            (s \o t)[i] = IF i <= Len(s) THEN s[i] ELSE t[i - Len(s)]
      /\ Len(s) \in Nat /\ Len(t) \in Nat
  BY ConcatProperties, LenProperties
<1>. DEFINE left == Image(s, d)  right == Image(t, d)  both == Image(s \o t, d)
<1>2. /\ left \in Seq(Packets) /\ Len(left) = Len(s)
      /\ \A i \in 1..Len(s) : left[i] = d[s[i]]
  BY ImageSeq
<1>3. /\ right \in Seq(Packets) /\ Len(right) = Len(t)
      /\ \A i \in 1..Len(t) : right[i] = d[t[i]]
  BY ImageSeq
<1>4. /\ both \in Seq(Packets) /\ Len(both) = Len(s) + Len(t)
      /\ \A i \in 1..Len(s) + Len(t) : both[i] = d[(s \o t)[i]]
  <2>1. /\ both \in Seq(Packets) /\ Len(both) = Len(s \o t)
        /\ \A i \in 1..Len(s \o t) : both[i] = d[(s \o t)[i]]
    BY <1>1, ImageSeq
  <2>. HIDE DEF both
  <2>. QED  BY <1>1, <2>1
<1>. HIDE DEF left, right, both
<1>5. /\ left \o right \in Seq(Packets) /\ Len(left \o right) = Len(s) + Len(t)
      /\ \A i \in 1..Len(s) + Len(t) :
            (left \o right)[i] = IF i <= Len(s) THEN left[i] ELSE right[i - Len(s)]
  <2>1. /\ left \o right \in Seq(Packets) /\ Len(left \o right) = Len(left) + Len(right)
        /\ \A i \in 1..Len(left) + Len(right) :
              (left \o right)[i] = IF i <= Len(left) THEN left[i] ELSE right[i - Len(left)]
    BY <1>2, <1>3, ConcatProperties
  <2>. QED  BY <1>2, <1>3, <2>1
<1>6. \A i \in 1..Len(both) : both[i] = (left \o right)[i]
  <2>1. ASSUME NEW i \in 1..Len(s) + Len(t) PROVE both[i] = (left \o right)[i]
    <3>1. CASE i <= Len(s)
      <4>1. i \in 1..Len(s)
        BY <1>1, <3>1
      <4>2. both[i] = d[s[i]] /\ (left \o right)[i] = left[i]
        BY <1>1, <1>4, <1>5, <3>1
      <4>. QED  BY <1>2, <4>1, <4>2
    <3>2. CASE ~(i <= Len(s))
      <4>1. i - Len(s) \in 1..Len(t)
        BY <1>1, <3>2
      <4>2. both[i] = d[t[i - Len(s)]] /\ (left \o right)[i] = right[i - Len(s)]
        BY <1>1, <1>4, <1>5, <3>2
      <4>3. right[i - Len(s)] = d[t[i - Len(s)]]
        BY <1>3, <4>1
      <4>. QED  BY <4>2, <4>3
    <3>. QED  BY <3>1, <3>2
  <2>. QED  BY <1>4, <2>1
<1>7. both = left \o right
  BY <1>4, <1>5, <1>6, SeqEqual
<1>. QED  BY <1>7 DEF left, right, both

LEMMA Whole ==
    ASSUME NEW S, NEW s \in Seq(S), NEW num \in 0..Len(s)
    PROVE  Front(s, num) \o Rest(s, num) = s
<1>. DEFINE front == Front(s, num)  rest == Rest(s, num)
<1>1. /\ front \in Seq(S) /\ Len(front) = num /\ \A i \in 1..num : front[i] = s[i]
      /\ rest \in Seq(S) /\ Len(rest) = Len(s) - num
      /\ \A i \in 1..Len(s) - num : rest[i] = s[i + num]
      /\ Len(s) \in Nat
  BY FrontRest, LenProperties
<1>. HIDE DEF front, rest
<1>2. /\ front \o rest \in Seq(S) /\ Len(front \o rest) = Len(s)
      /\ \A i \in 1..Len(s) : (front \o rest)[i] = IF i <= num THEN front[i] ELSE rest[i - num]
  BY <1>1, ConcatProperties
<1>3. \A i \in 1..Len(s) : (front \o rest)[i] = s[i]
  <2>1. ASSUME NEW i \in 1..Len(s) PROVE (front \o rest)[i] = s[i]
    <3>1. CASE i <= num
      BY <1>1, <1>2, <3>1
    <3>2. CASE i > num
      <4>1. i - num \in 1..Len(s) - num /\ (i - num) + num = i
        BY <1>1, <3>2
      <4>. QED  BY <1>1, <1>2, <3>2, <4>1
    <3>. QED  BY <1>1, <3>1, <3>2
  <2>. QED  BY <2>1
<1>4. front \o rest = s
  BY <1>2, <1>3, SeqEqual
<1>. QED  BY <1>4 DEF front, rest

LEMMA DropFront ==
    ASSUME NEW S, NEW s \in Seq(S), NEW t \in Seq(S)
    PROVE  SubSeq(s \o t, Len(s) + 1, Len(s \o t)) = t
<1>. DEFINE st == s \o t  sub == SubSeq(st, Len(s) + 1, Len(st))
<1>1. /\ Len(s) \in Nat /\ Len(t) \in Nat /\ st \in Seq(S) /\ Len(st) = Len(s) + Len(t)
      /\ \A i \in 1..Len(s) + Len(t) : st[i] = IF i <= Len(s) THEN s[i] ELSE t[i - Len(s)]
      /\ \A i \in 1..Len(s) + Len(t) : st[i] \in S
  BY ConcatProperties, LenProperties, ElementOfSeq
<1>. HIDE DEF st
<1>2. \A i \in Len(s) + 1..Len(st) : st[i] \in S
  BY <1>1
<1>3. /\ sub \in Seq(S)
      /\ Len(sub) = IF Len(s) + 1 <= Len(st) THEN Len(st) - (Len(s) + 1) + 1 ELSE 0
      /\ \A i \in 1..Len(st) - (Len(s) + 1) + 1 : sub[i] = st[Len(s) + 1 + i - 1]
  <2>1. Len(s) + 1 \in Int /\ Len(st) \in Int
    BY <1>1
  <2>. HIDE DEF sub
  <2>. QED  BY <1>2, <2>1, SubSeqProperties DEF sub
<1>. HIDE DEF sub
<1>4. Len(sub) = Len(t)
  BY <1>1, <1>3
<1>5. ASSUME NEW i \in 1..Len(t) PROVE sub[i] = t[i]
  <2>1. /\ i \in 1..Len(st) - (Len(s) + 1) + 1 /\ Len(s) + 1 + i - 1 = Len(s) + i
        /\ Len(s) + i \in 1..Len(s) + Len(t) /\ ~(Len(s) + i <= Len(s))
    BY <1>1
  <2>3. sub[i] = st[Len(s) + i]
    BY <1>3, <2>1
  <2>2. (Len(s) + i) - Len(s) = i
    BY <1>1
  <2>. QED  BY <1>1, <2>1, <2>2, <2>3
<1>6. sub = t
  BY <1>3, <1>4, <1>5, SeqEqual
<1>. QED  BY <1>6 DEF st, sub

LEMMA LeftOut ==
    ASSUME NEW S, NEW a \in Seq(S), NEW b \in Seq(S), NEW c \in Seq(S)
    PROVE  Channel!IsSubsequence(a \o c, a \o b \o c)
<1>. DEFINE ac == a \o c  ab == a \o b  abc == ab \o c
            place == [i \in 1..Len(a) + Len(c) |-> IF i <= Len(a) THEN i ELSE i + Len(b)]
<1>1. Len(a) \in Nat /\ Len(b) \in Nat /\ Len(c) \in Nat
  BY LenProperties
<1>2. /\ ac \in Seq(S) /\ Len(ac) = Len(a) + Len(c)
      /\ \A i \in 1..Len(a) + Len(c) : ac[i] = IF i <= Len(a) THEN a[i] ELSE c[i - Len(a)]
  BY ConcatProperties
<1>3. /\ ab \in Seq(S) /\ Len(ab) = Len(a) + Len(b)
      /\ \A i \in 1..Len(a) + Len(b) : ab[i] = IF i <= Len(a) THEN a[i] ELSE b[i - Len(a)]
  BY ConcatProperties
<1>. HIDE DEF ac, ab
<1>4. /\ abc \in Seq(S) /\ Len(abc) = Len(a) + Len(b) + Len(c)
      /\ \A i \in 1..Len(a) + Len(b) + Len(c) :
            abc[i] = IF i <= Len(a) + Len(b) THEN ab[i] ELSE c[i - (Len(a) + Len(b))]
  <2>0. ab \in Seq(S) /\ c \in Seq(S)
    BY <1>3
  <2>1. /\ ab \o c \in Seq(S) /\ Len(ab \o c) = Len(ab) + Len(c)
        /\ \A i \in 1..Len(ab) + Len(c) :
              (ab \o c)[i] = IF i <= Len(ab) THEN ab[i] ELSE c[i - Len(ab)]
    BY ONLY <2>0, ConcatProperties
  <2>2. abc = ab \o c
    OBVIOUS
  <2>. HIDE DEF abc
  <2>. QED  BY <1>3, <2>1, <2>2
<1>. HIDE DEF abc
<1>5. DOMAIN ac = 1..Len(a) + Len(c) /\ DOMAIN abc = 1..Len(a) + Len(b) + Len(c)
  BY <1>2, <1>4, LenProperties
<1>6. place \in [DOMAIN ac -> DOMAIN abc]
  BY <1>1, <1>5
<1>7. \A i, j \in DOMAIN ac : i < j => place[i] < place[j]
  BY <1>1, <1>5
<1>8. ASSUME NEW i \in DOMAIN ac PROVE ac[i] = abc[place[i]]
  <2>1. CASE i <= Len(a)
    <3>1. place[i] = i /\ i \in 1..Len(a) + Len(b) /\ i \in 1..Len(a) + Len(b) + Len(c)
      BY <1>1, <1>5, <2>1
    <3>2. abc[i] = ab[i] /\ ab[i] = a[i]
      BY <1>1, <1>3, <1>4, <2>1, <3>1
    <3>3. ac[i] = a[i]
      BY <1>2, <1>5, <2>1
    <3>. QED  BY <3>1, <3>2, <3>3
  <2>2. CASE ~(i <= Len(a))
    <3>1. /\ place[i] = i + Len(b) /\ i + Len(b) \in 1..Len(a) + Len(b) + Len(c)
          /\ ~(i + Len(b) <= Len(a) + Len(b)) /\ (i + Len(b)) - (Len(a) + Len(b)) = i - Len(a)
      BY <1>1, <1>5, <2>2
    <3>2. abc[i + Len(b)] = c[i - Len(a)]
      BY <1>4, <3>1
    <3>3. ac[i] = c[i - Len(a)]
      BY <1>2, <1>5, <2>2
    <3>. QED  BY <3>1, <3>2, <3>3
  <2>. QED  BY <2>1, <2>2
<1>. HIDE DEF place
<1>9. Channel!IsSubsequence(ac, abc)
  BY <1>6, <1>7, <1>8 DEF Channel!IsSubsequence
<1>. QED  BY <1>9 DEF ac, ab, abc

-----------------------------------------------------------------------------
LEMMA ClosingStep == ASSUME IInv, Closing, [Next]_vars PROVE Closing'
<1>. USE DEF Closing, Opened
<1>0. stop \in [{"reader", "processor"} -> BOOLEAN]
  BY DEF IInv, TypeOK, Threads
<1>1. CASE ReaderStep
  <2>1. UNCHANGED <<m_shuttingDown, cpc, recycling>> /\ stop'["processor"] = stop["processor"]
    BY <1>0, <1>1 DEF ReaderStep, ReaderBegin, ReaderPop, PopEmpty, ReaderSleep, PointIovecs,
       ReaderLoop, Receive, ReceiveNothing, ReceiveFails, ReaderGivesUp, PushCheck, Push,
       PushFull, PushNotify, ReaderRecycleCheck, ReaderRecycle, RecycleBuffers, ReaderEnd,
       bufferVars, processorVars, flagVars, controlVars
  <2>2. ppc' = ppc \/ (ppc = "waiting" /\ ppc' = "pop")
    BY <1>1 DEF ReaderStep, ReaderBegin, ReaderPop, ReaderSleep, PointIovecs, ReaderLoop,
       Receive, ReceiveNothing, ReceiveFails, PushCheck, Push, PushNotify, Notify,
       ReaderRecycleCheck, ReaderRecycle, ReaderEnd, processorVars
  <2>. QED  BY <2>1, <2>2
<1>2. CASE ProcessorStep
  <2>1. UNCHANGED <<m_shuttingDown, cpc>>
    BY <1>2 DEF ProcessorStep, ProcessorBegin, ProcessorLoop, ProcessorPop, PopFull,
       ProcessorSleep, Process, ProcessorRecycleCheck, ProcessorRecycle, RecycleBuffers,
       ProcessorRecycleNotify, ProcessorEnd, bufferVars, controlVars
  <2>2. CASE ProcessorBegin
    BY <1>0, <2>1, <2>2 DEF ProcessorBegin
  <2>3. CASE ~ProcessorBegin
    <3>1. UNCHANGED stop /\ ppc \notin {"none", "spawned"}
      BY <1>2, <2>3 DEF ProcessorStep, ProcessorLoop, ProcessorPop, ProcessorSleep, Process,
         ProcessorRecycleCheck, ProcessorRecycle, ProcessorRecycleNotify, ProcessorEnd,
         flagVars
    <3>2. \/ recycling' \in {recycling, "processed"}
          \/ recycling' = "unprocessed" /\ stop["processor"]
          \/ recycling # "processed"
      BY <1>2, <2>3 DEF ProcessorStep, ProcessorLoop, ProcessorPop, ProcessorSleep, Process,
         ProcessorRecycleCheck, ProcessorRecycle, ProcessorRecycleNotify, AfterRecycle,
         ProcessorEnd
    <3>. QED  BY <2>1, <3>1, <3>2
  <2>. QED  BY <2>2, <2>3
<1>3. CASE ControlStep
  <2>1. CASE ShutDownReader \/ ShutDownProcessor
    BY <1>0, <2>1 DEF ShutDownReader, ShutDownProcessor, ShutDownThread, bufferVars,
       processorVars, IInv, PhaseInv
  <2>2. CASE BufferRaise
    BY <2>2 DEF BufferRaise, RaiseShuttingDown
  <2>3. ASSUME NEW g, InitializeBuffers(g) PROVE Closing'
    BY <2>3 DEF InitializeBuffers, Initialize, processorVars, flagVars, IInv, PhaseInv,
       ProcessorInv
  <2>4. CASE JoinProcessor \/ SpawnProcessor
    BY <2>4 DEF JoinProcessor, SpawnProcessor, bufferVars, flagVars
  <2>5. CASE \/ BufferNotifyEmpty \/ BufferNotifyFull \/ BufferClearFull \/ BufferClearEmpty
             \/ JoinReader \/ StopReturns \/ SetupReader \/ SpawnReader
    BY <2>5 DEF BufferNotifyEmpty, BufferNotifyFull, Notify, BufferClearFull, ClearFull,
       BufferClearEmpty, ClearEmpty, JoinReader, StopReturns, SetupReader, SpawnReader,
       bufferVars, processorVars, flagVars
  <2>. QED  BY <1>3, <2>1, <2>2, <2>3, <2>4, <2>5 DEF ControlStep
<1>4. CASE SpuriousWakeup \/ \E operation \in Operations : Call(operation)
  BY <1>4 DEF SpuriousWakeup, Call, bufferVars, processorVars, flagVars, controlVars
<1>5. CASE UNCHANGED vars
  BY <1>5 DEF vars, bufferVars, processorVars, flagVars, controlVars
<1>. QED  BY <1>1, <1>2, <1>3, <1>4, <1>5 DEF Next

LEMMA LineType ==
    ASSUME IInv
    PROVE  /\ pktsToProcess \in Seq(Buffers) /\ m_full_buffers \in Seq(Buffers)
           /\ bufQue \in Seq(Buffers) /\ Received \in Seq(Buffers)
           /\ pktsToProcess \o m_full_buffers \in Seq(Buffers) /\ Line \in Seq(Buffers)
           /\ data \in [Buffers -> Packets]
<1>1. /\ pktsToProcess \in Seq(Buffers) /\ m_full_buffers \in Seq(Buffers)
      /\ bufQue \in Seq(Buffers) /\ data \in [Buffers -> Packets]
  BY DEF IInv, TypeOK, Packets
<1>2. Received \in Seq(Buffers)
  <2>1. CASE rpc \in {"pushCheck", "push"}
    <3>1. pktsRead \in 0..Len(bufQue)
      BY <2>1 DEF IInv, TypeOK, ReaderInv, Pointed
    <3>. QED  BY <1>1, <2>1, <3>1, FrontRest DEF Received
  <2>2. CASE rpc \notin {"pushCheck", "push"}
    BY <2>2, EmptySeq DEF Received
  <2>. QED  BY <2>1, <2>2
<1>3. pktsToProcess \o m_full_buffers \in Seq(Buffers)
  BY <1>1, ConcatProperties
<1>4. Line \in Seq(Buffers)
  BY <1>2, <1>3, ConcatProperties DEF Line
<1>. QED  BY <1>1, <1>2, <1>3, <1>4

LEMMA InFlightIs == InFlight = Image(Line, data) /\ InFlight' = Image(Line', data')
BY DEF InFlight, Image, Line

\* What a step does to the channel when a part of the line goes.
LEMMA Discarded ==
    ASSUME NEW a \in Seq(Buffers), NEW b \in Seq(Buffers), NEW c \in Seq(Buffers),
           data \in [Buffers -> Packets], UNCHANGED data,
           Line = a \o b \o c, Line' = a \o c
    PROVE  Channel!IsSubsequence(InFlight', InFlight)
<1>1. /\ Image(a, data) \in Seq(Packets) /\ Image(b, data) \in Seq(Packets)
      /\ Image(c, data) \in Seq(Packets)
  BY ImageSeq
<1>2. a \o b \in Seq(Buffers)
  BY ConcatProperties
<1>3. Image(a \o b, data) = Image(a, data) \o Image(b, data)
  BY ImageConcat
<1>4. Image((a \o b) \o c, data) = Image(a \o b, data) \o Image(c, data)
  <2>. DEFINE ab == a \o b
  <2>1. ab \in Seq(Buffers)
    BY <1>2
  <2>. HIDE DEF ab
  <2>2. Image(ab \o c, data) = Image(ab, data) \o Image(c, data)
    BY <2>1, ImageConcat
  <2>. QED  BY <2>2 DEF ab
<1>5. Image(a \o c, data) = Image(a, data) \o Image(c, data)
  BY ImageConcat
<1>6. InFlight = Image(a, data) \o Image(b, data) \o Image(c, data)
  BY <1>3, <1>4, InFlightIs
<1>7. InFlight' = Image(a, data) \o Image(c, data)
  BY <1>5, InFlightIs
<1>. QED  BY <1>1, <1>6, <1>7, LeftOut

(***************************************************************************)
(* The reader's steps: recvmmsg enters packets, a push after the buffer    *)
(* was shut down discards them, and a push moves them within the line.     *)
(***************************************************************************)
ChannelStep == Channel!Next \/ UNCHANGED <<Opened, InFlight>>

LEMMA LineKept ==
    ASSUME UNCHANGED <<m_shuttingDown, cpc, data>>, Line' = Line
    PROVE  ChannelStep
BY InFlightIs DEF ChannelStep, Opened

\* recvmmsg overwrites no packet that is in flight, and fills its buffers in order.
LEMMA ReceivedData ==
    ASSUME IInv, Owned, NEW num \in 1..PktsPerRead, NEW msg \in [1..num -> Payload],
           Receive(num, msg)
    PROVE  /\ Image(pktsToProcess \o m_full_buffers, data') =
                 Image(pktsToProcess \o m_full_buffers, data)
           /\ Image(Front(bufQue, num), data') = msg
           /\ data' \in [Buffers -> Packets] /\ num \in 0..Len(bufQue)
<1>. USE PipelineAssumption
<1>. DEFINE que   == pktsToProcess \o m_full_buffers
            front == Front(bufQue, num)
<1>1. /\ que \in Seq(Buffers) /\ bufQue \in Seq(Buffers) /\ data \in [Buffers -> Packets]
      /\ pktsToProcess \in Seq(Buffers) /\ m_full_buffers \in Seq(Buffers)
  BY LineType
<1>2. Len(bufQue) = PktsPerRead /\ \A i \in 1..PktsPerRead : iov[i] = bufQue[i]
  BY DEF IInv, ReaderInv, Pointed, Receive
<1>3. DOMAIN bufQue = 1..PktsPerRead /\ \A i \in 1..PktsPerRead : bufQue[i] \in Buffers
  BY <1>1, <1>2, LenProperties, ElementOfSeq
<1>4. \A b \in Buffers : data'[b] = IF \E i \in 1..num : iov[i] = b
                                    THEN msg[CHOOSE i \in 1..num : iov[i] = b] ELSE data[b]
  BY DEF Receive
<1>5. data' \in [Buffers -> Packets]
  <2>1. \A b \in Buffers : (\E i \in 1..num : iov[i] = b) =>
                              (CHOOSE i \in 1..num : iov[i] = b) \in 1..num
    OBVIOUS
  <2>2. \A b \in Buffers : data'[b] \in Packets
    BY <1>1, <1>4, <2>1 DEF Packets
  <2>. QED  BY <2>2 DEF Receive
<1>6. num \in 0..Len(bufQue)
  BY <1>2
<1>7. /\ front \in Seq(Buffers) /\ Len(front) = num
      /\ \A i \in 1..num : front[i] = bufQue[i]
  BY <1>1, <1>6, FrontRest
<1>8. ASSUME NEW i \in 1..num PROVE data'[bufQue[i]] = msg[i]
  <2>1. i \in 1..PktsPerRead /\ bufQue[i] \in Buffers /\ iov[i] = bufQue[i]
    BY <1>2, <1>3
  <2>. DEFINE j == CHOOSE k \in 1..num : iov[k] = bufQue[i]
  <2>2. j \in 1..num /\ iov[j] = bufQue[i]
    BY <2>1
  <2>3. data'[bufQue[i]] = msg[j]
    BY <1>4, <2>1
  <2>. HIDE DEF j
  <2>4. bufQue[j] = bufQue[i] /\ j \in DOMAIN bufQue /\ i \in DOMAIN bufQue
    BY <1>2, <1>3, <2>1, <2>2
  <2>5. j = i
    BY <2>4 DEF Owned, Apart, Distinct
  <2>. QED  BY <2>3, <2>5
<1>9. Disjoint(que, bufQue)
  BY <1>1, Join, Symmetric DEF Owned, Apart
<1>. HIDE DEF que, front
<1>10. Image(front, data') = msg
  <2>1. /\ Image(front, data') \in Seq(Packets) /\ Len(Image(front, data')) = num
        /\ \A i \in 1..num : Image(front, data')[i] = data'[front[i]]
    BY <1>5, <1>7, ImageSeq
  <2>2. msg \in [1..num -> Packets] /\ num \in Nat
    BY DEF Packets
  <2>3. msg \in Seq(Packets)
    BY <2>2, SeqDef
  <2>4. Len(msg) = num
    BY <2>2, <2>3, LenProperties
  <2>5. \A i \in 1..num : Image(front, data')[i] = msg[i]
    BY <1>7, <1>8, <2>1
  <2>. QED  BY <2>1, <2>3, <2>4, <2>5, SeqEqual
<1>11. Image(que, data') = Image(que, data)
  <2>1. DOMAIN que = 1..Len(que) /\ \A i \in DOMAIN que : que[i] \in Buffers
    BY <1>1, LenProperties, ElementOfSeq
  <2>2. ASSUME NEW i \in DOMAIN que PROVE data'[que[i]] = data[que[i]]
    <3>1. \A k \in 1..num : iov[k] # que[i]
      BY <1>2, <1>3, <1>9 DEF Disjoint
    <3>. QED  BY <1>4, <2>1, <3>1
  <2>. QED  BY <2>2 DEF Image
<1>. QED  BY <1>5, <1>6, <1>10, <1>11 DEF que, front

LEMMA ReaderChannel == ASSUME IInv, Owned, ReaderStep PROVE ChannelStep
<1>. USE PipelineAssumption
<1>0. /\ pktsToProcess \in Seq(Buffers) /\ m_full_buffers \in Seq(Buffers)
      /\ bufQue \in Seq(Buffers) /\ Received \in Seq(Buffers)
      /\ pktsToProcess \o m_full_buffers \in Seq(Buffers) /\ data \in [Buffers -> Packets]
  BY LineType
<1>1. ASSUME NEW num \in 1..PktsPerRead, NEW msg \in [1..num -> Payload], Receive(num, msg)
      PROVE  ChannelStep
  <2>. DEFINE que   == pktsToProcess \o m_full_buffers
              front == Front(bufQue, num)
  <2>1. /\ Image(que, data') = Image(que, data) /\ Image(front, data') = msg
        /\ data' \in [Buffers -> Packets] /\ num \in 0..Len(bufQue)
    BY <1>1, ReceivedData
  <2>2. /\ UNCHANGED <<pktsToProcess, m_full_buffers, m_shuttingDown, cpc, bufQue>>
        /\ rpc = "recv" /\ pktsRead' = num
    BY <1>1 DEF Receive, bufferVars, processorVars, controlVars
  <2>3. Line = que
    BY <1>0, <2>2, ConcatEmptySeq DEF Line, Received
  <2>4. que' = que /\ que \in Seq(Buffers) /\ front \in Seq(Buffers)
    BY <1>0, <2>1, <2>2, FrontRest
  <2>5. CASE rpc' = "pushCheck"
    <3>1. Line' = que \o front
      BY <2>2, <2>5 DEF Line, Received
    <3>. HIDE DEF que, front
    <3>2. Image(que \o front, data') = Image(que, data') \o Image(front, data')
      BY <2>1, <2>4, ImageConcat
    <3>3. InFlight' = InFlight \o msg
      BY <2>1, <2>3, <3>1, <3>2, InFlightIs
    <3>4. UNCHANGED Opened
      BY <2>2 DEF Opened
    <3>5. Channel!Enter
      BY <3>3, <3>4 DEF Channel!Enter, Opened
    <3>. QED  BY <3>5 DEF ChannelStep, Channel!Next
  <2>6. CASE rpc' # "pushCheck"
    <3>1. rpc' = "loop"
      BY <1>1, <2>6 DEF Receive, ReaderGivesUp
    <3>2. Line' = que'
      BY <1>0, <2>2, <2>4, <3>1, ConcatEmptySeq DEF Line, Received
    <3>3. UNCHANGED <<Opened, InFlight>>
      BY <2>1, <2>2, <2>3, <2>4, <3>2, InFlightIs DEF Opened
    <3>. QED  BY <3>3 DEF ChannelStep
  <2>. QED  BY <2>5, <2>6
<1>2. CASE PushCheck
  <2>1. UNCHANGED <<pktsToProcess, m_full_buffers, m_shuttingDown, cpc, data, pktsRead>>
    BY <1>2 DEF PushCheck, bufferVars, processorVars, controlVars
  <2>2. CASE m_shuttingDown
    <3>. DEFINE que == pktsToProcess \o m_full_buffers
    <3>1. Line = que \o Received \o <<>> /\ Line' = que \o <<>>
      <4>1. Line \in Seq(Buffers)
        BY LineType
      <4>2. Line = Line \o <<>>
        BY <4>1, ConcatEmptySeq
      <4>3. Received' = <<>>
        BY <1>2, <2>2 DEF PushCheck, Received
      <4>. QED  BY <2>1, <4>2, <4>3 DEF Line
    <3>. HIDE DEF que
    <3>2. <<>> \in Seq(Buffers) /\ que \in Seq(Buffers)
      BY <1>0, EmptySeq DEF que
    <3>3. Channel!IsSubsequence(InFlight', InFlight)
      BY <1>0, <2>1, <3>1, <3>2, Discarded
    <3>4. Channel!Discard
      BY <2>1, <2>2, <3>3 DEF Channel!Discard
    <3>. QED  BY <3>4 DEF ChannelStep, Channel!Next
  <2>3. CASE ~m_shuttingDown
    <3>1. Line' = Line
      BY <1>2, <2>1, <2>3 DEF PushCheck, Line, Received
    <3>. QED  BY <2>1, <3>1, LineKept
  <2>. QED  BY <2>2, <2>3
<1>3. CASE Push
  <2>1. /\ UNCHANGED <<pktsToProcess, m_shuttingDown, cpc, data>>
        /\ m_full_buffers' = m_full_buffers \o Front(bufQue, pktsRead)
        /\ rpc = "push" /\ rpc' = "pushNotify"
    BY <1>3 DEF Push, PushFull, processorVars, controlVars
  <2>2. Received = Front(bufQue, pktsRead) /\ Received' = <<>>
    BY <2>1 DEF Received
  <2>3. m_full_buffers \o Received \in Seq(Buffers)
    BY <1>0, ConcatProperties
  <2>4. Line' = pktsToProcess \o (m_full_buffers \o Received)
    <3>1. pktsToProcess \o (m_full_buffers \o Received) \in Seq(Buffers)
      BY <1>0, <2>3, ConcatProperties
    <3>2. Line' = (pktsToProcess \o (m_full_buffers \o Received)) \o <<>>
      BY <2>1, <2>2 DEF Line
    <3>. QED  BY <3>1, <3>2, ConcatEmptySeq
  <2>5. Line' = Line
    BY <1>0, <2>4, ConcatAssociative DEF Line
  <2>. QED  BY <2>1, <2>5, LineKept
<1>4. CASE /\ ~(PushCheck \/ Push)
           /\ ~\E num \in 1..PktsPerRead : \E msg \in [1..num -> Payload] : Receive(num, msg)
  <2>1. /\ UNCHANGED <<pktsToProcess, m_full_buffers, m_shuttingDown, cpc, data>>
        /\ rpc \notin {"pushCheck", "push"} /\ rpc' \notin {"pushCheck", "push"}
    BY <1>4 DEF ReaderStep, ReaderBegin, ReaderPop, PopEmpty, ReaderSleep, PointIovecs,
       ReaderLoop, ReceiveNothing, ReceiveFails, ReaderGivesUp, PushNotify,
       ReaderRecycleCheck, ReaderRecycle, RecycleBuffers, ReaderEnd, bufferVars,
       processorVars, controlVars
  <2>2. Line' = Line
    BY <2>1 DEF Line, Received
  <2>. QED  BY <2>1, <2>2, LineKept
<1>. QED  BY <1>1, <1>2, <1>3, <1>4

(***************************************************************************)
(* The processor's steps: packets leave in Process; unprocessed ones are   *)
(* only discarded once the channel is closed.                              *)
(***************************************************************************)
LEMMA ProcessorChannel == ASSUME IInv, Closing, ProcessorStep PROVE ChannelStep
<1>. USE PipelineAssumption
<1>. DEFINE tail == m_full_buffers \o Received
<1>0. /\ pktsToProcess \in Seq(Buffers) /\ m_full_buffers \in Seq(Buffers)
      /\ Received \in Seq(Buffers) /\ data \in [Buffers -> Packets]
      /\ Len(pktsToProcess) \in Nat /\ Len(m_full_buffers) \in Nat
  BY LineType, LenProperties
<1>1. tail \in Seq(Buffers) /\ Line = pktsToProcess \o tail
  BY <1>0, ConcatProperties, ConcatAssociative DEF Line
<1>2. UNCHANGED <<m_shuttingDown, cpc, data, bufQue, pktsRead, Received>>
  <2>1. /\ UNCHANGED <<m_shuttingDown, cpc, data, bufQue, pktsRead>>
        /\ rpc' = rpc \/ (rpc = "waiting" /\ rpc' = "pop")
    BY DEF ProcessorStep, ProcessorBegin, ProcessorLoop, ProcessorPop, PopFull, ProcessorSleep,
       Process, ProcessorRecycleCheck, ProcessorRecycle, RecycleBuffers,
       ProcessorRecycleNotify, Notify, ProcessorEnd, bufferVars, readerVars, controlVars
  <2>. QED  BY <2>1 DEF Received
<1>3. ASSUME UNCHANGED <<pktsToProcess, m_full_buffers>> PROVE ChannelStep
  BY <1>2, <1>3, LineKept DEF Line
<1>4. ASSUME pktsToProcess' = <<>>, UNCHANGED m_full_buffers, ~Opened PROVE ChannelStep
  <2>1. tail' = tail
    BY <1>2, <1>4
  <2>. HIDE DEF tail
  <2>2. Line' = tail
    <3>1. Line' = (<<>> \o m_full_buffers) \o Received
      BY <1>2, <1>4 DEF Line
    <3>2. <<>> \o m_full_buffers = m_full_buffers
      BY <1>0, ConcatEmptySeq
    <3>. QED  BY <3>1, <3>2 DEF tail
  <2>3. Line = <<>> \o pktsToProcess \o tail /\ Line' = <<>> \o tail /\ <<>> \in Seq(Buffers)
    BY <1>0, <1>1, <2>2, ConcatEmptySeq, EmptySeq
  <2>4. Channel!IsSubsequence(InFlight', InFlight)
    BY <1>0, <1>1, <1>2, <2>3, Discarded
  <2>5. Channel!Discard
    BY <1>2, <1>4, <2>4 DEF Channel!Discard, Opened
  <2>. QED  BY <2>5 DEF ChannelStep, Channel!Next
<1>5. CASE ProcessorPop
  <2>1. CASE UNCHANGED <<bufferVars, pktsToProcess>>
    BY <1>3, <2>1 DEF bufferVars
  <2>2. CASE /\ PopFull(pktsToProcess, PktsPerPush)
             /\ Len(pktsToProcess) < PktsPerPush
             /\ ~m_shuttingDown
             /\ full_available(PktsPerPush - Len(pktsToProcess))
    <3>. DEFINE request == PktsPerPush - Len(pktsToProcess)
                front   == Front(m_full_buffers, request)
                rest    == Rest(m_full_buffers, request)
    <3>1. request \in 0..Len(m_full_buffers)
      BY <1>0, <2>2 DEF full_available
    <3>2. /\ front \in Seq(Buffers) /\ rest \in Seq(Buffers)
          /\ front \o rest = m_full_buffers
      BY <1>0, <3>1, FrontRest, Whole
    <3>3. pktsToProcess' = pktsToProcess \o front /\ m_full_buffers' = rest
      BY <2>2 DEF PopFull
    <3>. HIDE DEF request, front, rest
    <3>4. pktsToProcess' \o m_full_buffers' = pktsToProcess \o (front \o rest)
      <4>0. pktsToProcess \in Seq(Buffers) /\ front \in Seq(Buffers) /\ rest \in Seq(Buffers)
        BY <1>0, <3>2
      <4>1. (pktsToProcess \o front) \o rest = pktsToProcess \o (front \o rest)
        BY ONLY <4>0, ConcatAssociative
      <4>. QED  BY <3>3, <4>1
    <3>5. Line' = Line
      BY <1>2, <3>2, <3>4 DEF Line
    <3>. QED  BY <1>2, <3>5, LineKept
  <2>. QED  BY <1>5, <2>1, <2>2 DEF ProcessorPop
<1>6. ASSUME NEW num \in 0..PktsPerPush, Process(num) PROVE ChannelStep
  <2>0. UNCHANGED m_full_buffers
    BY <1>6 DEF Process, bufferVars
  <2>1. CASE stop["processor"]
    BY <1>3, <1>6, <2>0, <2>1 DEF Process
  <2>2. CASE ~stop["processor"]
    <3>. DEFINE front == Front(pktsToProcess, num)
                rest  == Rest(pktsToProcess, num)
                left  == rest \o tail
    <3>1. num \in 0..Len(pktsToProcess) /\ pktsToProcess' = rest
      BY <1>0, <1>6, <2>2 DEF Process
    <3>2. /\ front \in Seq(Buffers) /\ rest \in Seq(Buffers) /\ Len(front) = num
          /\ front \o rest = pktsToProcess
      BY <1>0, <3>1, FrontRest, Whole
    <3>. HIDE DEF front, rest
    <3>3. left \in Seq(Buffers)
      BY <1>1, <3>2, ConcatProperties
    <3>4. Line = front \o left
      <4>. HIDE DEF tail
      <4>0. front \in Seq(Buffers) /\ rest \in Seq(Buffers) /\ tail \in Seq(Buffers)
        BY <1>1, <3>2
      <4>1. (front \o rest) \o tail = front \o (rest \o tail)
        BY ONLY <4>0, ConcatAssociative
      <4>. QED  BY <1>1, <3>2, <4>1
    <3>5. Line' = left
      <4>0. rest \in Seq(Buffers) /\ m_full_buffers \in Seq(Buffers) /\ Received \in Seq(Buffers)
        BY <1>0, <3>2
      <4>1. (rest \o m_full_buffers) \o Received = rest \o (m_full_buffers \o Received)
        BY ONLY <4>0, ConcatAssociative
      <4>2. Line' = (rest \o m_full_buffers) \o Received
        BY <1>2, <2>0, <3>1 DEF Line
      <4>. QED  BY <4>1, <4>2
    <3>. HIDE DEF left
    <3>6. InFlight = Image(front, data) \o Image(left, data) /\ InFlight' = Image(left, data)
      BY <1>0, <1>2, <3>2, <3>3, <3>4, <3>5, ImageConcat, InFlightIs
    <3>7. /\ Image(front, data) \in Seq(Packets) /\ Len(Image(front, data)) = num
          /\ Image(left, data) \in Seq(Packets)
      BY <1>0, <3>2, <3>3, ImageSeq
    <3>. DEFINE gone == Image(front, data)  kept == Image(left, data)
    <3>. HIDE DEF gone, kept
    <3>8. InFlight = gone \o kept /\ InFlight' = kept
      BY <3>6 DEF gone, kept
    <3>9. gone \in Seq(Packets) /\ kept \in Seq(Packets) /\ Len(gone) = num
      BY <3>7 DEF gone, kept
    <3>10. InFlight' = SubSeq(InFlight, num + 1, Len(InFlight))
      BY <3>8, <3>9, DropFront
    <3>11. Len(InFlight) = num + Len(kept) /\ Len(kept) \in Nat
      BY <3>8, <3>9, ConcatProperties, LenProperties
    <3>12. UNCHANGED Opened
      BY <1>2 DEF Opened
    <3>13. CASE num = 0
      <4>1. gone = <<>>
        BY <3>9, <3>13, EmptySeq
      <4>2. InFlight' = InFlight
        BY <3>8, <3>9, <4>1, ConcatEmptySeq
      <4>. QED  BY <3>12, <4>2 DEF ChannelStep
    <3>14. CASE num # 0
      <4>1. num \in 1..Len(InFlight)
        BY <3>1, <3>11, <3>14
      <4>2. Channel!Leave
        BY <3>10, <3>12, <4>1 DEF Channel!Leave, Opened
      <4>. QED  BY <4>2 DEF ChannelStep, Channel!Next
    <3>. QED  BY <3>13, <3>14
  <2>. QED  BY <2>1, <2>2
<1>7. CASE ProcessorRecycleCheck
  <2>1. UNCHANGED m_full_buffers
    BY <1>7 DEF ProcessorRecycleCheck, bufferVars
  <2>2. \/ UNCHANGED pktsToProcess
        \/ pktsToProcess' = <<>> /\ m_shuttingDown
    BY <1>7 DEF ProcessorRecycleCheck
  <2>. QED  BY <1>3, <1>4, <2>1, <2>2 DEF Opened
<1>8. CASE ProcessorRecycle
  <2>1. UNCHANGED m_full_buffers
    BY <1>8 DEF ProcessorRecycle, RecycleBuffers
  <2>2. \/ UNCHANGED pktsToProcess
        \/ pktsToProcess' = <<>> /\ recycling = "unprocessed"
    BY <1>8 DEF ProcessorRecycle, RecycleBuffers
  <2>. QED  BY <1>3, <1>4, <2>1, <2>2 DEF Closing
<1>9. CASE \/ ProcessorBegin \/ ProcessorLoop \/ ProcessorSleep \/ ProcessorRecycleNotify
           \/ ProcessorEnd
  <2>1. UNCHANGED <<pktsToProcess, m_full_buffers>>
    BY <1>9 DEF ProcessorBegin, ProcessorLoop, ProcessorSleep, ProcessorRecycleNotify,
       ProcessorEnd, bufferVars
  <2>. QED  BY <1>3, <2>1
<1>. QED  BY <1>5, <1>6, <1>7, <1>8, <1>9 DEF ProcessorStep

(***************************************************************************)
(* The control thread closes the channel when it tells the processor to    *)
(* shut down, and initialize opens it, empty.                              *)
(***************************************************************************)
LEMMA ControlChannel == ASSUME IInv, CountInv, ~LiveRestart, ControlStep PROVE ChannelStep
<1>0. /\ pktsToProcess \in Seq(Buffers) /\ m_full_buffers \in Seq(Buffers)
      /\ Received \in Seq(Buffers) /\ data \in [Buffers -> Packets]
  BY LineType
<1>1. ASSUME UNCHANGED <<pktsToProcess, m_full_buffers, bufQue, pktsRead, data>>,
             rpc' = rpc \/ {rpc, rpc'} \cap {"pushCheck", "push"} = {}
      PROVE  UNCHANGED InFlight
  <2>1. Received' = Received
    BY <1>1 DEF Received
  <2>. QED  BY <1>1, <2>1, InFlightIs DEF Line
<1>2. CASE ShutDownProcessor
  <2>1. UNCHANGED InFlight
    BY <1>1, <1>2 DEF ShutDownProcessor, ShutDownThread, bufferVars, readerVars, processorVars
  <2>2. UNCHANGED m_shuttingDown /\ cpc # "raise" /\ cpc' = "raise"
    BY <1>2 DEF ShutDownProcessor, ShutDownThread, bufferVars
  <2>3. CASE m_shuttingDown
    BY <2>1, <2>2, <2>3 DEF ChannelStep, Opened
  <2>4. CASE ~m_shuttingDown
    <3>1. Channel!Close
      BY <2>1, <2>2, <2>4 DEF Channel!Close
    <3>. QED  BY <3>1 DEF ChannelStep, Channel!Next
  <2>. QED  BY <2>3, <2>4
<1>3. CASE BufferRaise
  <2>1. UNCHANGED InFlight
    BY <1>1, <1>3 DEF BufferRaise, RaiseShuttingDown, readerVars, processorVars
  <2>. QED  BY <1>3, <2>1 DEF BufferRaise, RaiseShuttingDown, ChannelStep, Opened
<1>4. CASE BufferClearFull
  <2>1. /\ m_full_buffers' = <<>> /\ m_shuttingDown
        /\ UNCHANGED <<pktsToProcess, m_shuttingDown, data, rpc, bufQue, pktsRead>>
        /\ cpc' # "raise" /\ cpc # "raise"
    BY <1>4 DEF BufferClearFull, ClearFull, readerVars, processorVars, IInv, PhaseInv, Stopping
  <2>2. Received' = Received
    BY <2>1 DEF Received
  <2>3. Line = pktsToProcess \o m_full_buffers \o Received
    BY DEF Line
  <2>4. Line' = pktsToProcess \o Received
    <3>1. Line' = (pktsToProcess \o <<>>) \o Received
      BY <2>1, <2>2 DEF Line
    <3>. QED  BY <1>0, <3>1, ConcatEmptySeq
  <2>5. Channel!IsSubsequence(InFlight', InFlight)
    BY <1>0, <2>1, <2>3, <2>4, Discarded
  <2>6. Channel!Discard
    BY <2>1, <2>5 DEF Channel!Discard
  <2>. QED  BY <2>6 DEF ChannelStep, Channel!Next
<1>5. ASSUME NEW g \in 1..Generations, InitializeBuffers(g) PROVE ChannelStep
  <2>1. /\ m_shuttingDown /\ cpc = "destroyed" /\ ~m_shuttingDown' /\ cpc' = "setup"
        /\ UNCHANGED <<pktsToProcess, m_full_buffers, rpc, bufQue, pktsRead>>
        /\ rpc = "none" /\ ppc = "none" /\ m_full_buffers = <<>>
    BY <1>5 DEF InitializeBuffers, Initialize, processorVars, IInv, PhaseInv, CountInv
  <2>2. pktsToProcess = <<>>
    BY <2>1 DEF IInv, ProcessorInv
  <2>3. <<>> \in Seq(Buffers) /\ <<>> \o <<>> \o <<>> = <<>>
    <3>1. <<>> \in Seq(Buffers)
      BY EmptySeq
    <3>. QED  BY <3>1, ConcatEmptySeq
  <2>4. Line = <<>> /\ Line' = <<>>
    BY <2>1, <2>2, <2>3 DEF Line, Received
  <2>5. \A d : Image(<<>>, d) = <<>>
    BY DEF Image
  <2>6. InFlight = <<>> /\ InFlight' = <<>>
    BY <2>4, <2>5, InFlightIs
  <2>7. Channel!Open
    BY <2>1, <2>6 DEF Channel!Open
  <2>. QED  BY <2>7 DEF ChannelStep, Channel!Next
<1>6. CASE \/ ShutDownReader \/ BufferNotifyEmpty \/ BufferNotifyFull \/ BufferClearEmpty
           \/ JoinReader \/ JoinProcessor \/ StopReturns \/ SetupReader \/ SpawnReader
           \/ SpawnProcessor
  <2>1. /\ UNCHANGED <<pktsToProcess, m_full_buffers, bufQue, pktsRead, data, m_shuttingDown>>
        /\ cpc # "raise" /\ cpc' # "raise"
    BY <1>6 DEF ShutDownReader, ShutDownThread, BufferNotifyEmpty, BufferNotifyFull,
       BufferClearEmpty, ClearEmpty, JoinReader, JoinProcessor, StopReturns, SetupReader,
       SpawnReader, SpawnProcessor, bufferVars, readerVars, processorVars
  <2>2. rpc' = rpc \/ {rpc, rpc'} \cap {"pushCheck", "push"} = {}
    BY <1>6 DEF ShutDownReader, ShutDownThread, BufferNotifyEmpty, Notify, BufferNotifyFull,
       BufferClearEmpty, JoinReader, JoinProcessor, StopReturns, SetupReader,
       SpawnReader, SpawnProcessor, readerVars, IInv, PhaseInv
  <2>3. UNCHANGED InFlight
    BY <1>1, <2>1, <2>2
  <2>. QED  BY <2>1, <2>3 DEF ChannelStep, Opened
<1>. QED  BY <1>2, <1>3, <1>4, <1>5, <1>6 DEF ControlStep

(***************************************************************************)
(* The packet path is a FIFO channel: while the component runs, packets    *)
(* reach processPackets in the order recvmmsg returned them, none lost and *)
(* none twice, and none of one session in the next; a stop discards some.  *)
(***************************************************************************)
THEOREM PipelineIsFifo == ASSUME ~StopRacesStart, ~LiveRestart PROVE Spec => ImplementsChannel
<1>1. Init => Channel!Init /\ Closing
  <2>1. SUFFICES ASSUME Init PROVE Channel!Init /\ Closing
    OBVIOUS
  <2>2. <<>> \in Seq(Buffers) /\ <<>> \o <<>> \o <<>> = <<>>
    <3>1. <<>> \in Seq(Buffers)
      BY EmptySeq
    <3>. QED  BY <3>1, ConcatEmptySeq
  <2>3. InFlight = <<>>
    BY <2>1, <2>2 DEF Init, InFlight, Received
  <2>. QED  BY <2>1, <2>3 DEF Init, Channel!Init, Closing, Opened
<1>2. ASSUME IInv, CountInv, Owned, Closing, [Next]_vars
      PROVE  [Channel!Next]_(Channel!channelVars) /\ Closing'
  <2>1. ASSUME UNCHANGED <<pktsToProcess, m_full_buffers, bufQue, pktsRead, data,
                           m_shuttingDown>>,
               cpc' = cpc \/ {cpc, cpc'} \cap {"raise"} = {},
               rpc' = rpc \/ {rpc, rpc'} \cap {"pushCheck", "push"} = {}
        PROVE  ChannelStep
    <3>1. Received' = Received
      BY <2>1 DEF Received
    <3>2. UNCHANGED <<Opened, InFlight>>
      BY <2>1, <3>1, InFlightIs DEF Line, Opened
    <3>. QED  BY <3>2 DEF ChannelStep
  <2>2. ASSUME SpuriousWakeup \/ \E operation \in Operations : Call(operation)
        PROVE  ChannelStep
    BY <2>1, <2>2 DEF SpuriousWakeup, Call, bufferVars, readerVars, processorVars, controlVars
  <2>3. ASSUME UNCHANGED vars PROVE ChannelStep
    BY <2>1, <2>3 DEF vars, bufferVars, readerVars, processorVars, controlVars
  <2>4. ChannelStep
    BY <1>2, <2>2, <2>3, ReaderChannel, ProcessorChannel, ControlChannel DEF Next
  <2>. QED  BY <1>2, <2>4, ClosingStep DEF ChannelStep, Channel!channelVars, Opened
<1>. QED
  BY <1>1, <1>2, Inductive, Counted, OwnedAlways, PTL DEF Spec, ImplementsChannel, Channel!Spec
=============================================================================
