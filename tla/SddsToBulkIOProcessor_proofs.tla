--------------------- MODULE SddsToBulkIOProcessor_proofs ---------------------
(***************************************************************************)
(* What the packet processor pushes: blocks of consecutive packets with    *)
(* one time tag valid flag (BlocksContiguous, BlocksOfOneTtv), under the   *)
(* current SRI (WritesUnderCurrentSri); that it uses every packet it looks *)
(* at (NoSpin); and the types of its state: for every environment that the *)
(* assumptions on Offers admit.                                            *)
(***************************************************************************)
EXTENDS SddsToBulkIOProcessor, SequenceTheorems, TLAPS

(***************************************************************************)
(* The shape of the streams.  Nothing is assumed of what packets and SRI   *)
(* consist of, so a block is a sequence of what is in it.                  *)
(***************************************************************************)
IsSeq(s)    == s \in Seq({s[i] : i \in DOMAIN s})
IsStream(s) == s = [open |-> s.open, sri |-> s.sri, block |-> s.block] /\ IsSeq(s.block)
Shaped(ss)  == ss = [b \in Formats |-> ss[b]] /\ \A b \in Formats : IsStream(ss[b])
Empty(ss)   == \A b \in Formats : ss[b].block = <<>>

-----------------------------------------------------------------------------
(***************************************************************************)
(* Lemmas about sequences and streams.                                     *)
(***************************************************************************)
LEMMA EmptyIsSeq == IsSeq(<<>>) /\ DOMAIN <<>> = {} /\ Len(<<>>) = 0
BY EmptySeq, LenProperties DEF IsSeq

LEMMA OneIsSeq ==
    ASSUME NEW x
    PROVE  IsSeq(<<x>>) /\ Len(<<x>>) = 1 /\ DOMAIN <<x>> = {1} /\ <<x>>[1] = x
BY DEF IsSeq

LEMMA AppendIsSeq ==
    ASSUME NEW s, IsSeq(s), NEW x
    PROVE  /\ Len(s) \in Nat /\ DOMAIN s = 1..Len(s)
           /\ IsSeq(Append(s, x))
           /\ Len(Append(s, x)) = Len(s) + 1
           /\ DOMAIN Append(s, x) = 1..Len(s) + 1
           /\ \A i \in 1..Len(s) : Append(s, x)[i] = s[i]
           /\ Append(s, x)[Len(s) + 1] = x
<1>. DEFINE S == {s[i] : i \in DOMAIN s} \cup {x}
            t == Append(s, x)
<1>1. s \in Seq(S)
  BY SeqMonotonic DEF IsSeq
<1>2. Len(s) \in Nat /\ DOMAIN s = 1..Len(s)
  BY <1>1, LenProperties
<1>3. /\ t \in Seq(S) /\ Len(t) = Len(s) + 1
      /\ \A i \in 1..Len(s) : t[i] = s[i]
      /\ t[Len(s) + 1] = x
  <2>. x \in S
    OBVIOUS
  <2>. HIDE DEF S
  <2>. QED  BY <1>1, <1>2
<1>. HIDE DEF t, S
<1>4. DOMAIN t = 1..Len(s) + 1 /\ t \in [1..Len(t) -> S]
  BY <1>3, LenProperties
<1>5. t \in [1..Len(t) -> {t[i] : i \in DOMAIN t}]
  BY <1>3, <1>4
<1>6. IsSeq(t)
  BY <1>2, <1>3, <1>5, SeqDef DEF IsSeq
<1>. QED  BY <1>2, <1>3, <1>4, <1>6 DEF t

LEMMA NewShaped ==
    ASSUME NEW sri
    PROVE  /\ Shaped(NewStreams(sri)) /\ Empty(NewStreams(sri))
           /\ \A b \in Formats : NewStreams(sri)[b].sri = sri
BY EmptyIsSeq DEF NewStreams, Shaped, Empty, IsStream

LEMMA NoShaped ==
    Shaped(NoStreams) /\ Empty(NoStreams) /\ NoStreams[8].open = FALSE
BY EmptyIsSeq DEF NoStreams, Shaped, Empty, IsStream, Formats

LEMMA FlushedShaped ==
    ASSUME Shaped(streams)
    PROVE  /\ Shaped(Flushed) /\ Empty(Flushed)
           /\ \A b \in Formats : /\ Flushed[b].sri = streams[b].sri
                                 /\ Flushed[b].open = streams[b].open
<1>1. ASSUME NEW b \in Formats
      PROVE  Flushed[b] = [open |-> streams[b].open, sri |-> streams[b].sri, block |-> <<>>]
  BY DEF Flushed, Shaped, IsStream
<1>2. Flushed = [b \in Formats |-> Flushed[b]]
  BY DEF Flushed
<1>. QED  BY <1>1, <1>2, EmptyIsSeq DEF Shaped, Empty, IsStream

\* createOutputStreams, if need be.
LEMMA OpenShaped ==
    ASSUME Shaped(streams)
    PROVE  /\ Shaped(OpenStreams)
           /\ \/ OpenStreams = streams
              \/ /\ ~Created
                 /\ Empty(OpenStreams) /\ \A b \in Formats : OpenStreams[b].sri = SriNow
BY NewShaped DEF OpenStreams

LEMMA WithSriShaped ==
    ASSUME NEW ss, Shaped(ss), NEW sri
    PROVE  /\ Shaped(WithSri(ss, sri))
           /\ \A b \in Formats : WithSri(ss, sri)[b] = ss[b] \/ WithSri(ss, sri)[b].block = <<>>
           /\ m_bps \in Formats => WithSri(ss, sri)[m_bps].sri = sri
           /\ m_bps \in Formats => WithSri(ss, sri)[m_bps].block = <<>>
<1>1. CASE m_bps \notin Formats
  BY <1>1 DEF WithSri
<1>2. CASE m_bps \in Formats
  <2>. DEFINE new == [open |-> TRUE, sri |-> sri, block |-> <<>>]
              ws  == [ss EXCEPT ![m_bps] = new]
  <2>1. ws = [b \in Formats |-> ws[b]] /\ ws[m_bps] = new
        /\ \A b \in Formats : b # m_bps => ws[b] = ss[b]
    BY <1>2 DEF Shaped
  <2>2. IsStream(new) /\ new.sri = sri /\ new.block = <<>>
    BY EmptyIsSeq DEF IsStream
  <2>3. ws = WithSri(ss, sri)
    BY <1>2 DEF WithSri
  <2>. HIDE DEF new, ws
  <2>4. \A b \in Formats : IsStream(ws[b])
    BY <2>1, <2>2 DEF Shaped
  <2>. QED  BY <1>2, <2>1, <2>2, <2>3, <2>4 DEF Shaped
<1>. QED  BY <1>1, <1>2

\* What a write makes of the blocks.
Item == [seq |-> pkt.seq, ttv |-> pkt.ttv, endianness |-> m_endianness,
         xdelta |-> DueXdelta(pkt), mode |-> DueMode(pkt),
         year |-> pkt.year, stamp |-> StartOfYear, clock |-> clock]

WithPacket(ss) == [ss EXCEPT ![m_bps] = Written(@, pkt)]

LEMMA WrittenShaped ==
    ASSUME NEW ss, Shaped(ss), m_bps \in Formats
    PROVE  /\ Shaped(WithPacket(ss))
           /\ \A b \in Formats : /\ WithPacket(ss)[b].sri = ss[b].sri
                                 /\ WithPacket(ss)[b].open = ss[b].open
           /\ \A b \in Formats : b # m_bps => WithPacket(ss)[b].block = ss[b].block
           /\ WithPacket(ss)[m_bps].block \in {<<Item>>, Append(ss[m_bps].block, Item)}
           /\ Len(ss[m_bps].block) = PktsPerPush => WithPacket(ss)[m_bps].block = <<Item>>
<1>. DEFINE s == ss[m_bps]
            ws == WithPacket(ss)
            block == IF Len(s.block) = PktsPerPush THEN <<Item>> ELSE Append(s.block, Item)
<1>1. IsStream(s)
  BY DEF Shaped
<1>2. Written(s, pkt) = [open |-> s.open, sri |-> s.sri, block |-> block]
  <2>1. Written(s, pkt) = [s EXCEPT !.block = block]
    BY DEF Written, Item
  <2>. HIDE DEF block, s
  <2>. QED  BY <1>1, <2>1 DEF IsStream
<1>3. IsSeq(block)
  BY <1>1, OneIsSeq, AppendIsSeq DEF IsStream
<1>4. IsStream(Written(s, pkt))
  <2>. HIDE DEF block
  <2>. QED  BY <1>2, <1>3 DEF IsStream
<1>5. /\ ws = [b \in Formats |-> ws[b]] /\ ws[m_bps] = Written(s, pkt)
      /\ \A b \in Formats : b # m_bps => ws[b] = ss[b]
  BY DEF Shaped, WithPacket
<1>. HIDE DEF ws
<1>6. \A b \in Formats : IsStream(ws[b])
  BY <1>4, <1>5 DEF Shaped
<1>7. ws[m_bps].block = block /\ ws[m_bps].sri = s.sri /\ ws[m_bps].open = s.open
  <2>. HIDE DEF block
  <2>. QED  BY <1>2, <1>5
<1>8. Shaped(ws)
  BY <1>5, <1>6 DEF Shaped
<1>9. \A b \in Formats : ws[b].sri = ss[b].sri /\ ws[b].open = ss[b].open
  BY <1>5, <1>7
<1>10. \A b \in Formats : b # m_bps => ws[b].block = ss[b].block
  BY <1>5
<1>. QED  BY <1>7, <1>8, <1>9, <1>10 DEF ws

LEMMA WrittenLength ==
    ASSUME NEW ss, Shaped(ss), m_bps \in Formats, PktsPerPush \in Nat \ {0},
           Len(ss[m_bps].block) <= PktsPerPush
    PROVE  Len(WithPacket(ss)[m_bps].block) <= PktsPerPush
<1>. DEFINE old == ss[m_bps].block
            new == WithPacket(ss)[m_bps].block
<1>1. new \in {<<Item>>, Append(old, Item)} /\ (Len(old) = PktsPerPush => new = <<Item>>)
  BY WrittenShaped
<1>2. IsSeq(old) /\ Len(old) <= PktsPerPush
  BY DEF Shaped, IsStream
<1>. HIDE DEF new, old, Item
<1>3. Len(<<Item>>) = 1 /\ Len(old) \in Nat /\ Len(Append(old, Item)) = Len(old) + 1
  BY <1>2, OneIsSeq, AppendIsSeq
<1>4. ASSUME Len(old) = PktsPerPush PROVE Len(new) <= PktsPerPush
  BY <1>1, <1>3, <1>4
<1>5. ASSUME Len(old) # PktsPerPush PROVE Len(new) <= PktsPerPush
  <2>1. Len(old) + 1 <= PktsPerPush /\ 1 <= PktsPerPush
    BY <1>2, <1>3, <1>5
  <2>. QED  BY <1>1, <1>3, <2>1
<1>6. Len(new) <= PktsPerPush
  BY <1>4, <1>5
<1>. QED  BY <1>6 DEF new

-----------------------------------------------------------------------------
(***************************************************************************)
(* What a step does to the blocks: a write adds the packet to the one of   *)
(* m_bps, everything else leaves them or pushes them.  Placed says when    *)
(* there can be any.                                                       *)
(***************************************************************************)
Placed ==
    /\ pc \in {"next", "merge", "emit"}
    /\ pc # "next" => active /\ ~m_first_packet
    /\ Shaped(streams)
    /\ ~active => streams = NoStreams
    /\ m_first_packet => Empty(streams)

Pushes == \A b \in Formats : streams'[b].block \in {<<>>, streams[b].block}

Aggregates ==
    /\ Write /\ m_bps \in Formats
    /\ \A b \in Formats : b # m_bps => streams'[b].block \in {<<>>, streams[b].block}
    /\ streams'[m_bps].block \in {<<Item>>, Append(streams[m_bps].block, Item)}

LEMMA EmptyPushes == ASSUME Empty(streams') PROVE Pushes
BY DEF Empty, Pushes

LEMMA WriteBlocks ==
    ASSUME Placed, Write
    PROVE  /\ Shaped(streams')
           /\ m_bps \in Formats => Aggregates
           /\ m_bps \notin Formats => Pushes
<1>1. /\ Shaped(OpenStreams)
      /\ \A b \in Formats : OpenStreams[b].block \in {<<>>, streams[b].block}
  BY OpenShaped DEF Placed, Empty
<1>2. CASE m_bps \notin Formats
  <2>1. streams' = OpenStreams
    BY <1>2 DEF Write
  <2>2. Shaped(streams')
    BY <1>1, <2>1
  <2>3. Pushes
    BY <1>1, <2>1 DEF Pushes
  <2>. QED  BY <1>2, <2>2, <2>3
<1>3. CASE m_bps \in Formats
  <2>1. streams' = WithPacket(OpenStreams)
    BY <1>3 DEF Write, WithPacket
  <2>2. /\ Shaped(streams')
        /\ \A b \in Formats : b # m_bps => streams'[b].block = OpenStreams[b].block
        /\ streams'[m_bps].block \in {<<Item>>, Append(OpenStreams[m_bps].block, Item)}
    BY ONLY <1>1, <1>3, <2>1, WrittenShaped
  <2>3. Append(<<>>, Item) = <<Item>>
    BY OneIsSeq
  <2>4. streams'[m_bps].block \in {<<Item>>, Append(streams[m_bps].block, Item)}
    BY <1>1, <1>3, <2>2, <2>3
  <2>. QED  BY <1>1, <1>3, <2>2, <2>4 DEF Aggregates
<1>. QED  BY <1>2, <1>3

LEMMA ChangeSriBlocks ==
    ASSUME Placed, ChangeSri
    PROVE  Shaped(streams') /\ Pushes
<1>1. /\ Shaped(OpenStreams)
      /\ \A b \in Formats : OpenStreams[b].block \in {<<>>, streams[b].block}
  BY OpenShaped DEF Placed, Empty
<1>2. streams' = WithSri(OpenStreams, SriNow)
  BY DEF ChangeSri
<1>. QED  BY <1>1, <1>2, WithSriShaped DEF Pushes

LEMMA PlacedStep ==
    ASSUME Placed, [Next]_vars
    PROVE  Placed' /\ (Pushes \/ Aggregates)
<1>. USE DEF Placed
<1>1. ASSUME UNCHANGED <<pc, active, m_first_packet, streams>> PROVE Placed' /\ Pushes
  BY <1>1 DEF Pushes, Shaped, Empty
<1>2. ASSUME NEW lost, NEW ttv, NEW hdr, NEW error, NEW turn,
             Arrive(lost, ttv, hdr, error, turn)
      PROVE  Placed' /\ Pushes
  BY <1>1, <1>2 DEF Arrive, threadVars, orderVars
<1>3. CASE NewYear \/ (\E sri \in offers.sris : setUpstreamSri(sri)) \/ unsetUpstreamSri
           \/ UNCHANGED vars
  BY <1>1, <1>3 DEF NewYear, setUpstreamSri, unsetUpstreamSri, threadVars, orderVars, vars
<1>4. CASE DiscardInvalid \/ LosePackets \/ ChangeTtv
  <2>1. streams' = Flushed
    BY <1>4 DEF DiscardInvalid, LosePackets, ChangeTtv
  <2>2. Shaped(streams') /\ Empty(streams')
    BY <2>1, FlushedShaped
  <2>3. pc = "next" /\ pc' = pc /\ active /\ active'
    BY <1>4 DEF DiscardInvalid, LosePackets, ChangeTtv, InTurn, threadVars
  <2>. QED  BY <2>2, <2>3, EmptyPushes
<1>5. CASE Accept
  <2>1. pc' = "merge" /\ active' /\ ~m_first_packet' /\ streams' = streams
    BY <1>5 DEF Accept, InTurn, threadVars
  <2>. QED  BY <2>1 DEF Pushes
<1>6. CASE MergeUpstream
  <2>1. pc' = "emit" /\ active' = active /\ m_first_packet' = m_first_packet
        /\ active /\ ~m_first_packet
    BY <1>6 DEF MergeUpstream, threadVars, orderVars
  <2>2. streams' = streams \/ \E sri : streams' = NewStreams(sri)
    BY <1>6 DEF MergeUpstream
  <2>3. Shaped(streams') /\ Pushes
    BY <2>2, NewShaped, EmptyPushes DEF Pushes
  <2>. QED  BY <2>1, <2>3
<1>7. CASE ChangeSri
  <2>1. pc' = "next" /\ active /\ active' = active /\ ~m_first_packet'
    BY <1>7 DEF ChangeSri, threadVars, orderVars
  <2>. QED  BY <1>7, <2>1, ChangeSriBlocks
<1>8. CASE Write
  <2>1. pc' = "next" /\ active /\ active' = active /\ ~m_first_packet'
    BY <1>8 DEF Write, threadVars, orderVars
  <2>. QED  BY <1>8, <2>1, WriteBlocks
<1>9. CASE EndRun
  <2>1. pc' = "next" /\ streams' = NoStreams
    BY <1>9 DEF EndRun
  <2>. QED  BY <2>1, NoShaped, EmptyPushes
<1>10. CASE BeginRun
  <2>1. pc' = pc /\ active' /\ m_first_packet' = m_first_packet /\ streams' = streams
    BY <1>10 DEF BeginRun, orderVars
  <2>2. pc = "next"
    BY <1>10 DEF BeginRun
  <2>. QED  BY <2>1, <2>2 DEF Pushes
<1>. QED  BY <1>2, <1>3, <1>4, <1>5, <1>6, <1>7, <1>8, <1>9, <1>10 DEF Next

\* What is in a block was in it before, or is the packet just written.
LEMMA Elements ==
    ASSUME Placed, Pushes \/ Aggregates, NEW b \in Formats, NEW i \in DOMAIN streams'[b].block
    PROVE  \/ i \in DOMAIN streams[b].block /\ streams'[b].block[i] = streams[b].block[i]
           \/ Write /\ streams'[b].block[i] = Item
<1>1. streams'[b].block # <<>>
  BY EmptyIsSeq
<1>2. CASE streams'[b].block = streams[b].block
  BY <1>2
<1>3. CASE streams'[b].block # streams[b].block
  <2>1. Write /\ streams'[b].block \in {<<Item>>, Append(streams[b].block, Item)}
    BY <1>1, <1>3 DEF Pushes, Aggregates
  <2>. HIDE DEF Item
  <2>2. IsSeq(streams[b].block)
    BY DEF Placed, Shaped, IsStream
  <2>3. CASE streams'[b].block = <<Item>>
    BY <2>1, <2>3, OneIsSeq
  <2>4. CASE streams'[b].block = Append(streams[b].block, Item)
    <3>. DEFINE old == streams[b].block
                new == streams'[b].block
    <3>1. /\ Len(old) \in Nat /\ DOMAIN old = 1..Len(old) /\ DOMAIN new = 1..Len(old) + 1
          /\ \A j \in 1..Len(old) : new[j] = old[j]
          /\ new[Len(old) + 1] = Item
      BY <2>2, <2>4, AppendIsSeq
    <3>2. i \in DOMAIN new
      OBVIOUS
    <3>. HIDE DEF old, new
    <3>3. (i \in DOMAIN old /\ new[i] = old[i]) \/ new[i] = Item
      BY <3>1, <3>2
    <3>. QED  BY <2>1, <3>3 DEF old, new
  <2>. QED  BY <2>1, <2>3, <2>4
<1>. QED  BY <1>2, <1>3

\* Which steps alone can touch what.
LEMMA Untouched ==
    ASSUME [Next]_vars
    PROVE  /\ ~(Accept \/ ChangeTtv \/ BeginRun) => UNCHANGED <<options, m_current_ttv_flag>>
           /\ ~(Accept \/ Write) => UNCHANGED <<m_expected_seq_number, m_bps>>
           /\ ~(LosePackets \/ ChangeTtv \/ Accept \/ Write \/ EndRun)
                 => UNCHANGED <<orderVars, crashed>>
           /\ ~(Accept \/ ChangeSri \/ Write \/ EndRun) => UNCHANGED timeVars
           /\ ~(MergeUpstream \/ unsetUpstreamSri) => UNCHANGED m_endianness
           /\ ~Accept => UNCHANGED crashed
<1>. USE DEF orderVars, timeVars, sriVars, threadVars
<1>1. ASSUME NEW lost, NEW ttv, NEW hdr, NEW error, NEW turn,
             Arrive(lost, ttv, hdr, error, turn)
      PROVE  UNCHANGED <<options, orderVars, timeVars, m_endianness, crashed>>
  BY <1>1 DEF Arrive
<1>2. CASE NewYear
  BY <1>2 DEF NewYear
<1>3. CASE DiscardInvalid
  BY <1>3 DEF DiscardInvalid
<1>4. CASE LosePackets
  BY <1>4 DEF LosePackets
<1>5. CASE ChangeTtv
  BY <1>5 DEF ChangeTtv
<1>6. CASE Accept
  BY <1>6 DEF Accept
<1>7. CASE MergeUpstream
  BY <1>7 DEF MergeUpstream
<1>8. CASE ChangeSri
  BY <1>8 DEF ChangeSri
<1>9. CASE Write
  BY <1>9 DEF Write
<1>10. ASSUME NEW sri, setUpstreamSri(sri)
       PROVE  UNCHANGED <<options, orderVars, timeVars, m_endianness, crashed>>
  BY <1>10 DEF setUpstreamSri
<1>11. CASE unsetUpstreamSri
  BY <1>11 DEF unsetUpstreamSri
<1>12. CASE EndRun
  BY <1>12 DEF EndRun
<1>13. CASE BeginRun
  BY <1>13 DEF BeginRun
<1>14. CASE UNCHANGED vars
  BY <1>14 DEF vars
<1>. QED  BY <1>1, <1>2, <1>3, <1>4, <1>5, <1>6, <1>7, <1>8, <1>9, <1>10, <1>11, <1>12,
          <1>13, <1>14 DEF Next

\* A packet stays accepted only while other threads or the merge take a step.
LEMMA AcceptedKept ==
    ASSUME Placed, [Next]_vars, ~Accept, pc' # "next"
    PROVE  pc # "next" /\ UNCHANGED <<pkt, threadVars, orderVars>>
<1>1. ASSUME pc' = pc PROVE pc # "next"
  BY <1>1
<1>2. ~(DiscardInvalid \/ LosePackets \/ ChangeTtv \/ EndRun)
  BY DEF DiscardInvalid, LosePackets, ChangeTtv, EndRun, InTurn
<1>3. ~(ChangeSri \/ Write)
  BY DEF ChangeSri, Write
<1>4. ~BeginRun
  BY DEF BeginRun, Placed
<1>5. \A lost, ttv, hdr, error, turn : ~Arrive(lost, ttv, hdr, error, turn)
  BY DEF Arrive
<1>6. CASE NewYear \/ (\E sri \in offers.sris : setUpstreamSri(sri)) \/ unsetUpstreamSri
           \/ UNCHANGED vars
  BY <1>6 DEF NewYear, setUpstreamSri, unsetUpstreamSri, vars
<1>7. CASE MergeUpstream
  BY <1>7 DEF MergeUpstream
<1>. QED  BY <1>2, <1>3, <1>4, <1>5, <1>6, <1>7 DEF Next

\* Places and blocks go together.
LEMMA PlacedAlways == Spec => []Placed
<1>1. Init => Placed
  BY NoShaped DEF Init, Placed
<1>2. Placed /\ [Next]_vars => Placed'
  BY PlacedStep
<1>. QED  BY <1>1, <1>2, PTL DEF Spec

-----------------------------------------------------------------------------
(***************************************************************************)
(* Lemmas about numbers: the numbers sent are sequence numbers, and no     *)
(* division by m_bps \div 8 is one by zero but the one that traps.         *)
(***************************************************************************)
LEMMA Dividing ==
    ASSUME NEW a \in Int, NEW b \in Nat \ {0}
    PROVE  /\ a \div b \in Int /\ a % b \in 0..b - 1
           /\ a = b * (a \div b) + (a % b)
OBVIOUS

LEMMA SmallerFactor == \A a \in Nat \ {0} : \A x, y \in Int : a * x < a * y => x < y
OBVIOUS

LEMMA SeqSentType ==
    ASSUME NEW n \in Int
    PROVE  SeqSent(n) \in 0..SeqModulus - 1
<1>. DEFINE d == ChecksumPeriod - 1
            q == SeqModulus \div ChecksumPeriod
            k == n % SentPerCycle
            j == k \div d
            r == k % d
<1>1. /\ ChecksumPeriod \in Nat \ {0} /\ d \in Nat \ {0} /\ ChecksumPeriod = d + 1
      /\ SeqModulus \in Nat \ {0} /\ SeqModulus % ChecksumPeriod = 0
  BY ProcessorAssumption
<1>2. q \in Int /\ SeqModulus = ChecksumPeriod * q
  BY <1>1, Dividing
<1>3. ChecksumPeriod * q = d * q + q /\ d * q \in Int
  <2>. HIDE DEF d, q
  <2>. QED  BY <1>1, <1>2
<1>4. SentPerCycle = d * q
  <2>. HIDE DEF d
  <2>. QED  BY <1>2, <1>3 DEF SentPerCycle
<1>5. q > 0 /\ d * q > 0
  <2>. HIDE DEF d, q
  <2>1. ChecksumPeriod * 0 < ChecksumPeriod * q
    BY <1>1, <1>2
  <2>2. q > 0
    BY <1>1, <1>2, <2>1, SmallerFactor
  <2>. QED  BY <1>1, <1>2, <2>2
<1>6. k \in 0..d * q - 1
  <2>1. d * q \in Nat \ {0}
    BY <1>3, <1>5
  <2>. QED  BY <1>4, <2>1, Dividing
<1>7. j \in Int /\ r \in 0..d - 1 /\ k = d * j + r /\ d * j \in Int
  <2>1. k \in Int
    BY <1>3, <1>6
  <2>. HIDE DEF d, k
  <2>. QED  BY <1>1, <2>1, Dividing
<1>. HIDE DEF d, q, k, j, r
<1>8. j < q
  <2>1. d * j < d * q
    BY <1>1, <1>3, <1>6, <1>7
  <2>. QED  BY <1>1, <1>2, <1>7, <2>1, SmallerFactor
<1>9. j >= 0
  <2>1. d * (j + 1) = d * j + d
    BY <1>1, <1>7
  <2>2. d * 0 < d * (j + 1)
    BY <1>1, <1>6, <1>7, <2>1, <1>3
  <2>. QED  BY <1>1, <1>7, <2>2, SmallerFactor
<1>10. d * j <= d * (q - 1) /\ d * (q - 1) = d * q - d
  BY <1>1, <1>2, <1>3, <1>7, <1>8
<1>11. k + j \in 0..SeqModulus - 1
  BY <1>1, <1>2, <1>3, <1>5, <1>6, <1>7, <1>8, <1>9, <1>10
<1>. QED  BY <1>11 DEF SeqSent, k, j, d

LEMMA SentPerCycleType == SentPerCycle \in Nat \ {0}
<1>. DEFINE d == ChecksumPeriod - 1
            q == SeqModulus \div ChecksumPeriod
<1>1. /\ ChecksumPeriod \in Nat \ {0} /\ d \in Nat \ {0} /\ ChecksumPeriod = d + 1
      /\ SeqModulus \in Nat \ {0} /\ SeqModulus % ChecksumPeriod = 0
  BY ProcessorAssumption
<1>2. q \in Int /\ SeqModulus = ChecksumPeriod * q
  BY <1>1, Dividing
<1>. HIDE DEF d, q
<1>3. ChecksumPeriod * 0 < ChecksumPeriod * q
  BY <1>1, <1>2
<1>4. q > 0
  BY <1>1, <1>2, <1>3, SmallerFactor
<1>5. d * q > 0 /\ d * q \in Int /\ ChecksumPeriod * q = d * q + q
  BY <1>1, <1>2, <1>4
<1>. QED  BY <1>2, <1>5 DEF SentPerCycle, q

StepType == [samples : Int, xdelta : Int]

PacketType == [seq : 0..SeqModulus - 1, ttv : BOOLEAN, hdr : HeaderType, year : Nat]

LEMMA BitsType == \A hdr \in HeaderType : Bits(hdr) \in 0..32
BY DEF HeaderType, Bits

LEMMA SamplesType ==
    ASSUME NEW bits \in 8..32, NEW cx
    PROVE  SamplesPerPacket(bits, cx) \in Int
<1>. DEFINE n == SDDS_DATA_SIZE \div (bits \div 8)
<1>1. bits \div 8 \in Nat \ {0}
  OBVIOUS
<1>2. n \in Int
  <2>. DEFINE b == bits \div 8
  <2>1. b \in Nat \ {0}
    BY <1>1
  <2>2. SDDS_DATA_SIZE \in Int
    BY ProcessorAssumption
  <2>. HIDE DEF b
  <2>3. SDDS_DATA_SIZE \div b \in Int
    BY <2>1, <2>2, Dividing
  <2>. QED  BY <2>3 DEF b
<1>. HIDE DEF n
<1>3. n \div 2 \in Int
  BY <1>2
<1>. QED  BY <1>2, <1>3 DEF SamplesPerPacket, n

LEMMA ExpectedStepType ==
    ASSUME time_step \in StepType, NEW bps \in 0..32, ~DivisionTraps(bps), NEW cx,
           NEW xdelta \in Int
    PROVE  ExpectedStep(bps, cx, xdelta) \in StepType
<1>1. CASE bps = 0
  BY <1>1 DEF ExpectedStep
<1>2. CASE bps # 0
  <2>1. bps \in 8..32
    BY <1>2 DEF DivisionTraps
  <2>. QED  BY <1>2, <2>1, SamplesType DEF ExpectedStep, StepType
<1>. QED  BY <1>1, <1>2

LEMMA DurationType ==
    ASSUME NEW hdr \in HeaderType
    PROVE  Duration(hdr) \in Int
<1>. DEFINE samples == IF Bits(hdr) < 8 THEN SDDS_DATA_SIZE
                       ELSE SamplesPerPacket(Bits(hdr), hdr.cx)
<1>1. samples \in Int /\ hdr.xdelta \in Int
  <2>1. Bits(hdr) < 8 \/ Bits(hdr) \in 8..32
    BY BitsType
  <2>2. hdr.xdelta \in Int
    BY DEF HeaderType, Infinite
  <2>. QED  BY <2>1, <2>2, SamplesType, ProcessorAssumption
<1>. HIDE DEF samples
<1>2. samples * hdr.xdelta \in Int
  BY <1>1
<1>3. (samples * hdr.xdelta) \div 2 \in Int /\ (samples * hdr.xdelta) \div 1 \in Int
  BY <1>2, Dividing
<1>. QED  BY <1>3 DEF Duration, samples

LEMMA HeaderXdeltaType == \A p \in PacketType : HeaderXdelta(p) \in Int /\ Mode(p) \in {0, 1}
BY DEF PacketType, HeaderType, HeaderXdelta, Mode, Infinite

-----------------------------------------------------------------------------
(***************************************************************************)
(* Types, a group of variables at a time.  They rest on two facts that are *)
(* no types: an accepted packet is there, and samples of 1 to 7 bits have  *)
(* ended the process.                                                      *)
(***************************************************************************)
WorldTyped ==
    /\ offers \in Offers
    /\ source \in [kind : {"conforming", "half"}, seq : 0..SeqModulus - 1,
                   hdr : HeaderType, year : Nat]
    /\ clock \in Nat

PktTyped ==
    /\ pkt = NoPacket \/ (pkt \in PacketType /\ pkt.hdr \in offers.headers)
    /\ pc # "next" => pkt # NoPacket

OrderTyped ==
    /\ m_first_packet \in BOOLEAN /\ m_current_ttv_flag \in BOOLEAN
    /\ m_expected_seq_number \in 0..SeqModulus - 1
    /\ m_pkts_dropped \in Nat
    /\ m_bps \in 0..32
    /\ DivisionTraps(m_bps) => crashed

TimeTyped ==
    /\ time_step \in StepType
    /\ m_time_error_accum \in Int /\ m_num_time_slips \in Nat
    /\ m_non_conforming_device \in BOOLEAN

YearTyped ==
    /\ m_last_sdds_time \in [set : BOOLEAN, age : Int, year : Nat]
    /\ m_start_of_year \in Nat

SriTyped ==
    /\ m_upstream_sri \in SriType
    /\ m_upstream_sri_set \in BOOLEAN /\ m_new_upstream_sri \in BOOLEAN
    /\ m_sri \in SriType
    /\ m_use_upstream_sri \in BOOLEAN /\ m_endianness \in {"1234", "4321"}
    /\ overruling \in [set : BOOLEAN, sri : SriType]

StreamsTyped ==
    \A b \in Formats : streams[b].sri \in SriType /\ Len(streams[b].block) <= PktsPerPush

RestTyped ==
    /\ active \in BOOLEAN /\ options \in OptionsType
    /\ sriChanged \in BOOLEAN /\ crashed \in BOOLEAN /\ skipped \in BOOLEAN
    /\ missed \in Int /\ pending \in Int /\ idle \in Nat

Typed == /\ WorldTyped /\ PktTyped /\ OrderTyped /\ TimeTyped /\ YearTyped /\ SriTyped
         /\ StreamsTyped /\ RestTyped

\* What the environment may choose from.
LEMMA OffersTyped ==
    ASSUME offers \in Offers
    PROVE  /\ offers.headers # {} /\ offers.headers \subseteq HeaderType
           /\ offers.ttv \subseteq BOOLEAN /\ offers.errors \subseteq Int
           /\ offers.kinds \subseteq {"conforming", "half"}
           /\ offers.gaps \subseteq Nat \cup {-1} /\ offers.sris \subseteq SriType
           /\ offers.options \subseteq OptionsType /\ offers.maxElapsed \in Nat
BY OffersAssumption

LEMMA WorldStep == ASSUME Typed, [Next]_vars PROVE WorldTyped' /\ offers' = offers
<1>. USE DEF Typed, WorldTyped
<1>1. ASSUME NEW lost \in offers.gaps, NEW ttv \in offers.ttv, NEW hdr \in offers.headers,
             NEW error \in offers.errors, NEW turn \in BOOLEAN,
             Arrive(lost, ttv, hdr, error, turn)
      PROVE  WorldTyped' /\ offers' = offers
  <2>1. source.seq \in Int /\ lost \in Int /\ hdr \in HeaderType
    BY OffersTyped
  <2>2. source.seq \div ChecksumPeriod \in Int
    BY <2>1, ProcessorAssumption, Dividing
  <2>3. SeqAfter(source.seq, lost) \in 0..SeqModulus - 1
    BY <2>1, <2>2, SeqSentType DEF SeqAfter
  <2>. DEFINE seq  == SeqAfter(source.seq, lost)
              year == source.year + (IF turn THEN 1 ELSE 0)
  <2>4. year \in Nat /\ seq \in 0..SeqModulus - 1
    BY <2>3
  <2>5. source' = [source EXCEPT !.seq = seq, !.hdr = hdr, !.year = year]
        /\ UNCHANGED <<offers, clock>>
    BY <1>1 DEF Arrive
  <2>. HIDE DEF seq, year
  <2>. QED  BY <2>1, <2>4, <2>5
<1>2. CASE NewYear
  BY <1>2 DEF NewYear
<1>3. CASE BeginRun
  BY <1>3, OffersTyped DEF BeginRun, FirstHeader
<1>4. CASE \/ DiscardInvalid \/ LosePackets \/ ChangeTtv \/ Accept \/ MergeUpstream \/ ChangeSri
           \/ Write \/ (\E sri \in offers.sris : setUpstreamSri(sri)) \/ unsetUpstreamSri
           \/ EndRun \/ UNCHANGED vars
  <2>1. UNCHANGED worldVars
    BY <1>4 DEF DiscardInvalid, LosePackets, ChangeTtv, Accept, MergeUpstream, ChangeSri,
       Write, setUpstreamSri, unsetUpstreamSri, EndRun, vars
  <2>. QED  BY <2>1 DEF worldVars
<1>. QED  BY <1>1, <1>2, <1>3, <1>4 DEF Next

LEMMA PktStep == ASSUME Placed, Typed, [Next]_vars PROVE PktTyped'
<1>. USE DEF Typed, PktTyped
<1>1. offers' = offers
  BY WorldStep
<1>2. pkt' = NoPacket \/ (pkt' \in PacketType /\ pkt'.hdr \in offers.headers)
  <2>1. ASSUME NEW lost \in offers.gaps, NEW ttv \in offers.ttv, NEW hdr \in offers.headers,
               NEW error \in offers.errors, NEW turn \in BOOLEAN,
               Arrive(lost, ttv, hdr, error, turn)
        PROVE  pkt' \in PacketType /\ pkt'.hdr \in offers.headers
    <3>1. pkt' = [seq |-> source'.seq, ttv |-> ttv, hdr |-> hdr, year |-> source'.year]
      BY <2>1 DEF Arrive, WorldTyped
    <3>2. source'.seq \in 0..SeqModulus - 1 /\ source'.year \in Nat
      BY WorldStep DEF WorldTyped
    <3>3. ttv \in BOOLEAN /\ hdr \in HeaderType
      BY OffersTyped DEF WorldTyped
    <3>. QED  BY <3>1, <3>2, <3>3 DEF PacketType
  <2>2. CASE DiscardInvalid \/ Write \/ EndRun
    BY <2>2 DEF DiscardInvalid, Write, EndRun
  <2>3. CASE pkt' = pkt
    BY <2>3
  <2>. QED  BY <2>1, <2>2, <2>3 DEF Next, NewYear, LosePackets, ChangeTtv, Accept,
               MergeUpstream, ChangeSri, setUpstreamSri, unsetUpstreamSri, BeginRun, vars
<1>3. ASSUME pc' # "next" PROVE pkt' # NoPacket
  <2>1. CASE Accept
    BY <2>1 DEF Accept, InTurn
  <2>2. CASE ~Accept
    BY <1>3, <2>2, AcceptedKept
  <2>. QED  BY <2>1, <2>2
<1>. QED  BY <1>1, <1>2, <1>3

LEMMA OrderStep == ASSUME Typed, [Next]_vars PROVE OrderTyped'
<1>. USE DEF Typed, OrderTyped
<1>1. ASSUME pkt \in PacketType
      PROVE  pkt.seq \in 0..SeqModulus - 1 /\ pkt.ttv \in BOOLEAN /\ Bits(pkt.hdr) \in 0..32
  BY <1>1, BitsType DEF PacketType
<1>2. SeqModulus \in Nat \ {0}
  BY ProcessorAssumption
<1>3. CASE LosePackets
  <2>1. pkt \in PacketType
    BY <1>3 DEF LosePackets, InTurn, PktTyped
  <2>2. NumDropped \in Nat
    <3>1. pkt.seq - m_expected_seq_number \in Int
      BY <1>1, <2>1
    <3>. QED  BY <1>2, <3>1, Dividing DEF NumDropped
  <2>. QED  BY <1>3, <2>2 DEF LosePackets
<1>4. CASE ChangeTtv
  <2>1. pkt \in PacketType
    BY <1>4 DEF ChangeTtv, InTurn, PktTyped
  <2>. QED  BY <1>1, <1>4, <2>1 DEF ChangeTtv
<1>5. CASE Accept
  <2>1. pkt \in PacketType
    BY <1>5 DEF Accept, InTurn, PktTyped
  <2>2. CASE m_first_packet
    BY <1>1, <1>5, <2>1, <2>2 DEF Accept
  <2>3. CASE ~m_first_packet
    BY <1>5, <2>3 DEF Accept
  <2>. QED  BY <2>2, <2>3
<1>6. CASE Write
  <2>1. \A e \in Int : e % SeqModulus \in 0..SeqModulus - 1
    BY <1>2, Dividing
  <2>2. (m_expected_seq_number + 1) % SeqModulus \in 0..SeqModulus - 1
    BY <2>1
  <2>3. (((m_expected_seq_number + 1) % SeqModulus) + 1) % SeqModulus \in 0..SeqModulus - 1
    BY <2>1, <2>2
  <2>4. NextExpected \in 0..SeqModulus - 1
    BY <2>2, <2>3 DEF NextExpected
  <2>. QED  BY <1>6, <2>4 DEF Write
<1>7. CASE EndRun
  BY <1>7 DEF EndRun
<1>8. CASE UNCHANGED <<orderVars, crashed>>
  BY <1>8 DEF orderVars
<1>. QED
  BY <1>3, <1>4, <1>5, <1>6, <1>7, <1>8, Untouched

LEMMA TimeStep == ASSUME Typed, [Next]_vars PROVE TimeTyped'
<1>. USE DEF Typed, TimeTyped
<1>1. CASE Accept
  <2>1. pkt \in PacketType
    BY <1>1 DEF Accept, InTurn, PktTyped
  <2>2. Bits(pkt.hdr) \in 0..32 /\ HeaderXdelta(pkt) \in Int
    BY <2>1, BitsType, HeaderXdeltaType DEF PacketType
  <2>3. time_step' \in {time_step, ExpectedStep(Bits(pkt.hdr), pkt.hdr.cx, HeaderXdelta(pkt))}
        /\ (DivisionTraps(Bits(pkt.hdr)) => time_step' = time_step)
    BY <1>1 DEF Accept
  <2>4. time_step' \in StepType
    BY <2>2, <2>3, ExpectedStepType
  <2>. QED  BY <1>1, <2>4 DEF Accept
<1>2. CASE ChangeSri
  <2>1. pkt \in PacketType /\ ~DivisionTraps(m_bps) /\ m_bps \in 0..32
    BY <1>2 DEF ChangeSri, PktTyped, OrderTyped
  <2>2. time_step' = ExpectedStep(m_bps, pkt.hdr.cx, HeaderXdelta(pkt))
    BY <1>2 DEF ChangeSri
  <2>3. time_step' \in StepType
    BY <2>1, <2>2, HeaderXdeltaType, ExpectedStepType
  <2>. QED  BY <1>2, <2>3 DEF ChangeSri
<1>3. CASE Write
  <2>1. CASE UNCHANGED timeVars
    BY <2>1 DEF timeVars
  <2>2. CASE ~UNCHANGED timeVars
    <3>1. time_step' \in {time_step, ExpectedStep(m_bps, pkt.hdr.cx, time_step.xdelta \div 2)}
      BY <1>3, <2>2 DEF Write, checkForTimeSlip
    <3>2. m_time_error_accum'
            \in {0, m_time_error_accum + m_last_sdds_time.age - IdealStep(time_step')}
      BY <1>3, <2>2 DEF Write, checkForTimeSlip
    <3>3. m_num_time_slips' \in {m_num_time_slips, m_num_time_slips + 1}
      BY <1>3, <2>2 DEF Write, checkForTimeSlip
    <3>4. m_non_conforming_device' \in BOOLEAN
      BY <1>3, <2>2 DEF Write, checkForTimeSlip
    <3>5. time_step' \in StepType
      <4>1. m_bps \in 0..32 /\ ~DivisionTraps(m_bps)
        BY <1>3 DEF Write, OrderTyped
      <4>2. time_step.xdelta \div 2 \in Int
        BY DEF StepType
      <4>. QED  BY <3>1, <4>1, <4>2, ExpectedStepType
    <3>6. IdealStep(time_step') \in Int
      BY <3>5 DEF StepType, IdealStep
    <3>7. m_time_error_accum' \in Int
      BY <3>2, <3>6 DEF YearTyped
    <3>. QED  BY <3>3, <3>4, <3>5, <3>7
  <2>. QED  BY <2>1, <2>2
<1>4. CASE EndRun
  BY <1>4 DEF EndRun
<1>5. CASE ~(Accept \/ ChangeSri \/ Write \/ EndRun)
  <2>1. UNCHANGED timeVars
    BY <1>5, Untouched
  <2>. QED  BY <2>1 DEF timeVars
<1>. QED  BY <1>1, <1>2, <1>3, <1>4, <1>5

LEMMA YearStep == ASSUME Typed, [Next]_vars PROVE YearTyped'
<1>. USE DEF Typed, YearTyped
<1>. DEFINE LastType == [set : BOOLEAN, age : Int, year : Nat]
<1>1. NoTime \in LastType
  BY DEF NoTime
<1>2. ASSUME NEW lost \in offers.gaps, NEW ttv \in offers.ttv, NEW hdr \in offers.headers,
             NEW error \in offers.errors, NEW turn \in BOOLEAN,
             Arrive(lost, ttv, hdr, error, turn)
      PROVE  YearTyped'
  <2>1. Duration(source.hdr) \in Int /\ lost \in Int /\ error \in Int
    BY OffersTyped, DurationType DEF WorldTyped
  <2>2. \A t \in Int : Saturated(t) \in Int
    BY OffersTyped DEF Saturated, WorldTyped
  <2>3. (lost + 1) * Duration(source.hdr) \in Int
    BY <2>1
  <2>4. m_last_sdds_time.age + (lost + 1) * Duration(source.hdr) + error \in Int
    BY <2>1, <2>3
  <2>5. Saturated(m_last_sdds_time.age + (lost + 1) * Duration(source.hdr) + error) \in Int
    BY <2>2, <2>4
  <2>6. m_last_sdds_time' \in LastType
    BY <1>1, <1>2, <2>5 DEF Arrive
  <2>. QED  BY <1>2, <2>6 DEF Arrive
<1>3. CASE Accept \/ ChangeSri
  BY <1>1, <1>3 DEF Accept, ChangeSri, yearVars
<1>4. CASE Write
  <2>1. pkt \in PacketType
    BY <1>4 DEF Write, PktTyped
  <2>2. m_last_sdds_time' = m_last_sdds_time
        \/ m_last_sdds_time' = [set |-> TRUE, age |-> 0, year |-> pkt.year]
    BY <1>4 DEF Write, checkForTimeSlip
  <2>3. m_last_sdds_time' \in LastType
    <3>1. pkt.year \in Nat
      BY <2>1 DEF PacketType
    <3>2. [set |-> TRUE, age |-> 0, year |-> pkt.year] \in LastType
      BY <3>1
    <3>. QED  BY <2>2, <3>2
  <2>4. StartOfYear \in Nat
    BY DEF StartOfYear, getStartOfYear, WorldTyped
  <2>. QED  BY <1>4, <2>3, <2>4 DEF Write
<1>5. CASE \/ NewYear \/ DiscardInvalid \/ LosePackets \/ ChangeTtv \/ MergeUpstream
           \/ (\E sri \in offers.sris : setUpstreamSri(sri)) \/ unsetUpstreamSri \/ EndRun
           \/ BeginRun \/ UNCHANGED vars
  <2>1. UNCHANGED yearVars
    BY <1>5 DEF NewYear, DiscardInvalid, LosePackets, ChangeTtv, MergeUpstream,
       setUpstreamSri, unsetUpstreamSri, EndRun, BeginRun, vars
  <2>. QED  BY <2>1 DEF yearVars
<1>. QED  BY <1>2, <1>3, <1>4, <1>5 DEF Next

LEMMA DefaultSriType == DefaultSri \in SriType /\ NotOverruled \in [set : BOOLEAN, sri : SriType]
<1>1. DefaultSri \in SriType
  BY NamesAssumption, EmptySeq DEF DefaultSri, SriType
<1>. QED  BY <1>1 DEF NotOverruled

LEMMA OverrulingType ==
    ASSUME NEW sri \in SriType
    PROVE  /\ [set |-> TRUE, sri |-> sri] \in [set : BOOLEAN, sri : SriType]
           /\ NotOverruled \in [set : BOOLEAN, sri : SriType]
<1>1. [set |-> TRUE, sri |-> sri] \in [set : BOOLEAN, sri : SriType]
  OBVIOUS
<1>. QED  BY <1>1, DefaultSriType

LEMMA MergedType ==
    ASSUME NEW a \in SriType, NEW b \in SriType, NEW use
    PROVE  Merged(a, b, use) \in SriType
BY DEF Merged, SriType

LEMMA SriNowType ==
    ASSUME m_sri \in SriType, pkt \in PacketType
    PROVE  SriNow \in SriType
BY HeaderXdeltaType DEF SriNow, SddsMerged, SriType

LEMMA SriTypeStep == ASSUME Typed, [Next]_vars PROVE SriTyped'
<1>. USE DEF Typed, SriTyped
<1>1. CASE MergeUpstream
  <2>1. m_sri' = m_sri \/ \E use : m_sri' = Merged(m_sri, m_upstream_sri, use)
    BY <1>1 DEF MergeUpstream, sriVars
  <2>2. m_sri' \in SriType
    BY <2>1, MergedType
  <2>3. EndiannessIn(m_upstream_sri, m_endianness) \in {"1234", "4321"}
    BY DEF EndiannessIn
  <2>4. m_use_upstream_sri' \in BOOLEAN /\ m_endianness' \in {"1234", "4321"}
    BY <1>1, <2>3 DEF MergeUpstream, sriVars
  <2>5. overruling' \in [set : BOOLEAN, sri : SriType]
    <3>1. \/ overruling' = overruling
          \/ overruling' = [set |-> TRUE, sri |-> m_upstream_sri]
          \/ overruling' = NotOverruled
      BY <1>1 DEF MergeUpstream, sriVars
    <3>. QED  BY <3>1, OverrulingType
  <2>. QED  BY <1>1, <2>2, <2>4, <2>5 DEF MergeUpstream
<1>2. CASE ChangeSri
  <2>1. SriNow \in SriType
    BY <1>2, SriNowType DEF ChangeSri, PktTyped
  <2>. QED  BY <1>2, <2>1 DEF ChangeSri, upstreamVars
<1>3. CASE unsetUpstreamSri
  <2>1. m_sri' \in SriType
    <3>1. m_sri' = [m_sri EXCEPT !.streamID = DefaultSri.streamID]
      BY <1>3 DEF unsetUpstreamSri
    <3>2. DefaultSri.streamID \in Names
      BY NamesAssumption
    <3>. QED  BY <3>1, <3>2 DEF SriType
  <2>. QED  BY <1>3, <2>1, DefaultSriType DEF unsetUpstreamSri
<1>4. ASSUME NEW sri \in offers.sris, setUpstreamSri(sri) PROVE SriTyped'
  BY <1>4, OffersTyped DEF setUpstreamSri, WorldTyped, sriVars
<1>5. ASSUME NEW lost, NEW ttv, NEW hdr, NEW error, NEW turn,
             Arrive(lost, ttv, hdr, error, turn)
      PROVE  SriTyped'
  BY <1>5 DEF Arrive, upstreamVars, sriVars
<1>6. CASE \/ NewYear \/ DiscardInvalid \/ LosePackets \/ ChangeTtv \/ Accept \/ Write
           \/ EndRun \/ BeginRun \/ UNCHANGED vars
  <2>1. UNCHANGED <<upstreamVars, sriVars>>
    BY <1>6 DEF NewYear, DiscardInvalid, LosePackets, ChangeTtv, Accept, Write, EndRun,
       BeginRun, vars
  <2>. QED  BY <2>1 DEF upstreamVars, sriVars
<1>. QED  BY <1>1, <1>2, <1>3, <1>4, <1>5, <1>6 DEF Next

LEMMA StreamsTypeStep == ASSUME Placed, Typed, [Next]_vars PROVE StreamsTyped'
<1>. DEFINE Ok(ss) == \A b \in Formats : ss[b].sri \in SriType /\ Len(ss[b].block) <= PktsPerPush
<1>. USE DEF Typed, StreamsTyped
<1>1. PktsPerPush \in Nat \ {0} /\ Len(<<>>) = 0
  BY ProcessorAssumption, EmptyIsSeq
<1>3. \A sri \in SriType : Ok(NewStreams(sri))
  BY <1>1, NewShaped DEF Empty
<1>4. Ok(NoStreams)
  BY <1>1, DefaultSriType DEF NoStreams
<1>5. Ok(Flushed)
  BY <1>1, FlushedShaped DEF Placed, Empty
<1>6. ASSUME pkt \in PacketType PROVE Ok(OpenStreams)
  BY <1>3, <1>6, SriNowType DEF OpenStreams, SriTyped
<1>7. CASE DiscardInvalid \/ LosePackets \/ ChangeTtv
  <2>1. streams' = Flushed
    BY <1>7 DEF DiscardInvalid, LosePackets, ChangeTtv
  <2>. QED  BY <1>5, <2>1
<1>8. CASE MergeUpstream
  <2>1. streams' = streams \/ \E use : streams' = NewStreams(Merged(m_sri, m_upstream_sri, use))
    BY <1>8 DEF MergeUpstream
  <2>. QED  BY <1>3, <2>1, MergedType DEF SriTyped
<1>9. CASE ChangeSri
  <2>1. streams' = WithSri(OpenStreams, SriNow) /\ pkt \in PacketType
    BY <1>9 DEF ChangeSri, PktTyped
  <2>2. Ok(OpenStreams) /\ Shaped(OpenStreams) /\ SriNow \in SriType
    BY <1>6, <2>1, OpenShaped, SriNowType DEF Placed, SriTyped
  <2>. HIDE DEF Ok
  <2>3. ASSUME NEW ss, Ok(ss), Shaped(ss) PROVE Ok(WithSri(ss, SriNow))
    <3>1. CASE m_bps \in Formats
      BY <1>1, <2>2, <2>3, <3>1, WithSriShaped DEF WithSri, Ok, Shaped
    <3>2. CASE m_bps \notin Formats
      BY <2>3, <3>2 DEF WithSri
    <3>. QED  BY <3>1, <3>2
  <2>. QED  BY <2>1, <2>2, <2>3 DEF Ok
<1>10. CASE Write
  <2>1. pkt \in PacketType
    BY <1>10 DEF Write, PktTyped
  <2>2. Ok(OpenStreams) /\ Shaped(OpenStreams)
    BY <1>6, <2>1, OpenShaped DEF Placed
  <2>3. CASE m_bps \notin Formats
    <3>1. streams' = OpenStreams
      BY <1>10, <2>3 DEF Write
    <3>. QED  BY <2>2, <3>1
  <2>4. CASE m_bps \in Formats
    <3>1. streams' = WithPacket(OpenStreams)
      BY <1>10, <2>4 DEF Write, WithPacket
    <3>2. ASSUME NEW b \in Formats
          PROVE  streams'[b].sri \in SriType /\ Len(streams'[b].block) <= PktsPerPush
      <4>1. streams'[b].sri = OpenStreams[b].sri
        BY <2>2, <2>4, <3>1, WrittenShaped
      <4>2. CASE b # m_bps
        <5>1. streams'[b].block = OpenStreams[b].block
          BY <2>2, <2>4, <3>1, <4>2, WrittenShaped
        <5>. QED  BY <2>2, <4>1, <5>1
      <4>3. CASE b = m_bps
        <5>1. Len(OpenStreams[m_bps].block) <= PktsPerPush
          BY <2>2, <2>4
        <5>2. Len(streams'[m_bps].block) <= PktsPerPush
          BY <1>1, <2>2, <2>4, <3>1, <5>1, WrittenLength
        <5>. QED  BY <2>2, <4>1, <4>3, <5>2
      <4>. QED  BY <4>2, <4>3
    <3>. QED  BY <3>2
  <2>. QED  BY <2>3, <2>4
<1>11. CASE EndRun
  <2>1. streams' = NoStreams
    BY <1>11 DEF EndRun
  <2>. QED  BY <1>4, <2>1
<1>12. ASSUME streams' = streams PROVE StreamsTyped'
  BY <1>12
<1>13. CASE \/ NewYear \/ Accept \/ (\E sri \in offers.sris : setUpstreamSri(sri))
            \/ unsetUpstreamSri \/ BeginRun \/ UNCHANGED vars
  BY <1>12, <1>13 DEF NewYear, Accept, setUpstreamSri, unsetUpstreamSri, BeginRun, vars
<1>14. ASSUME NEW lost, NEW ttv, NEW hdr, NEW error, NEW turn,
              Arrive(lost, ttv, hdr, error, turn)
       PROVE  StreamsTyped'
  BY <1>12, <1>14 DEF Arrive
<1>. QED  BY <1>7, <1>8, <1>9, <1>10, <1>11, <1>13, <1>14 DEF Next

LEMMA MissedType ==
    ASSUME NEW seq \in Int, NEW lost \in Int
    PROVE  NumbersMissed(seq, lost) \in Int
<1>1. SeqModulus \in Nat \ {0}
  BY ProcessorAssumption
<1>2. \A n \in Int : n % SeqModulus \in Int
  BY <1>1, Dividing
<1>3. Following(seq) \in Int
  BY <1>2 DEF Following
<1>4. SeqAfter(seq, lost) \in Int
  <2>1. seq \div ChecksumPeriod \in Int
    BY ProcessorAssumption, Dividing
  <2>. QED  BY <2>1, SeqSentType DEF SeqAfter
<1>5. SeqModulus * (lost \div SentPerCycle) \in Int
  <2>1. lost \div SentPerCycle \in Int
    BY SentPerCycleType, Dividing
  <2>. QED  BY <1>1, <2>1
<1>6. (Following(seq) - seq) % SeqModulus \in Int
  BY <1>2, <1>3
<1>7. (SeqAfter(seq, lost) - Following(seq)) % SeqModulus \in Int
  BY <1>2, <1>3, <1>4
<1>. QED  BY <1>5, <1>6, <1>7 DEF NumbersMissed

LEMMA RestStep == ASSUME Typed, [Next]_vars PROVE RestTyped'
<1>. USE DEF Typed, RestTyped
<1>1. ASSUME NEW lost \in offers.gaps, NEW ttv \in offers.ttv, NEW hdr \in offers.headers,
             NEW error \in offers.errors, NEW turn \in BOOLEAN,
             Arrive(lost, ttv, hdr, error, turn)
      PROVE  RestTyped'
  <2>1. source.seq \in Int /\ lost \in Int
    BY OffersTyped, ProcessorAssumption DEF WorldTyped
  <2>2. NumbersMissed(source.seq, lost) \in Int
    BY <2>1, MissedType
  <2>3. pending' \in Int
    BY <1>1, <2>2 DEF Arrive
  <2>. QED  BY <1>1, <2>3 DEF Arrive, threadVars
<1>2. CASE DiscardInvalid \/ LosePackets \/ ChangeTtv
  BY <1>2 DEF DiscardInvalid, LosePackets, ChangeTtv, threadVars
<1>3. CASE Accept
  <2>1. pending' \in {0, pending}
    BY <1>3 DEF Accept
  <2>2. crashed' \in BOOLEAN
    <3>1. CASE m_first_packet
      BY <1>3, <3>1 DEF Accept, DivisionTraps
    <3>2. CASE ~m_first_packet
      BY <1>3, <3>2 DEF Accept
    <3>. QED  BY <3>1, <3>2
  <2>3. UNCHANGED <<active, options, sriChanged, missed, skipped, idle>>
    BY <1>3 DEF Accept, threadVars
  <2>. QED  BY <2>1, <2>2, <2>3
<1>4. CASE MergeUpstream
  <2>1. sriChanged' \in BOOLEAN
    BY <1>4 DEF MergeUpstream, compareSRI
  <2>2. idle' \in {0, idle}
    BY <1>4 DEF MergeUpstream
  <2>3. UNCHANGED <<active, options, crashed, skipped, missed, pending>>
    BY <1>4 DEF MergeUpstream, threadVars
  <2>. QED  BY <2>1, <2>2, <2>3
<1>5. CASE Write
  <2>1. pkt \in PacketType
    BY <1>5 DEF Write, PktTyped
  <2>2. skipped' \in BOOLEAN
    BY <1>5, <2>1 DEF Write
  <2>. QED  BY <1>5, <2>2 DEF Write, threadVars
<1>6. CASE BeginRun
  <2>1. options' \in OptionsType
    BY <1>6, OffersTyped DEF BeginRun, WorldTyped
  <2>2. active' \in BOOLEAN
    BY <1>6 DEF BeginRun
  <2>3. UNCHANGED <<sriChanged, crashed, skipped, missed, pending, idle>>
    BY <1>6 DEF BeginRun
  <2>. QED  BY <2>1, <2>2, <2>3
<1>7. CASE \/ NewYear \/ (\E sri \in offers.sris : setUpstreamSri(sri)) \/ unsetUpstreamSri
           \/ UNCHANGED vars
  BY <1>7 DEF NewYear, setUpstreamSri, unsetUpstreamSri, threadVars, vars
<1>8. CASE ChangeSri
  <2>1. idle' \in Nat
    BY <1>8 DEF ChangeSri
  <2>2. UNCHANGED <<active, options, crashed, skipped, missed, pending>>
    BY <1>8 DEF ChangeSri, threadVars
  <2>3. sriChanged' \in BOOLEAN
    BY <1>8 DEF ChangeSri
  <2>. QED  BY <2>1, <2>2, <2>3
<1>9. CASE EndRun
  <2>1. idle' \in Nat /\ pending' \in Int
    BY <1>9 DEF EndRun
  <2>2. active' \in BOOLEAN
    BY <1>9 DEF EndRun
  <2>3. UNCHANGED <<options, crashed, skipped, missed, sriChanged>>
    BY <1>9 DEF EndRun
  <2>. QED  BY <2>1, <2>2, <2>3
<1>. QED  BY <1>1, <1>2, <1>3, <1>4, <1>5, <1>6, <1>7, <1>8, <1>9 DEF Next

LEMMA InitTyped == ASSUME Init PROVE Typed
<1>. USE DEF Init
<1>1. FirstHeader \in HeaderType
  BY OffersTyped DEF FirstHeader
<1>2. WorldTyped
  BY <1>1, ProcessorAssumption DEF WorldTyped
<1>3. PktTyped
  BY DEF PktTyped
<1>4. OrderTyped
  <2>1. 0 \in 0..SeqModulus - 1 /\ 0 \in 0..32 /\ ~DivisionTraps(0)
    BY ProcessorAssumption DEF DivisionTraps
  <2>. QED  BY <2>1 DEF OrderTyped
<1>5. TimeTyped /\ YearTyped
  <2>1. time_step \in StepType
    BY DEF StepType
  <2>2. m_time_error_accum \in Int /\ m_num_time_slips \in Nat
    OBVIOUS
  <2>3. m_non_conforming_device \in BOOLEAN
    OBVIOUS
  <2>4. YearTyped
    BY DEF YearTyped, NoTime, getStartOfYear
  <2>. QED  BY <2>1, <2>2, <2>3, <2>4 DEF TimeTyped
<1>7. SriTyped
  BY DefaultSriType DEF SriTyped
<1>8. StreamsTyped
  BY DefaultSriType, EmptyIsSeq, ProcessorAssumption DEF StreamsTyped, NoStreams
<1>9. RestTyped
  <2>1. options \in OptionsType
    BY DEF OptionsType
  <2>2. active \in BOOLEAN /\ sriChanged \in BOOLEAN /\ crashed \in BOOLEAN
    OBVIOUS
  <2>3. skipped \in BOOLEAN
    OBVIOUS
  <2>4. missed \in Int /\ pending \in Int /\ idle \in Nat
    OBVIOUS
  <2>. QED  BY <2>1, <2>2, <2>3, <2>4 DEF RestTyped
<1>. QED  BY <1>2, <1>3, <1>4, <1>5, <1>7, <1>8, <1>9 DEF Typed

\* All groups of variables keep their types, and the two facts with them.
LEMMA TypedAlways == Spec => []Typed
<1>1. Init => Typed
  BY InitTyped
<1>2. Placed /\ Typed /\ [Next]_vars => Typed'
  <2>1. SUFFICES ASSUME Placed, Typed, [Next]_vars PROVE Typed'
    OBVIOUS
  <2>2. /\ WorldTyped' /\ PktTyped' /\ OrderTyped' /\ TimeTyped' /\ YearTyped' /\ SriTyped'
        /\ StreamsTyped' /\ RestTyped'
    BY <2>1, WorldStep, PktStep, OrderStep, TimeStep, YearStep, SriTypeStep,
       StreamsTypeStep, RestStep
  <2>. QED  BY <2>2 DEF Typed
<1>. QED  BY <1>1, <1>2, PlacedAlways, PTL DEF Spec

(***************************************************************************)
(* The type invariant: in particular the 16 bit numbers stay such, the SRI *)
(* is one, no block outgrows a push, and m_bps is a number of bits.        *)
(***************************************************************************)
THEOREM TypeCorrect == Spec => []TypeOK
<1>1. Placed /\ Typed => TypeOK
  <2>1. SUFFICES ASSUME Placed, Typed PROVE TypeOK
    OBVIOUS
  <2>2. pkt = NoPacket \/ pkt \in [seq : 0..SeqModulus - 1, ttv : BOOLEAN,
                                  hdr : offers.headers, year : Nat]
    BY <2>1 DEF Typed, PktTyped, PacketType
  <2>. QED
    BY <2>1, <2>2 DEF TypeOK, Placed, Typed, WorldTyped, OrderTyped, TimeTyped, YearTyped,
       SriTyped, StreamsTyped, RestTyped
<1>. QED  BY <1>1, TypedAlways, PlacedAlways, PTL

-----------------------------------------------------------------------------
(***************************************************************************)
(* The time tag valid flag.  m_current_ttv_flag is that of the packets     *)
(* being aggregated, and of pkt once it is accepted.                       *)
(***************************************************************************)
OneTtv(block) == \A i \in DOMAIN block : /\ options.push_on_ttv => block[i].ttv = m_current_ttv_flag
                                         /\ options.wait_on_ttv => block[i].ttv

TtvKept ==
    /\ pc # "next" => /\ options.push_on_ttv => pkt.ttv = m_current_ttv_flag
                      /\ options.wait_on_ttv => pkt.ttv
    /\ \A b \in Formats : OneTtv(streams[b].block)

LEMMA TtvStep == ASSUME Placed, TtvKept, [Next]_vars PROVE TtvKept'
<1>1. Placed' /\ (Pushes \/ Aggregates)
  BY PlacedStep
<1>2. \/ UNCHANGED <<options, m_current_ttv_flag>>
      \/ Empty(streams')
  <2>1. CASE Accept
    <3>1. CASE m_first_packet
      BY <2>1, <3>1 DEF Accept, Placed, Empty
    <3>2. CASE ~m_first_packet
      BY <2>1, <3>2 DEF Accept, threadVars
    <3>. QED  BY <3>1, <3>2
  <2>2. CASE ChangeTtv
    BY <2>2, FlushedShaped DEF ChangeTtv, Placed
  <2>3. CASE BeginRun
    BY <2>3, NoShaped DEF BeginRun, Placed, Empty
  <2>4. CASE ~(Accept \/ ChangeTtv \/ BeginRun)
    BY <2>4, Untouched
  <2>. QED  BY <2>1, <2>2, <2>3, <2>4
<1>3. ASSUME pc' # "next"
      PROVE  /\ options'.push_on_ttv => pkt'.ttv = m_current_ttv_flag'
             /\ options'.wait_on_ttv => pkt'.ttv
  <2>1. CASE Accept
    BY <2>1 DEF Accept, ToBeDiscarded, TtvChanged, threadVars
  <2>2. CASE ~Accept
    <3>1. pc # "next" /\ UNCHANGED <<pkt, threadVars, orderVars>>
      BY <1>3, <2>2, AcceptedKept
    <3>. QED  BY <3>1 DEF TtvKept, threadVars, orderVars
  <2>. QED  BY <2>1, <2>2
<1>4. ASSUME NEW b \in Formats, NEW i \in DOMAIN streams'[b].block
      PROVE  /\ options'.push_on_ttv => streams'[b].block[i].ttv = m_current_ttv_flag'
             /\ options'.wait_on_ttv => streams'[b].block[i].ttv
  <2>1. UNCHANGED <<options, m_current_ttv_flag>>
    BY <1>2, EmptyIsSeq DEF Empty
  <2>2. CASE i \in DOMAIN streams[b].block /\ streams'[b].block[i] = streams[b].block[i]
    BY <2>1, <2>2 DEF TtvKept, OneTtv
  <2>3. CASE Write /\ streams'[b].block[i] = Item
    BY <2>1, <2>3 DEF Write, TtvKept, Item
  <2>. QED  BY <1>1, <2>2, <2>3, Elements
<1>. QED  BY <1>3, <1>4 DEF TtvKept, OneTtv

\* So the flag and the blocks agree in every state.
LEMMA TtvKeptAlways == Spec => []TtvKept
<1>1. Init => TtvKept
  BY NoShaped, EmptyIsSeq DEF Init, TtvKept, OneTtv, Empty
<1>2. Placed /\ TtvKept /\ [Next]_vars => TtvKept'
  BY TtvStep
<1>. QED  BY <1>1, <1>2, PlacedAlways, PTL DEF Spec

(***************************************************************************)
(* No push mixes packets with valid and invalid time tags if push_on_ttv   *)
(* is set, or has invalid ones if wait_on_ttv is.                          *)
(***************************************************************************)
THEOREM TtvNotMixed == Spec => []BlocksOfOneTtv
<1>1. Placed /\ TtvKept => BlocksOfOneTtv
  BY DEF TtvKept, OneTtv, BlocksOfOneTtv
<1>. QED  BY <1>1, PlacedAlways, TtvKeptAlways, PTL

-----------------------------------------------------------------------------
(***************************************************************************)
(* Sequence numbers.  Only the block of m_bps has packets in it, and the   *)
(* expected number follows the last of them.                               *)
(***************************************************************************)
Contiguous(block) == \A i \in 1..Len(block) - 1 : block[i + 1].seq = Following(block[i].seq)

Continues(block) == block # <<>> => m_expected_seq_number = Following(block[Len(block)].seq)

InStep ==
    /\ pc # "next" => pkt.seq = m_expected_seq_number
    /\ \A b \in Formats : streams[b].block # <<>> => b = m_bps
    /\ \A b \in Formats : Contiguous(streams[b].block) /\ Continues(streams[b].block)

\* The receiver skips the numbers the sender skips.
LEMMA NextIsFollowing == NextExpected = Following(m_expected_seq_number)
<1>1. ~IsChecksum(0)
  BY ProcessorAssumption DEF IsChecksum
<1>. QED  BY <1>1 DEF NextExpected, Following, IsChecksum

LEMMA WriteInStep ==
    ASSUME Placed, InStep, Write, NEW b \in Formats
    PROVE  /\ streams'[b].block # <<>> => b = m_bps
           /\ Contiguous(streams'[b].block) /\ Continues(streams[b].block)'
<1>1. m_expected_seq_number' = Following(m_expected_seq_number)
  BY NextIsFollowing DEF Write
<1>2. Contiguous(<<>>) /\ Len(<<>>) = 0
  BY EmptyIsSeq DEF Contiguous
<1>3. CASE streams'[b].block = <<>>
  BY <1>2, <1>3 DEF Continues
<1>4. CASE streams'[b].block # <<>>
  <2>1. Aggregates /\ b = m_bps
    BY <1>4, WriteBlocks DEF InStep, Pushes, Aggregates
  <2>2. Item.seq = m_expected_seq_number
    BY DEF Write, InStep, Item
  <2>. HIDE DEF Item
  <2>3. CASE streams'[b].block = <<Item>>
    BY <1>1, <2>1, <2>2, <2>3, OneIsSeq DEF Contiguous, Continues
  <2>4. CASE streams'[b].block = Append(streams[b].block, Item) /\ streams[b].block # <<>>
    <3>. DEFINE old == streams[b].block
                new == streams'[b].block
    <3>1. /\ Len(old) \in Nat /\ Len(new) = Len(old) + 1
          /\ \A i \in 1..Len(old) : new[i] = old[i]
          /\ new[Len(old) + 1] = Item
      BY <2>4, AppendIsSeq DEF Placed, Shaped, IsStream
    <3>2. Contiguous(old) /\ m_expected_seq_number = Following(old[Len(old)].seq)
      BY <2>4 DEF InStep, Continues
    <3>3. Len(old) # 0
      BY <2>4, EmptySeq DEF Placed, Shaped, IsStream, IsSeq
    <3>. HIDE DEF old, new
    <3>4. ASSUME NEW i \in 1..Len(new) - 1 PROVE new[i + 1].seq = Following(new[i].seq)
      <4>1. CASE i = Len(old)
        BY <2>2, <3>1, <3>2, <3>3, <4>1
      <4>2. CASE i # Len(old)
        <5>1. i \in 1..Len(old) - 1 /\ i \in 1..Len(old) /\ i + 1 \in 1..Len(old)
          BY <3>1, <4>2
        <5>. QED  BY <3>1, <3>2, <5>1 DEF Contiguous
      <4>. QED  BY <4>1, <4>2
    <3>5. Contiguous(new)
      BY <3>4 DEF Contiguous
    <3>6. Continues(streams[b].block)'
      BY <1>1, <2>2, <3>1 DEF Continues, new
    <3>. QED  BY <2>1, <3>5, <3>6 DEF new
  <2>5. CASE streams'[b].block = Append(streams[b].block, Item) /\ streams[b].block = <<>>
    BY <2>3, <2>5, OneIsSeq
  <2>. QED  BY <2>1, <2>3, <2>4, <2>5 DEF Aggregates
<1>. QED  BY <1>3, <1>4

LEMMA InStepKept == ASSUME Placed, InStep, [Next]_vars PROVE InStep'
<1>1. pc' # "next" => pkt'.seq = m_expected_seq_number'
  <2>1. CASE Accept
    BY <2>1 DEF Accept, InOrder
  <2>2. CASE ~Accept
    BY <2>2, AcceptedKept DEF InStep, orderVars
  <2>. QED  BY <2>1, <2>2
<1>2. CASE Write
  <2>1. m_bps' = m_bps
    BY <1>2 DEF Write
  <2>. QED  BY <1>1, <1>2, <2>1, WriteInStep DEF InStep, Contiguous
<1>3. CASE ~Write
  <2>1. Pushes
    BY <1>3, PlacedStep DEF Aggregates
  <2>2. UNCHANGED <<m_expected_seq_number, m_bps>> \/ Empty(streams')
    <3>1. CASE Accept
      BY <3>1 DEF Accept, Placed, Empty
    <3>2. CASE ~Accept
      BY <1>3, <3>2, Untouched
    <3>. QED  BY <3>1, <3>2
  <2>3. ASSUME NEW b \in Formats
        PROVE  /\ streams'[b].block # <<>> => b = m_bps'
               /\ Contiguous(streams[b].block)' /\ Continues(streams[b].block)'
    <3>1. CASE streams'[b].block = <<>>
      BY <3>1, EmptyIsSeq DEF Contiguous, Continues
    <3>2. CASE streams'[b].block # <<>>
      <4>1. streams'[b].block = streams[b].block /\ UNCHANGED <<m_expected_seq_number, m_bps>>
        BY <2>1, <2>2, <3>2 DEF Pushes, Empty
      <4>. QED  BY <3>2, <4>1 DEF InStep, Contiguous, Continues
    <3>. QED  BY <3>1, <3>2
  <2>. QED  BY <1>1, <2>3 DEF InStep
<1>. QED  BY <1>2, <1>3

\* So expected numbers and blocks agree in every state.
LEMMA InStepAlways == Spec => []InStep
<1>1. Init => InStep
  BY NoShaped, EmptyIsSeq DEF Init, InStep, Contiguous, Continues, Empty
<1>2. Placed /\ InStep /\ [Next]_vars => InStep'
  BY InStepKept
<1>. QED  BY <1>1, <1>2, PlacedAlways, PTL DEF Spec

(***************************************************************************)
(* Whatever is lost, repeated or discarded, the packets of a push have     *)
(* consecutive numbers, across the wrap and the unsent checksum numbers,   *)
(* for every width of the numbers and every number of packets per push.    *)
(***************************************************************************)
THEOREM PushesAreContiguous == Spec => []BlocksContiguous
<1>1. InStep => BlocksContiguous
  BY DEF InStep, Contiguous, BlocksContiguous
<1>. QED  BY <1>1, InStepAlways, PTL

-----------------------------------------------------------------------------
(***************************************************************************)
(* The SRI.  While the source keeps its format, the stream of that format  *)
(* has been given m_sri, and what it aggregates was swapped as m_endianness *)
(* says.                                                                   *)
(***************************************************************************)
\* The SRI of a stream: all but its stream ID, which detach may take back.
Agrees(sri) ==
    /\ sri.xdelta = m_sri.xdelta /\ sri.mode = m_sri.mode
    /\ ~offers.detach => sri = m_sri

SriKept ==
    OneFormat =>
        /\ pkt # NoPacket => pkt.hdr \in offers.headers
        /\ ~m_first_packet => \E hdr \in offers.headers : m_bps = Bits(hdr)
        /\ Created => \A hdr \in offers.headers :
                         Bits(hdr) \in Formats => Agrees(streams[Bits(hdr)].sri)
        /\ ~offers.detach => \A b \in Formats : \A i \in DOMAIN streams[b].block :
              streams[b].block[i].endianness = m_endianness

LEMMA HeaderKept ==
    ASSUME Placed, SriKept, [Next]_vars, OneFormat
    PROVE  /\ pkt' # NoPacket => pkt'.hdr \in offers.headers
           /\ ~m_first_packet' => \E hdr \in offers.headers : m_bps' = Bits(hdr)
<1>1. ASSUME UNCHANGED <<pkt, orderVars>>
      PROVE  /\ pkt' # NoPacket => pkt'.hdr \in offers.headers
             /\ ~m_first_packet' => \E hdr \in offers.headers : m_bps' = Bits(hdr)
  BY <1>1 DEF SriKept, orderVars
<1>2. ASSUME NEW lost \in offers.gaps, NEW ttv \in offers.ttv, NEW hdr \in offers.headers,
             NEW error \in offers.errors, NEW turn \in BOOLEAN,
             Arrive(lost, ttv, hdr, error, turn)
      PROVE  pkt'.hdr \in offers.headers /\ UNCHANGED orderVars
  BY <1>2 DEF Arrive
<1>3. CASE Accept
  BY <1>3 DEF Accept, InTurn, SriKept
<1>4. CASE LosePackets \/ ChangeTtv
  BY <1>4 DEF LosePackets, ChangeTtv, SriKept
<1>5. CASE DiscardInvalid \/ Write
  BY <1>5 DEF DiscardInvalid, Write, orderVars, SriKept
<1>6. CASE EndRun
  BY <1>6 DEF EndRun
<1>7. CASE \/ NewYear \/ MergeUpstream \/ ChangeSri \/ unsetUpstreamSri \/ BeginRun
           \/ (\E sri \in offers.sris : setUpstreamSri(sri)) \/ UNCHANGED vars
  BY <1>1, <1>7 DEF NewYear, MergeUpstream, ChangeSri, unsetUpstreamSri, BeginRun,
                    setUpstreamSri, vars
<1>8. ASSUME UNCHANGED orderVars
      PROVE  ~m_first_packet' => \E hdr \in offers.headers : m_bps' = Bits(hdr)
  BY <1>8 DEF SriKept, orderVars
<1>. QED  BY <1>2, <1>3, <1>4, <1>5, <1>6, <1>7, <1>8 DEF Next

LEMMA StreamSriKept ==
    ASSUME Placed, Typed, SriKept, [Next]_vars, OneFormat, Created', NEW hdr \in offers.headers,
           Bits(hdr) \in Formats
    PROVE  Agrees(streams[Bits(hdr)].sri)'
<1>. DEFINE f == Bits(hdr)
<1>1. 8 \in Formats
  BY DEF Formats
<1>2. pc # "next" => m_bps = f
  BY DEF Placed, SriKept, OneFormat
<1>3. Created => Agrees(streams[f].sri)
  BY DEF SriKept
<1>0. offers' = offers
  BY WorldStep
<1>. HIDE DEF f
<1>. SUFFICES Agrees(streams[f].sri)'
  BY DEF f
<1>s. ASSUME streams'[f].sri = m_sri' PROVE Agrees(streams[f].sri)'
  BY <1>s DEF Agrees
<1>4. CASE UNCHANGED <<streams, m_sri>>
  BY <1>0, <1>3, <1>4 DEF Created, Agrees
<1>5. CASE DiscardInvalid \/ LosePackets \/ ChangeTtv
  <2>1. streams' = Flushed /\ m_sri' = m_sri
    BY <1>5 DEF DiscardInvalid, LosePackets, ChangeTtv, sriVars
  <2>2. streams'[f].sri = streams[f].sri /\ streams'[8].open = streams[8].open
    BY <1>1, <2>1, FlushedShaped DEF Placed, f
  <2>. QED  BY <1>0, <1>3, <2>1, <2>2 DEF Created, Agrees
<1>6. CASE MergeUpstream
  <2>1. UNCHANGED <<streams, m_sri>> \/ streams' = NewStreams(m_sri')
    BY <1>6 DEF MergeUpstream, sriVars
  <2>2. ASSUME streams' = NewStreams(m_sri') PROVE streams'[f].sri = m_sri'
    BY <2>2, NewShaped DEF f
  <2>. QED  BY <1>4, <1>s, <2>1, <2>2
<1>7. CASE ChangeSri
  <2>1. streams' = WithSri(OpenStreams, SriNow) /\ m_sri' = SriNow /\ m_bps = f
    BY <1>2, <1>7 DEF ChangeSri
  <2>2. Shaped(OpenStreams) /\ m_bps \in Formats
    BY <2>1, OpenShaped DEF Placed, f
  <2>3. streams'[m_bps].sri = m_sri'
    BY <2>1, <2>2, WithSriShaped
  <2>. QED  BY <1>s, <2>1, <2>3
<1>8. CASE Write
  <2>1. m_sri' = m_sri /\ SriNow = m_sri /\ m_bps = f
    <3>1. m_sri' = m_sri /\ m_bps = f
      BY <1>2, <1>8 DEF Write, sriVars
    <3>2. ASSUME HeaderCounts PROVE SddsMerged = m_sri
      <4>1. ~Differ(HeaderXdelta(pkt), m_sri.xdelta) /\ m_sri.mode = Mode(pkt)
        BY <1>8, <3>2 DEF Write, SriHasChanged, SddsDiffers
      <4>2. m_sri \in SriType
        BY DEF Typed, SriTyped
      <4>. QED  BY <4>1, <4>2 DEF SddsMerged, SriType
    <3>. QED  BY <3>1, <3>2 DEF SriNow
  <2>2. Shaped(OpenStreams) /\ m_bps \in Formats
    BY <2>1, OpenShaped DEF Placed, f
  <2>3. Agrees(OpenStreams[f].sri)
    <3>1. CASE Created
      BY <1>3, <3>1 DEF OpenStreams
    <3>2. CASE ~Created
      <4>1. OpenStreams[f].sri = m_sri
        BY <2>1, <2>2, <3>2, NewShaped DEF OpenStreams
      <4>. QED  BY <4>1 DEF Agrees
    <3>. QED  BY <3>1, <3>2
  <2>4. streams' = WithPacket(OpenStreams)
    BY <1>8, <2>2 DEF Write, WithPacket
  <2>5. streams'[f].sri = OpenStreams[f].sri
    BY <2>1, <2>2, <2>4, WrittenShaped
  <2>. QED  BY <1>0, <2>1, <2>3, <2>5 DEF Agrees
<1>9. CASE EndRun
  BY <1>9, NoShaped DEF EndRun, Created
<1>10. CASE unsetUpstreamSri
  <2>1. streams' = streams /\ m_sri'.xdelta = m_sri.xdelta /\ m_sri'.mode = m_sri.mode
    BY <1>10 DEF unsetUpstreamSri, Typed, SriTyped, SriType
  <2>2. offers.detach \/ ~Created'
    BY <1>10, <2>1, NoShaped DEF unsetUpstreamSri, Placed, Created
  <2>. QED  BY <1>0, <1>3, <2>1, <2>2 DEF Created, Agrees
<1>11. CASE \/ NewYear \/ Accept \/ BeginRun \/ (\E sri \in offers.sris : setUpstreamSri(sri))
            \/ UNCHANGED vars
  BY <1>4, <1>11 DEF NewYear, Accept, BeginRun, setUpstreamSri, sriVars, vars
<1>12. ASSUME NEW lost, NEW ttv, NEW h, NEW error, NEW turn, Arrive(lost, ttv, h, error, turn)
       PROVE  UNCHANGED <<streams, m_sri>>
  BY <1>12 DEF Arrive, sriVars
<1>. QED  BY <1>4, <1>5, <1>6, <1>7, <1>8, <1>9, <1>10, <1>11, <1>12 DEF Next

LEMMA EndiannessKept ==
    ASSUME Placed, SriKept, [Next]_vars, OneFormat, ~offers.detach, NEW b \in Formats,
           NEW i \in DOMAIN streams'[b].block
    PROVE  streams'[b].block[i].endianness = m_endianness'
<1>1. ~Empty(streams')
  BY EmptyIsSeq DEF Empty
<1>2. m_endianness' = m_endianness
  <2>1. CASE MergeUpstream
    <3>1. m_endianness' = m_endianness \/ \E sri : streams' = NewStreams(sri)
      BY <2>1 DEF MergeUpstream, sriVars
    <3>. QED  BY <1>1, <3>1, NewShaped
  <2>2. CASE unsetUpstreamSri
    BY <1>1, <2>2, NoShaped DEF unsetUpstreamSri, Placed
  <2>3. CASE ~(MergeUpstream \/ unsetUpstreamSri)
    BY <2>3, Untouched
  <2>. QED  BY <2>1, <2>2, <2>3
<1>3. CASE i \in DOMAIN streams[b].block /\ streams'[b].block[i] = streams[b].block[i]
  BY <1>2, <1>3 DEF SriKept
<1>4. CASE streams'[b].block[i] = Item
  BY <1>2, <1>4 DEF Item
<1>. QED  BY <1>3, <1>4, PlacedStep, Elements

LEMMA SriStep == ASSUME Placed, Typed, SriKept, [Next]_vars PROVE SriKept'
<1>1. offers' = offers
  BY WorldStep
<1>. SUFFICES ASSUME OneFormat PROVE SriKept'
  BY <1>1 DEF SriKept, OneFormat
<1>. QED  BY <1>1, HeaderKept, StreamSriKept, EndiannessKept DEF SriKept

LEMMA SriKeptAlways == Spec => []SriKept
<1>1. Init => SriKept
  BY NoShaped, EmptyIsSeq DEF Init, SriKept, Created, Empty
<1>2. Placed /\ Typed /\ SriKept /\ [Next]_vars => SriKept'
  BY SriStep
<1>. QED  BY <1>1, <1>2, PlacedAlways, TypedAlways, PTL DEF Spec

(***************************************************************************)
(* A source that keeps its format has every packet written under the SRI   *)
(* of that moment, next to packets swapped like itself, whatever SRI comes *)
(* from upstream and whenever; unless detach takes the stream ID back in   *)
(* the middle of a session.                                                *)
(***************************************************************************)
THEOREM SriIsCurrent == Spec => []WritesUnderCurrentSri
<1>1. Placed /\ SriKept => WritesUnderCurrentSri
  BY DEF Placed, SriKept, Agrees, WritesUnderCurrentSri, SriShown, Writes
<1>. QED  BY <1>1, PlacedAlways, SriKeptAlways, PTL

-----------------------------------------------------------------------------
(***************************************************************************)
(* The thread does not spin.  A return that used no packet has made the    *)
(* next one of its kind impossible: after a loss the next packet is the    *)
(* first, after a change of the flag the flag is its own, and after the    *)
(* SRI has followed the header it does not differ from it.                 *)
(***************************************************************************)
Finite == \A hdr \in offers.headers : hdr.xdelta # Infinite

Idled ==
    /\ idle \in 0..2
    /\ pkt = NoPacket => idle = 0
    /\ ~active => pkt = NoPacket
    /\ pc = "next" /\ idle # 0 => InOrder /\ ~TtvChanged
    /\ pc = "emit" /\ sriChanged => idle = 0
    /\ idle = 2 => ~m_use_upstream_sri /\ ~SddsDiffers

\* The SRI made from a header does not differ from it.
LEMMA MergedAgrees ==
    ASSUME Typed, pkt \in PacketType, pkt.hdr.xdelta # Infinite, HeaderCounts
    PROVE  /\ SriNow.mode = Mode(pkt)
           /\ ~Differ(HeaderXdelta(pkt), SriNow.xdelta)
<1>. DEFINE x == HeaderXdelta(pkt)
<1>1. x \in Nat
  BY DEF HeaderXdelta, PacketType, HeaderType
<1>2. m_sri \in SriType /\ Resolution \in Nat \ {0}
  BY ProcessorAssumption DEF Typed, SriTyped
<1>. HIDE DEF x
<1>3. ~Differ(x, x)
  BY <1>1, <1>2 DEF Differ, Infinite
<1>4. SriNow = [m_sri EXCEPT !.xdelta = IF Differ(x, m_sri.xdelta) THEN x ELSE m_sri.xdelta,
                             !.mode   = Mode(pkt)]
  BY DEF SriNow, SddsMerged, x
<1>5. SriNow.mode = Mode(pkt) /\ SriNow.xdelta \in {x, m_sri.xdelta}
      /\ (Differ(x, m_sri.xdelta) => SriNow.xdelta = x)
  BY <1>2, <1>4 DEF SriType
<1>. QED  BY <1>3, <1>5 DEF x

LEMMA IdledStep ==
    ASSUME Placed, Typed, TtvKept, InStep, Finite, Idled, [Next]_vars
    PROVE  Idled'
<1>. USE DEF Idled
<1>2. ASSUME NEW lost, NEW ttv, NEW hdr, NEW error, NEW turn,
             Arrive(lost, ttv, hdr, error, turn)
      PROVE  Idled'
  BY <1>2 DEF Arrive, threadVars
<1>3. CASE DiscardInvalid \/ Write
  <2>1. idle' = 0 /\ pkt' = NoPacket
    BY <1>3 DEF DiscardInvalid, Write
  <2>. QED  BY <2>1
<1>4. CASE LosePackets
  <2>1. idle = 0 /\ idle' = 1 /\ m_first_packet' /\ pc' = "next" /\ pkt' # NoPacket /\ active'
    BY <1>4 DEF LosePackets, InTurn, threadVars
  <2>. QED  BY <2>1 DEF InOrder, TtvChanged
<1>5. CASE ChangeTtv
  <2>1. idle = 0 /\ idle' = 1 /\ pc' = "next" /\ pkt' = pkt /\ pkt # NoPacket /\ active'
    BY <1>5 DEF ChangeTtv, InTurn, threadVars
  <2>2. InOrder' /\ ~TtvChanged'
    BY <1>5 DEF ChangeTtv, InOrder, TtvChanged, threadVars
  <2>. QED  BY <2>1, <2>2
<1>6. CASE Accept
  <2>1. pc' = "merge" /\ UNCHANGED <<idle, pkt, active, m_use_upstream_sri>>
    BY <1>6 DEF Accept, threadVars, sriVars
  <2>2. SddsDiffers' = SddsDiffers
    BY <1>6 DEF Accept, SddsDiffers, HeaderXdelta, Mode, sriVars
  <2>. QED  BY <2>1, <2>2
<1>7. CASE MergeUpstream
  <2>1. pc' = "emit" /\ UNCHANGED <<pkt, active>>
    BY <1>7 DEF MergeUpstream, threadVars
  <2>2. CASE idle' = 0
    BY <1>7, <2>1, <2>2
  <2>3. CASE idle' # 0
    <3>1. idle' = idle /\ ~sriChanged' /\ UNCHANGED <<sriVars, timeVars>>
      BY <1>7, <2>3 DEF MergeUpstream
    <3>2. SddsDiffers' = SddsDiffers
      BY <2>1, <3>1 DEF SddsDiffers, HeaderXdelta, Mode, sriVars, timeVars
    <3>. QED  BY <2>1, <3>1, <3>2 DEF sriVars
  <2>. QED  BY <2>2, <2>3
<1>8. CASE ChangeSri
  <2>1. pc = "emit" /\ pc' = "next" /\ idle' = idle + 1 /\ ~sriChanged'
        /\ UNCHANGED <<pkt, active, m_use_upstream_sri>>
    BY <1>8 DEF ChangeSri, threadVars
  <2>2. pkt \in PacketType /\ pkt.hdr.xdelta # Infinite /\ pkt # NoPacket
    BY <2>1 DEF Typed, PktTyped, Finite
  <2>3. InOrder' /\ ~TtvChanged'
    BY <1>8, <2>1 DEF ChangeSri, InStep, TtvKept, InOrder, TtvChanged, threadVars, orderVars
  <2>4. CASE sriChanged
    BY <2>1, <2>2, <2>3, <2>4
  <2>5. CASE ~sriChanged
    <3>1. HeaderCounts /\ SddsDiffers
      BY <1>8, <2>5 DEF ChangeSri, SriHasChanged
    <3>2. ~SddsDiffers'
      <4>1. m_sri' = SriNow /\ HeaderXdelta(pkt)' = HeaderXdelta(pkt) /\ Mode(pkt)' = Mode(pkt)
        BY <1>8 DEF ChangeSri, HeaderXdelta, Mode
      <4>. QED  BY <2>2, <3>1, <4>1, MergedAgrees DEF SddsDiffers
    <3>3. idle \in {0, 1}
      BY <3>1
    <3>. QED  BY <2>1, <2>2, <2>3, <3>1, <3>2, <3>3 DEF HeaderCounts
  <2>. QED  BY <2>4, <2>5
<1>9. CASE unsetUpstreamSri
  <2>1. UNCHANGED <<idle, pkt, pc, active, sriChanged, orderVars, options, timeVars>>
        /\ ~m_use_upstream_sri'
    BY <1>9 DEF unsetUpstreamSri, threadVars
  <2>2. m_sri'.xdelta = m_sri.xdelta /\ m_sri'.mode = m_sri.mode
    BY <1>9 DEF unsetUpstreamSri, Typed, SriTyped, SriType
  <2>3. SddsDiffers' = SddsDiffers
    BY <2>1, <2>2 DEF SddsDiffers, HeaderXdelta, Mode, timeVars
  <2>4. InOrder' = InOrder /\ TtvChanged' = TtvChanged
    BY <2>1 DEF InOrder, TtvChanged, orderVars
  <2>. QED  BY <2>1, <2>3, <2>4
<1>10. CASE EndRun
  <2>1. idle' = 0 /\ pkt' = NoPacket
    BY <1>10 DEF EndRun
  <2>. QED  BY <2>1
<1>11. CASE BeginRun
  <2>1. idle = 0 /\ idle' = 0 /\ active'
    BY <1>11 DEF BeginRun
  <2>. QED  BY <2>1
<1>12. CASE NewYear \/ (\E sri \in offers.sris : setUpstreamSri(sri)) \/ UNCHANGED vars
  <2>1. UNCHANGED <<idle, pkt, pc, threadVars, sriChanged, orderVars, timeVars, sriVars>>
    BY <1>12 DEF NewYear, setUpstreamSri, vars
  <2>2. SddsDiffers' = SddsDiffers
    BY <2>1 DEF SddsDiffers, HeaderXdelta, Mode, timeVars, sriVars
  <2>3. InOrder' = InOrder /\ TtvChanged' = TtvChanged
    BY <2>1 DEF InOrder, TtvChanged, orderVars, threadVars
  <2>. QED  BY <2>1, <2>2, <2>3 DEF threadVars, sriVars
<1>. QED  BY <1>2, <1>3, <1>4, <1>5, <1>6, <1>7, <1>8, <1>9, <1>10, <1>11, <1>12 DEF Next

\* Only the first packet of a stream sets m_bps.
LEMMA CrashStep ==
    ASSUME Typed, [Next]_vars, \A hdr \in offers.headers : Bits(hdr) \notin 1..7, ~crashed
    PROVE  ~crashed'
<1>1. CASE Accept
  <2>1. pkt.hdr \in offers.headers /\ Bits(pkt.hdr) \in 0..32
    BY <1>1, BitsType DEF Accept, InTurn, Typed, PktTyped, PacketType
  <2>2. ~DivisionTraps(Bits(pkt.hdr))
    BY <2>1 DEF DivisionTraps
  <2>. QED  BY <1>1, <2>2 DEF Accept
<1>2. CASE ~Accept
  BY <1>2, Untouched
<1>. QED  BY <1>1, <1>2

\* What NoSpin says, inductively.
Live ==
    /\ Finite => Idled
    /\ (\A hdr \in offers.headers : Bits(hdr) \notin 1..7) => ~crashed

(***************************************************************************)
(* Whatever packets with a frequency arrive, and however upstream sends    *)
(* SRI, configures or detaches, the same packet is looked at three times   *)
(* at most; and only samples of 1 to 7 bits divide by zero.                *)
(***************************************************************************)
THEOREM DoesNotSpin == Spec => []NoSpin
<1>1. Init => Live
  BY DEF Init, Live, Idled
<1>2. Placed /\ Typed /\ TtvKept /\ InStep /\ Live /\ [Next]_vars => Live'
  <2>1. SUFFICES ASSUME Placed, Typed, TtvKept, InStep, Live, [Next]_vars PROVE Live'
    OBVIOUS
  <2>2. offers' = offers
    BY <2>1, WorldStep
  <2>3. ASSUME Finite PROVE Idled'
    BY <2>1, <2>3, IdledStep DEF Live
  <2>4. ASSUME \A hdr \in offers.headers : Bits(hdr) \notin 1..7 PROVE ~crashed'
    BY <2>1, <2>4, CrashStep DEF Live
  <2>. QED  BY <2>2, <2>3, <2>4 DEF Live, Finite
<1>3. Live => NoSpin
  BY DEF Live, Finite, Idled, NoSpin, UsesPackets
<1>. QED  BY <1>1, <1>2, <1>3, PlacedAlways, TypedAlways, TtvKeptAlways, InStepAlways, PTL DEF Spec
=============================================================================
