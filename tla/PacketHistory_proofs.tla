------------------------ MODULE PacketHistory_proofs ------------------------
(***************************************************************************)
(* What the packet processor tells of the packets that came: their rate    *)
(* (RateFromHeader, RateFromUpstream), the year they were sent in          *)
(* (YearFollowed), and how many never came (DroppedExact): for every       *)
(* environment that the assumptions on Offers admit.                       *)
(***************************************************************************)
EXTENDS SddsToBulkIOProcessor_proofs

-----------------------------------------------------------------------------
(***************************************************************************)
(* The rate.  The xdeltas that are compared are all of Xdeltas, and two of *)
(* these that do not differ are equal if they can be told apart at all.    *)
(***************************************************************************)
Known == m_sri.xdelta \in Xdeltas /\ m_upstream_sri.xdelta \in Xdeltas

LEMMA HeaderKnown ==
    ASSUME Typed, pkt # NoPacket
    PROVE  HeaderXdelta(pkt) \in Xdeltas
<1>1. pkt.hdr \in offers.headers
  BY DEF Typed, PktTyped
<1>. QED  BY <1>1 DEF HeaderXdelta, Xdeltas

LEMMA KnownStep == ASSUME Typed, Known, [Next]_vars PROVE Known'
<1>. USE DEF Known
<1>1. Xdeltas' = Xdeltas
  BY WorldStep DEF Xdeltas
<1>2. ASSUME UNCHANGED <<m_sri, m_upstream_sri>> PROVE Known'
  BY <1>1, <1>2
<1>3. CASE MergeUpstream
  <2>1. m_upstream_sri' = m_upstream_sri
    BY <1>3 DEF MergeUpstream, upstreamVars
  <2>2. m_sri' = m_sri \/ \E use : m_sri' = Merged(m_sri, m_upstream_sri, use)
    BY <1>3 DEF MergeUpstream, sriVars
  <2>3. \A use : Merged(m_sri, m_upstream_sri, use).xdelta \in {m_sri.xdelta, m_upstream_sri.xdelta}
    BY DEF Merged, Typed, SriTyped, SriType
  <2>4. m_sri'.xdelta \in {m_sri.xdelta, m_upstream_sri.xdelta}
    BY <2>2, <2>3
  <2>. QED  BY <1>1, <2>1, <2>4
<1>4. CASE ChangeSri
  <2>1. m_upstream_sri' = m_upstream_sri /\ m_sri' = SriNow
    BY <1>4 DEF ChangeSri, upstreamVars
  <2>2. HeaderXdelta(pkt) \in Xdeltas
    BY <1>4, HeaderKnown DEF ChangeSri, Typed, PktTyped
  <2>3. SddsMerged.xdelta \in {HeaderXdelta(pkt), m_sri.xdelta}
    BY DEF SddsMerged, Typed, SriTyped, SriType
  <2>4. SriNow.xdelta \in Xdeltas
    BY <2>2, <2>3 DEF SriNow
  <2>. QED  BY <1>1, <2>1, <2>4
<1>5. ASSUME NEW sri \in offers.sris, setUpstreamSri(sri) PROVE Known'
  <2>1. sri.xdelta \in Xdeltas
    BY DEF Xdeltas
  <2>. QED  BY <1>1, <1>5, <2>1 DEF setUpstreamSri, sriVars
<1>6. CASE unsetUpstreamSri
  <2>1. m_sri'.xdelta = m_sri.xdelta /\ m_upstream_sri' = m_upstream_sri
    BY <1>6 DEF unsetUpstreamSri, Typed, SriTyped, SriType
  <2>. QED  BY <1>1, <2>1
<1>7. ASSUME NEW lost, NEW ttv, NEW hdr, NEW error, NEW turn,
             Arrive(lost, ttv, hdr, error, turn)
      PROVE  Known'
  BY <1>2, <1>7 DEF Arrive, sriVars, upstreamVars
<1>8. CASE \/ NewYear \/ DiscardInvalid \/ LosePackets \/ ChangeTtv \/ Accept \/ Write
           \/ EndRun \/ BeginRun \/ UNCHANGED vars
  <2>1. UNCHANGED <<upstreamVars, sriVars>>
    BY <1>8 DEF NewYear, DiscardInvalid, LosePackets, ChangeTtv, Accept, Write, EndRun,
       BeginRun, vars
  <2>. QED  BY <1>2, <2>1 DEF sriVars, upstreamVars
<1>. QED  BY <1>3, <1>4, <1>5, <1>6, <1>7, <1>8 DEF Next

LEMMA KnownAlways == Spec => []Known
<1>1. Init => Known
  BY DEF Init, Known, Xdeltas
<1>2. Typed /\ Known /\ [Next]_vars => Known'
  BY KnownStep
<1>. QED  BY <1>1, <1>2, TypedAlways, PTL DEF Spec

(***************************************************************************)
(* What overrides the header.  compareSRI is an equivalence that does not  *)
(* see the rates, so that of SRI it tells apart m_sri compares with one    *)
(* only: with the overruling one, or with one that has no priority.        *)
(***************************************************************************)
NoPriority == \A sri \in offers.sris : ~HasPriority(sri)

HeaderRules ==
    \/ m_sri.streamID = DefaultSri.streamID
    \/ \E sri \in offers.sris : ~HasPriority(sri) /\ compareSRI(m_sri, sri)

Overruled ==
    /\ overruling.sri \in offers.sris
    /\ compareSRI(m_sri, overruling.sri)
    /\ m_sri.xdelta = overruling.sri.xdelta /\ m_sri.mode = overruling.sri.mode

Ruled ==
    /\ m_upstream_sri_set => m_upstream_sri \in offers.sris
    /\ NoPriority => ~m_use_upstream_sri /\ ~overruling.set
    /\ ToldApart => /\ m_use_upstream_sri = overruling.set
                    /\ IF overruling.set THEN Overruled ELSE HeaderRules

LEMMA Compared ==
    ASSUME NEW a, NEW b, compareSRI(a, b), NEW c, compareSRI(a, c)
    PROVE  compareSRI(b, c)
BY DEF compareSRI

\* What compareSRI looks at.
LEMMA ComparedAlike ==
    ASSUME NEW a, NEW b, a.streamID = b.streamID, a.xunits = b.xunits, a.keywords = b.keywords,
           NEW c
    PROVE  compareSRI(a, c) = compareSRI(b, c)
BY DEF compareSRI

LEMMA MergedIs ==
    ASSUME NEW a \in SriType, NEW b \in SriType
    PROVE  /\ Merged(a, b, TRUE) = b
           /\ compareSRI(Merged(a, b, FALSE), b)
BY DEF Merged, SriType, compareSRI

LEMMA ToldOnMerge ==
    ASSUME Typed, Ruled, MergeUpstream, ToldApart, m_upstream_sri_set, m_new_upstream_sri
    PROVE  \/ m_use_upstream_sri' = TRUE /\ overruling'.set = TRUE /\ Overruled'
           \/ m_use_upstream_sri' = FALSE /\ overruling'.set = FALSE /\ HeaderRules'
<1>. DEFINE up == m_upstream_sri
            differs == ~compareSRI(m_sri, up)
            use == m_use_upstream_sri \/ (differs /\ HasPriority(up))
<1>1. /\ m_use_upstream_sri' = use
      /\ m_sri' = IF differs THEN Merged(m_sri, up, use) ELSE m_sri
      /\ overruling' = IF overruling.set \/ HasPriority(up) THEN [set |-> TRUE, sri |-> up]
                       ELSE NotOverruled
      /\ offers' = offers
  BY DEF MergeUpstream, worldVars
<1>2. /\ up \in offers.sris /\ up \in SriType /\ m_sri \in SriType
      /\ m_use_upstream_sri = overruling.set /\ overruling.set \in BOOLEAN
  BY DEF Ruled, Typed, SriTyped
<1>3. CASE overruling.set
  <2>1. m_use_upstream_sri' = TRUE /\ overruling'.set = TRUE /\ overruling'.sri = up
    BY <1>1, <1>2, <1>3
  <2>2. CASE differs
    <3>1. use = TRUE
      BY <1>2, <1>3
    <3>2. m_sri' = up
      BY <1>1, <1>2, <2>2, <3>1, MergedIs
    <3>. QED  BY <1>1, <1>2, <2>1, <3>2 DEF Overruled, compareSRI
  <2>3. CASE ~differs
    <3>1. Overruled
      BY <1>3 DEF Ruled
    <3>2. compareSRI(overruling.sri, up)
      BY <2>3, <3>1, Compared DEF Overruled
    <3>3. overruling.sri = up
      BY <1>2, <3>1, <3>2 DEF Overruled, ToldApart
    <3>4. m_sri' = m_sri /\ overruling'.sri = overruling.sri
      BY <1>1, <2>1, <2>3, <3>3
    <3>. QED  BY <1>1, <2>1, <3>1, <3>4 DEF Overruled, compareSRI
  <2>. QED  BY <2>2, <2>3
<1>4. CASE ~overruling.set
  <2>1. HeaderRules /\ ~m_use_upstream_sri
    BY <1>2, <1>4 DEF Ruled
  <2>2. CASE differs /\ HasPriority(up)
    <3>1. use = TRUE
      BY <2>2
    <3>2. m_sri' = up
      BY <1>1, <1>2, <2>2, <3>1, MergedIs
    <3>3. m_use_upstream_sri' = TRUE /\ overruling'.set = TRUE /\ overruling'.sri = up
      BY <1>1, <2>2, <3>1
    <3>. QED  BY <1>1, <1>2, <3>2, <3>3 DEF Overruled, compareSRI
  <2>3. CASE differs /\ ~HasPriority(up)
    <3>1. use = FALSE
      BY <1>2, <2>1, <2>3
    <3>2. m_sri' = Merged(m_sri, up, FALSE)
      BY <1>1, <2>3, <3>1
    <3>3. m_use_upstream_sri' = FALSE /\ overruling'.set = FALSE
      BY <1>1, <1>4, <2>3, <3>1 DEF NotOverruled
    <3>4. compareSRI(m_sri', up)
      BY <1>2, <3>2, MergedIs
    <3>5. HeaderRules'
      BY <1>1, <1>2, <2>3, <3>4 DEF HeaderRules, compareSRI
    <3>. QED  BY <3>3, <3>5
  <2>4. CASE ~differs
    <3>1. m_sri.streamID # DefaultSri.streamID
      BY <1>2, <2>4 DEF compareSRI, ToldApart
    <3>2. PICK sri \in offers.sris : ~HasPriority(sri) /\ compareSRI(m_sri, sri)
      BY <2>1, <3>1 DEF HeaderRules
    <3>3. compareSRI(sri, up)
      BY <2>4, <3>2, Compared
    <3>4. ~HasPriority(up)
      BY <1>2, <3>2, <3>3 DEF ToldApart
    <3>5. use = FALSE
      BY <1>2, <2>1, <2>4
    <3>6. m_use_upstream_sri' = FALSE /\ overruling'.set = FALSE /\ m_sri' = m_sri
      BY <1>1, <1>4, <2>4, <3>4, <3>5 DEF NotOverruled
    <3>7. HeaderRules'
      BY <1>1, <2>1, <3>6 DEF HeaderRules, compareSRI
    <3>. QED  BY <3>6, <3>7
  <2>. QED  BY <2>2, <2>3, <2>4
<1>. QED  BY <1>2, <1>3, <1>4

LEMMA RuledStep == ASSUME Typed, Ruled, [Next]_vars PROVE Ruled'
<1>1. offers' = offers
  BY WorldStep
<1>2. NoPriority' = NoPriority /\ ToldApart' = ToldApart
  BY <1>1 DEF NoPriority, ToldApart
<1>. USE DEF Ruled
<1>3. ASSUME UNCHANGED <<upstreamVars, sriVars>> PROVE Ruled'
  BY <1>1, <1>2, <1>3 DEF upstreamVars, sriVars, Overruled, HeaderRules
<1>4. CASE MergeUpstream
  <2>1. CASE ~(m_upstream_sri_set /\ m_new_upstream_sri)
    <3>1. UNCHANGED <<upstreamVars, sriVars>>
      BY <1>4, <2>1 DEF MergeUpstream, upstreamVars
    <3>. QED  BY <1>3, <3>1
  <2>2. CASE m_upstream_sri_set /\ m_new_upstream_sri
    <3>1. m_upstream_sri_set' = m_upstream_sri_set /\ m_upstream_sri' = m_upstream_sri
      BY <1>4 DEF MergeUpstream
    <3>2. ASSUME NoPriority PROVE ~m_use_upstream_sri' /\ ~overruling'.set
      <4>1. ~HasPriority(m_upstream_sri) /\ ~m_use_upstream_sri /\ ~overruling.set
        BY <2>2, <3>2 DEF NoPriority
      <4>2. /\ m_use_upstream_sri' = (\/ m_use_upstream_sri
                                      \/ ~compareSRI(m_sri, m_upstream_sri)
                                         /\ HasPriority(m_upstream_sri))
            /\ overruling' = IF overruling.set \/ HasPriority(m_upstream_sri)
                             THEN [set |-> TRUE, sri |-> m_upstream_sri] ELSE NotOverruled
        BY <1>4, <2>2 DEF MergeUpstream
      <4>. QED  BY <4>1, <4>2 DEF NotOverruled
    <3>. QED  BY <1>1, <1>2, <1>4, <2>2, <3>1, <3>2, ToldOnMerge
  <2>. QED  BY <2>1, <2>2
<1>5. CASE ChangeSri
  <2>1. m_sri' = SriNow /\ UNCHANGED <<upstreamVars, m_use_upstream_sri, overruling>>
    BY <1>5 DEF ChangeSri
  <2>2. CASE m_use_upstream_sri
    <3>1. m_sri' = m_sri
      BY <2>1, <2>2 DEF SriNow, HeaderCounts
    <3>. QED  BY <1>1, <1>2, <2>1, <3>1 DEF upstreamVars, Overruled, HeaderRules
  <2>3. CASE ~m_use_upstream_sri
    <3>1. /\ m_sri'.streamID = m_sri.streamID /\ m_sri'.xunits = m_sri.xunits
          /\ m_sri'.keywords = m_sri.keywords
      BY <2>1, <2>3 DEF SriNow, HeaderCounts, SddsMerged, Typed, SriTyped, SriType
    <3>2. \A sri : compareSRI(m_sri', sri) = compareSRI(m_sri, sri)
      BY <3>1, ComparedAlike
    <3>3. HeaderRules => HeaderRules'
      BY <1>1, <3>1, <3>2 DEF HeaderRules
    <3>4. overruling' = overruling /\ m_use_upstream_sri' = m_use_upstream_sri
      BY <2>1
    <3>5. UNCHANGED <<m_upstream_sri, m_upstream_sri_set>>
      BY <2>1 DEF upstreamVars
    <3>6. ToldApart => ~overruling.set /\ HeaderRules
      BY <2>3
    <3>. QED  BY <1>1, <1>2, <3>3, <3>4, <3>5, <3>6
  <2>. QED  BY <2>2, <2>3 DEF Typed, SriTyped
<1>6. ASSUME NEW sri \in offers.sris, setUpstreamSri(sri) PROVE Ruled'
  <2>1. m_upstream_sri' = sri /\ UNCHANGED sriVars
    BY <1>6 DEF setUpstreamSri
  <2>. QED  BY <1>1, <1>2, <1>6, <2>1 DEF sriVars, Overruled, HeaderRules
<1>7. CASE unsetUpstreamSri
  <2>1. /\ m_upstream_sri_set' = FALSE /\ m_use_upstream_sri' = FALSE
        /\ overruling'.set = FALSE
        /\ m_sri'.streamID = DefaultSri.streamID
    BY <1>7 DEF unsetUpstreamSri, NotOverruled, Typed, SriTyped, SriType
  <2>. QED  BY <2>1 DEF HeaderRules
<1>8. ASSUME NEW lost, NEW ttv, NEW hdr, NEW error, NEW turn,
             Arrive(lost, ttv, hdr, error, turn)
      PROVE  Ruled'
  BY <1>3, <1>8 DEF Arrive
<1>9. CASE \/ NewYear \/ DiscardInvalid \/ LosePackets \/ ChangeTtv \/ Accept \/ Write
           \/ EndRun \/ BeginRun \/ UNCHANGED vars
  <2>1. UNCHANGED <<upstreamVars, sriVars>>
    BY <1>9 DEF NewYear, DiscardInvalid, LosePackets, ChangeTtv, Accept, Write, EndRun,
       BeginRun, vars
  <2>. QED  BY <1>3, <2>1
<1>. QED  BY <1>4, <1>5, <1>6, <1>7, <1>8, <1>9 DEF Next

LEMMA RuledAlways == Spec => []Ruled
<1>1. Init => Ruled
  <2>1. SUFFICES ASSUME Init PROVE Ruled
    OBVIOUS
  <2>2. m_use_upstream_sri = FALSE /\ overruling.set = FALSE /\ m_upstream_sri_set = FALSE
        /\ m_sri.streamID = DefaultSri.streamID
    BY <2>1 DEF Init, NotOverruled
  <2>. QED  BY <2>2 DEF Ruled, HeaderRules
<1>2. Typed /\ Ruled /\ [Next]_vars => Ruled'
  BY RuledStep
<1>. QED  BY <1>1, <1>2, TypedAlways, PTL DEF Spec

(***************************************************************************)
(* The packets in a block were written under the rate that was due when    *)
(* they were, and the SRI of their stream does not change behind them.     *)
(***************************************************************************)
DueNow == m_sri.xdelta = DueXdelta(pkt) /\ m_sri.mode = DueMode(pkt)

LEMMA WriteIsDue ==
    ASSUME Typed, Known, Ruled, Write, Distinguishable, NoPriority \/ ToldApart
    PROVE  DueNow
<1>1. pkt # NoPacket
  BY DEF Write, Typed, PktTyped
<1>2. CASE overruling.set
  BY <1>2 DEF Ruled, Overruled, DueNow, DueXdelta, DueMode
<1>3. CASE ~overruling.set
  <2>1. ~m_use_upstream_sri
    BY <1>3 DEF Ruled
  <2>2. ~Differ(HeaderXdelta(pkt), m_sri.xdelta) /\ m_sri.mode = Mode(pkt)
    BY <2>1 DEF Write, SriHasChanged, HeaderCounts, SddsDiffers
  <2>3. HeaderXdelta(pkt) \in Xdeltas
    BY <1>1, HeaderKnown
  <2>. QED  BY <1>3, <2>2, <2>3 DEF Known, Distinguishable, DueNow, DueXdelta, DueMode
<1>. QED  BY <1>2, <1>3

\* A stream that keeps packets keeps its SRI.
LEMMA WrittenUnder ==
    ASSUME Placed, [Next]_vars, NEW b \in Formats, NEW i \in DOMAIN streams'[b].block
    PROVE  \/ /\ i \in DOMAIN streams[b].block /\ streams'[b].block[i] = streams[b].block[i]
              /\ streams'[b].sri = streams[b].sri
           \/ Write /\ b = m_bps /\ streams'[b].block[i] = Item
<1>1. streams'[b].block # <<>> /\ ~Empty(streams')
  BY EmptyIsSeq DEF Empty
<1>2. ASSUME streams'[b] = streams[b]
      PROVE  /\ i \in DOMAIN streams[b].block /\ streams'[b].block[i] = streams[b].block[i]
             /\ streams'[b].sri = streams[b].sri
  BY <1>2
<1>3. CASE DiscardInvalid \/ LosePackets \/ ChangeTtv
  <2>1. streams' = Flushed
    BY <1>3 DEF DiscardInvalid, LosePackets, ChangeTtv
  <2>. QED  BY <1>1, <2>1, FlushedShaped DEF Placed
<1>4. CASE EndRun
  BY <1>1, <1>4, NoShaped DEF EndRun
<1>5. CASE MergeUpstream
  <2>1. streams' = streams \/ \E sri : streams' = NewStreams(sri)
    BY <1>5 DEF MergeUpstream
  <2>. QED  BY <1>1, <1>2, <2>1, NewShaped
<1>6. CASE ChangeSri
  <2>1. streams' = WithSri(OpenStreams, SriNow) /\ Shaped(OpenStreams)
    BY <1>6, OpenShaped DEF ChangeSri, Placed
  <2>2. streams'[b] = OpenStreams[b]
    BY <1>1, <2>1, WithSriShaped
  <2>3. OpenStreams = streams
    BY <1>1, <2>2, OpenShaped DEF Placed, Empty
  <2>. QED  BY <1>2, <2>2, <2>3
<1>7. CASE Write
  <2>1. /\ Shaped(OpenStreams)
        /\ OpenStreams = streams \/ Empty(OpenStreams)
    BY OpenShaped DEF Placed
  <2>2. CASE m_bps \notin Formats
    <3>1. streams' = OpenStreams
      BY <1>7, <2>2 DEF Write
    <3>. QED  BY <1>1, <1>2, <2>1, <3>1
  <2>3. CASE m_bps \in Formats
    <3>1. streams' = WithPacket(OpenStreams)
      BY <1>7, <2>3 DEF Write, WithPacket
    <3>2. CASE b # m_bps
      <4>1. streams'[b].block = OpenStreams[b].block /\ streams'[b].sri = OpenStreams[b].sri
        BY <2>1, <2>3, <3>1, <3>2, WrittenShaped
      <4>2. OpenStreams = streams
        BY <1>1, <2>1, <4>1 DEF Empty
      <4>. QED  BY <4>1, <4>2
    <3>3. CASE b = m_bps
      <4>1. CASE streams'[b].block[i] = Item
        BY <1>7, <3>3, <4>1
      <4>2. CASE streams'[b].block[i] # Item
        <5>1. i \in DOMAIN streams[b].block /\ streams'[b].block[i] = streams[b].block[i]
          BY <4>2, PlacedStep, Elements
        <5>2. ~Empty(OpenStreams)
          <6>1. ASSUME OpenStreams[b].block = <<>> PROVE streams'[b].block = <<Item>>
            <7>1. Append(<<>>, Item) = <<Item>>
              BY OneIsSeq
            <7>. QED  BY <2>1, <2>3, <3>1, <3>3, <6>1, <7>1, WrittenShaped
          <6>2. streams'[b].block # <<Item>>
            BY <4>2, OneIsSeq
          <6>. QED  BY <6>1, <6>2 DEF Empty
        <5>3. streams'[b].sri = streams[b].sri
          BY <2>1, <2>3, <3>1, <5>2, WrittenShaped
        <5>. QED  BY <5>1, <5>3
      <4>. QED  BY <4>1, <4>2
    <3>. QED  BY <3>2, <3>3
  <2>. QED  BY <2>2, <2>3
<1>8. CASE \/ NewYear \/ Accept \/ BeginRun \/ (\E sri \in offers.sris : setUpstreamSri(sri))
           \/ unsetUpstreamSri \/ UNCHANGED vars
  <2>1. streams' = streams
    BY <1>8 DEF NewYear, Accept, BeginRun, setUpstreamSri, unsetUpstreamSri, vars
  <2>. QED  BY <1>2, <2>1
<1>9. ASSUME NEW lost, NEW ttv, NEW hdr, NEW error, NEW turn,
             Arrive(lost, ttv, hdr, error, turn)
      PROVE  streams' = streams
  BY <1>9 DEF Arrive
<1>. QED  BY <1>2, <1>3, <1>4, <1>5, <1>6, <1>7, <1>8, <1>9 DEF Next

LEMMA CreatedByWrite ==
    ASSUME Placed, Write
    PROVE  Created'
<1>1. 8 \in Formats
  BY DEF Formats
<1>2. Shaped(OpenStreams) /\ OpenStreams[8].open
  BY <1>1, OpenShaped DEF Placed, OpenStreams, Created, NewStreams
<1>3. CASE m_bps \notin Formats
  BY <1>2, <1>3 DEF Write, Created
<1>4. CASE m_bps \in Formats
  <2>1. streams' = WithPacket(OpenStreams)
    BY <1>4 DEF Write, WithPacket
  <2>. QED  BY <1>1, <1>2, <1>4, <2>1, WrittenShaped DEF Created
<1>. QED  BY <1>3, <1>4

Due == OneFormat /\ Distinguishable /\ (NoPriority \/ ToldApart) => WrittenAsDue

LEMMA DueStep ==
    ASSUME Placed, Typed, Known, Ruled, SriKept, SriKept', Due, [Next]_vars
    PROVE  Due'
<1>1. offers' = offers
  BY WorldStep
<1>2. /\ OneFormat' = OneFormat /\ NoPriority' = NoPriority /\ ToldApart' = ToldApart
      /\ Xdeltas' = Xdeltas /\ Distinguishable' = Distinguishable
  BY <1>1 DEF OneFormat, NoPriority, ToldApart, Xdeltas, Distinguishable
<1>. SUFFICES ASSUME OneFormat, Distinguishable, NoPriority \/ ToldApart,
                     NEW b \in Formats, NEW i \in DOMAIN streams'[b].block
              PROVE  /\ streams'[b].sri.xdelta = streams'[b].block[i].xdelta
                     /\ streams'[b].sri.mode = streams'[b].block[i].mode
  BY <1>2 DEF Due, WrittenAsDue
<1>3. CASE /\ i \in DOMAIN streams[b].block /\ streams'[b].block[i] = streams[b].block[i]
           /\ streams'[b].sri = streams[b].sri
  BY <1>3 DEF Due, WrittenAsDue
<1>4. CASE Write /\ b = m_bps /\ streams'[b].block[i] = Item
  <2>1. m_sri' = m_sri /\ pc # "next" /\ m_bps' = m_bps
    BY <1>4 DEF Write, sriVars
  <2>2. PICK hdr \in offers.headers : m_bps = Bits(hdr)
    BY <2>1 DEF Placed, SriKept
  <2>3. Created'
    BY <1>4, CreatedByWrite
  <2>4. streams'[b].sri.xdelta = m_sri.xdelta /\ streams'[b].sri.mode = m_sri.mode
    BY <1>1, <1>2, <1>4, <2>1, <2>2, <2>3 DEF SriKept, Agrees
  <2>5. DueNow
    BY <1>4, WriteIsDue
  <2>. QED  BY <1>4, <2>4, <2>5 DEF Item, DueNow
<1>. QED  BY <1>3, <1>4, WrittenUnder

LEMMA DueAlways == Spec => []Due
<1>1. Init => Due
  BY NoShaped, EmptyIsSeq DEF Init, Due, WrittenAsDue, Empty
<1>2. Placed /\ Typed /\ Known /\ Ruled /\ SriKept /\ SriKept' /\ Due /\ [Next]_vars => Due'
  BY DueStep
<1>. QED  BY <1>1, <1>2, PlacedAlways, TypedAlways, KnownAlways, RuledAlways, SriKeptAlways,
          PTL DEF Spec

(***************************************************************************)
(* Whatever SRI without priority comes and goes, and whatever is lost,     *)
(* discarded, restarted or found not to conform, the packets a stream      *)
(* holds have its rate and mode in their own headers.                      *)
(***************************************************************************)
THEOREM HeaderRateIsUsed == Spec => []RateFromHeader
<1>1. Due => RateFromHeader
  BY DEF Due, NoPriority, RateFromHeader
<1>. QED  BY <1>1, DueAlways, PTL

(***************************************************************************)
(* From the first packet that finds an SRI with priority until detach, the *)
(* packets are written under the rate of the SRI supplied last, and all    *)
(* others under their header's, of SRI that compareSRI tells apart.        *)
(***************************************************************************)
THEOREM UpstreamRateIsUsed == Spec => []RateFromUpstream
<1>1. Due => RateFromUpstream
  BY DEF Due, RateFromUpstream
<1>. QED  BY <1>1, DueAlways, PTL

-----------------------------------------------------------------------------
(***************************************************************************)
(* The year.  Of a source whose time does not go back, the processor       *)
(* remembers the year of the last packet it aggregated, if that has a      *)
(* valid time tag, and the start of the year it was stamped with.          *)
(***************************************************************************)
Forward ==
    /\ pkt # NoPacket => pkt.year = source.year
    /\ m_last_sdds_time.age >= 0
    /\ m_last_sdds_time.set => m_last_sdds_time.year <= source.year

InYear(block) ==
    \A i \in 1..Len(block) - 1 :
        /\ block[i].ttv /\ block[i].stamp = block[i].year
        /\ block[i + 1].year \in {block[i].year, block[i + 1].clock}
        => block[i + 1].stamp = block[i + 1].year

Dated(block) ==
    block # <<>> /\ block[Len(block)].ttv =>
        /\ m_last_sdds_time.set /\ m_last_sdds_time.year = block[Len(block)].year
        /\ m_start_of_year = block[Len(block)].stamp

Years == /\ Forward
         /\ \A b \in Formats : InYear(streams[b].block) /\ Dated(streams[b].block)

LEMMA DurationPositive ==
    ASSUME NEW hdr \in HeaderType
    PROVE  Duration(hdr) \in Nat
<1>. DEFINE samples == IF Bits(hdr) < 8 THEN SDDS_DATA_SIZE
                       ELSE SamplesPerPacket(Bits(hdr), hdr.cx)
<1>1. \A a \in Nat : \A b \in Nat \ {0} : a \div b \in Nat
  <2>1. SUFFICES ASSUME NEW a \in Nat, NEW b \in Nat \ {0} PROVE a \div b >= 0
    BY Dividing
  <2>2. a \div b \in Int /\ a = b * (a \div b) + (a % b) /\ a % b < b
    BY Dividing
  <2>. DEFINE q == a \div b
  <2>3. b * (q + 1) = b * q + b
    BY <2>2
  <2>. HIDE DEF q
  <2>4. b * 0 < b * (q + 1)
    BY <2>2, <2>3 DEF q
  <2>5. 0 < q + 1
    BY <2>2, <2>4, SmallerFactor DEF q
  <2>. QED  BY <2>2, <2>5 DEF q
<1>2. samples \in Nat
  <2>1. Bits(hdr) < 8 \/ Bits(hdr) \in 8..32
    BY BitsType
  <2>2. ASSUME Bits(hdr) \in 8..32 PROVE SamplesPerPacket(Bits(hdr), hdr.cx) \in Nat
    <3>. DEFINE n == SDDS_DATA_SIZE \div (Bits(hdr) \div 8)
    <3>1. Bits(hdr) \div 8 \in Nat \ {0}
      BY <2>2
    <3>2. n \in Nat
      BY <1>1, <3>1, ProcessorAssumption
    <3>. HIDE DEF n
    <3>3. n \div 2 \in Nat
      BY <1>1, <3>2
    <3>. QED  BY <3>2, <3>3 DEF SamplesPerPacket, n
  <2>. QED  BY <2>1, <2>2, ProcessorAssumption
<1>. HIDE DEF samples
<1>3. CASE hdr.xdelta = Infinite
  BY <1>3 DEF Duration
<1>4. CASE hdr.xdelta # Infinite
  <2>1. hdr.xdelta \in Nat
    BY <1>4 DEF HeaderType
  <2>2. samples * hdr.xdelta \in Nat
    BY <1>2, <2>1
  <2>3. (samples * hdr.xdelta) \div 2 \in Nat /\ (samples * hdr.xdelta) \div 1 \in Nat
    BY <1>1, <2>2
  <2>. QED  BY <1>4, <2>3 DEF Duration, samples
<1>. QED  BY <1>3, <1>4

LEMMA ArrivesForward ==
    ASSUME Typed, Forward, offers.errors = {0},
           NEW lost \in offers.gaps, NEW ttv \in offers.ttv, NEW hdr \in offers.headers,
           NEW error \in offers.errors, NEW turn \in BOOLEAN,
           Arrive(lost, ttv, hdr, error, turn)
    PROVE  Forward'
<1>1. source.hdr \in HeaderType /\ source.year \in Nat /\ offers \in Offers
      /\ DOMAIN source = {"kind", "seq", "hdr", "year"}
  BY DEF Typed, WorldTyped
<1>2. Duration(source.hdr) \in Nat /\ lost + 1 \in Nat /\ error = 0 /\ offers.maxElapsed \in Nat
  BY <1>1, DurationPositive, OffersTyped
<1>3. (lost + 1) * Duration(source.hdr) \in Nat
  BY <1>2
<1>. DEFINE year == source.year + (IF turn THEN 1 ELSE 0)
            age  == m_last_sdds_time.age + (lost + 1) * Duration(source.hdr) + error
<1>4. pkt'.year = year /\ source'.year = year
  BY <1>1 DEF Arrive
<1>5. year \in Nat /\ source.year <= year
  BY <1>1
<1>6. CASE ~m_last_sdds_time.set
  <2>1. m_last_sdds_time' = NoTime
    BY <1>6 DEF Arrive
  <2>. QED  BY <1>4, <2>1 DEF Forward, NoTime
<1>7. CASE m_last_sdds_time.set
  <2>1. m_last_sdds_time \in [set : BOOLEAN, age : Int, year : Nat]
    BY DEF Typed, YearTyped
  <2>2. m_last_sdds_time' = [m_last_sdds_time EXCEPT !.age = Saturated(age)]
    BY <1>7 DEF Arrive
  <2>3. age \in Int /\ age >= 0
    BY <1>2, <1>3, <2>1 DEF Forward
  <2>. HIDE DEF age
  <2>4. Saturated(age) \in Int /\ Saturated(age) >= 0
    BY <1>2, <2>3 DEF Saturated
  <2>5. m_last_sdds_time'.age >= 0 /\ m_last_sdds_time'.year = m_last_sdds_time.year
    BY <2>1, <2>2, <2>4
  <2>6. m_last_sdds_time.year <= source.year /\ m_last_sdds_time.year \in Nat
    BY <1>7, <2>1 DEF Forward
  <2>. HIDE DEF year
  <2>7. m_last_sdds_time'.year <= source'.year
    BY <1>1, <1>4, <1>5, <2>5, <2>6
  <2>. QED  BY <1>4, <2>5, <2>7 DEF Forward
<1>. QED  BY <1>6, <1>7

LEMMA ForwardStep ==
    ASSUME Placed, Typed, Forward, offers.errors = {0}, [Next]_vars
    PROVE  Forward'
<1>1. ASSUME UNCHANGED <<source, pkt, m_last_sdds_time>> PROVE Forward'
  BY <1>1 DEF Forward
<1>2. ASSUME UNCHANGED source, pkt' \in {pkt, NoPacket}, m_last_sdds_time' \in {m_last_sdds_time, NoTime}
      PROVE  Forward'
  BY <1>2 DEF Forward, NoTime
<1>3. CASE \/ NewYear \/ DiscardInvalid \/ LosePackets \/ ChangeTtv \/ Accept \/ ChangeSri
           \/ MergeUpstream \/ (\E sri \in offers.sris : setUpstreamSri(sri)) \/ unsetUpstreamSri
           \/ EndRun \/ UNCHANGED vars
  BY <1>2, <1>3 DEF NewYear, DiscardInvalid, LosePackets, ChangeTtv, Accept, ChangeSri,
     MergeUpstream, setUpstreamSri, unsetUpstreamSri, EndRun, worldVars, yearVars, vars
<1>4. CASE BeginRun
  <2>1. source'.year = source.year /\ UNCHANGED <<pkt, m_last_sdds_time>>
    BY <1>4 DEF BeginRun, yearVars, Typed, WorldTyped
  <2>. QED  BY <2>1 DEF Forward
<1>5. CASE Write
  <2>1. UNCHANGED source /\ pkt' = NoPacket
    BY <1>5 DEF Write, worldVars
  <2>2. m_last_sdds_time' \in {m_last_sdds_time, [set |-> TRUE, age |-> 0, year |-> pkt.year]}
    BY <1>5 DEF Write, checkForTimeSlip
  <2>3. pkt.year = source.year /\ source.year \in Nat
    BY <1>5 DEF Write, Forward, Typed, PktTyped, WorldTyped
  <2>. QED  BY <2>1, <2>2, <2>3 DEF Forward
<1>. QED  BY <1>3, <1>4, <1>5, ArrivesForward DEF Next

\* The stamp of the packet that is written, after one of the same block.
LEMMA StampFollows ==
    ASSUME Placed, Typed, Forward, Write,
           NEW last, last.ttv,
           m_last_sdds_time.set, m_last_sdds_time.year = last.year,
           m_start_of_year = last.stamp, last.stamp = last.year,
           Item.year \in {last.year, Item.clock}
    PROVE  Item.stamp = Item.year
<1>1. pkt.year \in Nat /\ pkt.year = source.year /\ m_last_sdds_time.year <= pkt.year
  BY DEF Write, Forward, Typed, PktTyped, PacketType
<1>2. m_last_sdds_time.age \in Int /\ m_last_sdds_time.age >= 0 /\ m_last_sdds_time.year \in Nat
  BY DEF Forward, Typed, YearTyped
<1>3. Item.stamp = StartOfYear /\ Item.year = pkt.year /\ Item.clock = clock
  BY DEF Item
<1>4. CASE pkt.year = last.year
  <2>1. ~TimeWentBack
    BY <1>1, <1>2, <1>4 DEF TimeWentBack
  <2>. QED  BY <1>3, <1>4, <2>1 DEF StartOfYear
<1>5. CASE pkt.year # last.year
  <2>1. TimeWentBack
    BY <1>1, <1>2, <1>5 DEF TimeWentBack
  <2>. QED  BY <1>3, <1>5, <2>1 DEF StartOfYear, getStartOfYear
<1>. QED  BY <1>4, <1>5

\* After a write, the last packet of its block is what is remembered.
LEMMA WriteDates ==
    ASSUME Typed, Write, Item.ttv
    PROVE  /\ m_last_sdds_time'.set /\ m_last_sdds_time'.year = Item.year
           /\ m_start_of_year' = Item.stamp
<1>1. Item.ttv = pkt.ttv /\ Item.year = pkt.year /\ Item.stamp = StartOfYear
  BY DEF Item
<1>2. m_last_sdds_time' = [set |-> TRUE, age |-> 0, year |-> pkt.year]
  BY <1>1 DEF Write, checkForTimeSlip
<1>. QED  BY <1>1, <1>2 DEF Write

LEMMA WriteInYear ==
    ASSUME Placed, Typed, InStep, Years, Write, NEW b \in Formats
    PROVE  InYear(streams'[b].block) /\ Dated(streams[b].block)'
<1>1. CASE streams'[b].block = <<>>
  BY <1>1, EmptyIsSeq DEF InYear, Dated
<1>2. CASE streams'[b].block # <<>>
  <2>1. Aggregates /\ b = m_bps
    BY <1>2, WriteBlocks, WriteInStep
  <2>. DEFINE old == streams[b].block
              new == streams'[b].block
  <2>2. /\ Item.ttv => /\ m_last_sdds_time'.set /\ m_last_sdds_time'.year = Item.year
                       /\ m_start_of_year' = Item.stamp
    BY WriteDates
  <2>3. CASE new = <<Item>>
    <3>. HIDE DEF Item
    <3>1. Len(new) = 1 /\ new[1] = Item
      BY <2>3, OneIsSeq
    <3>. QED  BY <2>2, <3>1 DEF InYear, Dated
  <2>4. CASE new = Append(old, Item) /\ old # <<>>
    <3>1. /\ Len(old) \in Nat /\ Len(new) = Len(old) + 1
          /\ \A i \in 1..Len(old) : new[i] = old[i]
          /\ new[Len(old) + 1] = Item
      <4>. HIDE DEF Item
      <4>. QED  BY <2>4, AppendIsSeq DEF Placed, Shaped, IsStream
    <3>2. InYear(old) /\ Dated(old)
      BY DEF Years
    <3>3. Len(old) # 0
      BY <2>4, EmptySeq DEF Placed, Shaped, IsStream, IsSeq
    <3>. DEFINE last == old[Len(old)]
    <3>4. ASSUME last.ttv, last.stamp = last.year, Item.year \in {last.year, Item.clock}
          PROVE  Item.stamp = Item.year
      <4>1. /\ m_last_sdds_time.set /\ m_last_sdds_time.year = last.year
            /\ m_start_of_year = last.stamp
        BY <2>4, <3>2, <3>4 DEF Dated
      <4>. HIDE DEF last, Item
      <4>. QED  BY <3>4, <4>1, StampFollows DEF Years
    <3>. HIDE DEF old, new, Item
    <3>5. ASSUME NEW i \in 1..Len(new) - 1,
                 new[i].ttv, new[i].stamp = new[i].year,
                 new[i + 1].year \in {new[i].year, new[i + 1].clock}
          PROVE  new[i + 1].stamp = new[i + 1].year
      <4>1. CASE i = Len(old)
        <5>1. new[i] = last /\ new[i + 1] = Item
          BY <3>1, <3>3, <4>1
        <5>. QED  BY <3>4, <3>5, <5>1
      <4>2. CASE i # Len(old)
        <5>1. i \in 1..Len(old) - 1 /\ i \in 1..Len(old) /\ i + 1 \in 1..Len(old)
          BY <3>1, <4>2
        <5>. QED  BY <3>1, <3>2, <3>5, <5>1 DEF InYear
      <4>. QED  BY <4>1, <4>2
    <3>6. InYear(new)
      BY <3>5 DEF InYear
    <3>7. Dated(streams[b].block)'
      BY <2>2, <3>1 DEF Dated, new
    <3>. QED  BY <3>6, <3>7 DEF new
  <2>5. CASE new = Append(old, Item) /\ old = <<>>
    <3>. HIDE DEF Item
    <3>1. new = <<Item>>
      BY <2>5, OneIsSeq
    <3>. QED  BY <2>3, <3>1
  <2>6. new = <<Item>> \/ new = Append(old, Item)
    BY <2>1 DEF Aggregates
  <2>. QED  BY <2>3, <2>4, <2>5, <2>6
<1>. QED  BY <1>1, <1>2

LEMMA YearsStep ==
    ASSUME Placed, Typed, InStep, Years, offers.errors = {0}, [Next]_vars
    PROVE  Years'
<1>1. Forward'
  BY ForwardStep DEF Years
<1>2. CASE Write
  BY <1>1, <1>2, WriteInYear DEF Years, InYear
<1>3. CASE ~Write
  <2>1. Pushes
    BY <1>3, PlacedStep DEF Aggregates
  <2>2. \/ Empty(streams')
        \/ /\ m_start_of_year' = m_start_of_year
           /\ m_last_sdds_time.set => /\ m_last_sdds_time'.set
                                      /\ m_last_sdds_time'.year = m_last_sdds_time.year
    <3>1. CASE Accept
      BY <3>1 DEF Accept, Placed, Empty
    <3>2. CASE ChangeSri
      <4>1. m_bps \in Formats => streams'[m_bps].block = <<>>
        BY <3>2, OpenShaped, WithSriShaped DEF ChangeSri, Placed
      <4>. QED  BY <2>1, <4>1 DEF Pushes, InStep, Empty
    <3>3. ASSUME NEW lost, NEW ttv, NEW hdr, NEW error, NEW turn,
                 Arrive(lost, ttv, hdr, error, turn)
          PROVE  /\ m_start_of_year' = m_start_of_year
                 /\ m_last_sdds_time.set => /\ m_last_sdds_time'.set
                                            /\ m_last_sdds_time'.year = m_last_sdds_time.year
      BY <3>3 DEF Arrive, Typed, YearTyped
    <3>. QED
      BY <1>3, <3>1, <3>2, <3>3 DEF Next, NewYear, DiscardInvalid, LosePackets, ChangeTtv,
         MergeUpstream, setUpstreamSri, unsetUpstreamSri, EndRun, BeginRun, yearVars, vars
  <2>3. ASSUME NEW b \in Formats
        PROVE  InYear(streams[b].block)' /\ Dated(streams[b].block)'
    <3>1. CASE streams'[b].block = <<>>
      BY <3>1, EmptyIsSeq DEF InYear, Dated
    <3>2. CASE streams'[b].block # <<>>
      <4>1. streams'[b].block = streams[b].block
        BY <2>1, <3>2 DEF Pushes
      <4>. QED  BY <2>2, <3>2, <4>1 DEF Years, InYear, Dated, Empty
    <3>. QED  BY <3>1, <3>2
  <2>. QED  BY <1>1, <2>3 DEF Years
<1>. QED  BY <1>2, <1>3

(***************************************************************************)
(* In a contiguous run of packets with valid time tags, stamps stay in the *)
(* right year when the year turns under it, if the host's clock shows the  *)
(* new year by then; over any number of years.                             *)
(***************************************************************************)
THEOREM YearIsFollowed == Spec => []YearFollowed
<1>. DEFINE Kept == offers.errors = {0} => Years
<1>1. Init => Kept
  BY NoShaped, EmptyIsSeq DEF Init, Years, Forward, InYear, Dated, NoTime, Empty
<1>2. Placed /\ Typed /\ InStep /\ Kept /\ [Next]_vars => Kept'
  <2>1. SUFFICES ASSUME Placed, Typed, InStep, Kept, [Next]_vars PROVE Kept'
    OBVIOUS
  <2>2. offers' = offers
    BY <2>1, WorldStep
  <2>. QED  BY <2>1, <2>2, YearsStep
<1>3. Kept => YearFollowed
  BY DEF Years, InYear, YearFollowed
<1>. HIDE DEF Kept
<1>. QED  BY <1>1, <1>2, <1>3, PlacedAlways, TypedAlways, InStepAlways, PTL DEF Spec

-----------------------------------------------------------------------------
(***************************************************************************)
(* Lemmas about division, and about numbers that are equal modulo          *)
(* SeqModulus: their difference is a multiple of it.                       *)
(***************************************************************************)
LEMMA DividingUnique ==
    ASSUME NEW a \in Int, NEW b \in Nat \ {0}, NEW q \in Int, NEW r \in 0..b - 1,
           a = b * q + r
    PROVE  a \div b = q /\ a % b = r
<1>. DEFINE p == a \div b
            t == a % b
<1>1. p \in Int /\ t \in 0..b - 1 /\ a = b * p + t
  BY Dividing
<1>. HIDE DEF p, t
<1>2. b * p \in Int /\ b * q \in Int /\ b * (p + 1) = b * p + b /\ b * (q + 1) = b * q + b
  BY <1>1
<1>3. b * p < b * (q + 1) /\ b * q < b * (p + 1)
  BY <1>1, <1>2
<1>4. p < q + 1 /\ q < p + 1
  BY <1>1, <1>3, SmallerFactor
<1>5. p = q
  BY <1>1, <1>4
<1>6. t = r
  BY <1>1, <1>2, <1>5
<1>. QED  BY <1>5, <1>6 DEF p, t

Multiple(x) == \E k \in Int : x = SeqModulus * k

LEMMA Multiples ==
    /\ Multiple(0)
    /\ \A k \in Int : Multiple(SeqModulus * k)
    /\ \A x, y \in Int : Multiple(x) /\ Multiple(y) => Multiple(x + y) /\ Multiple(x - y)
<1>1. SeqModulus \in Int
  BY ProcessorAssumption
<1>2. 0 = SeqModulus * 0
  BY <1>1
<1>3. ASSUME NEW x \in Int, NEW y \in Int, Multiple(x), Multiple(y)
      PROVE  Multiple(x + y) /\ Multiple(x - y)
  <2>1. PICK j \in Int : x = SeqModulus * j
    BY <1>3 DEF Multiple
  <2>2. PICK k \in Int : y = SeqModulus * k
    BY <1>3 DEF Multiple
  <2>3. x + y = SeqModulus * (j + k) /\ x - y = SeqModulus * (j - k)
    BY <1>1, <2>1, <2>2
  <2>. QED  BY <2>3 DEF Multiple
<1>. QED  BY <1>2, <1>3 DEF Multiple

LEMMA Remainders ==
    /\ SeqModulus \in Nat \ {0, 1}
    /\ \A x \in Int : x % SeqModulus \in 0..SeqModulus - 1 /\ Multiple(x - (x % SeqModulus))
    /\ \A x \in Int : Multiple(x) <=> x % SeqModulus = 0
    /\ \A x \in -(SeqModulus - 1)..SeqModulus - 1 : Multiple(x) => x = 0
<1>1. /\ SeqModulus \in Nat \ {0} /\ SeqModulus % ChecksumPeriod = 0
      /\ ChecksumPeriod \in Nat \ {0, 1}
  BY ProcessorAssumption
<1>2. SeqModulus # 1
  <2>1. SeqModulus = ChecksumPeriod * (SeqModulus \div ChecksumPeriod)
        /\ SeqModulus \div ChecksumPeriod \in Int
    BY <1>1, Dividing
  <2>2. 1 % ChecksumPeriod = 1
    <3>1. 1 = ChecksumPeriod * 0 + 1 /\ 1 \in 0..ChecksumPeriod - 1
      BY <1>1
    <3>. QED  BY <1>1, <3>1, DividingUnique
  <2>. QED  BY <1>1, <2>2
<1>3. ASSUME NEW x \in Int
      PROVE  x % SeqModulus \in 0..SeqModulus - 1 /\ Multiple(x - (x % SeqModulus))
  <2>. DEFINE q == x \div SeqModulus
              r == x % SeqModulus
  <2>1. q \in Int /\ r \in 0..SeqModulus - 1 /\ x = SeqModulus * q + r
    BY <1>1, Dividing
  <2>. HIDE DEF q, r
  <2>2. SeqModulus * q \in Int
    BY <1>1, <2>1
  <2>3. x - r = SeqModulus * q
    BY <2>1, <2>2
  <2>. QED  BY <2>1, <2>3 DEF Multiple, r
<1>4. ASSUME NEW x \in Int PROVE Multiple(x) <=> x % SeqModulus = 0
  <2>1. ASSUME Multiple(x) PROVE x % SeqModulus = 0
    <3>1. PICK k \in Int : x = SeqModulus * k
      BY <2>1 DEF Multiple
    <3>2. x = SeqModulus * k + 0 /\ 0 \in 0..SeqModulus - 1
      BY <1>1, <3>1
    <3>. QED  BY <1>1, <3>2, DividingUnique
  <2>2. ASSUME x % SeqModulus = 0 PROVE Multiple(x)
    BY <1>3, <2>2
  <2>. QED  BY <2>1, <2>2
<1>5. ASSUME NEW x \in -(SeqModulus - 1)..SeqModulus - 1, Multiple(x) PROVE x = 0
  <2>1. PICK k \in Int : x = SeqModulus * k
    BY <1>5 DEF Multiple
  <2>2. SeqModulus * 0 < SeqModulus * (k + 1) /\ SeqModulus * k < SeqModulus * 1
    <3>1. SeqModulus * (k + 1) = SeqModulus * k + SeqModulus /\ SeqModulus * k \in Int
      BY <1>1, <2>1
    <3>. QED  BY <1>1, <1>5, <2>1, <3>1
  <2>3. 0 < k + 1 /\ k < 1
    BY <1>1, <2>1, <2>2, SmallerFactor
  <2>4. k = 0
    BY <2>1, <2>3
  <2>. QED  BY <1>1, <2>1, <2>4
<1>. QED  BY <1>1, <1>2, <1>3, <1>4, <1>5

LEMMA Remainder ==
    ASSUME NEW x \in Int
    PROVE  x % SeqModulus \in 0..SeqModulus - 1 /\ Multiple(x - (x % SeqModulus))
BY ONLY Remainders

-----------------------------------------------------------------------------
(***************************************************************************)
(* Lemmas about the wire: the numbers that are sent are no checksum        *)
(* numbers, and what the model counts as missed is right modulo            *)
(* SeqModulus.                                                             *)
(***************************************************************************)
PerPeriod == ChecksumPeriod - 1
Periods   == SeqModulus \div ChecksumPeriod

LEMMA Cycle ==
    /\ ChecksumPeriod \in Nat \ {0, 1}
    /\ PerPeriod \in Nat \ {0} /\ ChecksumPeriod = PerPeriod + 1
    /\ Periods \in Nat \ {0}
    /\ SeqModulus = ChecksumPeriod * Periods
    /\ SentPerCycle = PerPeriod * Periods
<1>1. /\ ChecksumPeriod \in Nat \ {0, 1} /\ SeqModulus \in Nat \ {0}
      /\ SeqModulus % ChecksumPeriod = 0
  BY ProcessorAssumption
<1>2. PerPeriod \in Nat \ {0} /\ ChecksumPeriod = PerPeriod + 1
  BY <1>1 DEF PerPeriod
<1>3. Periods \in Int /\ SeqModulus = ChecksumPeriod * Periods
  BY <1>1, Dividing DEF Periods
<1>4. Periods > 0
  <2>1. ChecksumPeriod * 0 < ChecksumPeriod * Periods
    BY <1>1, <1>3
  <2>. QED  BY <1>1, <1>3, <2>1, SmallerFactor
<1>5. SentPerCycle = PerPeriod * Periods
  <2>1. SentPerCycle = SeqModulus - Periods
    BY DEF SentPerCycle, Periods
  <2>2. ChecksumPeriod * Periods = PerPeriod * Periods + Periods /\ PerPeriod * Periods \in Int
    BY <1>2, <1>3
  <2>. QED  BY <1>3, <2>1, <2>2
<1>. QED  BY <1>1, <1>2, <1>3, <1>4, <1>5

\* A number is a checksum number by its place in its period.
LEMMA PlaceInPeriod ==
    ASSUME NEW j \in Int, NEW r \in 0..ChecksumPeriod - 1
    PROVE  IsChecksum(ChecksumPeriod * j + r) <=> r = ChecksumPeriod - 1
<1>1. ChecksumPeriod * j + r \in Int /\ ChecksumPeriod \in Nat \ {0}
  BY Cycle
<1>2. (ChecksumPeriod * j + r) % ChecksumPeriod = r
  BY <1>1, DividingUnique
<1>. QED  BY <1>2 DEF IsChecksum

LEMMA SentNotChecksum ==
    ASSUME NEW n \in Int
    PROVE  ~IsChecksum(SeqSent(n))
<1>. DEFINE k == n % SentPerCycle
            j == k \div PerPeriod
            r == k % PerPeriod
<1>1. k \in Int
  BY SentPerCycleType, Dividing
<1>2. j \in Int /\ r \in 0..PerPeriod - 1 /\ k = PerPeriod * j + r
  <2>. HIDE DEF k
  <2>. QED  BY <1>1, Cycle, Dividing
<1>3. SeqSent(n) = k + j
  BY DEF SeqSent, PerPeriod
<1>. HIDE DEF k, j, r
<1>4. ChecksumPeriod * j = PerPeriod * j + j /\ PerPeriod * j \in Int
  BY <1>2, Cycle
<1>5. SeqSent(n) = ChecksumPeriod * j + r /\ r \in 0..ChecksumPeriod - 1 /\ r # ChecksumPeriod - 1
  BY <1>1, <1>2, <1>3, <1>4, Cycle
<1>. QED  BY <1>2, <1>5, PlaceInPeriod

LEMMA FollowingNotChecksum ==
    ASSUME NEW s \in 0..SeqModulus - 1
    PROVE  Following(s) \in 0..SeqModulus - 1 /\ ~IsChecksum(Following(s))
<1>. DEFINE t == (s + 1) % SeqModulus
<1>1. t \in 0..SeqModulus - 1 /\ SeqModulus \in Nat \ {0, 1}
  BY Remainders
<1>. HIDE DEF t
<1>2. CASE ~IsChecksum(t)
  BY <1>1, <1>2 DEF Following, t
<1>3. CASE IsChecksum(t)
  <2>. DEFINE u == (t + 1) % SeqModulus
              j == t \div ChecksumPeriod
  <2>1. Following(s) = u /\ u \in 0..SeqModulus - 1
    <3>1. t + 1 \in Int
      BY <1>1
    <3>2. u \in 0..SeqModulus - 1
      BY <3>1, Remainder
    <3>3. Following(s) = u
      BY <1>3 DEF Following, t
    <3>. QED  BY <3>2, <3>3
  <2>2. j \in Int /\ t = ChecksumPeriod * j + (ChecksumPeriod - 1)
    <3>1. t \in Int /\ ChecksumPeriod \in Nat \ {0}
      BY <1>1, Cycle
    <3>2. j \in Int /\ t = ChecksumPeriod * j + (t % ChecksumPeriod)
      BY <3>1, Dividing
    <3>3. t % ChecksumPeriod = ChecksumPeriod - 1
      BY <1>3 DEF IsChecksum
    <3>. QED  BY <3>2, <3>3
  <2>3. ChecksumPeriod * (j + 1) = ChecksumPeriod * j + ChecksumPeriod
        /\ ChecksumPeriod * j \in Int
    <3>. HIDE DEF j
    <3>. QED  BY <2>2, Cycle
  <2>. HIDE DEF j
  <2>4. t + 1 = ChecksumPeriod * (j + 1) + 0
    BY <2>2, <2>3, Cycle
  <2>5. u \in {t + 1, 0}
    <3>1. CASE t = SeqModulus - 1
      <4>1. SeqModulus = SeqModulus * 1 + 0 /\ 0 \in 0..SeqModulus - 1
        BY <1>1
      <4>2. SeqModulus % SeqModulus = 0
        BY <1>1, <4>1, DividingUnique
      <4>. QED  BY <1>1, <3>1, <4>2
    <3>2. CASE t # SeqModulus - 1
      <4>1. t + 1 \in 0..SeqModulus - 1 /\ t + 1 = SeqModulus * 0 + (t + 1)
        BY <1>1, <3>2
      <4>. QED  BY <1>1, <4>1, DividingUnique
    <3>. QED  BY <3>1, <3>2
  <2>. HIDE DEF u
  <2>6. \E i \in Int : u = ChecksumPeriod * i + 0
    <3>1. 0 = ChecksumPeriod * 0 + 0
      BY Cycle
    <3>. QED  BY <2>2, <2>4, <2>5, <3>1
  <2>7. 0 \in 0..ChecksumPeriod - 1 /\ 0 # ChecksumPeriod - 1
    BY Cycle
  <2>. QED  BY <2>1, <2>6, <2>7, PlaceInPeriod
<1>. QED  BY <1>2, <1>3

\* The checksum number that lies between a number and the one that follows it.
Between(s) == IF IsChecksum((s + 1) % SeqModulus) THEN 1 ELSE 0

LEMMA FollowingIs ==
    ASSUME NEW s \in 0..SeqModulus - 1
    PROVE  Multiple(Following(s) - s - 1 - Between(s))
<1>. DEFINE t == (s + 1) % SeqModulus
<1>1. t \in Int /\ Multiple(s + 1 - t) /\ SeqModulus \in Int
  <2>1. s + 1 \in Int
    OBVIOUS
  <2>2. t \in 0..SeqModulus - 1 /\ Multiple(s + 1 - t)
    BY <2>1, Remainder
  <2>. QED  BY <2>2, Remainders
<1>. HIDE DEF t
<1>2. Multiple(t - (s + 1))
  <2>1. 0 - (s + 1 - t) = t - (s + 1)
    BY <1>1
  <2>. QED  BY <1>1, <2>1, Multiples
<1>3. CASE ~IsChecksum(t)
  <2>1. Following(s) - s - 1 - Between(s) = t - (s + 1)
    BY <1>1, <1>3 DEF Following, Between, t
  <2>. QED  BY <1>2, <2>1
<1>4. CASE IsChecksum(t)
  <2>. DEFINE u == (t + 1) % SeqModulus
  <2>1. u \in Int /\ Multiple(t + 1 - u)
    <3>1. t + 1 \in Int
      BY <1>1
    <3>. DEFINE x == t + 1
    <3>. HIDE DEF x
    <3>2. x % SeqModulus \in 0..SeqModulus - 1 /\ Multiple(x - (x % SeqModulus))
      <4>1. x \in Int
        BY <3>1 DEF x
      <4>. QED  BY <4>1, Remainder
    <3>3. u = x % SeqModulus /\ x = t + 1
      BY DEF x
    <3>. HIDE DEF u
    <3>4. u \in Int /\ Multiple(x - u)
      BY <3>2, <3>3
    <3>5. x - u = t + 1 - u
      BY <1>1, <3>3, <3>4
    <3>. QED  BY <3>4, <3>5
  <2>2. Following(s) = u /\ Between(s) = 1
    BY <1>4 DEF Following, Between, t
  <2>. HIDE DEF u
  <2>3. Following(s) - s - 1 - Between(s) = (t - (s + 1)) - (t + 1 - u)
    BY <1>1, <2>1, <2>2
  <2>. QED  BY <1>1, <1>2, <2>1, <2>3, Multiples
<1>. QED  BY <1>3, <1>4

\* A repeated packet has the number of the one before.
LEMMA RepeatedIsSame ==
    ASSUME NEW s \in 0..SeqModulus - 1, ~IsChecksum(s)
    PROVE  SeqAfter(s, -1) = s
<1>. DEFINE i == s \div ChecksumPeriod
            r == s % ChecksumPeriod
<1>1. i \in Int /\ r \in 0..ChecksumPeriod - 1 /\ s = ChecksumPeriod * i + r
  <2>1. s \in Int /\ ChecksumPeriod \in Nat \ {0}
    BY Cycle
  <2>. QED  BY <2>1, Dividing
<1>2. r # ChecksumPeriod - 1
  BY DEF IsChecksum
<1>3. SeqAfter(s, -1) = SeqSent(s - i)
  <2>1. SeqAfter(s, -1) = SeqSent(s - i + -1 + 1)
    BY DEF SeqAfter
  <2>. HIDE DEF i
  <2>2. s - i + -1 + 1 = s - i
    BY <1>1
  <2>. QED  BY <2>1, <2>2
<1>. HIDE DEF i, r
<1>4. /\ ChecksumPeriod * i = PerPeriod * i + i /\ PerPeriod * i \in Int
      /\ ChecksumPeriod * (i + 1) = ChecksumPeriod * i + ChecksumPeriod
      /\ PerPeriod * (i + 1) = PerPeriod * i + PerPeriod
  BY <1>1, Cycle
<1>5. s - i = PerPeriod * i + r /\ r \in 0..PerPeriod - 1
  BY <1>1, <1>2, <1>4, Cycle
<1>6. i < Periods /\ 0 <= i
  <2>1. ChecksumPeriod * i < ChecksumPeriod * Periods
    BY <1>1, <1>4, Cycle, Remainders
  <2>2. ChecksumPeriod * 0 < ChecksumPeriod * (i + 1)
    BY <1>1, <1>4, Cycle, Remainders
  <2>3. i < Periods
    BY <1>1, <2>1, Cycle, SmallerFactor
  <2>4. 0 < i + 1
    BY <1>1, <2>2, Cycle, SmallerFactor
  <2>. QED  BY <1>1, <2>3, <2>4
<1>7. PerPeriod * (i + 1) <= PerPeriod * Periods /\ 0 <= PerPeriod * i
  <2>1. ~(PerPeriod * Periods < PerPeriod * (i + 1))
    <3>1. PerPeriod * Periods < PerPeriod * (i + 1) => Periods < i + 1
      BY <1>1, Cycle, SmallerFactor
    <3>. QED  BY <1>1, <1>6, <3>1, Cycle
  <2>2. PerPeriod * Periods \in Int
    BY Cycle
  <2>3. 0 <= PerPeriod * i
    BY <1>1, <1>6, Cycle
  <2>. QED  BY <1>1, <1>4, <2>1, <2>2, <2>3, Cycle
<1>8. s - i \in 0..SentPerCycle - 1
  <2>1. PerPeriod * Periods \in Int
    BY Cycle
  <2>. QED  BY <1>1, <1>4, <1>5, <1>7, <2>1, Cycle
<1>9. (s - i) % SentPerCycle = s - i
  <2>1. s - i = SentPerCycle * 0 + (s - i) /\ s - i \in Int
    BY <1>8, SentPerCycleType
  <2>. QED  BY <1>8, <2>1, SentPerCycleType, DividingUnique
<1>10. (s - i) \div PerPeriod = i
  <2>1. s - i \in Int
    BY <1>8
  <2>. QED  BY <1>1, <1>5, <2>1, Cycle, DividingUnique
<1>11. SeqSent(s - i) = (s - i) + i
  BY <1>9, <1>10 DEF SeqSent, PerPeriod
<1>. QED  BY <1>1, <1>3, <1>11

\* So a packet is as many numbers from the one that was due as NumbersMissed says.
LEMMA MissedIsDistance ==
    ASSUME NEW s \in 0..SeqModulus - 1, ~IsChecksum(s), NEW lost \in Nat \cup {-1}
    PROVE  Multiple(SeqAfter(s, lost) - Following(s) - NumbersMissed(s, lost))
<1>. DEFINE f == Following(s)
            a == SeqAfter(s, lost)
<1>1. f \in Int /\ s \in Int
  BY FollowingNotChecksum, Remainders
<1>2. a \in Int
  <2>1. s \div ChecksumPeriod \in Int
    BY <1>1, Cycle, Dividing
  <2>. DEFINE n == s - s \div ChecksumPeriod + lost + 1
  <2>2. n \in Int
    BY <1>1, <2>1
  <2>3. a = SeqSent(n)
    BY DEF SeqAfter
  <2>. HIDE DEF n
  <2>. QED  BY <2>2, <2>3, SeqSentType
<1>3. CASE lost = -1
  <2>. DEFINE m == (f - s) % SeqModulus
  <2>. HIDE DEF f
  <2>1. m \in Int /\ Multiple(f - s - m)
    <3>1. f - s \in Int
      BY <1>1
    <3>2. m \in 0..SeqModulus - 1 /\ Multiple(f - s - m)
      BY <3>1, Remainder
    <3>. QED  BY <3>2
  <2>2. a = s
    BY <1>3, RepeatedIsSame
  <2>3. NumbersMissed(s, lost) = -m
    BY <1>3 DEF NumbersMissed, f
  <2>. HIDE DEF m, a
  <2>4. a - f - NumbersMissed(s, lost) = 0 - (f - s - m)
    BY <1>1, <2>1, <2>2, <2>3
  <2>5. Multiple(0 - (f - s - m))
    BY <1>1, <2>1, Multiples
  <2>. QED  BY <2>4, <2>5 DEF a, f
<1>4. CASE lost # -1
  <2>. DEFINE m == (a - f) % SeqModulus
              c == SeqModulus * (lost \div SentPerCycle)
  <2>1. NumbersMissed(s, lost) = m + c
    BY <1>4 DEF NumbersMissed
  <2>. HIDE DEF a, f
  <2>2. m \in Int /\ Multiple(a - f - m)
    <3>1. a - f \in Int
      BY <1>1, <1>2
    <3>2. m \in 0..SeqModulus - 1 /\ Multiple(a - f - m)
      BY <3>1, Remainder
    <3>. QED  BY <3>2
  <2>3. lost \div SentPerCycle \in Int
    <3>1. lost \in Int
      OBVIOUS
    <3>. QED  BY <3>1, SentPerCycleType, Dividing
  <2>4. c \in Int /\ Multiple(c)
    <3>. DEFINE k == lost \div SentPerCycle
    <3>. HIDE DEF k
    <3>1. k \in Int /\ c = SeqModulus * k
      BY <2>3 DEF k
    <3>2. SeqModulus \in Int
      BY Remainders
    <3>. HIDE DEF c
    <3>3. c \in Int
      BY <3>1, <3>2
    <3>4. Multiple(SeqModulus * k)
      BY <3>1, Multiples
    <3>. QED  BY <3>1, <3>3, <3>4
  <2>. HIDE DEF m, c
  <2>5. a - f - NumbersMissed(s, lost) = (a - f - m) - c
    BY <1>1, <1>2, <2>1, <2>2, <2>4
  <2>6. Multiple((a - f - m) - c)
    BY <1>1, <1>2, <2>2, <2>4, Multiples
  <2>. QED  BY <2>5, <2>6 DEF a, f
<1>. QED  BY <1>3, <1>4

-----------------------------------------------------------------------------
(***************************************************************************)
(* The count of dropped packets.  Modulo SeqModulus the packet that waits, *)
(* or the one that would come next, is as far from the number that is      *)
(* expected as the numbers not yet found out say; and so many fit in one   *)
(* uint16_t, unless losses are ambiguous.                                  *)
(***************************************************************************)
Numbered ==
    /\ ~active => m_first_packet /\ pkt = NoPacket
    /\ ~IsChecksum(source.seq) /\ ~IsChecksum(m_expected_seq_number)
    /\ pkt # NoPacket => pkt.seq = source.seq

\* The checksum number before the next packet is missed with those before it.
Skip == IF pending % SeqModulus # 0 THEN Between(source.seq) ELSE 0

Ahead(n) == n - m_expected_seq_number - pending

Bounded ==
    /\ m_pkts_dropped = missed
    /\ pending \in 0..SeqModulus - 1
    /\ pkt # NoPacket => pending < SeqModulus - 1

Accounted ==
    /\ ~m_first_packet /\ pkt # NoPacket => Multiple(Ahead(source.seq))
    /\ ~m_first_packet /\ pkt = NoPacket => Multiple(Ahead(Following(source.seq)) - Skip)
    /\ Multiple(m_pkts_dropped - missed)
    /\ ~Ambiguous => Bounded

\* The types that are needed, in short.
LEMMA NumberTypes ==
    ASSUME Typed
    PROVE  /\ source.seq \in 0..SeqModulus - 1 /\ source.seq \in Int
           /\ m_expected_seq_number \in 0..SeqModulus - 1 /\ m_expected_seq_number \in Int
           /\ pending \in Int /\ missed \in Int /\ m_pkts_dropped \in Int
           /\ Following(source.seq) \in Int /\ Skip \in {0, 1}
           /\ SeqModulus \in Nat \ {0, 1} /\ DOMAIN source = {"kind", "seq", "hdr", "year"}
<1>1. /\ source.seq \in 0..SeqModulus - 1 /\ m_expected_seq_number \in 0..SeqModulus - 1
      /\ DOMAIN source = {"kind", "seq", "hdr", "year"}
      /\ pending \in Int /\ missed \in Int /\ m_pkts_dropped \in Int
  BY DEF Typed, WorldTyped, OrderTyped, RestTyped
<1>2. Following(source.seq) \in 0..SeqModulus - 1 /\ SeqModulus \in Nat \ {0, 1}
  BY <1>1, FollowingNotChecksum, Remainders
<1>3. Skip \in {0, 1}
  BY DEF Skip, Between
<1>. QED  BY <1>1, <1>2, <1>3

LEMMA NumberedStep == ASSUME Placed, Typed, Numbered, [Next]_vars PROVE Numbered'
<1>. USE DEF Numbered
<1>1. DOMAIN source = {"kind", "seq", "hdr", "year"}
  BY NumberTypes
<1>2. ASSUME NEW lost \in offers.gaps, NEW ttv, NEW hdr, NEW error, NEW turn,
             Arrive(lost, ttv, hdr, error, turn)
      PROVE  Numbered'
  <2>1. /\ source'.seq = SeqAfter(source.seq, lost) /\ pkt'.seq = SeqAfter(source.seq, lost)
        /\ active /\ UNCHANGED <<active, m_expected_seq_number>>
    BY <1>1, <1>2 DEF Arrive, threadVars, orderVars
  <2>2. ~IsChecksum(SeqAfter(source.seq, lost))
    <3>. DEFINE n == source.seq - source.seq \div ChecksumPeriod + lost + 1
    <3>1. n \in Int
      <4>1. source.seq \in Int /\ lost \in Int
        BY NumberTypes, OffersTyped DEF Typed, WorldTyped
      <4>2. source.seq \div ChecksumPeriod \in Int
        BY <4>1, ProcessorAssumption, Dividing
      <4>. QED  BY <4>1, <4>2
    <3>2. SeqAfter(source.seq, lost) = SeqSent(n)
      BY DEF SeqAfter
    <3>. HIDE DEF n
    <3>. QED  BY <3>1, <3>2, SentNotChecksum
  <2>. QED  BY <2>1, <2>2
<1>3. CASE Accept
  <2>1. m_expected_seq_number' \in {pkt.seq, m_expected_seq_number} /\ pkt # NoPacket
    BY <1>3 DEF Accept, InTurn
  <2>2. active /\ UNCHANGED <<active, pkt, source>>
    BY <1>3 DEF Accept, InTurn, threadVars, worldVars
  <2>. QED  BY <2>1, <2>2
<1>4. CASE Write
  <2>1. m_expected_seq_number' = Following(m_expected_seq_number)
    BY <1>4, NextIsFollowing DEF Write
  <2>2. ~IsChecksum(Following(m_expected_seq_number))
    BY NumberTypes, FollowingNotChecksum
  <2>3. active /\ pkt' = NoPacket /\ UNCHANGED <<active, source>>
    BY <1>4 DEF Write, threadVars, worldVars, Placed
  <2>. QED  BY <2>1, <2>2, <2>3
<1>5. CASE BeginRun
  <2>1. source'.seq # source.seq => ~IsChecksum(source'.seq)
    BY <1>1, <1>5 DEF BeginRun
  <2>2. active' /\ pkt = NoPacket /\ UNCHANGED <<pkt, m_expected_seq_number>>
    BY <1>5 DEF BeginRun, orderVars
  <2>. QED  BY <2>1, <2>2
<1>6. CASE DiscardInvalid \/ EndRun
  BY <1>6 DEF DiscardInvalid, EndRun, InTurn, threadVars, worldVars, orderVars
<1>7. CASE LosePackets
  BY <1>7 DEF LosePackets, InTurn, threadVars, worldVars
<1>8. CASE \/ NewYear \/ ChangeTtv \/ MergeUpstream \/ ChangeSri
           \/ (\E sri \in offers.sris : setUpstreamSri(sri)) \/ unsetUpstreamSri \/ UNCHANGED vars
  <2>1. UNCHANGED <<active, m_first_packet, pkt, source, m_expected_seq_number>>
    BY <1>8 DEF NewYear, ChangeTtv, MergeUpstream, ChangeSri, setUpstreamSri,
       unsetUpstreamSri, threadVars, orderVars, worldVars, vars
  <2>. QED  BY <2>1
<1>. QED  BY <1>2, <1>3, <1>4, <1>5, <1>6, <1>7, <1>8 DEF Next

LEMMA Arrived ==
    ASSUME Typed,
           NEW lost \in offers.gaps, NEW ttv \in offers.ttv, NEW hdr \in offers.headers,
           NEW error \in offers.errors, NEW turn \in BOOLEAN,
           Arrive(lost, ttv, hdr, error, turn)
    PROVE  pkt' # NoPacket
<1>. DEFINE year == source.year + (IF turn THEN 1 ELSE 0)
            seq  == SeqAfter(source.seq, lost)
<1>1. pkt' = [seq |-> seq, ttv |-> ttv, hdr |-> hdr, year |-> year]
  BY DEF Arrive
<1>2. seq \in Nat
  <2>1. source'.seq \in 0..SeqModulus - 1 /\ source'.seq = seq
    BY WorldStep, NumberTypes DEF WorldTyped, Next, Arrive
  <2>. QED  BY <2>1, NumberTypes
<1>3. year \in Nat /\ ttv \in BOOLEAN /\ hdr \in HeaderType
  BY OffersTyped DEF Typed, WorldTyped
<1>. HIDE DEF year, seq
<1>. QED  BY <1>1, <1>2, <1>3, NoPacketAssumption

\* The next packet comes, some are lost before it.
LEMMA ArriveAccounted ==
    ASSUME Typed, Numbered, Accounted,
           NEW lost \in offers.gaps, NEW ttv \in offers.ttv, NEW hdr \in offers.headers,
           NEW error \in offers.errors, NEW turn \in BOOLEAN,
           Arrive(lost, ttv, hdr, error, turn)
    PROVE  Accounted'
<1>. DEFINE s  == source.seq
            a  == SeqAfter(s, lost)
            nm == NumbersMissed(s, lost)
<1>1. lost \in Nat \cup {-1}
  BY OffersTyped DEF Typed, WorldTyped
<1>2. /\ s \in 0..SeqModulus - 1 /\ ~IsChecksum(s) /\ s \in Int
      /\ m_expected_seq_number \in Int /\ pending \in Int /\ Following(s) \in Int
      /\ Skip \in {0, 1} /\ SeqModulus \in Nat \ {0, 1}
  BY NumberTypes DEF Numbered
<1>3. nm \in Int
  <2>1. lost \in Int
    BY <1>1
  <2>. QED  BY <1>2, <2>1, MissedType
<1>4. /\ source'.seq = a /\ pending' = pending + nm + Skip
      /\ ~Ambiguous => pending' + 1 < SeqModulus
      /\ pkt = NoPacket
      /\ UNCHANGED <<offers, m_first_packet, m_expected_seq_number, m_pkts_dropped, missed>>
  BY NumberTypes DEF Arrive, Skip, Between, orderVars
<1>5. a \in Int
  BY <1>2, <1>4, WorldStep DEF WorldTyped, Next
<1>6. Multiple(a - Following(s) - nm)
  BY <1>1, <1>2, MissedIsDistance
<1>. HIDE DEF s, a, nm
<1>7. ASSUME ~m_first_packet PROVE Multiple(Ahead(source.seq)')
  <2>. DEFINE x == a - Following(s) - nm
              y == Ahead(Following(s)) - Skip
  <2>1. Multiple(y)
    BY <1>4, <1>7 DEF Accounted, s
  <2>2. x \in Int /\ y \in Int
    BY <1>2, <1>3, <1>5 DEF Ahead
  <2>3. a - m_expected_seq_number - (pending + nm + Skip) = x + y
    BY <1>2, <1>3, <1>5 DEF Ahead
  <2>. HIDE DEF x, y
  <2>4. Multiple(x + y)
    BY <1>6, <2>1, <2>2, Multiples DEF x
  <2>. QED  BY <1>4, <2>3, <2>4 DEF Ahead
<1>8. ASSUME ~Ambiguous PROVE Bounded'
  <2>1. nm >= 0
    <3>1. offers.gaps \subseteq 0..SentPerCycle - 1
      BY <1>8 DEF Ambiguous
    <3>2. lost \in 0..SentPerCycle - 1 /\ lost # -1 /\ lost = SentPerCycle * 0 + lost
      BY <3>1, SentPerCycleType
    <3>3. lost \div SentPerCycle = 0
      BY <3>2, SentPerCycleType, DividingUnique
    <3>. DEFINE x == a - Following(s)
    <3>4. nm = (x % SeqModulus) + SeqModulus * 0
      BY <3>2, <3>3 DEF NumbersMissed, nm, a
    <3>5. x \in Int
      BY <1>2, <1>5
    <3>. HIDE DEF x
    <3>6. x % SeqModulus \in 0..SeqModulus - 1
      BY <3>5, Remainder
    <3>. QED  BY <1>2, <3>4, <3>6
  <2>2. pending \in 0..SeqModulus - 1 /\ m_pkts_dropped = missed
    BY <1>8 DEF Accounted, Bounded
  <2>3. pending' \in 0..SeqModulus - 1 /\ pending' < SeqModulus - 1
    BY <1>2, <1>3, <1>4, <1>8, <2>1, <2>2
  <2>. QED  BY <1>4, <2>2, <2>3 DEF Bounded
<1>9. pkt' # NoPacket
  BY Arrived
<1>. QED  BY <1>4, <1>7, <1>8, <1>9 DEF Accounted, Ambiguous

\* A packet is given up for its invalid time tag: its number is missed like a lost one.
LEMMA DiscardAccounted ==
    ASSUME Typed, Numbered, Accounted, DiscardInvalid
    PROVE  Accounted'
<1>. DEFINE s == source.seq
            e == m_expected_seq_number
            b == Between(s)
<1>1. /\ s \in 0..SeqModulus - 1 /\ e \in 0..SeqModulus - 1 /\ ~IsChecksum(e)
      /\ s \in Int /\ e \in Int /\ pending \in Int /\ Following(s) \in Int
      /\ b \in {0, 1} /\ SeqModulus \in Nat \ {0, 1}
  BY NumberTypes DEF Numbered, Between
<1>2. /\ pkt # NoPacket /\ pkt' = NoPacket /\ pending' = pending + 1
      /\ UNCHANGED <<offers, source, m_first_packet, m_expected_seq_number, m_pkts_dropped,
                     missed>>
  BY DEF DiscardInvalid, InTurn, worldVars, orderVars
<1>3. Multiple(Following(s) - s - 1 - b)
  BY <1>1, FollowingIs
<1>. HIDE DEF s, e, b
<1>4. ASSUME ~m_first_packet PROVE Multiple(Ahead(Following(source.seq))' - Skip')
  <2>. DEFINE x == Following(s) - s - 1 - b
              y == s - e - pending
  <2>1. Multiple(y)
    BY <1>2, <1>4 DEF Accounted, Ahead, s, e
  <2>2. x \in Int /\ y \in Int
    BY <1>1
  <2>3. Skip' = b
    <3>1. CASE b = 0
      BY <1>2, <3>1 DEF Skip, Between, b, s
    <3>2. CASE b = 1
      <4>1. Multiple(pending + 1) => FALSE
        <5>. DEFINE t == s + 1
                    z == pending + 1
        <5>1. ASSUME Multiple(z) PROVE FALSE
          <6>1. t \in Int /\ z \in Int /\ y + z = t - e
            BY <1>1
          <6>2. Multiple(t - e)
            BY <2>1, <2>2, <5>1, <6>1, Multiples
          <6>. HIDE DEF t, y, z
          <6>3. t % SeqModulus \in 0..SeqModulus - 1 /\ Multiple(t - (t % SeqModulus))
            BY <6>1, Remainder
          <6>. DEFINE r == t % SeqModulus
          <6>. HIDE DEF r
          <6>4. r \in 0..SeqModulus - 1 /\ Multiple(t - r)
            BY <6>3 DEF r
          <6>5. Multiple((t - e) - (t - r))
            <7>1. t - e \in Int /\ t - r \in Int
              BY <1>1, <6>1, <6>4
            <7>. QED  BY <6>2, <6>4, <7>1, Multiples
          <6>6. (t - e) - (t - r) = r - e /\ r - e \in -(SeqModulus - 1)..SeqModulus - 1
            BY <1>1, <6>1, <6>4
          <6>7. r - e = 0
            BY <6>5, <6>6, Remainders
          <6>8. r = e
            BY <1>1, <6>4, <6>7
          <6>. QED  BY <1>1, <3>2, <6>8 DEF Between, b, r, t
        <5>. QED  BY <5>1
      <4>2. (pending + 1) % SeqModulus # 0
        <5>1. pending + 1 \in Int
          BY <1>1
        <5>. QED  BY <4>1, <5>1, Remainders
      <4>. QED  BY <1>2, <4>2 DEF Skip, b, s
    <3>. QED  BY <1>1, <3>1, <3>2
  <2>4. Ahead(Following(source.seq))' - Skip' = x + y
    <3>1. Ahead(Following(source.seq))' = Following(s) - e - (pending + 1)
      BY <1>2 DEF Ahead, s, e
    <3>. QED  BY <1>1, <2>3, <3>1
  <2>. HIDE DEF x, y
  <2>5. Multiple(x + y)
    BY <1>3, <2>1, <2>2, Multiples DEF x
  <2>. QED  BY <2>4, <2>5
<1>5. ASSUME ~Ambiguous PROVE Bounded'
  <2>1. Bounded
    BY <1>5 DEF Accounted
  <2>. QED  BY <1>1, <1>2, <2>1 DEF Bounded
<1>. QED  BY <1>2, <1>4, <1>5 DEF Accounted, Ambiguous

\* The loss is found out: dropped_packets takes in what has been missed.
LEMMA LoseAccounted ==
    ASSUME Typed, Numbered, Accounted, LosePackets
    PROVE  Accounted'
<1>. DEFINE x == source.seq - m_expected_seq_number
            d == x % SeqModulus
<1>1. /\ source.seq \in Int /\ m_expected_seq_number \in Int /\ pending \in Int
      /\ missed \in Int /\ m_pkts_dropped \in Int /\ SeqModulus \in Nat \ {0, 1}
  BY NumberTypes
<1>2. x \in Int
  BY <1>1
<1>3. /\ pkt # NoPacket /\ ~m_first_packet /\ pkt' = pkt /\ m_first_packet' /\ pending' = 0
      /\ m_pkts_dropped' = m_pkts_dropped + d /\ missed' = missed + pending
      /\ UNCHANGED <<offers, source>>
  BY DEF LosePackets, InTurn, InOrder, NumDropped, Numbered, worldVars
<1>4. Multiple(x - pending)
  BY <1>3 DEF Accounted, Ahead
<1>. HIDE DEF x
<1>5. d \in 0..SeqModulus - 1 /\ Multiple(x - d)
  BY <1>2, Remainder
<1>. HIDE DEF d
<1>6. Multiple(d - pending)
  <2>1. x - pending \in Int /\ x - d \in Int /\ (x - pending) - (x - d) = d - pending
    BY <1>1, <1>2, <1>5
  <2>2. Multiple((x - pending) - (x - d))
    BY <1>4, <1>5, <2>1, Multiples
  <2>. QED  BY <2>1, <2>2
<1>7. Multiple(m_pkts_dropped' - missed')
  <2>. DEFINE u == m_pkts_dropped - missed
              v == d - pending
  <2>1. u \in Int /\ v \in Int /\ m_pkts_dropped' - missed' = u + v
    BY <1>1, <1>3, <1>5
  <2>2. Multiple(u) /\ Multiple(v)
    BY <1>6 DEF Accounted
  <2>. HIDE DEF u, v
  <2>3. Multiple(u + v)
    BY <2>1, <2>2, Multiples
  <2>. QED  BY <2>1, <2>3
<1>8. ASSUME ~Ambiguous PROVE Bounded'
  <2>1. Bounded
    BY <1>8 DEF Accounted
  <2>2. d - pending \in -(SeqModulus - 1)..SeqModulus - 1
    BY <1>1, <1>5, <2>1 DEF Bounded
  <2>3. d - pending = 0
    BY <1>6, <2>2, Remainders
  <2>4. d = pending
    BY <1>1, <1>5, <2>3
  <2>. QED  BY <1>1, <1>3, <2>1, <2>4 DEF Bounded
<1>. QED  BY <1>3, <1>7, <1>8 DEF Accounted, Ambiguous

\* The packet that was expected is written, and the next number is expected.
LEMMA WriteAccounted ==
    ASSUME Placed, Typed, InStep, Numbered, Accounted, Write
    PROVE  Accounted'
<1>. DEFINE s == source.seq
<1>1. /\ s \in Int /\ pending \in Int /\ Following(s) \in Int /\ SeqModulus \in Nat \ {0, 1}
  BY NumberTypes
<1>2. /\ pkt # NoPacket /\ ~m_first_packet /\ pkt' = NoPacket
      /\ s = m_expected_seq_number /\ m_expected_seq_number' = Following(s)
      /\ UNCHANGED <<offers, source, m_first_packet, m_pkts_dropped, missed, pending>>
  <2>1. pkt # NoPacket /\ ~m_first_packet
    BY DEF Write, Placed, Typed, PktTyped
  <2>2. s = m_expected_seq_number
    BY <2>1 DEF Write, InStep, Numbered
  <2>3. m_expected_seq_number' = Following(s)
    BY <2>2, NextIsFollowing DEF Write
  <2>. QED  BY <2>1, <2>2, <2>3 DEF Write, worldVars
<1>. HIDE DEF s
<1>3. Multiple(0 - pending)
  <2>1. Multiple(s - s - pending)
    BY <1>2 DEF Accounted, Ahead, s
  <2>2. s - s - pending = 0 - pending
    BY <1>1
  <2>. QED  BY <2>1, <2>2
<1>4. pending % SeqModulus = 0
  <2>1. 0 \in Int /\ 0 - pending \in Int /\ 0 - (0 - pending) = pending
    BY <1>1
  <2>. DEFINE n == 0 - pending
  <2>2. Multiple(0 - n)
    <3>1. n \in Int /\ Multiple(n)
      BY <1>3, <2>1
    <3>. HIDE DEF n
    <3>. QED  BY <3>1, Multiples
  <2>3. Multiple(pending)
    BY <2>1, <2>2
  <2>. QED  BY <1>1, <2>3, Remainders
<1>5. Skip' = 0
  BY <1>2, <1>4 DEF Skip
<1>6. Multiple(Ahead(Following(source.seq))' - Skip')
  <2>1. Ahead(Following(source.seq))' = Following(s) - Following(s) - pending
    BY <1>2 DEF Ahead, s
  <2>2. Ahead(Following(source.seq))' - Skip' = 0 - pending
    BY <1>1, <1>5, <2>1
  <2>. QED  BY <1>3, <2>2
<1>7. ASSUME Bounded PROVE Bounded'
  BY <1>2, <1>7 DEF Bounded
<1>. QED  BY <1>2, <1>6, <1>7 DEF Accounted, Ambiguous

\* A stream begins: what was missed before is not asked for.
LEMMA AcceptAccounted ==
    ASSUME Typed, Numbered, Accounted, Accept
    PROVE  Accounted'
<1>1. /\ source.seq \in Int /\ SeqModulus \in Nat \ {0, 1}
  BY NumberTypes
<1>2. /\ pkt # NoPacket /\ pkt.seq = source.seq
      /\ UNCHANGED <<offers, source, pkt, m_pkts_dropped, missed>>
  BY DEF Accept, InTurn, Numbered, worldVars
<1>3. CASE m_first_packet
  <2>1. m_expected_seq_number' = source.seq /\ pending' = 0 /\ ~m_first_packet'
    BY <1>2, <1>3 DEF Accept
  <2>2. Ahead(source.seq)' = 0
    <3>1. Ahead(source.seq)' = source.seq - source.seq - 0
      BY <1>2, <2>1 DEF Ahead
    <3>. QED  BY <1>1, <3>1
  <2>3. ASSUME Bounded PROVE Bounded'
    BY <1>1, <1>2, <2>1, <2>3 DEF Bounded
  <2>. QED  BY <1>2, <2>2, <2>3, Multiples DEF Accounted, Ambiguous
<1>4. CASE ~m_first_packet
  <2>1. UNCHANGED <<m_first_packet, m_expected_seq_number, pending>>
    BY <1>4 DEF Accept
  <2>. QED  BY <1>2, <2>1 DEF Accounted, Ahead, Skip, Between, Bounded, Ambiguous
<1>. QED  BY <1>3, <1>4

LEMMA AccountedStep ==
    ASSUME Placed, Typed, InStep, Numbered, Accounted, [Next]_vars
    PROVE  Accounted'
<1>1. CASE \/ NewYear \/ ChangeTtv \/ MergeUpstream \/ ChangeSri
           \/ (\E sri \in offers.sris : setUpstreamSri(sri)) \/ unsetUpstreamSri \/ UNCHANGED vars
  <2>1. UNCHANGED <<offers, source, pkt, m_first_packet, m_expected_seq_number,
                    m_pkts_dropped, missed, pending>>
    BY <1>1 DEF NewYear, ChangeTtv, MergeUpstream, ChangeSri, setUpstreamSri,
       unsetUpstreamSri, orderVars, worldVars, vars
  <2>. QED  BY <2>1 DEF Accounted, Ahead, Skip, Between, Bounded, Ambiguous
<1>2. CASE EndRun
  <2>1. /\ pkt' = NoPacket /\ m_first_packet' /\ pending' = 0
        /\ UNCHANGED <<offers, m_pkts_dropped, missed>>
    BY <1>2 DEF EndRun, worldVars
  <2>2. 0 \in 0..SeqModulus - 1
    BY Remainders
  <2>. QED  BY <2>1, <2>2 DEF Accounted, Bounded, Ambiguous
<1>3. CASE BeginRun
  <2>1. m_first_packet /\ UNCHANGED <<offers, pkt, m_first_packet, m_pkts_dropped, missed, pending>>
    BY <1>3 DEF BeginRun, orderVars, Numbered
  <2>. QED  BY <2>1 DEF Accounted, Bounded, Ambiguous
<1>. QED  BY <1>1, <1>2, <1>3, ArriveAccounted, DiscardAccounted, LoseAccounted,
          WriteAccounted, AcceptAccounted DEF Next, Typed, WorldTyped

LEMMA AccountIsExact ==
    ASSUME Placed, Typed, InStep, Numbered, Accounted
    PROVE  DroppedExact
<1>1. /\ source.seq \in Int /\ pending \in Int /\ missed \in Int /\ m_pkts_dropped \in Int
      /\ SeqModulus \in Nat \ {0, 1}
  BY NumberTypes
<1>2. (m_pkts_dropped - missed) % SeqModulus = 0
  <2>. DEFINE n == m_pkts_dropped - missed
  <2>1. n \in Int /\ Multiple(n)
    BY <1>1 DEF Accounted
  <2>. HIDE DEF n
  <2>2. n % SeqModulus = 0
    BY <2>1, Remainders
  <2>. QED  BY <2>2 DEF n
<1>3. ASSUME pc \in {"merge", "emit"} PROVE pending % SeqModulus = 0
  <2>1. pkt # NoPacket /\ ~m_first_packet /\ source.seq = m_expected_seq_number
    BY <1>3 DEF Placed, Typed, PktTyped, InStep, Numbered
  <2>2. Multiple(source.seq - source.seq - pending)
    BY <2>1 DEF Accounted, Ahead
  <2>. DEFINE n == source.seq - source.seq - pending
  <2>3. n \in Int /\ 0 - n = pending
    BY <1>1
  <2>4. Multiple(0 - n)
    <3>. HIDE DEF n
    <3>. QED  BY <2>2, <2>3, Multiples DEF n
  <2>5. Multiple(pending)
    BY <2>3, <2>4
  <2>. QED  BY <1>1, <2>5, Remainders
<1>4. ASSUME pc \in {"merge", "emit"}, ~Ambiguous PROVE pending = 0
  <2>1. pending \in 0..SeqModulus - 1
    BY <1>4 DEF Accounted, Bounded
  <2>2. pending \in -(SeqModulus - 1)..SeqModulus - 1
    BY <1>1, <2>1
  <2>3. Multiple(pending)
    BY <1>1, <1>3, <1>4, Remainders
  <2>. QED  BY <2>2, <2>3, Remainders
<1>5. ~Ambiguous => m_pkts_dropped = missed
  BY DEF Accounted, Bounded
<1>. QED  BY <1>2, <1>3, <1>4, <1>5 DEF DroppedExact

LEMMA AccountedAlways == Spec => []Numbered /\ []Accounted
<1>1. Init => Numbered /\ Accounted
  <2>1. ~IsChecksum(0) /\ 0 \in 0..SeqModulus - 1
    BY ProcessorAssumption DEF IsChecksum
  <2>2. 0 - 0 = 0
    OBVIOUS
  <2>. QED  BY <2>1, <2>2, Multiples DEF Init, Numbered, Accounted, Bounded
<1>2. Placed /\ Typed /\ InStep /\ Numbered /\ Accounted /\ [Next]_vars
         => Numbered' /\ Accounted'
  BY NumberedStep, AccountedStep
<1>. QED  BY <1>1, <1>2, PlacedAlways, TypedAlways, InStepAlways, PTL DEF Spec

(***************************************************************************)
(* dropped_packets counts the numbers that went by unprocessed, whatever   *)
(* is lost, discarded for its time tag, or skipped as a checksum number,   *)
(* across the wrap, for every width of the numbers; and no packet is       *)
(* accepted while a loss is still to be found out.                         *)
(***************************************************************************)
THEOREM DropsAreExact == Spec => []DroppedExact
<1>1. Placed /\ Typed /\ InStep /\ Numbered /\ Accounted => DroppedExact
  BY AccountIsExact
<1>. QED  BY <1>1, AccountedAlways, PlacedAlways, TypedAlways, InStepAlways, PTL
=============================================================================
