----------------------- MODULE SddsToBulkIOProcessor -----------------------
(***************************************************************************)
(* What the packet processor thread does with the packets it is given      *)
(* (SddsToBulkIOProcessor::processPackets and the functions it calls),     *)
(* while the control thread starts and stops it and the SDDS port delivers *)
(* SRI from a thread of its own.                                           *)
(*                                                                         *)
(* processPackets looks at the packets of its container in order, and      *)
(* every early return only has the container refilled behind the packet it *)
(* stopped at.  So the model keeps that packet, pkt; the next one arrives  *)
(* when it has been used.                                                  *)
(*                                                                         *)
(* Times are integers in units of 10 ns.  A sample rate is represented by  *)
(* its inverse, the xdelta; m_last_sdds_time by how long before the time   *)
(* stamp of pkt it lies; a year by its number.  The BulkIO library is      *)
(* external: a stream is the SRI it was last given and the block of        *)
(* packets it is aggregating.                                              *)
(***************************************************************************)
EXTENDS Integers, Sequences

CONSTANTS
    SeqModulus,        \* 2^16: sequence numbers are uint16_t
    ChecksumPeriod,    \* 32: the last number of a period is never sent
    SDDS_DATA_SIZE,    \* 1024: bytes of samples in a packet
    PktsPerPush,       \* m_pkts_per_read
    Resolution,        \* 5: xdeltas closer than 5e-8 s compare equal
    ErrorTolerance,    \* 100: m_accum_error_tolerance, 1e-6 s
    NoPacket,
    Names,             \* the stream IDs and the other attributes of SRI
    Offers,            \* the environments to consider, see offers
    MaxSlips           \* bound: no more packets arrive beyond it

VARIABLES
    (***********************************************************************)
    (* What the environment of a behaviour may do, fixed at its start:     *)
    (*   headers     the [bps, cx, xdelta] its sources send,               *)
    (*   ttv         the time tag valid flags they send,                   *)
    (*   errors      the errors of their time steps,                       *)
    (*   kinds       "conforming", or "half": a true rate twice the header's, *)
    (*   gaps        how many packets get lost in a row; -1 is a repeated one, *)
    (*   sris        the SRI the SDDS port delivers,                       *)
    (*   options     the [wait_on_ttv, push_on_ttv] a user configures,     *)
    (*   detach      whether detach is called while the thread runs,       *)
    (*   years       how many times the year turns,                        *)
    (*   hostFirst   whether the host's clock is never behind the source's, *)
    (*   maxDropped, maxElapsed    bounds: no loss beyond the one, no      *)
    (*               difference between times beyond the other.            *)
    (***********************************************************************)
    offers,
    pkt,                      \* the packet at the front of pktsToWork
    pc,                       \* next, merge or emit: where in processPackets
    active,                   \* the thread runs
    options,                  \* m_wait_for_ttv and m_push_on_ttv
    m_first_packet, m_current_ttv_flag, m_expected_seq_number, m_pkts_dropped,
    m_bps,
    m_last_sdds_time,         \* [set, age, year]; not set stands for 0
    m_start_of_year,
    time_step,                \* m_min, m_ideal, m_max_time_step
    m_time_error_accum, m_num_time_slips, m_non_conforming_device,
    m_sri, m_upstream_sri, m_upstream_sri_set, m_new_upstream_sri,
    m_use_upstream_sri, m_endianness,
    sriChanged,               \* the local of processPackets
    streams,                  \* of each bits-per-sample: its SRI and its block
    crashed,                  \* the process died of SIGFPE
    source,                   \* the device: kind, year, last sequence number and header
    clock,                    \* the year of the host's clock
    missed, pending,          \* history: numbers missed, and not yet found out
    skipped,                  \* history: an invalid time tag between valid ones
    overruling,               \* history: the SRI merged last, once one had priority
    idle                      \* history: returns in a row that used no packet

orderVars == <<m_first_packet, m_current_ttv_flag, m_expected_seq_number,
               m_pkts_dropped, m_bps>>
timeVars  == <<time_step, m_time_error_accum, m_num_time_slips,
               m_non_conforming_device>>
yearVars  == <<m_last_sdds_time, m_start_of_year>>
upstreamVars == <<m_upstream_sri, m_upstream_sri_set, m_new_upstream_sri>>
sriVars   == <<m_sri, m_use_upstream_sri, m_endianness, overruling>>
threadVars == <<active, options>>
worldVars == <<offers, source, clock>>
vars == <<worldVars, pkt, pc, threadVars, orderVars, yearVars, timeVars, upstreamVars,
          sriVars, sriChanged, streams, crashed, missed, pending, skipped, idle>>

ASSUME ProcessorAssumption ==
    /\ ChecksumPeriod \in Nat \ {0, 1}
    /\ SeqModulus \in Nat \ {0} /\ SeqModulus % ChecksumPeriod = 0
    /\ PktsPerPush \in Nat \ {0}
    /\ Resolution \in Nat \ {0}
    /\ {SDDS_DATA_SIZE, MaxSlips, ErrorTolerance} \subseteq Nat

\* The xdelta 1 / 0 of a header without a frequency; half of it is itself.
Infinite == -1

\* bps has five bits.
HeaderType == [bps : 0..31, cx : BOOLEAN, xdelta : Nat \cup {Infinite}]

ASSUME NoPacketAssumption ==
    NoPacket \notin [seq : Nat, ttv : BOOLEAN, hdr : HeaderType, year : Nat]

Priorities == {"BULKIO_SRI_PRIORITY", "use_BULKIO_SRI", "sddsPacketAlt"}
DataRefs   == {"dataRef", "DATA_REF_STR"}

KeywordType == [id : Priorities \cup DataRefs \cup {"other"},
                value : {"43981", "1234", "52651", "4321", "other"}]

\* xunits stands for the attributes compareSRI looks at, yunits for those it does not.
SriType == [streamID : Names, xdelta : Int, mode : {-1, 0, 1}, xunits : Names,
            yunits : Names, keywords : Seq(KeywordType)]

OptionsType == [wait_on_ttv : BOOLEAN, push_on_ttv : BOOLEAN]

\* Its xdelta is -1 s.
DefaultSri == [streamID |-> "DEFAULT_SDDS_STREAM_ID", xdelta |-> -100000000,
               mode |-> -1, xunits |-> "none", yunits |-> "none", keywords |-> <<>>]

ASSUME NamesAssumption == {DefaultSri.streamID, DefaultSri.xunits} \subseteq Names

NotOverruled == [set |-> FALSE, sri |-> DefaultSri]

ASSUME OffersAssumption ==
    Offers \subseteq [headers : (SUBSET HeaderType) \ {{}}, ttv : SUBSET BOOLEAN,
                      errors : SUBSET Int, kinds : SUBSET {"conforming", "half"},
                      gaps : SUBSET (Nat \cup {-1}), sris : SUBSET SriType,
                      options : SUBSET OptionsType, detach : BOOLEAN, years : Nat,
                      hostFirst : BOOLEAN, maxDropped : Nat, maxElapsed : Nat]

NoTime == [set |-> FALSE, age |-> 0, year |-> 0]

Formats == {8, 16, 32}

\* No stream is created, or all three are.
NoStreams  == [b \in Formats |-> [open |-> FALSE, sri |-> DefaultSri, block |-> <<>>]]
NewStreams(sri) == [b \in Formats |-> [open |-> TRUE, sri |-> sri, block |-> <<>>]]
Created == streams[8].open

\* flush: the block is pushed as one BulkIO packet.
Unflushed == streams

Flushed == [b \in Formats |-> [streams[b] EXCEPT !.block = <<>>]]

-----------------------------------------------------------------------------
(***************************************************************************)
(* The wire (external).  Numbers follow each other modulo SeqModulus; the  *)
(* last of each period belongs to the checksum packet nobody sends.  The   *)
(* time stamp of a packet is that of its first sample: two packets are as  *)
(* far apart as the samples of the earlier one take.                       *)
(***************************************************************************)
IsChecksum(seq) == seq % ChecksumPeriod = ChecksumPeriod - 1
Following(seq)  == LET s == (seq + 1) % SeqModulus
                   IN  IF IsChecksum(s) THEN (s + 1) % SeqModulus ELSE s

SentPerCycle == SeqModulus - SeqModulus \div ChecksumPeriod

\* The five bits of the header have no room for 32.
Bits(hdr) == IF hdr.bps = 31 THEN 32 ELSE hdr.bps

SamplesPerPacket(bits, cx) ==
    LET n == SDDS_DATA_SIZE \div (bits \div 8) IN IF cx THEN n \div 2 ELSE n

Duration(hdr) ==
    LET samples == IF Bits(hdr) < 8 THEN SDDS_DATA_SIZE
                   ELSE SamplesPerPacket(Bits(hdr), hdr.cx)
    IN  IF hdr.xdelta = Infinite THEN 0
        ELSE (samples * hdr.xdelta) \div (IF source.kind = "half" THEN 2 ELSE 1)

\* Integers stand for times: the bound on them is beyond the time a packet takes, and of
\* a source that may send half its rate an xdelta has a whole half, and the packets are
\* longer than the two samples within which an xdelta and its half agree.
ASSUME TimesAssumption ==
    \A choice \in Offers : \A hdr \in choice.headers :
        Bits(hdr) >= 8 /\ hdr.xdelta # Infinite =>
            LET samples == SamplesPerPacket(Bits(hdr), hdr.cx)
            IN  /\ samples * hdr.xdelta <= choice.maxElapsed
                /\ "half" \in choice.kinds => samples > 2 /\ hdr.xdelta % 2 = 0

\* Of no consequence: the first packet of a session has none before it.
FirstHeader == CHOOSE hdr \in offers.headers : TRUE

\* The n-th of the numbers that are sent.
SeqSent(n) == LET k == n % SentPerCycle IN k + k \div (ChecksumPeriod - 1)

\* The number of the packet after the next lost ones; of a repeated packet, lost = -1.
SeqAfter(seq, lost) == SeqSent(seq - seq \div ChecksumPeriod + lost + 1)

\* How far it is from the number the next packet would have had.
NumbersMissed(seq, lost) ==
    IF lost = -1 THEN -((Following(seq) - seq) % SeqModulus)
    ELSE ((SeqAfter(seq, lost) - Following(seq)) % SeqModulus)
            + SeqModulus * (lost \div SentPerCycle)

Saturated(t) == IF t > offers.maxElapsed THEN offers.maxElapsed
                ELSE IF t < -offers.maxElapsed THEN -offers.maxElapsed ELSE t

\* Losses that processPackets cannot tell from no loss, or takes for a huge one.
Ambiguous == ~(offers.gaps \subseteq 0..SentPerCycle - 1)

Arrive(lost, ttv, hdr, error, turn) ==
    /\ active /\ pc = "next" /\ pkt = NoPacket
    /\ \/ m_pkts_dropped + pending < offers.maxDropped
       \/ lost = 0 /\ ~(options.wait_on_ttv /\ ~ttv)
    /\ m_num_time_slips < MaxSlips
    /\ turn => source.year < offers.years /\ (offers.hostFirst => source.year < clock)
    /\ LET seq  == SeqAfter(source.seq, lost)
           year == source.year + (IF turn THEN 1 ELSE 0)
       IN  /\ pkt' = [seq |-> seq, ttv |-> ttv, hdr |-> hdr, year |-> year]
           /\ source' = [source EXCEPT !.seq = seq, !.hdr = hdr, !.year = year]
    /\ m_last_sdds_time' = IF ~m_last_sdds_time.set THEN NoTime
                           ELSE [m_last_sdds_time EXCEPT !.age =
                                   Saturated(@ + (lost + 1) * Duration(source.hdr) + error)]
    /\ pending' = pending + NumbersMissed(source.seq, lost)
                    + (IF pending % SeqModulus # 0 /\ IsChecksum((source.seq + 1) % SeqModulus)
                       THEN 1 ELSE 0)
    /\ Ambiguous \/ pending' + 1 < SeqModulus
    /\ UNCHANGED <<offers, clock, pc, threadVars, orderVars, m_start_of_year, timeVars,
                   upstreamVars, sriVars, sriChanged, streams, crashed, missed, skipped,
                   idle>>

\* The host's clock turns.
NewYear ==
    /\ clock < offers.years
    /\ clock' = clock + 1
    /\ UNCHANGED <<offers, source, pkt, pc, threadVars, orderVars, yearVars, timeVars,
                   upstreamVars, sriVars, sriChanged, streams, crashed, missed, pending,
                   skipped, idle>>

-----------------------------------------------------------------------------
(***************************************************************************)
(* processPackets up to the lock.                                          *)
(***************************************************************************)
InTurn == active /\ ~crashed /\ pc = "next" /\ pkt # NoPacket

ToBeDiscarded == options.wait_on_ttv /\ ~pkt.ttv

\* Waiting for a valid time tag: the packet is recycled unused.
DiscardInvalid ==
    /\ InTurn
    /\ ToBeDiscarded
    /\ pkt' = NoPacket
    /\ streams' = Flushed
    /\ pending' = pending + 1
    /\ idle' = 0
    /\ UNCHANGED <<worldVars, pc, threadVars, orderVars, yearVars, timeVars,
                   upstreamVars, sriVars, sriChanged, crashed, missed, skipped>>

InOrderStrictly == m_expected_seq_number = pkt.seq

InOrder == m_first_packet \/ m_expected_seq_number = pkt.seq

NumDroppedForward ==
    IF pkt.seq > m_expected_seq_number THEN pkt.seq - m_expected_seq_number ELSE 0

\* uint16_t arithmetic.
NumDropped == (pkt.seq - m_expected_seq_number) % SeqModulus

\* orderIsValid returns false: push what there is and start over with pkt.
LosePackets ==
    /\ InTurn /\ ~ToBeDiscarded /\ ~InOrder
    /\ m_pkts_dropped' = m_pkts_dropped + NumDropped
    /\ m_first_packet' = TRUE
    /\ streams' = Flushed
    /\ missed' = missed + pending
    /\ pending' = 0
    /\ idle' = idle + 1
    /\ UNCHANGED <<worldVars, pkt, pc, threadVars, m_current_ttv_flag,
                   m_expected_seq_number, m_bps, yearVars, timeVars, upstreamVars,
                   sriVars, sriChanged, crashed, skipped>>

TtvChangedToFalse ==
    ~m_first_packet /\ options.push_on_ttv /\ m_current_ttv_flag /\ ~pkt.ttv

TtvChanged == ~m_first_packet /\ options.push_on_ttv /\ m_current_ttv_flag # pkt.ttv

\* Push on a change of the time tag valid flag, and come back to pkt.
ChangeTtv ==
    /\ InTurn /\ ~ToBeDiscarded /\ InOrder /\ TtvChanged
    /\ m_current_ttv_flag' = pkt.ttv
    /\ streams' = Flushed
    /\ idle' = idle + 1
    /\ UNCHANGED <<worldVars, pkt, pc, threadVars, m_first_packet,
                   m_expected_seq_number, m_pkts_dropped, m_bps, yearVars, timeVars,
                   upstreamVars, sriVars, sriChanged, crashed, missed, pending, skipped>>

(***************************************************************************)
(* updateExpectedXdelta with the bps of m_bps: sets the expected step and  *)
(* says whether the integer division by m_bps / 8 traps.                   *)
(***************************************************************************)
ExpectedStep(bps, cx, xdelta) ==
    IF bps = 0 THEN time_step
    ELSE [samples |-> SamplesPerPacket(bps, cx), xdelta |-> xdelta]

DivisionTrapsOnNone(bps) == bps \div 8 = 0

DivisionTraps(bps) == bps # 0 /\ bps \div 8 = 0

\* The xdelta of a packet, halved for a device known not to conform.
HeaderXdeltaAsSent(p) == p.hdr.xdelta

HeaderXdelta(p) == IF m_non_conforming_device THEN p.hdr.xdelta \div 2 ELSE p.hdr.xdelta

\* The packet is the first of a session or after a loss, or it is the expected one.
Accept ==
    /\ InTurn /\ ~ToBeDiscarded /\ InOrder /\ ~TtvChanged
    /\ pc' = "merge"
    /\ IF m_first_packet
       THEN LET bps == Bits(pkt.hdr)
            IN  /\ m_first_packet' = FALSE
                /\ m_current_ttv_flag' = pkt.ttv
                /\ m_expected_seq_number' = pkt.seq
                /\ m_bps' = bps
                /\ m_last_sdds_time' = NoTime
                /\ pending' = 0
                /\ crashed' = DivisionTraps(bps)
                /\ time_step' = IF DivisionTraps(bps) THEN time_step
                                ELSE ExpectedStep(bps, pkt.hdr.cx, HeaderXdelta(pkt))
       ELSE UNCHANGED <<m_first_packet, m_current_ttv_flag, m_expected_seq_number,
                        m_bps, m_last_sdds_time, crashed, time_step, pending>>
    /\ UNCHANGED <<worldVars, pkt, threadVars, m_pkts_dropped, m_start_of_year,
                   m_time_error_accum, m_num_time_slips, m_non_conforming_device,
                   upstreamVars, sriVars, sriChanged, streams, missed, skipped, idle>>

-----------------------------------------------------------------------------
(***************************************************************************)
(* mergeUpstreamSRI, under m_upstream_sri_lock.  compareSRI looks at the   *)
(* stream ID, some of the attributes, and the number and values of the     *)
(* keywords: never at their ids, xdelta, mode, yunits, blocking, subsize.  *)
(* Whether the stream IDs differ is asked of two CORBA strings with !=,    *)
(* which compares their addresses: any difference makes new streams.       *)
(***************************************************************************)
compareSRI(a, b) ==
    /\ a.streamID = b.streamID /\ a.xunits = b.xunits
    /\ Len(a.keywords) = Len(b.keywords)
    /\ \A i \in 1..Len(a.keywords) : a.keywords[i].value = b.keywords[i].value

HasPriority(sri) == \E i \in DOMAIN sri.keywords : sri.keywords[i].id \in Priorities

\* The last keyword about it counts; a value that is not known resets it to the default.
EndiannessIn(sri, before) ==
    LET refs == {i \in DOMAIN sri.keywords : sri.keywords[i].id \in DataRefs}
        last == CHOOSE i \in refs : \A j \in refs : j <= i
    IN  IF refs = {} THEN before
        ELSE IF sri.keywords[last].value \in {"43981", "1234"} THEN "1234" ELSE "4321"

MergedRatesKept(curr, upstream, use) ==
    [upstream EXCEPT !.xdelta = curr.xdelta, !.mode = curr.mode]

Merged(curr, upstream, use) ==
    [upstream EXCEPT !.xdelta = IF use THEN upstream.xdelta ELSE curr.xdelta,
                     !.mode   = IF use THEN upstream.mode ELSE curr.mode]

MergeUpstream ==
    /\ ~crashed /\ pc = "merge"
    /\ pc' = "emit"
    /\ IF m_upstream_sri_set /\ m_new_upstream_sri
       THEN LET differs == ~compareSRI(m_sri, m_upstream_sri)
                use     == m_use_upstream_sri \/ (differs /\ HasPriority(m_upstream_sri))
                merged  == Merged(m_sri, m_upstream_sri, use)
            IN  /\ m_new_upstream_sri' = FALSE
                /\ sriChanged' = differs
                /\ m_use_upstream_sri' = use
                /\ m_sri' = IF differs THEN merged ELSE m_sri
                /\ m_endianness' = IF differs THEN EndiannessIn(m_upstream_sri, m_endianness)
                                   ELSE m_endianness
                /\ streams' = IF differs THEN NewStreams(merged) ELSE streams
                /\ overruling' = IF overruling.set \/ HasPriority(m_upstream_sri)
                                 THEN [set |-> TRUE, sri |-> m_upstream_sri]
                                 ELSE NotOverruled
                /\ idle' = 0
       ELSE /\ sriChanged' = FALSE
            /\ UNCHANGED <<m_new_upstream_sri, sriVars, streams, idle>>
    /\ UNCHANGED <<worldVars, pkt, threadVars, orderVars, yearVars, timeVars,
                   m_upstream_sri, m_upstream_sri_set, crashed, missed, pending, skipped>>

-----------------------------------------------------------------------------
(***************************************************************************)
(* processPackets from the lock on.  mergeSddsSRI takes xdelta and mode    *)
(* from the packet, unless they come from upstream.                        *)
(***************************************************************************)
Mode(p) == IF p.hdr.cx THEN 1 ELSE 0

\* round((x - y) * 10^7) # 0; infinite minus infinite is no number, and that is not 0.
Differ(x, y) == Infinite \in {x, y} \/ x - y >= Resolution \/ y - x >= Resolution

SddsDiffers == Differ(HeaderXdelta(pkt), m_sri.xdelta) \/ m_sri.mode # Mode(pkt)

SddsMerged ==
    LET xdelta == HeaderXdelta(pkt)
    IN  [m_sri EXCEPT !.xdelta = IF Differ(xdelta, m_sri.xdelta) THEN xdelta ELSE m_sri.xdelta,
                      !.mode   = Mode(pkt)]

HeaderCountsUntilSet == ~m_upstream_sri_set

HeaderCounts == ~m_use_upstream_sri

SriNow == IF HeaderCounts THEN SddsMerged ELSE m_sri
SriHasChanged == sriChanged \/ (HeaderCounts /\ SddsDiffers)

OpenStreams == IF Created THEN streams ELSE NewStreams(SriNow)

\* pushSri: to the stream of m_bps; what it has aggregated is pushed first.
WithSriNot(s, sri) == s

WithSri(s, sri) == IF m_bps \in Formats
                   THEN [s EXCEPT ![m_bps] = [open |-> TRUE, sri |-> sri, block |-> <<>>]]
                   ELSE s

\* The SRI changed: push it and come back to pkt, with a new expected step.
ChangeSri ==
    /\ ~crashed /\ pc = "emit" /\ SriHasChanged
    /\ m_sri' = SriNow
    /\ streams' = WithSri(OpenStreams, SriNow)
    /\ time_step' = ExpectedStep(m_bps, pkt.hdr.cx, HeaderXdelta(pkt))
    /\ m_last_sdds_time' = NoTime
    /\ pc' = "next"
    /\ sriChanged' = FALSE
    /\ idle' = idle + 1
    /\ UNCHANGED <<worldVars, pkt, threadVars, orderVars, m_start_of_year,
                   m_time_error_accum, m_num_time_slips, m_non_conforming_device,
                   upstreamVars, m_use_upstream_sri, m_endianness, overruling, crashed,
                   missed, pending, skipped>>

(***************************************************************************)
(* getBulkIOTimeStamp: SDDS time counts from the start of the year.  When  *)
(* it goes back the year is taken to have turned, and the start of the     *)
(* year is read from the host's clock again.                               *)
(***************************************************************************)
getStartOfYear == clock

TimeWentOn == /\ m_last_sdds_time.set
              /\ m_last_sdds_time.age >= 0 /\ m_last_sdds_time.year >= pkt.year

TimeWentBack == /\ m_last_sdds_time.set
                /\ m_last_sdds_time.age < 0 \/ m_last_sdds_time.year < pkt.year

StartOfYear == IF TimeWentBack THEN getStartOfYear ELSE m_start_of_year

(***************************************************************************)
(* checkForTimeSlip.                                                       *)
(***************************************************************************)
MinStep(s)   == (s.samples - 1) * s.xdelta
IdealStep(s) == s.samples * s.xdelta
MaxStep(s)   == (s.samples + 1) * s.xdelta
Within(delta, s) == MinStep(s) <= delta /\ delta <= MaxStep(s)

checkForTimeSlip ==
    IF ~pkt.ttv THEN UNCHANGED <<m_last_sdds_time, timeVars>>
    ELSE /\ m_last_sdds_time' = [set |-> TRUE, age |-> 0, year |-> pkt.year]
         /\ IF ~m_last_sdds_time.set \/ TimeWentBack THEN UNCHANGED timeVars
            ELSE LET delta == m_last_sdds_time.age
                     halved == /\ ~Within(delta, time_step)
                               /\ ~m_non_conforming_device /\ pkt.hdr.cx
                               /\ m_num_time_slips = 0
                               /\ MinStep(time_step) < 2 * delta
                               /\ 2 * delta < MaxStep(time_step)
                     step  == IF halved
                              THEN ExpectedStep(m_bps, pkt.hdr.cx, time_step.xdelta \div 2)
                              ELSE time_step
                     accum == m_time_error_accum + delta - IdealStep(step)
                     drifted == \/ step.xdelta = Infinite
                                \/ accum > ErrorTolerance \/ -accum > ErrorTolerance
                     slip  == drifted \/ (~Within(delta, time_step) /\ ~halved)
                 IN  /\ time_step' = step
                     /\ m_non_conforming_device' = (m_non_conforming_device \/ halved)
                     /\ m_time_error_accum' = IF drifted THEN 0 ELSE accum
                     /\ m_num_time_slips' = m_num_time_slips + (IF slip THEN 1 ELSE 0)

\* The rate and the mode a packet is due to be written under.
DueXdelta(p) == IF overruling.set THEN overruling.sri.xdelta ELSE HeaderXdelta(p)
DueMode(p)   == IF overruling.set THEN overruling.sri.mode ELSE Mode(p)

\* A stream pushes its block when it has PktsPerPush packets; the model keeps a
\* full block until the next write so that a state shows it.
Written(s, p) ==
    LET item == [seq |-> p.seq, ttv |-> p.ttv, endianness |-> m_endianness,
                 xdelta |-> DueXdelta(p), mode |-> DueMode(p),
                 year |-> p.year, stamp |-> StartOfYear, clock |-> clock]
    IN  [s EXCEPT !.block = IF Len(@) = PktsPerPush THEN <<item>> ELSE Append(@, item)]

NextExpectedUnwrapped == LET e == m_expected_seq_number + 1
                         IN  IF IsChecksum(e) THEN e + 1 ELSE e

NextExpected == LET e == (m_expected_seq_number + 1) % SeqModulus
                IN  IF e # 0 /\ e % ChecksumPeriod = ChecksumPeriod - 1
                    THEN (e + 1) % SeqModulus ELSE e

\* The packet is written to the stream of m_bps and used up.
Write ==
    /\ ~crashed /\ pc = "emit" /\ ~SriHasChanged
    /\ m_start_of_year' = StartOfYear
    /\ checkForTimeSlip
    /\ streams' = IF m_bps \in Formats
                  THEN [OpenStreams EXCEPT ![m_bps] = Written(@, pkt)]
                  ELSE OpenStreams
    /\ m_expected_seq_number' = NextExpected
    /\ pkt' = NoPacket
    /\ pc' = "next"
    /\ skipped' = (skipped \/ (m_last_sdds_time.set /\ ~pkt.ttv))
    /\ idle' = 0
    /\ UNCHANGED <<worldVars, threadVars, m_first_packet, m_current_ttv_flag,
                   m_pkts_dropped, m_bps, upstreamVars, sriVars, sriChanged, crashed,
                   missed, pending>>

-----------------------------------------------------------------------------
(***************************************************************************)
(* The other threads.                                                      *)
(***************************************************************************)
setUpstreamSri(sri) ==
    /\ m_upstream_sri' = sri
    /\ m_upstream_sri_set' = TRUE
    /\ m_new_upstream_sri' = TRUE
    /\ UNCHANGED <<worldVars, pkt, pc, threadVars, orderVars, yearVars, timeVars, sriVars,
                   sriChanged, streams, crashed, missed, pending, skipped, idle>>

\* Called by detach, after it has stopped the thread or, overridden, while it runs.
unsetUpstreamSri ==
    /\ ~active \/ offers.detach
    /\ m_use_upstream_sri' = FALSE
    /\ m_upstream_sri_set' = FALSE
    /\ m_endianness' = "4321"
    /\ m_sri' = [m_sri EXCEPT !.streamID = DefaultSri.streamID]
    /\ overruling' = NotOverruled
    /\ UNCHANGED <<worldVars, pkt, pc, threadVars, orderVars, yearVars, timeVars,
                   m_upstream_sri, m_new_upstream_sri, sriChanged, streams, crashed,
                   missed, pending, skipped, idle>>

\* run leaves its loop between two calls of processPackets.
EndRun ==
    /\ active /\ pc = "next"
    /\ active' = FALSE
    /\ pkt' = NoPacket
    /\ streams' = NoStreams
    /\ m_first_packet' = TRUE
    /\ m_non_conforming_device' = FALSE
    /\ pending' = 0
    /\ idle' = 0
    /\ UNCHANGED <<worldVars, pc, options, m_current_ttv_flag, m_expected_seq_number,
                   m_pkts_dropped, m_bps, yearVars, time_step, m_time_error_accum,
                   m_num_time_slips, upstreamVars, sriVars, sriChanged, crashed, missed,
                   skipped>>

\* setWaitForTTV, setPushOnTTV, run; the new stream may come from anywhere.
BeginRun ==
    /\ ~active /\ ~crashed
    /\ active' = TRUE
    /\ options' \in offers.options
    /\ \E kind \in offers.kinds, seq \in 0..SeqModulus - 1 :
          /\ ~IsChecksum(seq)
          /\ source' = [source EXCEPT !.kind = kind, !.seq = seq, !.hdr = FirstHeader]
    /\ UNCHANGED <<offers, clock, pkt, pc, orderVars, yearVars, timeVars, upstreamVars,
                   sriVars, sriChanged, streams, crashed, missed, pending, skipped, idle>>

-----------------------------------------------------------------------------
Init ==
    /\ offers \in Offers
    /\ pkt = NoPacket /\ pc = "next"
    /\ active = FALSE
    /\ options = [wait_on_ttv |-> FALSE, push_on_ttv |-> FALSE]
    /\ m_first_packet = TRUE /\ m_current_ttv_flag = FALSE
    /\ m_expected_seq_number = 0 /\ m_pkts_dropped = 0 /\ m_bps = 0
    /\ m_last_sdds_time = NoTime /\ clock = 0 /\ m_start_of_year = getStartOfYear
    /\ time_step = [samples |-> 0, xdelta |-> 0]
    /\ m_time_error_accum = 0 /\ m_num_time_slips = 0
    /\ m_non_conforming_device = FALSE
    /\ m_sri = DefaultSri /\ m_upstream_sri = DefaultSri
    /\ m_upstream_sri_set = FALSE /\ m_new_upstream_sri = FALSE
    /\ m_use_upstream_sri = FALSE /\ m_endianness = "4321"
    /\ sriChanged = FALSE /\ streams = NoStreams /\ crashed = FALSE
    /\ source = [kind |-> "conforming", seq |-> 0, hdr |-> FirstHeader, year |-> 0]
    /\ missed = 0 /\ pending = 0 /\ skipped = FALSE /\ idle = 0
    /\ overruling = NotOverruled

Next ==
    \/ \E lost \in offers.gaps, ttv \in offers.ttv, hdr \in offers.headers,
          error \in offers.errors, turn \in BOOLEAN : Arrive(lost, ttv, hdr, error, turn)
    \/ NewYear
    \/ DiscardInvalid
    \/ LosePackets
    \/ ChangeTtv
    \/ Accept
    \/ MergeUpstream
    \/ ChangeSri
    \/ Write
    \/ \E sri \in offers.sris : setUpstreamSri(sri)
    \/ unsetUpstreamSri
    \/ EndRun
    \/ BeginRun

Spec == Init /\ [][Next]_vars
-----------------------------------------------------------------------------
(***************************************************************************)
(* Properties.                                                             *)
(***************************************************************************)
\* Type invariant.
TypeOK ==
    /\ offers \in Offers
    /\ pkt = NoPacket \/ pkt \in [seq : 0..SeqModulus - 1, ttv : BOOLEAN,
                                  hdr : offers.headers, year : Nat]
    /\ pc \in {"next", "merge", "emit"}
    /\ options \in OptionsType
    /\ {active, m_first_packet, m_current_ttv_flag, m_non_conforming_device,
        m_upstream_sri_set, m_new_upstream_sri, m_use_upstream_sri, sriChanged,
        crashed, skipped} \subseteq BOOLEAN
    /\ m_expected_seq_number \in 0..SeqModulus - 1
    /\ {m_pkts_dropped, m_num_time_slips, m_start_of_year, clock, idle} \subseteq Nat
    /\ m_bps \in 0..32
    /\ m_sri \in SriType /\ m_upstream_sri \in SriType
    /\ overruling \in [set : BOOLEAN, sri : SriType]
    /\ m_endianness \in {"1234", "4321"}
    /\ \A b \in Formats : streams[b].sri \in SriType /\ Len(streams[b].block) <= PktsPerPush
    /\ m_last_sdds_time \in [set : BOOLEAN, age : Int, year : Nat]
    /\ {m_time_error_accum, missed, pending} \subseteq Int
    /\ source.seq \in 0..SeqModulus - 1

(***************************************************************************)
(* dropped_packets is the count of the sequence numbers that went by       *)
(* unprocessed once a stream had begun, "any packets missed due to invalid *)
(* time tag" and the unsent checksum numbers of a gap included (README.md: *)
(* 91 and 98), across the wrap of the uint16_t, TTV changes and restarts;  *)
(* and no packet is accepted with a loss before it still unnoticed.  Of    *)
(* losses of 2^16 numbers and of repeated packets the count is right       *)
(* modulo 2^16, and no other loss goes unnoticed.                          *)
(***************************************************************************)
DroppedExact ==
    /\ (m_pkts_dropped - missed) % SeqModulus = 0
    /\ ~Ambiguous => m_pkts_dropped = missed
    /\ pc \in {"merge", "emit"} => pending % SeqModulus = 0 /\ (~Ambiguous => pending = 0)

(***************************************************************************)
(* Whatever is lost, repeated, discarded or interleaved, the packets       *)
(* aggregated in one BulkIO push have consecutive numbers, so that its     *)
(* single time stamp is right for all of its samples.                      *)
(***************************************************************************)
BlocksContiguous ==
    \A b \in Formats : LET block == streams[b].block
                       IN  \A i \in 1..Len(block) - 1 :
                             block[i + 1].seq = Following(block[i].seq)

(***************************************************************************)
(* "If TTV goes from True to False, all currently buffered data will be    *)
(* sent" (README.md:90): a push never mixes the two; and with wait_on_ttv  *)
(* none has invalid ones (README.md:91).                                   *)
(***************************************************************************)
BlocksOfOneTtv ==
    \A b \in Formats : LET block == streams[b].block
                       IN  /\ options.push_on_ttv =>
                                 \A i, j \in DOMAIN block : block[i].ttv = block[j].ttv
                           /\ options.wait_on_ttv => \A i \in DOMAIN block : block[i].ttv

(***************************************************************************)
(* A packet is written to a stream whose SRI is the current one: its rate  *)
(* "is derived from the SDDS header" (README.md:116), and "the next BulkIO *)
(* push has the new SRI" (SddsToBulkIOProcessor.cpp:528).  Not so if the   *)
(* source changes its format: a changed SRI is pushed to one of the three  *)
(* streams only, and the others keep the one they were created with.       *)
(***************************************************************************)
Writes == pc = "emit" /\ ~SriHasChanged /\ m_bps \in Formats /\ Created

SriShown == Writes => streams[m_bps].sri = m_sri

(***************************************************************************)
(* While the format stays, a packet is written under the current SRI and   *)
(* joins only packets swapped like itself; unless detach, under an         *)
(* override, takes the stream ID back between two packets.                 *)
(***************************************************************************)
OneFormat == \A g, h \in offers.headers : Bits(g) = Bits(h)

WritesUnderCurrentSri ==
    OneFormat /\ ~offers.detach =>
        /\ SriShown
        /\ Writes => \A i \in DOMAIN streams[m_bps].block :
                        streams[m_bps].block[i].endianness = m_endianness

(***************************************************************************)
(* processPackets comes back to the same packet at most twice before it    *)
(* uses it, unless upstream sends SRI again: the thread cannot spin.  It   *)
(* rests on floatingPointCompare, which returns "if lhs == rhs: 0.0"       *)
(* (SddsToBulkIOUtils.h:41).  Not so of a packet without a frequency: its  *)
(* SRI is found changed again and again.                                   *)
(***************************************************************************)
UsesPackets == idle <= 2

(***************************************************************************)
(* No packet with a frequency is looked at for ever; and the process does  *)
(* not die, unless a source sends samples of 1 to 7 bits.                  *)
(***************************************************************************)
NoSpin ==
    /\ (\A hdr \in offers.headers : hdr.xdelta # Infinite) => UsesPackets
    /\ (\A hdr \in offers.headers : Bits(hdr) \notin 1..7) => ~crashed

(***************************************************************************)
(* A source whose time stamps are exact causes no time slip and is not     *)
(* taken for one that does not conform: not by losses, a change of its     *)
(* rate, the SRI, a restart or the turn of the year, while its format      *)
(* stays, its rates can be told apart, no SRI overrides them, and no       *)
(* invalid time tag comes between valid ones.  Neither does one that sends *)
(* half its rate (SddsToBulkIOProcessor.cpp:274), if it never doubles it.  *)
(***************************************************************************)
\* The xdeltas there may be: of headers, halved for some devices, and of SRI.
Xdeltas == {hdr.xdelta : hdr \in offers.headers} \cup {hdr.xdelta \div 2 : hdr \in offers.headers}
              \cup {sri.xdelta : sri \in offers.sris \cup {DefaultSri}}

Distinguishable == \A x, y \in Xdeltas : Differ(x, y) \/ x = y

ExactSource ==
    /\ offers.errors = {0}
    /\ Distinguishable
    /\ \A g, h \in offers.headers : Bits(g) = Bits(h) /\ Bits(g) >= 8
    /\ "half" \in offers.kinds =>
          \A g, h \in offers.headers : h.cx /\ Differ(g.xdelta, h.xdelta \div 2)
    /\ ~Ambiguous
    /\ \A sri \in offers.sris : ~HasPriority(sri)

NoFalseSlips ==
    ExactSource /\ ~skipped =>
        m_num_time_slips = 0 /\ (m_non_conforming_device => source.kind = "half")

(***************************************************************************)
(* "By default, the xdelta/sample rate is derived from the SDDS header"    *)
(* (README.md:116), halved for a device that does not conform: whatever    *)
(* SRI without priority is delivered or taken back between whichever       *)
(* packets, the stream a packet was written to has the rate and the mode   *)
(* of that packet's own header until it is pushed.  Of a source that keeps *)
(* its format (see SriShown) and of rates that differ by 5e-8 s.           *)
(***************************************************************************)
WrittenAsDue ==
    \A b \in Formats : \A i \in DOMAIN streams[b].block :
        /\ streams[b].sri.xdelta = streams[b].block[i].xdelta
        /\ streams[b].sri.mode = streams[b].block[i].mode

RateFromHeader ==
    /\ OneFormat /\ Distinguishable
    /\ \A sri \in offers.sris : ~HasPriority(sri)
    => WrittenAsDue

(***************************************************************************)
(* BULKIO_SRI_PRIORITY: xdelta and mode are those "found in the supplied   *)
(* SRI" (README.md:118).  From the first packet that finds an SRI with the *)
(* keyword until detach, packets are written under the rate and mode of    *)
(* the SRI supplied last, and all others under those of their header.  Of  *)
(* SRI that compareSRI tells apart from each other and from the default    *)
(* stream ID: one that differs only in the ids of its keywords, as in      *)
(* having priority, is not merged at all (SddsToBulkIOUtils.cpp:173).      *)
(***************************************************************************)
ToldApart ==
    \A a, b \in offers.sris : /\ a.streamID # DefaultSri.streamID
                              /\ compareSRI(a, b) => a = b

RateFromUpstream == OneFormat /\ Distinguishable /\ ToldApart => WrittenAsDue

(***************************************************************************)
(* startOfYear "is updated if the year has rolled over"                    *)
(* (SddsToBulkIOUtils.cpp:55).                                             *)
(*  - In a contiguous run of packets with valid time tags of a source      *)
(*    whose time does not go back, stamps that were of the right year stay *)
(*    so, as long as the host's clock shows the new year by the time its   *)
(*    first packet is seen.                                                *)
(*  - With a host that is never behind, every stamp is of the right year.  *)
(***************************************************************************)
YearFollowed ==
    offers.errors = {0} =>
        \A b \in Formats : LET block == streams[b].block IN
            \A i \in 1..Len(block) - 1 :
                /\ block[i].ttv /\ block[i].stamp = block[i].year
                /\ block[i + 1].year \in {block[i].year, block[i + 1].clock}
                => block[i + 1].stamp = block[i + 1].year

StampsOfTheirYear ==
    offers.hostFirst /\ offers.errors = {0} =>
        \A b \in Formats : \A i \in DOMAIN streams[b].block :
            streams[b].block[i].stamp = streams[b].block[i].year
=============================================================================
