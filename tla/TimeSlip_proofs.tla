--------------------------- MODULE TimeSlip_proofs ---------------------------
(***************************************************************************)
(* That the packet processor sees no time slip in a source whose time      *)
(* stamps are exact (NoFalseSlips): for every environment that the         *)
(* assumptions on Offers admit.                                            *)
(***************************************************************************)
EXTENDS PacketHistory_proofs

-----------------------------------------------------------------------------
(***************************************************************************)
(* Lemmas about the wire: the number that is due is the one of a packet    *)
(* before which none is lost, and no other has it within a cycle.          *)
(***************************************************************************)
LEMMA PlaceOfSent ==
    ASSUME NEW s \in 0..SeqModulus - 1, ~IsChecksum(s)
    PROVE  \E i \in 0..Periods - 1, r \in 0..PerPeriod - 1 :
              /\ s = ChecksumPeriod * i + r
              /\ s \div ChecksumPeriod = i /\ s - i = PerPeriod * i + r
<1>. DEFINE i == s \div ChecksumPeriod
            r == s % ChecksumPeriod
<1>1. i \in Int /\ r \in 0..ChecksumPeriod - 1 /\ s = ChecksumPeriod * i + r
  <2>1. s \in Int /\ ChecksumPeriod \in Nat \ {0}
    BY Cycle
  <2>. QED  BY <2>1, Dividing
<1>2. r # ChecksumPeriod - 1
  BY DEF IsChecksum
<1>. HIDE DEF r
<1>3. /\ ChecksumPeriod * i = PerPeriod * i + i /\ PerPeriod * i \in Int
      /\ ChecksumPeriod * (i + 1) = ChecksumPeriod * i + ChecksumPeriod
  <2>. HIDE DEF i
  <2>. QED  BY <1>1, Cycle
<1>4. i \in 0..Periods - 1
  <2>. HIDE DEF i
  <2>1. ChecksumPeriod * i < ChecksumPeriod * Periods
    BY <1>1, <1>3, Cycle, Remainders
  <2>2. ChecksumPeriod * 0 < ChecksumPeriod * (i + 1)
    BY <1>1, <1>3, Cycle, Remainders
  <2>3. i < Periods
    BY <1>1, <2>1, Cycle, SmallerFactor
  <2>4. 0 < i + 1
    BY <1>1, <2>2, Cycle, SmallerFactor
  <2>. QED  BY <1>1, <2>3, <2>4, Cycle
<1>5. r \in 0..PerPeriod - 1
  BY <1>1, <1>2, Cycle
<1>6. s - i = PerPeriod * i + r
  <2>. HIDE DEF i
  <2>. QED  BY <1>1, <1>3
<1>. QED  BY <1>1, <1>4, <1>5, <1>6

LEMMA SentAtPlace ==
    ASSUME NEW i \in 0..Periods - 1, NEW r \in 0..PerPeriod - 1
    PROVE  SeqSent(PerPeriod * i + r) = ChecksumPeriod * i + r
<1>. DEFINE n == PerPeriod * i + r
<1>1. /\ PerPeriod * i \in Int /\ PerPeriod * (i + 1) = PerPeriod * i + PerPeriod
      /\ PerPeriod * Periods \in Int /\ 0 <= PerPeriod * i
      /\ ChecksumPeriod * i = PerPeriod * i + i
  BY Cycle
<1>2. PerPeriod * (i + 1) <= PerPeriod * Periods
  <2>1. PerPeriod * Periods < PerPeriod * (i + 1) => Periods < i + 1
    BY Cycle, SmallerFactor
  <2>. QED  BY <1>1, <2>1, Cycle
<1>3. n \in 0..SentPerCycle - 1
  BY <1>1, <1>2, Cycle
<1>4. n % SentPerCycle = n
  <2>1. n = SentPerCycle * 0 + n /\ n \in Int
    BY <1>3, SentPerCycleType
  <2>. HIDE DEF n
  <2>. QED  BY <1>3, <2>1, SentPerCycleType, DividingUnique
<1>5. n \div PerPeriod = i
  <2>1. n \in Int
    BY <1>3
  <2>. QED  BY <2>1, Cycle, DividingUnique
<1>6. SeqSent(n) = n + i
  BY <1>4, <1>5 DEF SeqSent, PerPeriod
<1>. QED  BY <1>1, <1>6

LEMMA InPeriod == \A i \in 0..Periods - 1, r \in 0..ChecksumPeriod - 1 :
                     ChecksumPeriod * i + r \in 0..SeqModulus - 1
<1>. SUFFICES ASSUME NEW i \in 0..Periods - 1, NEW r \in 0..ChecksumPeriod - 1
              PROVE  ChecksumPeriod * i + r \in 0..SeqModulus - 1
  OBVIOUS
<1>1. /\ ChecksumPeriod * i \in Nat /\ ChecksumPeriod * Periods \in Int
      /\ ChecksumPeriod * (i + 1) = ChecksumPeriod * i + ChecksumPeriod
  BY Cycle
<1>2. ~(ChecksumPeriod * Periods < ChecksumPeriod * (i + 1))
  <2>1. ChecksumPeriod * Periods < ChecksumPeriod * (i + 1) => Periods < i + 1
    BY Cycle, SmallerFactor
  <2>. QED  BY <2>1, Cycle
<1>. QED  BY <1>1, <1>2, Cycle

LEMMA NotWrapped ==
    ASSUME NEW t \in 0..SeqModulus - 1
    PROVE  t % SeqModulus = t
<1>1. t \in Int /\ t = SeqModulus * 0 + t /\ SeqModulus \in Nat \ {0}
  BY Remainders
<1>. QED  BY <1>1, DividingUnique

LEMMA WrapsToZero == SeqModulus % SeqModulus = 0 /\ SentPerCycle % SentPerCycle = 0
<1>1. \A b \in Nat \ {0} : b = b * 1 + 0 /\ 0 \in 0..b - 1
  OBVIOUS
<1>2. \A b \in Nat \ {0} : b % b = 0
  BY <1>1, DividingUnique
<1>. QED  BY <1>2, Remainders, SentPerCycleType

LEMMA DueIsSent ==
    ASSUME NEW s \in 0..SeqModulus - 1, ~IsChecksum(s)
    PROVE  Following(s) = SeqAfter(s, 0)
<1>1. PICK i \in 0..Periods - 1, r \in 0..PerPeriod - 1 :
              /\ s = ChecksumPeriod * i + r
              /\ s \div ChecksumPeriod = i /\ s - i = PerPeriod * i + r
  BY PlaceOfSent
<1>2. SeqAfter(s, 0) = SeqSent(PerPeriod * i + (r + 1))
  <2>1. s - i + 0 + 1 = PerPeriod * i + (r + 1)
    BY <1>1, Cycle
  <2>. QED  BY <1>1, <2>1 DEF SeqAfter
<1>3. /\ ChecksumPeriod * i \in Nat /\ PerPeriod * i \in Nat
      /\ ChecksumPeriod * (i + 1) = ChecksumPeriod * i + ChecksumPeriod
      /\ PerPeriod * (i + 1) = PerPeriod * i + PerPeriod
  BY Cycle
<1>4. (s + 1) % SeqModulus = s + 1 /\ (IsChecksum(s + 1) <=> r + 1 = ChecksumPeriod - 1)
  <2>1. s + 1 = ChecksumPeriod * i + (r + 1) /\ r + 1 \in 0..ChecksumPeriod - 1
    BY <1>1, <1>3, Cycle
  <2>2. s + 1 \in 0..SeqModulus - 1
    BY <2>1, InPeriod
  <2>. QED  BY <2>1, <2>2, NotWrapped, PlaceInPeriod
<1>5. CASE r + 1 # ChecksumPeriod - 1
  <2>1. r + 1 \in 0..PerPeriod - 1 /\ s + 1 = ChecksumPeriod * i + (r + 1)
    BY <1>1, <1>3, <1>5, Cycle
  <2>2. SeqAfter(s, 0) = s + 1
    BY <1>2, <2>1, SentAtPlace
  <2>. QED  BY <1>4, <1>5, <2>2 DEF Following
<1>6. CASE r + 1 = ChecksumPeriod - 1
  <2>1. Following(s) = (s + 1 + 1) % SeqModulus
    BY <1>4, <1>6 DEF Following
  <2>2. /\ s + 1 + 1 = ChecksumPeriod * (i + 1) + 0
        /\ PerPeriod * i + (r + 1) = PerPeriod * (i + 1) + 0
    BY <1>1, <1>3, <1>6, Cycle
  <2>3. CASE i + 1 < Periods
    <3>1. i + 1 \in 0..Periods - 1 /\ 0 \in 0..PerPeriod - 1 /\ 0 \in 0..ChecksumPeriod - 1
      BY <2>3, Cycle
    <3>2. ChecksumPeriod * (i + 1) + 0 \in 0..SeqModulus - 1
      BY <3>1, InPeriod
    <3>3. Following(s) = s + 1 + 1
      BY <2>1, <2>2, <3>2, NotWrapped
    <3>4. SeqSent(PerPeriod * (i + 1) + 0) = ChecksumPeriod * (i + 1) + 0
      BY <3>1, SentAtPlace
    <3>. QED  BY <1>2, <2>2, <3>3, <3>4
  <2>4. CASE i + 1 = Periods
    <3>1. s + 1 + 1 = SeqModulus /\ PerPeriod * i + (r + 1) = SentPerCycle
      BY <1>3, <2>2, <2>4, Cycle
    <3>2. Following(s) = 0
      BY <2>1, <3>1, WrapsToZero
    <3>3. SeqSent(SentPerCycle) = 0 + 0 \div PerPeriod
      BY WrapsToZero DEF SeqSent, PerPeriod
    <3>4. 0 \div PerPeriod = 0
      <4>1. 0 = PerPeriod * 0 + 0 /\ 0 \in 0..PerPeriod - 1
        BY Cycle
      <4>. QED  BY <4>1, Cycle, DividingUnique
    <3>. QED  BY <1>2, <3>1, <3>2, <3>3, <3>4
  <2>. QED  BY <2>3, <2>4, Cycle
<1>. QED  BY <1>5, <1>6

\* Numbers tell apart what is sent in a cycle.
LEMMA SentOnce ==
    ASSUME NEW n \in Int, NEW lost \in 0..SentPerCycle - 1, SeqSent(n + lost) = SeqSent(n)
    PROVE  lost = 0
<1>. DEFINE C == SentPerCycle
<1>1. \A m \in Int : SeqSent(m) - SeqSent(m) \div ChecksumPeriod = m % C
  <2>. SUFFICES ASSUME NEW m \in Int
                PROVE  SeqSent(m) - SeqSent(m) \div ChecksumPeriod = m % C
    OBVIOUS
  <2>. DEFINE k == m % C
              j == k \div PerPeriod
              r == k % PerPeriod
  <2>1. k \in Int
    BY SentPerCycleType, Dividing
  <2>2. j \in Int /\ r \in 0..PerPeriod - 1 /\ k = PerPeriod * j + r
    <3>. HIDE DEF k
    <3>. QED  BY <2>1, Cycle, Dividing
  <2>3. SeqSent(m) = k + j
    BY DEF SeqSent, PerPeriod
  <2>. HIDE DEF k, j, r
  <2>4. ChecksumPeriod * j = PerPeriod * j + j /\ PerPeriod * j \in Int
    BY <2>2, Cycle
  <2>5. SeqSent(m) = ChecksumPeriod * j + r /\ r \in 0..ChecksumPeriod - 1 /\ SeqSent(m) \in Int
    BY <2>1, <2>2, <2>3, <2>4, Cycle
  <2>6. SeqSent(m) \div ChecksumPeriod = j
    BY <2>2, <2>5, Cycle, DividingUnique
  <2>. QED  BY <2>1, <2>2, <2>3, <2>6 DEF k
<1>2. (n + lost) % C = n % C
  <2>1. n + lost \in Int
    BY SentPerCycleType
  <2>. QED  BY <1>1, <2>1
<1>3. C \in Nat \ {0} /\ lost \in 0..C - 1
  BY SentPerCycleType
<1>. HIDE DEF C
<1>. DEFINE p == (n + lost) \div C
            q == n \div C
            t == n % C
<1>4. p \in Int /\ q \in Int /\ t \in Int /\ n + lost = C * p + t /\ n = C * q + t
  <2>1. n + lost \in Int
    BY <1>3
  <2>. DEFINE m == n + lost
  <2>2. m \in Int /\ m % C = t
    BY <1>2, <2>1
  <2>3. p \in Int /\ m = C * p + t
    <3>. HIDE DEF m
    <3>1. m \div C \in Int /\ m = C * (m \div C) + (m % C)
      BY <1>3, <2>2, Dividing
    <3>. QED  BY <2>2, <3>1 DEF m
  <2>4. q \in Int /\ t \in Int /\ n = C * q + t
    BY <1>3, Dividing
  <2>. QED  BY <2>3, <2>4
<1>. HIDE DEF p, q, t
<1>5. /\ C * p \in Int /\ C * q \in Int /\ C * (q + 1) = C * q + C
      /\ C * (p + 1) = C * p + C /\ lost = C * p - C * q
  BY <1>3, <1>4
<1>6. p < q + 1 /\ q < p + 1
  <2>1. C * p < C * (q + 1) /\ C * q < C * (p + 1)
    BY <1>3, <1>5
  <2>. QED  BY <1>3, <1>4, <2>1, SmallerFactor
<1>7. p = q
  BY <1>4, <1>6
<1>. QED  BY <1>5, <1>7

LEMMA NoneMissed ==
    ASSUME NEW s \in 0..SeqModulus - 1, ~IsChecksum(s), NEW lost \in 0..SentPerCycle - 1
    PROVE  /\ NumbersMissed(s, lost) \in 0..SeqModulus - 1
           /\ NumbersMissed(s, lost) = 0 => lost = 0
<1>. DEFINE a == SeqAfter(s, lost)
            f == Following(s)
            n == s - s \div ChecksumPeriod + 1
<1>1. n \in Int /\ lost \in Int
  <2>1. s \in Int /\ s \div ChecksumPeriod \in Int
    BY Cycle, Dividing
  <2>. QED  BY <2>1, SentPerCycleType
<1>2. a = SeqSent(n + lost) /\ f = SeqSent(n)
  <2>1. \A x \in Int : s - s \div ChecksumPeriod + x + 1 = n + x
    <3>1. s \in Int /\ s \div ChecksumPeriod \in Int
      BY Cycle, Dividing
    <3>. DEFINE d == s \div ChecksumPeriod
    <3>. HIDE DEF d
    <3>2. \A x \in Int : s - d + x + 1 = s - d + 1 + x
      BY <3>1 DEF d
    <3>. QED  BY <3>2 DEF d
  <2>2. s - s \div ChecksumPeriod + lost + 1 = n + lost
    BY <1>1, <2>1
  <2>3. s - s \div ChecksumPeriod + 0 + 1 = n
    BY <1>1, <2>1
  <2>4. f = SeqSent(s - s \div ChecksumPeriod + 0 + 1)
    BY DueIsSent DEF SeqAfter
  <2>. QED  BY <2>2, <2>3, <2>4 DEF SeqAfter
<1>. HIDE DEF n
<1>3. a \in 0..SeqModulus - 1 /\ f \in 0..SeqModulus - 1
  <2>1. n + lost \in Int
    BY <1>1
  <2>. QED  BY <1>1, <1>2, <2>1, SeqSentType
<1>4. NumbersMissed(s, lost) = (a - f) % SeqModulus
  <2>1. lost # -1 /\ lost \in Int /\ lost = SentPerCycle * 0 + lost
    BY SentPerCycleType
  <2>2. lost \div SentPerCycle = 0
    BY <2>1, SentPerCycleType, DividingUnique
  <2>. DEFINE x == a - f
  <2>3. x % SeqModulus \in 0..SeqModulus - 1
    <3>1. x \in Int
      BY <1>3
    <3>. HIDE DEF x
    <3>. QED  BY <3>1, Remainder
  <2>4. NumbersMissed(s, lost) = (x % SeqModulus) + SeqModulus * 0
    BY <2>1, <2>2 DEF NumbersMissed
  <2>. HIDE DEF x
  <2>5. NumbersMissed(s, lost) = x % SeqModulus
    BY <2>3, <2>4, Remainders
  <2>. QED  BY <2>5 DEF x
<1>5. a = f => lost = 0
  BY <1>1, <1>2, SentOnce
<1>. HIDE DEF a, f
<1>6. a \in Int /\ f \in Int /\ SeqModulus \in Nat \ {0, 1}
  BY <1>3, Remainders
<1>. DEFINE x == a - f
<1>7. x \in Int /\ x \in -(SeqModulus - 1)..SeqModulus - 1
  BY <1>3, <1>6
<1>8. x = 0 => lost = 0
  BY <1>5, <1>6
<1>. HIDE DEF x
<1>9. x % SeqModulus \in 0..SeqModulus - 1 /\ (x % SeqModulus = 0 => x = 0)
  BY <1>7, Remainders, Remainder
<1>. QED  BY <1>4, <1>8, <1>9 DEF x

-----------------------------------------------------------------------------
(***************************************************************************)
(* What a header of an exact source says, in numbers.                      *)
(***************************************************************************)
Samples(hdr) == SamplesPerPacket(Bits(hdr), hdr.cx)

LEMMA QuotientNat == \A a \in Nat : \A b \in Nat \ {0} : a \div b \in Nat
<1>. SUFFICES ASSUME NEW a \in Nat, NEW b \in Nat \ {0} PROVE a \div b \in Nat
  OBVIOUS
<1>. DEFINE q == a \div b
<1>1. q \in Int /\ a = b * q + (a % b) /\ a % b \in 0..b - 1
  BY Dividing
<1>. HIDE DEF q
<1>2. b * 0 < b * (q + 1)
  <2>1. b * (q + 1) = b * q + b /\ b * q \in Int
    BY <1>1
  <2>. QED  BY <1>1, <2>1
<1>3. 0 < q + 1
  BY <1>1, <1>2, SmallerFactor
<1>. QED  BY <1>1, <1>3 DEF q

LEMMA SamplesNat ==
    ASSUME NEW hdr \in HeaderType, Bits(hdr) >= 8
    PROVE  Samples(hdr) \in Nat
<1>. DEFINE b == Bits(hdr) \div 8
            n == SDDS_DATA_SIZE \div b
<1>1. b \in Nat \ {0}
  BY BitsType
<1>2. SDDS_DATA_SIZE \in Nat
  BY ProcessorAssumption
<1>. HIDE DEF b
<1>3. n \in Nat
  BY <1>1, <1>2, QuotientNat
<1>. HIDE DEF n
<1>4. n \div 2 \in Nat
  BY <1>3, QuotientNat
<1>. QED  BY <1>3, <1>4 DEF Samples, SamplesPerPacket, n, b

LEMMA ExactHeader ==
    ASSUME Typed, ExactSource, NEW hdr \in offers.headers
    PROVE  /\ hdr \in HeaderType /\ Bits(hdr) \in 8..32 /\ Samples(hdr) \in Nat
           /\ hdr.xdelta # Infinite =>
                 /\ hdr.xdelta \in Nat /\ Samples(hdr) * hdr.xdelta \in Nat
                 /\ Samples(hdr) * hdr.xdelta <= offers.maxElapsed
           /\ "half" \in offers.kinds /\ hdr.xdelta # Infinite =>
                 /\ hdr.cx /\ Samples(hdr) > 2
                 /\ hdr.xdelta > 0 /\ hdr.xdelta = 2 * (hdr.xdelta \div 2)
<1>1. hdr \in HeaderType /\ offers \in Offers
  BY OffersTyped DEF Typed, WorldTyped
<1>2. Bits(hdr) \in 8..32 /\ Samples(hdr) \in Nat
  BY <1>1, BitsType, SamplesNat DEF ExactSource
<1>3. ASSUME hdr.xdelta # Infinite
      PROVE  /\ hdr.xdelta \in Nat /\ Samples(hdr) * hdr.xdelta \in Nat
             /\ Samples(hdr) * hdr.xdelta <= offers.maxElapsed
             /\ "half" \in offers.kinds => Samples(hdr) > 2 /\ hdr.xdelta % 2 = 0
  <2>1. hdr.xdelta \in Nat
    BY <1>1, <1>3 DEF HeaderType
  <2>2. Samples(hdr) * hdr.xdelta \in Nat
    BY <1>2, <2>1
  <2>. QED  BY <1>1, <1>2, <1>3, <2>1, <2>2, TimesAssumption DEF Samples
<1>4. ASSUME "half" \in offers.kinds, hdr.xdelta # Infinite
      PROVE  hdr.cx /\ hdr.xdelta > 0 /\ hdr.xdelta = 2 * (hdr.xdelta \div 2)
  <2>1. hdr.cx /\ Differ(hdr.xdelta, hdr.xdelta \div 2)
    BY <1>4 DEF ExactSource
  <2>2. hdr.xdelta \in Nat /\ hdr.xdelta % 2 = 0
    BY <1>3, <1>4
  <2>3. hdr.xdelta = 2 * (hdr.xdelta \div 2)
    BY <2>2
  <2>4. hdr.xdelta # 0
    <3>1. ~Differ(0, 0 \div 2)
      BY ProcessorAssumption DEF Differ, Infinite
    <3>. QED  BY <2>1, <3>1
  <2>. QED  BY <2>1, <2>2, <2>3, <2>4
<1>. QED  BY <1>1, <1>2, <1>3, <1>4

-----------------------------------------------------------------------------
(***************************************************************************)
(* The inductive invariant.  The step that is expected is the one of the   *)
(* current SRI, but from the first packet of a session or the discovery of *)
(* a half rate until the SRI has been changed accordingly.  The time since *)
(* the packet before is the step that is expected, or half of it as long   *)
(* as a half rate has not been discovered: there is no accumulated error.  *)
(***************************************************************************)
Rate(hdr) == IF m_non_conforming_device THEN hdr.xdelta \div 2 ELSE hdr.xdelta

StepOf(hdr) == [samples |-> Samples(hdr), xdelta |-> Rate(hdr)]

JustHalved == m_non_conforming_device /\ \E hdr \in offers.headers : m_sri.xdelta = hdr.xdelta

StepAgrees == /\ time_step.samples = SamplesPerPacket(m_bps, m_sri.mode = 1)
              /\ time_step.xdelta = m_sri.xdelta \/ JustHalved

Sourced == /\ source.kind \in offers.kinds \cup {"conforming"}
           /\ source.hdr \in offers.headers
           /\ pkt # NoPacket => source.hdr = pkt.hdr

Judged == /\ m_num_time_slips = 0 /\ m_time_error_accum = 0
          /\ m_non_conforming_device => active /\ source.kind = "half"

Tuned == ~m_first_packet =>
            /\ \A hdr \in offers.headers : m_bps = Bits(hdr)
            /\ StepAgrees \/ (pc # "next" /\ time_step = StepOf(pkt.hdr))

Awaited == /\ m_last_sdds_time.age = 0 /\ source.hdr.xdelta # Infinite
           /\ time_step = StepOf(source.hdr)

InTime == LET age == m_last_sdds_time.age
          IN  IF source.kind = "half" /\ ~m_non_conforming_device
              THEN 2 * age = IdealStep(time_step) ELSE age = IdealStep(time_step)

Aged == ~m_first_packet /\ m_last_sdds_time.set /\ pending = 0 =>
            IF pkt = NoPacket THEN Awaited ELSE InTime

Exact == Sourced /\ Judged /\ Tuned /\ Aged

\* What is known of the packets anyway.
History == /\ Placed /\ Typed /\ InStep /\ Numbered /\ Accounted /\ Known /\ Ruled
           /\ ExactSource /\ ~skipped

LEMMA HeaderCountsAlways == ASSUME History PROVE HeaderCounts
BY DEF History, ExactSource, Ruled, NoPriority, HeaderCounts

-----------------------------------------------------------------------------
(***************************************************************************)
(* The write of a packet.                                                  *)
(***************************************************************************)
LEMMA WritesInTune ==
    ASSUME History, Exact, Write
    PROVE  /\ pkt # NoPacket /\ pkt.hdr \in offers.headers /\ source.hdr = pkt.hdr
           /\ ~m_first_packet /\ pending = 0 /\ pc = "emit"
           /\ pkt.hdr.xdelta # Infinite
           /\ m_sri.xdelta = Rate(pkt.hdr) /\ m_sri.mode = Mode(pkt)
           /\ time_step = StepOf(pkt.hdr)
<1>1. /\ pc = "emit" /\ pkt # NoPacket /\ ~m_first_packet
      /\ pkt.hdr \in offers.headers /\ source.hdr = pkt.hdr /\ m_sri \in SriType
  BY DEF Write, History, Placed, Typed, PktTyped, SriTyped, Exact, Sourced
<1>2. pending = 0
  <2>1. ~Ambiguous /\ DroppedExact
    BY AccountIsExact DEF History, ExactSource
  <2>. QED  BY <1>1, <2>1 DEF DroppedExact
<1>3. ~Differ(Rate(pkt.hdr), m_sri.xdelta) /\ m_sri.mode = Mode(pkt)
  <2>1. ~SddsDiffers
    BY HeaderCountsAlways DEF Write, SriHasChanged
  <2>2. HeaderXdelta(pkt) = Rate(pkt.hdr)
    BY DEF HeaderXdelta, Rate
  <2>. QED  BY <2>1, <2>2 DEF SddsDiffers
<1>4. m_sri.xdelta = Rate(pkt.hdr)
  <2>1. Rate(pkt.hdr) \in Xdeltas
    BY <1>1 DEF Rate, Xdeltas
  <2>. QED  BY <1>3, <2>1 DEF History, Known, ExactSource, Distinguishable
<1>5. pkt.hdr.xdelta # Infinite
  <2>1. Rate(pkt.hdr) # Infinite
    BY <1>3 DEF Differ
  <2>2. Infinite \div 2 = Infinite
    <3>1. Infinite \in Int /\ Infinite = 2 * Infinite + 1 /\ 1 \in 0..2 - 1
      BY DEF Infinite
    <3>2. 2 \in Nat \ {0}
      OBVIOUS
    <3>. HIDE DEF Infinite
    <3>. QED  BY <3>1, <3>2, DividingUnique
  <2>. QED  BY <2>1, <2>2 DEF Rate
<1>6. ~JustHalved
  <2>. SUFFICES ASSUME m_non_conforming_device, NEW hdr \in offers.headers,
                       m_sri.xdelta = hdr.xdelta
                PROVE  FALSE
    BY DEF JustHalved
  <2>1. "half" \in offers.kinds
    BY DEF Exact, Judged, Sourced
  <2>2. Differ(hdr.xdelta, pkt.hdr.xdelta \div 2)
    BY <1>1, <2>1 DEF History, ExactSource
  <2>3. Differ(m_sri.xdelta, Rate(pkt.hdr))
    BY <2>2 DEF Rate
  <2>. QED  BY <1>3, <2>3 DEF Differ
<1>7. time_step = StepOf(pkt.hdr)
  <2>1. time_step \in StepType /\ m_bps = Bits(pkt.hdr)
        /\ (StepAgrees \/ time_step = StepOf(pkt.hdr))
    BY <1>1 DEF Exact, Tuned, History, Typed, TimeTyped
  <2>2. pkt.hdr.cx \in BOOLEAN
    BY <1>1, ExactHeader DEF History, HeaderType
  <2>3. (m_sri.mode = 1) = pkt.hdr.cx
    BY <1>3, <2>2 DEF Mode
  <2>4. StepAgrees => time_step.samples = Samples(pkt.hdr) /\ time_step.xdelta = Rate(pkt.hdr)
    BY <1>4, <1>6, <2>1, <2>3 DEF StepAgrees, Samples
  <2>. QED  BY <2>1, <2>4 DEF StepType, StepOf
<1>. QED  BY <1>1, <1>2, <1>3, <1>4, <1>5, <1>7

\* The steps of a packet of s samples, and where half of one lies.
LEMMA Steps ==
    ASSUME NEW s \in Nat, NEW x \in Nat
    PROVE  LET step == [samples |-> s, xdelta |-> x]
           IN  /\ s * x \in Nat /\ IdealStep(step) = s * x
               /\ MinStep(step) = s * x - x /\ MaxStep(step) = s * x + x
<1>1. s * x \in Nat
  OBVIOUS
<1>2. (s - 1) * x = s * x - x /\ (s + 1) * x = s * x + x
  OBVIOUS
<1>. QED  BY <1>1, <1>2 DEF IdealStep, MinStep, MaxStep

LEMMA LongerThanTwo ==
    ASSUME NEW s \in Nat, s > 2, NEW x \in Nat, x > 0
    PROVE  s * x > 2 * x
<1>1. x * 2 < x * s
  <2>1. x * (s - 2) > 0 /\ x * (s - 2) = x * s - x * 2
    OBVIOUS
  <2>. QED  BY <2>1
<1>. QED  BY <1>1

\* What the check for time slips finds of the packet that is written: nothing, but a half
\* rate.
LEMMA WriteJudged ==
    ASSUME History, Exact, Write, ~skipped'
    PROVE  /\ m_num_time_slips' = 0 /\ m_time_error_accum' = 0
           /\ m_non_conforming_device => m_non_conforming_device'
           /\ m_non_conforming_device' => source.kind = "half"
           /\ time_step' = [samples |-> Samples(pkt.hdr),
                            xdelta  |-> IF m_non_conforming_device' THEN pkt.hdr.xdelta \div 2
                                        ELSE pkt.hdr.xdelta]
           /\ m_last_sdds_time'.set => m_last_sdds_time'.age = 0
<1>. DEFINE age == m_last_sdds_time.age
            S == Samples(pkt.hdr)
            x == pkt.hdr.xdelta
            R == Rate(pkt.hdr)
<1>1. /\ pkt # NoPacket /\ pkt.hdr \in offers.headers /\ source.hdr = pkt.hdr
      /\ ~m_first_packet /\ pending = 0 /\ x # Infinite /\ time_step = StepOf(pkt.hdr)
  BY WritesInTune
<1>2. /\ m_num_time_slips = 0 /\ m_time_error_accum = 0
      /\ m_non_conforming_device \in BOOLEAN
      /\ m_non_conforming_device => source.kind = "half"
      /\ source.kind \in {"conforming", "half"} /\ age \in Int
      /\ source.kind = "half" => "half" \in offers.kinds
  BY DEF Exact, Judged, Sourced, History, Typed, TimeTyped, YearTyped, WorldTyped
<1>3. /\ x \in Nat /\ S \in Nat
      /\ source.kind = "half" => /\ pkt.hdr.cx /\ S > 2 /\ x > 0
                                 /\ x \div 2 \in Nat /\ x = 2 * (x \div 2)
  BY <1>1, <1>2, ExactHeader DEF History
<1>4. R \in Nat /\ R # Infinite
  BY <1>2, <1>3 DEF Rate, Infinite
<1>8. m_bps = Bits(pkt.hdr) /\ m_bps # 0
  <2>1. m_bps = Bits(pkt.hdr)
    BY <1>1 DEF Exact, Tuned
  <2>2. Bits(pkt.hdr) >= 8 /\ Bits(pkt.hdr) \in 0..32
    BY <1>1, ExactHeader, BitsType DEF History
  <2>. QED  BY <2>1, <2>2
<1>5. ASSUME UNCHANGED timeVars
      PROVE  /\ m_num_time_slips' = 0 /\ m_time_error_accum' = 0
             /\ m_non_conforming_device' = m_non_conforming_device
             /\ time_step' = [samples |-> S, xdelta |-> R]
  BY <1>1, <1>2, <1>5 DEF timeVars, StepOf
<1>6. CASE ~pkt.ttv
  <2>1. UNCHANGED timeVars /\ UNCHANGED m_last_sdds_time /\ ~m_last_sdds_time.set
    BY <1>6 DEF Write, checkForTimeSlip
  <2>. QED  BY <1>2, <1>5, <2>1 DEF Rate
<1>7. CASE pkt.ttv
  <2>1. m_last_sdds_time'.age = 0
    <3>1. m_last_sdds_time' = [set |-> TRUE, age |-> 0, year |-> pkt.year]
      BY <1>7 DEF Write, checkForTimeSlip
    <3>. QED  BY <3>1
  <2>2. CASE ~m_last_sdds_time.set \/ TimeWentBack
    <3>1. UNCHANGED timeVars
      BY <1>7, <2>2 DEF Write, checkForTimeSlip
    <3>. QED  BY <1>2, <1>5, <2>1, <3>1 DEF Rate
  <2>3. CASE m_last_sdds_time.set /\ ~TimeWentBack
    <3>. DEFINE halved == /\ ~Within(age, time_step)
                          /\ ~m_non_conforming_device /\ pkt.hdr.cx
                          /\ m_num_time_slips = 0
                          /\ MinStep(time_step) < 2 * age
                          /\ 2 * age < MaxStep(time_step)
                step  == IF halved
                         THEN ExpectedStep(m_bps, pkt.hdr.cx, time_step.xdelta \div 2)
                         ELSE time_step
                accum == m_time_error_accum + age - IdealStep(step)
                drifted == \/ step.xdelta = Infinite
                           \/ accum > ErrorTolerance \/ -accum > ErrorTolerance
                slip  == drifted \/ (~Within(age, time_step) /\ ~halved)
    <3>1. /\ time_step' = step
          /\ m_non_conforming_device' = (m_non_conforming_device \/ halved)
          /\ m_time_error_accum' = IF drifted THEN 0 ELSE accum
          /\ m_num_time_slips' = m_num_time_slips + (IF slip THEN 1 ELSE 0)
      BY <1>7, <2>3 DEF Write, checkForTimeSlip
    <3>2. /\ S * R \in Nat /\ IdealStep(time_step) = S * R
          /\ MinStep(time_step) = S * R - R /\ MaxStep(time_step) = S * R + R
      BY <1>1, <1>3, <1>4, Steps DEF StepOf
    <3>3. InTime
      BY <1>1, <2>3 DEF Exact, Aged
    <3>4. CASE ~(source.kind = "half" /\ ~m_non_conforming_device)
      <4>1. age = S * R
        BY <3>2, <3>3, <3>4 DEF InTime
      <4>2. Within(age, time_step)
        BY <1>4, <3>2, <4>1 DEF Within
      <4>3. step = [samples |-> S, xdelta |-> R] /\ ~halved
        BY <1>1, <4>2 DEF StepOf
      <4>. HIDE DEF halved, step
      <4>4. accum = 0
        BY <1>1, <1>2, <3>2, <4>1, <4>3 DEF StepOf
      <4>5. step.xdelta # Infinite
        BY <1>4, <4>3
      <4>. HIDE DEF accum
      <4>6. ~drifted
        BY <4>4, <4>5, ProcessorAssumption
      <4>7. ~slip
        BY <4>2, <4>6
      <4>. HIDE DEF drifted, slip
      <4>. QED  BY <1>2, <2>1, <3>1, <4>3, <4>4, <4>6, <4>7 DEF Rate
    <3>5. CASE source.kind = "half" /\ ~m_non_conforming_device
      <4>1. R = x /\ 2 * age = S * x
        BY <3>2, <3>3, <3>5 DEF InTime, Rate
      <4>2. S * x \in Nat /\ S * x > 2 * x
        BY <1>3, <3>5, LongerThanTwo
      <4>3. ~Within(age, time_step)
        BY <1>2, <1>3, <3>2, <4>1, <4>2 DEF Within
      <4>4. halved
        BY <1>2, <1>3, <3>2, <3>5, <4>1, <4>2, <4>3
      <4>5. step = [samples |-> S, xdelta |-> x \div 2]
        BY <1>1, <1>8, <4>1, <4>4 DEF StepOf, ExpectedStep, Samples
      <4>. HIDE DEF halved, step
      <4>6. age = S * (x \div 2)
        <5>. DEFINE h == x \div 2
        <5>1. h \in Nat /\ x = 2 * h
          BY <1>3, <3>5
        <5>. HIDE DEF h
        <5>2. S * x = 2 * (S * h) /\ S * h \in Nat
          BY <1>3, <5>1
        <5>3. age = S * h
          BY <1>2, <4>1, <5>2
        <5>. QED  BY <5>3 DEF h
      <4>7. IdealStep(step) = S * (x \div 2) /\ step.xdelta \in Nat
        BY <1>3, <3>5, <4>5 DEF IdealStep
      <4>8. accum = 0
        BY <1>2, <4>6, <4>7
      <4>. HIDE DEF accum
      <4>9. ~drifted
        BY <4>7, <4>8, ProcessorAssumption DEF Infinite
      <4>10. ~slip
        BY <4>4, <4>9
      <4>11. m_non_conforming_device' = TRUE
        BY <3>1, <4>4
      <4>. HIDE DEF drifted, slip
      <4>12. m_time_error_accum' = 0 /\ m_num_time_slips' = 0 /\ time_step' = step
        BY <1>2, <3>1, <4>8, <4>9, <4>10
      <4>. QED  BY <2>1, <3>5, <4>5, <4>11, <4>12
    <3>. QED  BY <3>4, <3>5
  <2>. QED  BY <2>2, <2>3
<1>. QED  BY <1>6, <1>7

-----------------------------------------------------------------------------
(***************************************************************************)
(* The invariant is kept, a part at a time.                                *)
(***************************************************************************)
LEMMA SourcedStep == ASSUME History, Exact, [Next]_vars PROVE Sourced'
<1>. USE DEF Exact, Sourced
<1>1. offers' = offers /\ source \in [kind : {"conforming", "half"}, seq : 0..SeqModulus - 1,
                                      hdr : HeaderType, year : Nat]
  BY WorldStep DEF History, Typed, WorldTyped
<1>2. ASSUME NEW lost, NEW ttv, NEW hdr \in offers.headers, NEW error, NEW turn,
             Arrive(lost, ttv, hdr, error, turn)
      PROVE  Sourced'
  <2>1. pkt'.hdr = hdr
    BY <1>2 DEF Arrive
  <2>2. source'.hdr = hdr /\ source'.kind = source.kind
    BY <1>1, <1>2 DEF Arrive
  <2>. QED  BY <1>1, <2>1, <2>2
<1>3. CASE BeginRun
  <2>1. PICK kind \in offers.kinds, seq \in 0..SeqModulus - 1 :
            source' = [source EXCEPT !.kind = kind, !.seq = seq, !.hdr = FirstHeader]
    BY <1>3 DEF BeginRun
  <2>2. FirstHeader \in offers.headers
    <3>1. offers.headers # {}
      BY OffersTyped DEF History, Typed, WorldTyped
    <3>. QED  BY <3>1 DEF FirstHeader
  <2>3. source'.kind = kind /\ source'.hdr = FirstHeader
    BY <1>1, <2>1
  <2>4. pkt' = NoPacket
    BY <1>3 DEF BeginRun, History, Numbered
  <2>. QED  BY <1>1, <2>2, <2>3, <2>4
<1>4. ASSUME source' = source, pkt' \in {pkt, NoPacket} PROVE Sourced'
  BY <1>1, <1>4
<1>5. CASE \/ NewYear \/ DiscardInvalid \/ LosePackets \/ ChangeTtv \/ Accept \/ MergeUpstream
           \/ ChangeSri \/ Write \/ (\E sri \in offers.sris : setUpstreamSri(sri))
           \/ unsetUpstreamSri \/ EndRun \/ UNCHANGED vars
  <2>1. source' = source /\ pkt' \in {pkt, NoPacket}
    BY <1>5 DEF NewYear, DiscardInvalid, LosePackets, ChangeTtv, Accept, MergeUpstream,
       ChangeSri, Write, setUpstreamSri, unsetUpstreamSri, EndRun, worldVars, vars
  <2>. QED  BY <1>4, <2>1
<1>. QED  BY <1>2, <1>3, <1>5 DEF Next

\* What else there is to a device that sends half its rate.
LEMMA KindKept ==
    ASSUME History, [Next]_vars, ~BeginRun
    PROVE  source'.kind = source.kind
<1>1. ASSUME NEW lost, NEW ttv, NEW hdr, NEW error, NEW turn,
             Arrive(lost, ttv, hdr, error, turn)
      PROVE  source'.kind = source.kind
  BY <1>1 DEF Arrive, History, Typed, WorldTyped
<1>2. CASE \/ NewYear \/ DiscardInvalid \/ LosePackets \/ ChangeTtv \/ Accept \/ MergeUpstream
           \/ ChangeSri \/ Write \/ (\E sri \in offers.sris : setUpstreamSri(sri))
           \/ unsetUpstreamSri \/ EndRun \/ UNCHANGED vars
  BY <1>2 DEF NewYear, DiscardInvalid, LosePackets, ChangeTtv, Accept, MergeUpstream,
     ChangeSri, Write, setUpstreamSri, unsetUpstreamSri, EndRun, worldVars, vars
<1>. QED  BY <1>1, <1>2 DEF Next

LEMMA JudgedStep == ASSUME History, Exact, [Next]_vars, ~skipped' PROVE Judged'
<1>. USE DEF Exact, Judged
<1>1. CASE Write
  <2>1. active /\ active' = active /\ source' = source
    BY <1>1 DEF Write, History, Placed, threadVars, worldVars
  <2>. QED  BY <1>1, <2>1, WriteJudged
<1>2. CASE EndRun
  BY <1>2 DEF EndRun
<1>3. CASE BeginRun
  <2>1. ~m_non_conforming_device /\ UNCHANGED timeVars
    BY <1>3 DEF BeginRun
  <2>. QED  BY <2>1 DEF timeVars
<1>4. CASE ~(Write \/ EndRun \/ BeginRun)
  <2>1. UNCHANGED <<m_time_error_accum, m_num_time_slips, m_non_conforming_device>>
    BY <1>4, Untouched DEF Accept, ChangeSri, timeVars
  <2>2. active' = active
    BY <1>4 DEF Next, Arrive, NewYear, DiscardInvalid, LosePackets, ChangeTtv, Accept,
       MergeUpstream, ChangeSri, setUpstreamSri, unsetUpstreamSri, threadVars, vars
  <2>3. source'.kind = source.kind
    BY <1>4, KindKept
  <2>. QED  BY <2>1, <2>2, <2>3
<1>. QED  BY <1>1, <1>2, <1>3, <1>4

LEMMA TunedStep == ASSUME History, Exact, [Next]_vars, ~skipped' PROVE Tuned'
<1>. USE DEF Exact, Tuned
<1>1. offers' = offers /\ \A hdr \in offers.headers : hdr \in HeaderType /\ Bits(hdr) \in 8..32
  BY WorldStep, ExactHeader DEF History
<1>2. m_sri \in SriType
  BY DEF History, Typed, SriTyped
<1>3. ASSUME UNCHANGED <<m_first_packet, m_bps, time_step, m_non_conforming_device>>,
             m_sri'.xdelta = m_sri.xdelta, m_sri'.mode = m_sri.mode,
             pc = "next" \/ (pc' # "next" /\ pkt' = pkt)
      PROVE  Tuned'
  <2>1. StepAgrees => StepAgrees'
    BY <1>1, <1>3 DEF StepAgrees, JustHalved
  <2>2. pc # "next" => pc' # "next" /\ StepOf(pkt.hdr)' = StepOf(pkt.hdr)
    BY <1>3 DEF StepOf, Rate
  <2>. QED  BY <1>1, <1>3, <2>1, <2>2
<1>4. CASE Accept
  <2>1. CASE m_first_packet
    <3>1. /\ pkt' = pkt /\ m_non_conforming_device' = m_non_conforming_device
          /\ pkt # NoPacket /\ pc' = "merge" /\ m_bps' = Bits(pkt.hdr)
      BY <1>4, <2>1 DEF Accept, InTurn
    <3>2. pkt.hdr \in offers.headers
      BY <3>1 DEF History, Typed, PktTyped
    <3>3. Bits(pkt.hdr) \in 8..32 /\ Bits(pkt.hdr) # 0 /\ ~DivisionTraps(Bits(pkt.hdr))
      <4>1. Bits(pkt.hdr) \in 8..32
        BY <1>1, <3>2
      <4>. QED  BY <4>1 DEF DivisionTraps
    <3>4. time_step' = ExpectedStep(Bits(pkt.hdr), pkt.hdr.cx, HeaderXdelta(pkt))
      BY <1>4, <2>1, <3>3 DEF Accept
    <3>5. time_step' = StepOf(pkt.hdr)
      BY <3>3, <3>4 DEF ExpectedStep, HeaderXdelta, StepOf, Samples, Rate
    <3>6. StepOf(pkt.hdr)' = StepOf(pkt.hdr)
      BY <3>1 DEF StepOf, Rate
    <3>7. \A hdr \in offers.headers : m_bps' = Bits(hdr)
      BY <3>1, <3>2 DEF History, ExactSource
    <3>. QED  BY <1>1, <3>1, <3>5, <3>6, <3>7
  <2>2. CASE ~m_first_packet
    BY <1>3, <1>4, <2>2 DEF Accept, InTurn, sriVars
  <2>. QED  BY <2>1, <2>2
<1>5. CASE MergeUpstream
  <2>1. m_sri' = m_sri \/ m_sri' = Merged(m_sri, m_upstream_sri, FALSE)
    <3>1. ~m_use_upstream_sri /\ (m_upstream_sri_set => ~HasPriority(m_upstream_sri))
      BY HeaderCountsAlways DEF History, Ruled, ExactSource, HeaderCounts
    <3>. QED  BY <1>5, <3>1 DEF MergeUpstream, sriVars
  <2>2. m_sri'.xdelta = m_sri.xdelta /\ m_sri'.mode = m_sri.mode
    BY <1>2, <2>1 DEF Merged, History, Typed, SriTyped, SriType
  <2>3. /\ UNCHANGED <<m_first_packet, m_bps, time_step, m_non_conforming_device>>
        /\ pc' # "next" /\ pkt' = pkt
    BY <1>5 DEF MergeUpstream, orderVars, timeVars
  <2>. QED  BY <1>3, <2>2, <2>3
<1>6. CASE unsetUpstreamSri
  <2>1. m_sri'.xdelta = m_sri.xdelta /\ m_sri'.mode = m_sri.mode
    BY <1>2, <1>6 DEF unsetUpstreamSri, SriType
  <2>2. /\ UNCHANGED <<m_first_packet, m_bps, time_step, m_non_conforming_device, pc, pkt>>
    BY <1>6 DEF unsetUpstreamSri, orderVars, timeVars
  <2>. QED  BY <1>3, <2>1, <2>2
<1>7. CASE ChangeSri
  <2>1. /\ pc = "emit" /\ pkt # NoPacket /\ ~m_first_packet /\ pkt.hdr \in offers.headers
        /\ pkt.hdr.cx \in BOOLEAN /\ m_bps = Bits(pkt.hdr) /\ Bits(pkt.hdr) \in 8..32
    <3>1. pc = "emit" /\ pkt # NoPacket /\ ~m_first_packet /\ pkt.hdr \in offers.headers
      BY <1>7 DEF ChangeSri, History, Placed, Typed, PktTyped
    <3>. QED  BY <1>1, <3>1 DEF HeaderType
  <2>2. /\ m_sri' = SddsMerged /\ m_bps' = m_bps
        /\ m_non_conforming_device' = m_non_conforming_device
        /\ time_step' = ExpectedStep(m_bps, pkt.hdr.cx, HeaderXdelta(pkt))
    BY <1>7, HeaderCountsAlways DEF ChangeSri, SriNow, orderVars
  <2>3. time_step' = StepOf(pkt.hdr)
    BY <2>1, <2>2 DEF ExpectedStep, HeaderXdelta, StepOf, Samples, Rate
  <2>4. m_sri'.mode = Mode(pkt) /\ m_sri'.xdelta = Rate(pkt.hdr)
    <3>1. HeaderXdelta(pkt) \in Xdeltas /\ m_sri.xdelta \in Xdeltas
      BY <2>1, HeaderKnown DEF History, Known
    <3>2. Differ(HeaderXdelta(pkt), m_sri.xdelta) \/ HeaderXdelta(pkt) = m_sri.xdelta
      BY <3>1 DEF History, ExactSource, Distinguishable
    <3>3. SddsMerged.mode = Mode(pkt) /\ SddsMerged.xdelta = HeaderXdelta(pkt)
      BY <1>2, <3>2 DEF SddsMerged, SriType
    <3>. QED  BY <2>2, <3>3 DEF HeaderXdelta, Rate
  <2>5. (m_sri'.mode = 1) = pkt.hdr.cx
    BY <2>1, <2>4 DEF Mode
  <2>6. StepAgrees'
    BY <2>1, <2>2, <2>3, <2>4, <2>5 DEF StepAgrees, StepOf, Samples
  <2>. QED  BY <1>1, <2>1, <2>2, <2>6
<1>8. CASE Write
  <2>1. /\ pkt.hdr \in offers.headers /\ ~m_first_packet
        /\ m_sri.xdelta = Rate(pkt.hdr) /\ m_sri.mode = Mode(pkt)
    BY <1>8, WritesInTune
  <2>2. /\ m_non_conforming_device => m_non_conforming_device'
        /\ time_step' = [samples |-> Samples(pkt.hdr),
                         xdelta  |-> IF m_non_conforming_device' THEN pkt.hdr.xdelta \div 2
                                     ELSE pkt.hdr.xdelta]
    BY <1>8, WriteJudged
  <2>3. m_bps' = m_bps /\ m_sri' = m_sri /\ m_bps = Bits(pkt.hdr)
    BY <1>8, <2>1 DEF Write, sriVars
  <2>4. pkt.hdr.cx \in BOOLEAN
    BY <1>1, <2>1 DEF HeaderType
  <2>5. (m_sri'.mode = 1) = pkt.hdr.cx
    BY <2>1, <2>3, <2>4 DEF Mode
  <2>6. time_step'.samples = SamplesPerPacket(m_bps, m_sri.mode = 1)'
    BY <2>2, <2>3, <2>5 DEF Samples
  <2>7. time_step'.xdelta = m_sri'.xdelta \/ JustHalved'
    <3>1. CASE m_non_conforming_device' /\ ~m_non_conforming_device
      BY <1>1, <2>1, <2>3, <3>1 DEF JustHalved, Rate
    <3>2. CASE ~(m_non_conforming_device' /\ ~m_non_conforming_device)
      BY <2>1, <2>2, <2>3, <3>2 DEF Rate
    <3>. QED  BY <3>1, <3>2
  <2>8. StepAgrees'
    BY <2>6, <2>7 DEF StepAgrees
  <2>. QED  BY <1>1, <2>1, <2>3, <2>8
<1>9. CASE LosePackets \/ EndRun
  BY <1>9 DEF LosePackets, EndRun
<1>10. CASE BeginRun
  BY <1>10 DEF BeginRun, orderVars, History, Numbered
<1>11. ASSUME NEW lost, NEW ttv, NEW hdr, NEW error, NEW turn,
              Arrive(lost, ttv, hdr, error, turn)
       PROVE  Tuned'
  BY <1>3, <1>11 DEF Arrive, orderVars, timeVars, sriVars
<1>12. CASE \/ NewYear \/ DiscardInvalid \/ ChangeTtv
            \/ (\E sri \in offers.sris : setUpstreamSri(sri)) \/ UNCHANGED vars
  <2>1. UNCHANGED <<m_first_packet, m_bps, time_step, m_non_conforming_device, m_sri, pc>>
    BY <1>12 DEF NewYear, DiscardInvalid, ChangeTtv, setUpstreamSri, orderVars, timeVars,
       sriVars, vars
  <2>2. pc = "next" \/ pkt' = pkt
    BY <1>12 DEF NewYear, DiscardInvalid, ChangeTtv, setUpstreamSri, InTurn, vars
  <2>. QED  BY <1>3, <2>1, <2>2
<1>. QED  BY <1>4, <1>5, <1>6, <1>7, <1>8, <1>9, <1>10, <1>11, <1>12 DEF Next

\* The next packet comes.  Without a loss it is as far from the one before as that takes,
\* in exact numbers: the bound on times does not cut it.
LEMMA ArriveAged ==
    ASSUME History, Exact,
           NEW lost \in offers.gaps, NEW ttv \in offers.ttv, NEW hdr \in offers.headers,
           NEW error \in offers.errors, NEW turn \in BOOLEAN,
           Arrive(lost, ttv, hdr, error, turn)
    PROVE  Aged'
<1>1. SUFFICES ASSUME ~m_first_packet', m_last_sdds_time'.set, pending' = 0
               PROVE  InTime'
  BY Arrived DEF Aged, History
<1>. DEFINE s == source.hdr
            S == Samples(s)
            x == s.xdelta
<1>2. /\ pkt = NoPacket /\ ~m_first_packet /\ m_last_sdds_time.set
      /\ m_last_sdds_time' = [m_last_sdds_time EXCEPT !.age =
                                Saturated(@ + (lost + 1) * Duration(s) + error)]
      /\ source'.kind = source.kind
      /\ UNCHANGED <<time_step, m_non_conforming_device>>
  BY <1>1 DEF Arrive, orderVars, timeVars, NoTime, History, Typed, WorldTyped
<1>3. error = 0 /\ lost \in 0..SentPerCycle - 1 /\ offers.gaps \subseteq 0..SentPerCycle - 1
  BY DEF History, ExactSource, Ambiguous
<1>4. pending = 0 /\ lost = 0
  <2>1. source.seq \in 0..SeqModulus - 1 /\ ~IsChecksum(source.seq) /\ pending \in Nat
    BY <1>3, NumberTypes DEF History, Numbered, Accounted, Bounded, Ambiguous
  <2>2. /\ NumbersMissed(source.seq, lost) \in Nat
        /\ NumbersMissed(source.seq, lost) = 0 => lost = 0
    <3>1. /\ NumbersMissed(source.seq, lost) \in 0..SeqModulus - 1
          /\ NumbersMissed(source.seq, lost) = 0 => lost = 0
      BY <1>3, <2>1, NoneMissed
    <3>. QED  BY <3>1
  <2>. DEFINE n == NumbersMissed(source.seq, lost)
  <2>3. pending' \in {pending + n, pending + n + 1}
    BY <2>1, <2>2 DEF Arrive
  <2>. HIDE DEF n
  <2>. QED  BY <1>1, <2>1, <2>2, <2>3 DEF n
<1>5. m_last_sdds_time.age = 0 /\ x # Infinite /\ time_step = StepOf(s)
  BY <1>2, <1>4 DEF Exact, Aged, Awaited
<1>6. /\ s \in offers.headers /\ source.kind \in {"conforming", "half"}
      /\ source.kind = "half" => "half" \in offers.kinds
      /\ m_non_conforming_device => source.kind = "half"
      /\ offers.maxElapsed \in Nat
  BY OffersTyped DEF Exact, Sourced, Judged, History, Typed, WorldTyped
<1>7. /\ Bits(s) \in 8..32 /\ x \in Nat /\ S \in Nat /\ S * x \in Nat /\ S * x <= offers.maxElapsed
      /\ source.kind = "half" => x \div 2 \in Nat /\ x = 2 * (x \div 2)
  BY <1>5, <1>6, ExactHeader DEF History
<1>8. Duration(s) = IF source.kind = "half" THEN (S * x) \div 2 ELSE (S * x) \div 1
  <2>1. ~(Bits(s) < 8)
    BY <1>7
  <2>. QED  BY <1>5, <2>1 DEF Duration, Samples
<1>9. m_last_sdds_time'.age = Saturated(Duration(s))
  <2>1. Duration(s) \in Int
    BY <1>6, ExactHeader, DurationType DEF History
  <2>2. 0 + (0 + 1) * Duration(s) + 0 = Duration(s)
    BY <2>1
  <2>3. m_last_sdds_time'.age = Saturated(m_last_sdds_time.age + (lost + 1) * Duration(s) + error)
    BY <1>2 DEF History, Typed, YearTyped
  <2>. QED  BY <1>3, <1>4, <1>5, <2>2, <2>3
<1>10. \A d \in Nat : d <= offers.maxElapsed => Saturated(d) = d
  BY <1>6 DEF Saturated
<1>11. CASE source.kind = "half"
  <2>. DEFINE h == x \div 2
  <2>1. h \in Nat /\ x = 2 * h
    BY <1>7, <1>11
  <2>. HIDE DEF h
  <2>2. S * x = 2 * (S * h) /\ S * h \in Nat
    BY <1>7, <2>1
  <2>3. (S * x) \div 2 = S * h
    <3>. DEFINE q == S * h
                n == S * x
    <3>1. n \in Int /\ q \in Int /\ n = 2 * q + 0 /\ 0 \in 0..2 - 1 /\ 2 \in Nat \ {0}
      BY <1>7, <2>2
    <3>. HIDE DEF q, n
    <3>2. n \div 2 = q
      BY <3>1, DividingUnique
    <3>. QED  BY <3>2 DEF q, n
  <2>4. m_last_sdds_time'.age = S * h
    <3>. DEFINE q == S * h
                n == S * x
    <3>1. q \in Nat /\ n = 2 * q /\ n <= offers.maxElapsed
      BY <1>7, <2>2
    <3>2. Duration(s) = q
      BY <1>8, <1>11, <2>3
    <3>. HIDE DEF q, n
    <3>3. Saturated(q) = q
      BY <1>6, <1>10, <3>1
    <3>. QED  BY <1>9, <3>2, <3>3 DEF q
  <2>5. IdealStep(time_step) = IF m_non_conforming_device THEN S * h ELSE S * x
    BY <1>5 DEF IdealStep, StepOf, Rate, h
  <2>. QED  BY <1>2, <1>11, <2>2, <2>4, <2>5 DEF InTime
<1>12. CASE source.kind # "half"
  <2>1. (S * x) \div 1 = S * x
    BY <1>7
  <2>2. m_last_sdds_time'.age = S * x
    BY <1>7, <1>8, <1>9, <1>10, <1>12, <2>1
  <2>3. IdealStep(time_step) = S * x
    BY <1>5, <1>6, <1>12 DEF IdealStep, StepOf, Rate
  <2>. QED  BY <1>2, <1>12, <2>2, <2>3 DEF InTime
<1>. QED  BY <1>11, <1>12

LEMMA AgedStep == ASSUME History, Exact, [Next]_vars, ~skipped' PROVE Aged'
<1>1. ASSUME UNCHANGED <<m_first_packet, m_last_sdds_time, pending, pkt, source, time_step,
                         m_non_conforming_device>>
      PROVE  Aged'
  <2>1. StepOf(source.hdr)' = StepOf(source.hdr)
    BY <1>1 DEF StepOf, Rate
  <2>2. (Awaited => Awaited') /\ (InTime => InTime')
    BY <1>1, <2>1 DEF Awaited, InTime
  <2>. QED  BY <1>1, <2>2 DEF Exact, Aged
<1>2. ASSUME m_first_packet' \/ m_last_sdds_time' = NoTime \/ pending' # 0 PROVE Aged'
  BY <1>2 DEF Aged, NoTime
<1>3. CASE DiscardInvalid
  <2>1. pending \in Nat
    BY NumberTypes DEF History, ExactSource, Accounted, Bounded
  <2>2. pending' = pending + 1
    BY <1>3 DEF DiscardInvalid
  <2>. QED  BY <1>2, <2>1, <2>2
<1>4. CASE LosePackets \/ EndRun \/ ChangeSri
  BY <1>2, <1>4 DEF LosePackets, EndRun, ChangeSri
<1>5. CASE Accept
  <2>1. CASE m_first_packet
    BY <1>2, <1>5, <2>1 DEF Accept
  <2>2. CASE ~m_first_packet
    BY <1>1, <1>5, <2>2 DEF Accept, worldVars
  <2>. QED  BY <2>1, <2>2
<1>6. CASE BeginRun
  BY <1>2, <1>6 DEF BeginRun, orderVars, History, Numbered
<1>7. CASE Write
  <2>1. /\ pkt' = NoPacket /\ source' = source /\ source.hdr = pkt.hdr
        /\ pkt.hdr.xdelta # Infinite
    BY <1>7, WritesInTune DEF Write, worldVars
  <2>2. time_step' = StepOf(source.hdr)' /\ (m_last_sdds_time'.set => m_last_sdds_time'.age = 0)
    BY <1>7, <2>1, WriteJudged DEF StepOf, Rate, Samples
  <2>. QED  BY <2>1, <2>2 DEF Aged, Awaited
<1>8. CASE \/ NewYear \/ ChangeTtv \/ MergeUpstream
           \/ (\E sri \in offers.sris : setUpstreamSri(sri)) \/ unsetUpstreamSri \/ UNCHANGED vars
  BY <1>1, <1>8 DEF NewYear, ChangeTtv, MergeUpstream, setUpstreamSri, unsetUpstreamSri,
     orderVars, yearVars, timeVars, worldVars, vars
<1>. QED  BY <1>3, <1>4, <1>5, <1>6, <1>7, <1>8, ArriveAged DEF Next

-----------------------------------------------------------------------------
LEMMA ExactStep ==
    ASSUME Placed, Typed, InStep, Numbered, Accounted, Known, Ruled,
           ExactSource /\ ~skipped => Exact, [Next]_vars
    PROVE  (ExactSource /\ ~skipped => Exact)'
<1>. SUFFICES ASSUME ExactSource', ~skipped' PROVE Exact'
  OBVIOUS
<1>1. ExactSource
  <2>1. offers' = offers
    BY WorldStep
  <2>. QED  BY <2>1 DEF ExactSource, Distinguishable, Xdeltas, Ambiguous
<1>2. ~skipped
  <2>1. CASE Write
    BY <2>1 DEF Write
  <2>2. ASSUME NEW lost, NEW ttv, NEW hdr, NEW error, NEW turn,
               Arrive(lost, ttv, hdr, error, turn)
        PROVE  skipped' = skipped
    BY <2>2 DEF Arrive
  <2>3. CASE \/ NewYear \/ DiscardInvalid \/ LosePackets \/ ChangeTtv \/ Accept \/ MergeUpstream
             \/ ChangeSri \/ (\E sri \in offers.sris : setUpstreamSri(sri))
             \/ unsetUpstreamSri \/ EndRun \/ BeginRun \/ UNCHANGED vars
    BY <2>3 DEF NewYear, DiscardInvalid, LosePackets, ChangeTtv, Accept, MergeUpstream,
       ChangeSri, setUpstreamSri, unsetUpstreamSri, EndRun, BeginRun, vars
  <2>. QED  BY <2>1, <2>2, <2>3 DEF Next
<1>3. History /\ Exact
  BY <1>1, <1>2 DEF History
<1>. QED  BY <1>3, SourcedStep, JudgedStep, TunedStep, AgedStep DEF Exact

(***************************************************************************)
(* A source whose time stamps are exact causes no time slip, whatever is   *)
(* lost, however its rate changes, its SRI comes and goes, and the thread  *)
(* is restarted: the expected step is always the one of the packet before, *)
(* the error that accumulates is 0, and half the expected step is only     *)
(* ever seen, once in a session, of a device that sends half its rate.     *)
(***************************************************************************)
THEOREM NoSlipsOfExactSources == Spec => []NoFalseSlips
<1>1. Init => (ExactSource /\ ~skipped => Exact)
  <2>. SUFFICES ASSUME Init PROVE Exact
    OBVIOUS
  <2>1. source.kind = "conforming" /\ source.hdr \in offers.headers
    <3>1. offers.headers # {}
      BY OffersTyped DEF Init
    <3>. QED  BY <3>1 DEF Init, FirstHeader
  <2>2. Sourced
    BY <2>1 DEF Init, Sourced
  <2>3. Judged /\ Tuned /\ Aged
    BY DEF Init, Judged, Tuned, Aged
  <2>. QED  BY <2>2, <2>3 DEF Exact
<1>2. /\ Placed /\ Typed /\ InStep /\ Numbered /\ Accounted /\ Known /\ Ruled
      /\ (ExactSource /\ ~skipped => Exact) /\ [Next]_vars
      => (ExactSource /\ ~skipped => Exact)'
  BY ExactStep
<1>3. (ExactSource /\ ~skipped => Exact) => NoFalseSlips
  BY DEF NoFalseSlips, Exact, Judged
<1>. QED  BY <1>1, <1>2, <1>3, PlacedAlways, TypedAlways, InStepAlways, AccountedAlways,
          KnownAlways, RuledAlways, PTL DEF Spec
=============================================================================
