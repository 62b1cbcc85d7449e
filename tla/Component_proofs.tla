-------------------------- MODULE Component_proofs --------------------------
(***************************************************************************)
(* Proofs about Component, for any CPUs, masks, priorities, sizes and      *)
(* calls.  That every behaviour of Component is one of SourceSDDS carries  *)
(* the theorems of SourceSDDS over; what is proved here is what the        *)
(* threads and the packet processor are left with.                         *)
(***************************************************************************)
EXTENDS Component, SourceSDDS_proofs

-----------------------------------------------------------------------------
(***************************************************************************)
(* Masks.  What a mask shows of a set of CPUs are those below the width.   *)
(***************************************************************************)
LEMMA ShownCpus ==
    ASSUME NEW cpus \in SUBSET Cpus
    PROVE  getAffinity(cpus) = {j \in cpus : j < WIDTH}
<1>1. \A j \in cpus : ipow(j) = IF j < WIDTH THEN {j} ELSE {}
  BY DEF ipow
<1>2. getAffinity(cpus) \subseteq {j \in cpus : j < WIDTH}
  BY <1>1 DEF getAffinity
<1>3. {j \in cpus : j < WIDTH} \subseteq getAffinity(cpus)
  BY <1>1 DEF getAffinity
<1>. QED  BY <1>2, <1>3

LEMMA MaskIsNoWord ==
    ASSUME NEW mask \in Masks
    PROVE  mask \in SUBSET Cpus /\ mask # NoMask /\ mask # Malformed
<1>1. mask \in SUBSET Cpus
  BY DEF Masks
<1>. QED  BY <1>1, MaskAssumption

\* Setting a mask gives the CPUs of it that the process may use, if there are any.
LEMMA SetByMask ==
    ASSUME NEW mask \in Masks, NEW current
    PROVE  setAffinity(current, mask)
             = IF mask \cap Allowed = {} THEN current ELSE mask \cap Allowed
<1>1. ConvertString(mask).success
  BY MaskIsNoWord DEF ConvertString
<1>2. {j \in Cpus : ipow(j) \cap mask # {}} = mask
  BY DEF Masks, ipow
<1>. QED  BY <1>1, <1>2 DEF setAffinity

LEMMA SetByNoMask ==
    ASSUME NEW mask \in {NoMask, Malformed}, NEW current
    PROVE  setAffinity(current, mask) = current
  BY DEF setAffinity, ConvertString

LEMMA ShownMask ==
    ASSUME NEW mask \in Masks
    PROVE  getAffinity(mask \cap Allowed) = mask \cap Allowed
<1>1. mask \cap Allowed \in SUBSET Cpus /\ \A j \in mask : j < WIDTH
  BY DEF Masks
<1>. QED  BY <1>1, ShownCpus

\* What a mask shows of usable CPUs is a mask, and setting it shows the same again,
\* unless it is empty: then all the process may use are given.
LEMMA ShownIsKept ==
    ASSUME NEW cpus \in SUBSET Allowed
    PROVE  /\ getAffinity(cpus) \in Masks
           /\ setAffinity(Allowed, getAffinity(cpus))
                = IF getAffinity(cpus) = {} THEN Allowed ELSE getAffinity(cpus)
           /\ getAffinity(getAffinity(cpus)) = getAffinity(cpus)
<1>1. cpus \in SUBSET Cpus
  BY CpuAssumption
<1>2. getAffinity(cpus) \in Masks /\ getAffinity(cpus) \subseteq Allowed
  BY <1>1, ShownCpus DEF Masks
<1>3. getAffinity(cpus) \cap Allowed = getAffinity(cpus)
  BY <1>2
<1>. QED  BY <1>2, <1>3, SetByMask, ShownMask

-----------------------------------------------------------------------------
(***************************************************************************)
(* A push that CORBA can transfer.                                         *)
(***************************************************************************)
LEMMA QuotientFits ==
    ASSUME NEW a \in Nat, NEW d \in Nat \ {0}
    PROVE  a \div d \in Nat /\ (a \div d) * d <= a
  OBVIOUS

LEMMA PushFits ==
    ASSUME NEW packets \in Nat
    PROVE  /\ setPktsPerRead(packets) \in Nat
           /\ setPktsPerRead(packets) * SDDS_DATA_SIZE <= CORBA_MAX_XFER_BYTES
<1>1. CASE packets * SDDS_DATA_SIZE > CORBA_MAX_XFER_BYTES
  BY <1>1, QuotientFits, TransferAssumption DEF setPktsPerRead
<1>2. CASE ~(packets * SDDS_DATA_SIZE > CORBA_MAX_XFER_BYTES)
  <2>1. packets * SDDS_DATA_SIZE \in Nat
    BY TransferAssumption
  <2>. QED  BY <1>2, <2>1, TransferAssumption DEF setPktsPerRead
<1>. QED  BY <1>1, <1>2

-----------------------------------------------------------------------------
(***************************************************************************)
(* Every behaviour of Component is one of SourceSDDS.                      *)
(***************************************************************************)
THEOREM CallsAreTheComponents == CSpec => Spec
<1>1. CInit => Init /\ offers \in Offers
  BY DEF CInit
<1>2. offers \in Offers /\ [CNext]_cvars => (offers \in Offers)'
  BY DEF CNext, cvars, ThreadsFollow, Optimize, get_advanced_optimizations_struct,
         set_advanced_configuration_struct, taskset
<1>3. ASSUME offers \in Offers, [CNext]_cvars PROVE [Next]_vars
  <2>. USE <1>3
  <2>1. /\ offers.addresses \subseteq Addresses /\ offers.ids \subseteq StreamIds
        /\ offers.orders \subseteq Endianness /\ offers.pools \subseteq Sizes
        /\ offers.sizes \subseteq Sizes
    BY OfferAssumption
  <2>2. CASE start \/ stop
    BY <2>2 DEF Next
  <2>3. ASSUME NEW id \in offers.ids, NEW address \in offers.addresses \cup {NoAddress},
               attach(id, address)
        PROVE  Next
    BY <2>1, <2>3 DEF Next
  <2>4. ASSUME NEW id \in offers.ids \cup {NoId}, detach(id) PROVE Next
    BY <2>1, <2>4 DEF Next
  <2>5. ASSUME NEW enabled \in BOOLEAN, NEW address \in offers.addresses \cup {NoAddress},
               NEW e \in offers.orders, configureOverride(enabled, address, e)
        PROVE  Next
    BY <2>1, <2>5 DEF Next
  <2>6. ASSUME NEW b \in offers.pools, NEW p \in offers.sizes,
               set_advanced_optimization_struct(b, p)
        PROVE  Next
    BY <2>1, <2>6 DEF Next
  <2>7. ASSUME NEW e \in offers.orders, MergeKeyword(e) PROVE Next
    BY <2>1, <2>7 DEF Next
  <2>. QED  BY <2>2, <2>3, <2>4, <2>5, <2>6, <2>7
            DEF CNext, cvars, Optimize, get_advanced_optimizations_struct,
                set_advanced_configuration_struct, taskset
<1>. QED  BY <1>1, <1>2, <1>3, PTL DEF CSpec, Spec

-----------------------------------------------------------------------------
(***************************************************************************)
(* The inductive invariant.  Remembered says of every state, with a        *)
(* session or without, that the properties are such that the next _start   *)
(* gives a thread what it is promised, if it is promised anything: this is *)
(* what setting back what has been read must not lose.                     *)
(***************************************************************************)
Remembered ==
    \A t \in Threads :
        /\ wanted[t].affinity # NoCpus =>
              /\ getAffinity(Begins(t).affinity) = getAffinity(wanted[t].affinity)
              /\ wanted[t].affinity = Allowed \/ getAffinity(wanted[t].affinity) # {}
        /\ wanted[t].priority # NoPriority => Begins(t).priority = wanted[t].priority
        /\ kernel[t].priority \in Priorities \cup {0}

CInv ==
    /\ CTypeOK
    /\ AffinityTrue
    /\ AttributesKept
    /\ OptionsKept
    /\ Remembered

LEMMA BeginsType ==
    ASSUME CTypeOK, NEW t \in Threads
    PROVE  /\ Begins(t).affinity \in SUBSET Allowed
           /\ Begins(t).priority \in Nat /\ Begins(t).priority \in Priorities \cup {0}
           /\ Begins(t).priority = 0 \/ (Begins(t).priority > 0 /\ offers.permitted)
<1>1. affinity[t] \in {NoMask, Malformed} \/ affinity[t] \in Masks
  BY DEF CTypeOK
<1>2. Begins(t).affinity \in SUBSET Allowed
  BY <1>1, SetByMask, SetByNoMask DEF Begins
<1>3. priority[t] \in Priorities \cup {0} /\ priority[t] \in Int
  <2>1. priority \in [Threads -> Priorities \cup {0}]
    BY DEF CTypeOK
  <2>2. \A x \in Priorities : x \in Int
    BY PriorityAssumption
  <2>3. priority[t] \in Priorities \cup {0}
    BY <2>1
  <2>. QED  BY <2>2, <2>3
<1>4. Begins(t).priority = setPolicyAndPriority(0, priority[t], offers.permitted)
  BY DEF Begins
<1>. QED  BY <1>2, <1>3, <1>4 DEF setPolicyAndPriority

\* What the next _start makes of the affinity this one has shown.
LEMMA BeginsAgain ==
    ASSUME CInv, NEW t \in Threads, NEW cpus \in SUBSET Allowed,
           wanted[t].affinity # NoCpus, getAffinity(cpus) = getAffinity(wanted[t].affinity)
    PROVE  getAffinity(setAffinity(Allowed, getAffinity(cpus)))
             = getAffinity(wanted[t].affinity)
<1>1. CASE getAffinity(cpus) = {}
  <2>1. wanted[t].affinity = Allowed
    BY <1>1 DEF CInv, Remembered
  <2>. QED  BY <1>1, <2>1, ShownIsKept
<1>2. CASE getAffinity(cpus) # {}
  BY <1>2, ShownIsKept
<1>. QED  BY <1>1, <1>2

LEMMA InitCInv == CInit => CInv
<1>. SUFFICES ASSUME CInit PROVE CInv
  OBVIOUS
<1>1. session = NoSession
  BY DEF CInit, Init
<1>2. offers \in Offers /\ offers.pushes \subseteq Nat
  BY OfferAssumption DEF CInit
<1>3. setPktsPerRead(sdds_pkts_per_bulkio_push) \in Nat /\ sdds_pkts_per_bulkio_push \in Nat
  BY <1>2, PushFits DEF CInit
<1>4. kernel \in [Threads -> [affinity : SUBSET Allowed, priority : Nat]]
  BY DEF CInit, Inherited
<1>5. wanted \in [Threads -> [affinity : SUBSET Allowed, priority : Nat \cup {NoPriority}]]
  BY DEF CInit
<1>6. /\ DOMAIN affinity = Threads /\ \A t \in Threads : affinity[t] = NoMask
      /\ priority \in [Threads -> Priorities \cup {0}]
  BY PriorityAssumption DEF CInit
<1>7. advanced_configuration \in [push : BOOLEAN, wait : BOOLEAN]
  BY DEF CInit
<1>8. {processing, begun} \subseteq [push : BOOLEAN, wait : BOOLEAN, packets : Nat]
  BY <1>3 DEF CInit
<1>9. CTypeOK
  <2>1. outside \in [Threads -> BOOLEAN]
    BY DEF CInit, Nobody
  <2>. QED  BY <1>2, <1>3, <1>4, <1>5, <1>6, <1>7, <1>8, <2>1 DEF CTypeOK
<1>10. AffinityTrue /\ AttributesKept /\ OptionsKept
  BY <1>1 DEF AffinityTrue, AttributesKept, OptionsKept
<1>11. Remembered
  <2>1. ASSUME NEW t \in Threads
        PROVE  /\ Begins(t).affinity = Allowed /\ wanted[t].affinity = Allowed
               /\ wanted[t].priority = NoPriority /\ kernel[t].priority = 0
    BY <1>6 DEF Begins, CInit, Inherited
  <2>. QED  BY <2>1 DEF Remembered
<1>. QED  BY <1>9, <1>10, <1>11 DEF CInv

-----------------------------------------------------------------------------
(***************************************************************************)
(* A call that may have made _start run.                                   *)
(***************************************************************************)
LEMMA FollowStep ==
    ASSUME CInv, NEW starts \in BOOLEAN, ThreadsFollow(starts),
           session' # NoSession /\ ~starts => session # NoSession
    PROVE  CInv'
<1>1. offers' = offers
  BY DEF ThreadsFollow
<1>2. CASE session' = NoSession
  <2>1. /\ kernel' = [t \in Threads |-> Inherited]
        /\ outside' \in [Threads -> BOOLEAN]
        /\ UNCHANGED <<affinity, priority, wanted, optionVars>>
    BY <1>2 DEF ThreadsFollow, ThreadsGone, Nobody
  <2>2. kernel' \in [Threads -> [affinity : SUBSET Allowed, priority : Nat]]
    BY <2>1 DEF Inherited
  <2>3. CTypeOK'
    BY <1>1, <2>1, <2>2 DEF CInv, CTypeOK, optionVars
  <2>4. AffinityTrue' /\ AttributesKept' /\ OptionsKept'
    BY <1>2 DEF AffinityTrue, AttributesKept, OptionsKept
  <2>5. Remembered'
    <3>1. ASSUME NEW t \in Threads PROVE Begins(t)' = Begins(t) /\ kernel'[t].priority = 0
      BY <1>1, <2>1 DEF Begins, Inherited
    <3>. QED  BY <2>1, <3>1 DEF CInv, Remembered
  <2>. QED  BY <2>3, <2>4, <2>5 DEF CInv
<1>3. CASE session' # NoSession /\ starts
  <2>1. /\ kernel' = [t \in Threads |-> Begins(t)]
        /\ affinity' = [t \in Threads |-> getAffinity(Begins(t).affinity)]
        /\ UNCHANGED <<priority, wanted>> /\ outside' \in [Threads -> BOOLEAN]
        /\ setupSddsToBulkIOOptions
    BY <1>3 DEF ThreadsFollow, ThreadsBegin, Nobody
  <2>2. ASSUME NEW t \in Threads
        PROVE  /\ Begins(t).affinity \in SUBSET Allowed
               /\ Begins(t).priority \in Nat /\ Begins(t).priority \in Priorities \cup {0}
               /\ getAffinity(Begins(t).affinity) \in Masks
    BY BeginsType, ShownIsKept DEF CInv
  <2>3. kernel' \in [Threads -> [affinity : SUBSET Allowed, priority : Nat]]
    <3>1. \A t \in Threads : Begins(t) \in [affinity : SUBSET Allowed, priority : Nat]
      BY <2>2 DEF Begins
    <3>. QED  BY <2>1, <3>1
  <2>4. /\ processing' \in [push : BOOLEAN, wait : BOOLEAN, packets : Nat]
        /\ begun' = processing' /\ sdds_pkts_per_bulkio_push' \in Nat
        /\ advanced_configuration' = advanced_configuration
        /\ begun'.packets * SDDS_DATA_SIZE <= CORBA_MAX_XFER_BYTES
    BY <2>1, PushFits DEF setupSddsToBulkIOOptions, CInv, CTypeOK
  <2>5. CTypeOK'
    BY <1>1, <2>1, <2>2, <2>3, <2>4 DEF CInv, CTypeOK
  <2>6. AffinityTrue' /\ OptionsKept'
    BY <2>1, <2>4 DEF AffinityTrue, OptionsKept
  <2>7. AttributesKept'
    BY <2>1 DEF CInv, Remembered, AttributesKept
  <2>8. Remembered'
    <3>1. ASSUME NEW t \in Threads, wanted[t].affinity # NoCpus
          PROVE  getAffinity(Begins(t)'.affinity) = getAffinity(wanted[t].affinity)
      <4>1. getAffinity(Begins(t).affinity) # NoMask
        BY <2>2, MaskIsNoWord
      <4>2. Begins(t)'.affinity = setAffinity(Allowed, getAffinity(Begins(t).affinity))
        BY <2>1, <4>1 DEF Begins
      <4>. QED  BY <2>2, <3>1, <4>2, BeginsAgain DEF CInv, Remembered
    <3>2. ASSUME NEW t \in Threads PROVE Begins(t)'.priority = Begins(t).priority
      BY <1>1, <2>1 DEF Begins
    <3>. QED  BY <2>1, <2>2, <3>1, <3>2 DEF CInv, Remembered
  <2>. QED  BY <2>5, <2>6, <2>7, <2>8 DEF CInv
<1>4. CASE session' # NoSession /\ ~starts
  <2>1. session # NoSession /\ UNCHANGED <<threadVars, optionVars>>
    BY <1>4 DEF ThreadsFollow
  <2>2. CTypeOK' /\ AffinityTrue' /\ AttributesKept' /\ OptionsKept'
    BY <1>1, <2>1 DEF CInv, CTypeOK, AffinityTrue, AttributesKept, OptionsKept, threadVars,
                      optionVars
  <2>3. \A t \in Threads : Begins(t)' = Begins(t)
    BY <1>1, <2>1 DEF Begins, threadVars
  <2>4. Remembered'
    BY <2>1, <2>3 DEF CInv, Remembered, threadVars
  <2>. QED  BY <2>2, <2>4 DEF CInv
<1>. QED  BY <1>2, <1>3, <1>4

\* A call that leaves the threads and the options alone.
LEMMA OtherCall ==
    ASSUME CInv, UNCHANGED <<session, offers, threadVars, optionVars>>
    PROVE  CInv'
<1>1. CTypeOK' /\ AffinityTrue' /\ AttributesKept' /\ OptionsKept'
  BY DEF CInv, CTypeOK, AffinityTrue, AttributesKept, OptionsKept, threadVars, optionVars
<1>2. \A t \in Threads : Begins(t)' = Begins(t)
  BY DEF Begins, threadVars
<1>3. Remembered'
  BY <1>2 DEF CInv, Remembered, threadVars
<1>. QED  BY <1>1, <1>3 DEF CInv

-----------------------------------------------------------------------------
(***************************************************************************)
(* The setter of the optimizations, of a stopped component or during a     *)
(* session.                                                                *)
(***************************************************************************)
\* What becomes of the affinity of one thread.
LEMMA SetOneAffinity ==
    ASSUME CInv, SessionOnlyWhenStarted, NEW masks, NEW priorities, NEW t \in Threads,
           masks[t] \in {NoMask, Malformed} \/ masks[t] \in Masks,
           SetThreads(masks, priorities)
    PROVE  /\ affinity'[t] \in {NoMask, Malformed} \/ affinity'[t] \in Masks
           /\ kernel'[t].affinity \in SUBSET Allowed
           /\ wanted'[t].affinity \in SUBSET Allowed
           /\ session # NoSession => affinity'[t] = getAffinity(kernel'[t].affinity)
           /\ wanted'[t].affinity # NoCpus =>
                 /\ session # NoSession =>
                       getAffinity(kernel'[t].affinity) = getAffinity(wanted'[t].affinity)
                 /\ getAffinity(Begins(t)'.affinity) = getAffinity(wanted'[t].affinity)
                 /\ wanted'[t].affinity = Allowed \/ getAffinity(wanted'[t].affinity) # {}
<1>. DEFINE mask == masks[t]
            usable == mask \in Masks /\ mask \cap Allowed # {}
<1>1. /\ kernel[t].affinity \in SUBSET Allowed /\ wanted[t].affinity \in SUBSET Allowed
      /\ wanted[t].affinity # NoCpus =>
            wanted[t].affinity = Allowed \/ getAffinity(wanted[t].affinity) # {}
      /\ session # NoSession => started
  BY DEF CInv, CTypeOK, Remembered, SessionOnlyWhenStarted
<1>2. wanted'[t].affinity = IF usable THEN mask \cap Allowed
                            ELSE IF session = NoSession THEN Allowed
                            ELSE IF outside[t] THEN NoCpus ELSE wanted[t].affinity
  <2>1. wanted'[t].affinity =
           IF ConvertString(mask).success /\ mask \cap Allowed # {} THEN mask \cap Allowed
           ELSE IF session = NoSession THEN Allowed
           ELSE IF outside[t] THEN NoCpus ELSE wanted[t].affinity
    BY DEF SetThreads, Promised
  <2>2. ConvertString(mask).success <=> mask \in Masks
    BY MaskIsNoWord DEF ConvertString
  <2>. QED  BY <2>1, <2>2
<1>3. affinity'[t] = IF session # NoSession
                     THEN getAffinity(setAffinity(kernel[t].affinity, mask)) ELSE mask
  BY <1>1 DEF SetThreads, Shown
<1>4. kernel'[t].affinity = IF session = NoSession THEN kernel[t].affinity
                            ELSE setAffinity(kernel[t].affinity, mask)
  BY DEF SetThreads
<1>5. \A cpus : setAffinity(cpus, mask) = IF usable THEN mask \cap Allowed ELSE cpus
  BY SetByMask, SetByNoMask
<1>6. Begins(t)'.affinity = IF affinity'[t] = NoMask THEN Allowed
                            ELSE setAffinity(Allowed, affinity'[t])
  BY DEF Begins
<1>7. mask \in Masks => mask # NoMask
  BY MaskIsNoWord
<1>. HIDE DEF mask
<1>8. CASE session = NoSession
  <2>1. affinity'[t] = mask /\ kernel'[t] = kernel[t]
    BY <1>3, <1>8 DEF SetThreads
  <2>2. Begins(t)'.affinity = wanted'[t].affinity
    BY <1>2, <1>5, <1>6, <1>7, <1>8, <2>1
  <2>3. usable => getAffinity(mask \cap Allowed) = mask \cap Allowed
    BY ShownMask
  <2>. QED  BY <1>1, <1>2, <1>8, <2>1, <2>2, <2>3 DEF mask
<1>9. CASE session # NoSession
  <2>. DEFINE cpus == kernel'[t].affinity
  <2>1. cpus = IF usable THEN mask \cap Allowed ELSE kernel[t].affinity
    BY <1>4, <1>5, <1>9
  <2>2. affinity'[t] = getAffinity(cpus)
    BY <1>3, <1>4, <1>9
  <2>3. cpus \in SUBSET Allowed
    BY <1>1, <2>1
  <2>4. wanted'[t].affinity # NoCpus => getAffinity(cpus) = getAffinity(wanted'[t].affinity)
    BY <1>2, <1>9, <2>1 DEF CInv, AttributesKept
  <2>5. wanted'[t].affinity # NoCpus =>
           wanted'[t].affinity = Allowed \/ getAffinity(wanted'[t].affinity) # {}
    <3>1. usable => getAffinity(mask \cap Allowed) = mask \cap Allowed
      BY ShownMask
    <3>. QED  BY <1>1, <1>2, <1>9, <3>1
  <2>. HIDE DEF cpus
  <2>6. getAffinity(cpus) \in Masks /\ getAffinity(cpus) # NoMask
    BY <2>3, ShownIsKept, MaskIsNoWord
  <2>7. ASSUME wanted'[t].affinity # NoCpus
        PROVE  getAffinity(Begins(t)'.affinity) = getAffinity(wanted'[t].affinity)
    <3>1. Begins(t)'.affinity = setAffinity(Allowed, getAffinity(cpus))
      BY <1>6, <2>2, <2>6
    <3>2. CASE getAffinity(cpus) = {}
      BY <2>3, <2>4, <2>5, <2>7, <3>1, <3>2, ShownIsKept
    <3>3. CASE getAffinity(cpus) # {}
      BY <2>3, <2>4, <2>7, <3>1, <3>3, ShownIsKept
    <3>. QED  BY <3>2, <3>3
  <2>8. wanted'[t].affinity \in SUBSET Allowed
    BY <1>1, <1>2 DEF NoCpus
  <2>9. affinity'[t] \in Masks /\ kernel'[t].affinity \in SUBSET Allowed
    BY <2>2, <2>3, <2>6 DEF cpus
  <2>10. affinity'[t] = getAffinity(kernel'[t].affinity)
    BY <2>2 DEF cpus
  <2>11. wanted'[t].affinity # NoCpus =>
            getAffinity(kernel'[t].affinity) = getAffinity(wanted'[t].affinity)
    BY <2>4 DEF cpus
  <2>. QED  BY <2>5, <2>7, <2>8, <2>9, <2>10, <2>11
<1>. QED  BY <1>8, <1>9

\* What becomes of its priority.
LEMMA SetOnePriority ==
    ASSUME CInv, NEW masks, NEW priorities \in [Threads -> Priorities], NEW t \in Threads,
           SetThreads(masks, priorities), offers' = offers, offers.permitted \in BOOLEAN
    PROVE  /\ kernel'[t].priority \in Nat /\ kernel'[t].priority \in Priorities \cup {0}
           /\ wanted'[t].priority \in Nat \cup {NoPriority}
           /\ wanted'[t].priority # NoPriority => Begins(t)'.priority = wanted'[t].priority
           /\ session # NoSession /\ wanted'[t].priority # NoPriority =>
                 kernel'[t].priority = wanted'[t].priority
<1>. DEFINE p == priorities[t]
            allowed == p = 0 \/ (p > 0 /\ offers.permitted)
<1>1. p \in Int /\ p \in Priorities
  BY PriorityAssumption
<1>2. kernel[t].priority \in Nat /\ kernel[t].priority \in Priorities \cup {0}
  BY DEF CInv, CTypeOK, Remembered
<1>3. wanted'[t].priority = IF allowed THEN p ELSE NoPriority
  BY DEF SetThreads, Promised
<1>4. kernel'[t].priority = IF session # NoSession /\ allowed THEN p ELSE kernel[t].priority
  BY DEF SetThreads, setPolicyAndPriority
<1>5. Begins(t)'.priority = IF allowed THEN p ELSE 0
  BY DEF SetThreads, Begins, setPolicyAndPriority
<1>. HIDE DEF p
<1>. QED  BY <1>1, <1>2, <1>3, <1>4, <1>5 DEF NoPriority

LEMMA OptimizeStep ==
    ASSUME CInv, SessionOnlyWhenStarted, NEW b, NEW p, NEW packets \in Nat,
           NEW masks, NEW priorities \in [Threads -> Priorities],
           \A t \in Threads : masks[t] \in {NoMask, Malformed} \/ masks[t] \in Masks,
           Optimize(b, p, packets, masks, priorities)
    PROVE  CInv'
<1>1. /\ SetThreads(masks, priorities) /\ session' = session
      /\ UNCHANGED <<offers, advanced_configuration, begun>>
  BY DEF Optimize, set_advanced_optimization_struct
<1>2. offers.permitted \in BOOLEAN
  BY OfferAssumption DEF CInv, CTypeOK
<1>3. /\ sdds_pkts_per_bulkio_push' \in Nat
      /\ processing' \in [push : BOOLEAN, wait : BOOLEAN, packets : Nat]
      /\ session # NoSession => processing' = processing
  <2>1. sdds_pkts_per_bulkio_push' = packets
    BY DEF Optimize
  <2>2. processing \in [push : BOOLEAN, wait : BOOLEAN, packets : Nat]
    BY DEF CInv, CTypeOK
  <2>3. processing' = IF started THEN processing
                      ELSE [processing EXCEPT !.packets = setPktsPerRead(packets)]
    BY DEF Optimize
  <2>. QED  BY <2>1, <2>2, <2>3, PushFits DEF SessionOnlyWhenStarted
<1>4. ASSUME NEW t \in Threads
      PROVE  /\ affinity'[t] \in {NoMask, Malformed} \/ affinity'[t] \in Masks
             /\ kernel'[t].affinity \in SUBSET Allowed
             /\ wanted'[t].affinity \in SUBSET Allowed
             /\ session # NoSession => affinity'[t] = getAffinity(kernel'[t].affinity)
             /\ wanted'[t].affinity # NoCpus =>
                   /\ session # NoSession =>
                         getAffinity(kernel'[t].affinity) = getAffinity(wanted'[t].affinity)
                   /\ getAffinity(Begins(t)'.affinity) = getAffinity(wanted'[t].affinity)
                   /\ \/ wanted'[t].affinity = Allowed
                      \/ getAffinity(wanted'[t].affinity) # {}
  BY <1>1, SetOneAffinity
<1>5. ASSUME NEW t \in Threads
      PROVE  /\ kernel'[t].priority \in Nat /\ kernel'[t].priority \in Priorities \cup {0}
             /\ wanted'[t].priority \in Nat \cup {NoPriority}
             /\ wanted'[t].priority # NoPriority => Begins(t)'.priority = wanted'[t].priority
             /\ session # NoSession /\ wanted'[t].priority # NoPriority =>
                   kernel'[t].priority = wanted'[t].priority
  BY <1>1, <1>2, SetOnePriority
<1>6. kernel' \in [Threads -> [affinity : SUBSET Allowed, priority : Nat]]
  <2>1. CASE session = NoSession
    BY <1>1, <2>1 DEF SetThreads, CInv, CTypeOK
  <2>2. CASE session # NoSession
    <3>1. kernel' = [t \in Threads |->
                       [affinity |-> setAffinity(kernel[t].affinity, masks[t]),
                        priority |-> setPolicyAndPriority(kernel[t].priority,
                                        priorities[t], offers.permitted)]]
      BY <1>1, <2>2 DEF SetThreads
    <3>2. \A t \in Threads : kernel'[t] \in [affinity : SUBSET Allowed, priority : Nat]
      BY <1>4, <1>5, <3>1
    <3>. QED  BY <3>1, <3>2
  <2>. QED  BY <2>1, <2>2
<1>7. wanted' \in [Threads -> [affinity : SUBSET Allowed, priority : Nat \cup {NoPriority}]]
  <2>1. wanted' = [t \in Threads |-> Promised(t, masks, priorities)]
    BY <1>1 DEF SetThreads
  <2>2. \A t \in Threads :
           wanted'[t] \in [affinity : SUBSET Allowed, priority : Nat \cup {NoPriority}]
    BY <1>4, <1>5, <2>1 DEF Promised
  <2>. QED  BY <2>1, <2>2
<1>8. /\ DOMAIN affinity' = Threads /\ priority' \in [Threads -> Priorities \cup {0}]
      /\ outside' \in [Threads -> BOOLEAN]
  BY <1>1 DEF SetThreads, Nobody
<1>9. CTypeOK'
  BY <1>1, <1>3, <1>4, <1>6, <1>7, <1>8 DEF CInv, CTypeOK
<1>10. AffinityTrue' /\ AttributesKept'
  BY <1>1, <1>4, <1>5 DEF AffinityTrue, AttributesKept
<1>11. OptionsKept'
  BY <1>1, <1>3 DEF CInv, OptionsKept
<1>12. Remembered'
  BY <1>4, <1>5 DEF Remembered
<1>. QED  BY <1>9, <1>10, <1>11, <1>12 DEF CInv

-----------------------------------------------------------------------------
(***************************************************************************)
(* The other calls.                                                        *)
(***************************************************************************)
LEMMA QueryStep == CInv /\ get_advanced_optimizations_struct => CInv'
<1>. SUFFICES ASSUME CInv, get_advanced_optimizations_struct PROVE CInv'
  OBVIOUS
<1>1. /\ session # NoSession /\ session' = session
      /\ priority' = [t \in Threads |-> kernel[t].priority]
      /\ UNCHANGED <<offers, affinity, kernel, wanted, outside, optionVars>>
  BY DEF get_advanced_optimizations_struct, getPriority, vars
<1>2. ASSUME NEW t \in Threads
      PROVE  kernel[t].priority \in Priorities \cup {0}
  BY DEF CInv, Remembered
<1>3. CTypeOK'
  BY <1>1, <1>2 DEF CInv, CTypeOK, optionVars
<1>4. AffinityTrue' /\ AttributesKept' /\ OptionsKept'
  BY <1>1 DEF CInv, AffinityTrue, AttributesKept, OptionsKept, optionVars
<1>5. ASSUME NEW t \in Threads
      PROVE  /\ Begins(t)'.affinity = Begins(t).affinity
             /\ wanted[t].priority # NoPriority => Begins(t)'.priority = wanted[t].priority
  <2>1. Begins(t)'.affinity = Begins(t).affinity
    BY <1>1 DEF Begins
  <2>2. ASSUME wanted[t].priority # NoPriority
        PROVE  Begins(t)'.priority = wanted[t].priority
    <3>1. kernel[t].priority = wanted[t].priority
      BY <1>1, <2>2 DEF CInv, AttributesKept
    <3>2. Begins(t).priority = wanted[t].priority
      BY <2>2 DEF CInv, Remembered
    <3>3. kernel[t].priority = 0 \/ (kernel[t].priority > 0 /\ offers.permitted)
      BY <3>1, <3>2, BeginsType DEF CInv
    <3>4. Begins(t)'.priority = setPolicyAndPriority(0, kernel[t].priority, offers.permitted)
      BY <1>1 DEF Begins
    <3>. QED  BY <3>1, <3>3, <3>4 DEF setPolicyAndPriority
  <2>. QED  BY <2>1, <2>2
<1>6. Remembered'
  BY <1>1, <1>5 DEF CInv, Remembered
<1>. QED  BY <1>3, <1>4, <1>6 DEF CInv

LEMMA TasksetStep ==
    ASSUME CInv, NEW t \in Threads, NEW cpus \in SUBSET Allowed, taskset(t, cpus)
    PROVE  CInv'
<1>1. /\ kernel' = [kernel EXCEPT ![t].affinity = cpus]
      /\ outside' = [outside EXCEPT ![t] = TRUE]
      /\ UNCHANGED <<session, offers, affinity, priority, wanted, optionVars>>
  BY DEF taskset, vars
<1>2. /\ kernel \in [Threads -> [affinity : SUBSET Allowed, priority : Nat]]
      /\ outside \in [Threads -> BOOLEAN]
  BY DEF CInv, CTypeOK
<1>3. /\ kernel' \in [Threads -> [affinity : SUBSET Allowed, priority : Nat]]
      /\ outside' \in [Threads -> BOOLEAN]
      /\ outside'[t]
      /\ \A u \in Threads : kernel'[u].priority = kernel[u].priority
      /\ \A u \in Threads \ {t} : kernel'[u] = kernel[u] /\ outside'[u] = outside[u]
  BY <1>1, <1>2
<1>4. CTypeOK'
  BY <1>1, <1>3 DEF CInv, CTypeOK, optionVars
<1>5. AffinityTrue' /\ AttributesKept'
  BY <1>1, <1>3 DEF CInv, AffinityTrue, AttributesKept
<1>6. OptionsKept'
  BY <1>1 DEF CInv, OptionsKept, optionVars
<1>7. \A u \in Threads : Begins(u)' = Begins(u)
  BY <1>1 DEF Begins
<1>8. Remembered'
  BY <1>1, <1>3, <1>7 DEF CInv, Remembered
<1>. QED  BY <1>4, <1>5, <1>6, <1>8 DEF CInv

LEMMA ConfigurationStep ==
    ASSUME CInv, SessionOnlyWhenStarted, NEW push \in BOOLEAN, NEW wait \in BOOLEAN,
           set_advanced_configuration_struct(push, wait)
    PROVE  CInv'
<1>1. /\ session' = session /\ UNCHANGED <<offers, threadVars>>
      /\ UNCHANGED <<sdds_pkts_per_bulkio_push, begun>>
      /\ advanced_configuration' = [push |-> push, wait |-> wait]
  BY DEF set_advanced_configuration_struct, vars
<1>2. /\ processing' \in [push : BOOLEAN, wait : BOOLEAN, packets : Nat]
      /\ session # NoSession => processing' = processing
  <2>1. processing \in [push : BOOLEAN, wait : BOOLEAN, packets : Nat]
    BY DEF CInv, CTypeOK
  <2>2. processing' = IF started THEN processing
                      ELSE [processing EXCEPT !.push = push, !.wait = wait]
    BY DEF set_advanced_configuration_struct
  <2>. QED  BY <2>1, <2>2 DEF SessionOnlyWhenStarted
<1>3. CTypeOK'
  BY <1>1, <1>2 DEF CInv, CTypeOK, threadVars
<1>4. AffinityTrue' /\ AttributesKept'
  BY <1>1 DEF CInv, AffinityTrue, AttributesKept, threadVars
<1>5. OptionsKept'
  BY <1>1, <1>2 DEF CInv, OptionsKept
<1>6. \A t \in Threads : Begins(t)' = Begins(t)
  BY <1>1 DEF Begins, threadVars
<1>7. Remembered'
  BY <1>1, <1>6 DEF CInv, Remembered, threadVars
<1>. QED  BY <1>3, <1>4, <1>5, <1>7 DEF CInv

LEMMA StepCInv == CInv /\ SessionOnlyWhenStarted /\ [CNext]_cvars => CInv'
<1>. SUFFICES ASSUME CInv, SessionOnlyWhenStarted, [CNext]_cvars PROVE CInv'
  OBVIOUS
<1>1. CASE start /\ ThreadsFollow(TRUE)
  BY <1>1, FollowStep
<1>2. CASE stop /\ ThreadsFollow(FALSE)
  BY <1>2, FollowStep DEF stop
<1>3. ASSUME NEW id, NEW address, attach(id, address),
             ThreadsFollow(started /\ ~Overridden)
      PROVE  CInv'
  <2>1. (started /\ ~Overridden) \/ session' = session
    BY <1>3 DEF attach, AttachOrRevert
  <2>2. CASE started /\ ~Overridden
    <3>1. ThreadsFollow(TRUE)
      BY <1>3, <2>2 DEF ThreadsFollow
    <3>. QED  BY <3>1, FollowStep
  <2>3. CASE ~(started /\ ~Overridden)
    <3>1. ThreadsFollow(FALSE)
      BY <1>3, <2>3 DEF ThreadsFollow
    <3>. QED  BY <2>1, <2>3, <3>1, FollowStep
  <2>. QED  BY <2>2, <2>3
<1>4. ASSUME NEW id, detach(id), ThreadsFollow(FALSE) PROVE CInv'
  BY <1>4, FollowStep DEF detach
<1>5. ASSUME NEW enabled, NEW address, NEW e, configureOverride(enabled, address, e),
             UNCHANGED <<offers, threadVars, optionVars>>
      PROVE  CInv'
  BY <1>5, OtherCall DEF configureOverride
<1>6. ASSUME NEW b, NEW p, NEW packets \in offers.pushes, NEW masks \in offers.masks,
             NEW priorities \in offers.priorities, Optimize(b, p, packets, masks, priorities)
      PROVE  CInv'
  <2>1. /\ packets \in Nat /\ priorities \in [Threads -> Priorities]
        /\ \A t \in Threads : masks[t] \in {NoMask, Malformed} \/ masks[t] \in Masks
    BY OfferAssumption DEF CInv, CTypeOK
  <2>. QED  BY <1>6, <2>1, OptimizeStep
<1>7. CASE get_advanced_optimizations_struct
  BY <1>7, QueryStep
<1>8. ASSUME NEW push \in offers.ttv, NEW wait \in offers.ttv,
             set_advanced_configuration_struct(push, wait)
      PROVE  CInv'
  <2>1. push \in BOOLEAN /\ wait \in BOOLEAN
    BY OfferAssumption DEF CInv, CTypeOK
  <2>. QED  BY <1>8, <2>1, ConfigurationStep
<1>9. ASSUME NEW e, MergeKeyword(e), UNCHANGED <<offers, threadVars, optionVars>>
      PROVE  CInv'
  BY <1>9, OtherCall DEF MergeKeyword
<1>10. ASSUME NEW set \in offers.tasksets, taskset(set[1], set[2]) PROVE CInv'
  <2>1. set[1] \in Threads /\ set[2] \in SUBSET Allowed
    BY OfferAssumption DEF CInv, CTypeOK
  <2>. QED  BY <1>10, <2>1, TasksetStep
<1>11. CASE UNCHANGED cvars
  BY <1>11, OtherCall DEF cvars, vars
<1>. QED  BY <1>1, <1>2, <1>3, <1>4, <1>5, <1>6, <1>7, <1>8, <1>9, <1>10, <1>11 DEF CNext

LEMMA InvariantHolds == CSpec => []CInv
  BY InitCInv, StepCInv, CallsAreTheComponents, OnlyWhenStarted, PTL DEF CSpec

-----------------------------------------------------------------------------
(***************************************************************************)
(* What this module adds has its types: no thread is on a CPU its process  *)
(* may not use.                                                            *)
(***************************************************************************)
THEOREM ThreadTypesCorrect == CSpec => []CTypeOK
  BY InvariantHolds, PTL DEF CInv

(***************************************************************************)
(* The affinity a user is shown during a session is that of the thread,    *)
(* whatever it has been set to before the start, during the session or     *)
(* from outside, as long as nobody has set it from outside since it was    *)
(* last read.                                                              *)
(***************************************************************************)
THEOREM AffinityIsTrue == CSpec => []AffinityTrue
  BY InvariantHolds, PTL DEF CInv

(***************************************************************************)
(* Through any number of sessions, each thread has the CPUs and the        *)
(* priority it was promised, although every start sets what was read back  *)
(* and others may give a thread CPUs for the rest of its session.          *)
(***************************************************************************)
THEOREM AttributesAreKept == CSpec => []AttributesKept
  BY InvariantHolds, PTL DEF CInv

(***************************************************************************)
(* A session keeps the options it began with, and pushes no more than      *)
(* CORBA can transfer, for any sizes of packets and transfers.             *)
(***************************************************************************)
THEOREM OptionsAreKept == CSpec => []OptionsKept
  BY InvariantHolds, PTL DEF CInv
=============================================================================
