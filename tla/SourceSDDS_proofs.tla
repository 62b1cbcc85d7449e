-------------------------- MODULE SourceSDDS_proofs --------------------------
(***************************************************************************)
(* Proofs about SourceSDDS, for any sets of addresses, stream IDs and      *)
(* sizes.                                                                  *)
(***************************************************************************)
EXTENDS SourceSDDS, TLAPS

(***************************************************************************)
(* _start leaves a session the components of which have their types.       *)
(***************************************************************************)
LEMMA StartSucceedsType ==
    ASSUME TypeOK,
           NEW stream \in [attached : BOOLEAN, id : StreamIds \cup {NoId},
                           address : Addresses \cup {NoAddress}],
           StartSucceeds(stream)
    PROVE  /\ session' \in Sessions
           /\ m_pkts_per_read' \in Sizes
           /\ m_endianness' \in Endianness
           /\ edited' \in BOOLEAN
<1>1. Selected(stream) \in Addresses
  BY DEF TypeOK, StartSucceeds, Selected
<1>2. Overridden \in BOOLEAN
  BY DEF TypeOK, Overridden
<1>3. session' \in Sessions
  BY <1>1, <1>2 DEF TypeOK, StartSucceeds, Sessions
<1>4. /\ m_pkts_per_read' \in Sizes
      /\ m_endianness' \in Endianness
      /\ edited' \in BOOLEAN
  BY DEF TypeOK, StartSucceeds
<1>. QED  BY <1>3, <1>4

(***************************************************************************)
(* Every field of the component keeps its type, and a session always has   *)
(* an address.                                                             *)
(***************************************************************************)
THEOREM TypeCorrect == Spec => []TypeOK
<1>1. ASSUME Init PROVE TypeOK
  <2>. USE <1>1
  <2>1. m_attach_stream \in [attached : BOOLEAN, id : StreamIds \cup {NoId},
                            address : Addresses \cup {NoAddress}]
    BY DEF Init
  <2>2. attachment_override \in [enabled : BOOLEAN, address : Addresses \cup {NoAddress},
                                endianness : Endianness]
    BY DEF Init, Endianness
  <2>3. m_endianness \in Endianness
    BY DEF Init, Endianness
  <2>4. started \in BOOLEAN /\ edited \in BOOLEAN
    BY DEF Init
  <2>. QED  BY <2>1, <2>2, <2>3, <2>4 DEF Init, TypeOK
<1>2. ASSUME TypeOK, [Next]_vars PROVE TypeOK'
  <2>. USE <1>2
  <2>1. CASE start
    <3>1. CASE Hold
      BY <2>1, <3>1 DEF TypeOK, start, Hold, StartFails
    <3>2. CASE StartSucceeds(m_attach_stream)
      <4>1. m_attach_stream \in [attached : BOOLEAN, id : StreamIds \cup {NoId},
                                 address : Addresses \cup {NoAddress}]
        BY DEF TypeOK
      <4>2. /\ session' \in Sessions
            /\ m_pkts_per_read' \in Sizes
            /\ m_endianness' \in Endianness
            /\ edited' \in BOOLEAN
        BY <3>2, <4>1, StartSucceedsType
      <4>3. started' \in BOOLEAN
        BY <2>1 DEF start, TypeOK
      <4>. QED  BY <2>1, <4>2, <4>3 DEF TypeOK, start
    <3>3. CASE StartFails /\ UNCHANGED started
      BY <2>1, <3>3 DEF TypeOK, start, StartFails
    <3>. QED  BY <2>1, <3>1, <3>2, <3>3 DEF start
  <2>2. CASE stop
    BY <2>2 DEF TypeOK, stop
  <2>3. ASSUME NEW id \in StreamIds, NEW address \in Addresses \cup {NoAddress},
               attach(id, address)
        PROVE  TypeOK'
    <3>. DEFINE stream == [attached |-> TRUE, id |-> id, address |-> address]
    <3>1. stream \in [attached : BOOLEAN, id : StreamIds \cup {NoId},
                      address : Addresses \cup {NoAddress}]
      OBVIOUS
    <3>2. [stream EXCEPT !.attached = FALSE]
             \in [attached : BOOLEAN, id : StreamIds \cup {NoId},
                  address : Addresses \cup {NoAddress}]
      OBVIOUS
    <3>3. AttachOrRevert(stream)
      BY <2>3 DEF attach
    <3>. HIDE DEF stream
    <3>4. CASE StartSucceeds(stream) /\ m_attach_stream' = stream
      BY <2>3, <3>1, <3>4, StartSucceedsType DEF TypeOK, attach
    <3>5. CASE StartFails /\ m_attach_stream' = [stream EXCEPT !.attached = FALSE]
      BY <2>3, <3>2, <3>5 DEF TypeOK, attach, StartFails
    <3>6. CASE /\ m_attach_stream' = stream
               /\ UNCHANGED <<session, m_pkts_per_read, m_endianness, edited>>
      BY <2>3, <3>1, <3>6 DEF TypeOK, attach
    <3>. QED  BY <3>3, <3>4, <3>5, <3>6 DEF AttachOrRevert
  <2>4. ASSUME NEW id \in StreamIds \cup {NoId}, detach(id) PROVE TypeOK'
    BY <2>4 DEF TypeOK, detach, Endianness
  <2>5. ASSUME NEW enabled \in BOOLEAN, NEW address \in Addresses \cup {NoAddress},
               NEW e \in Endianness, configureOverride(enabled, address, e)
        PROVE  TypeOK'
    BY <2>5 DEF TypeOK, configureOverride
  <2>6. ASSUME NEW b \in Sizes, NEW p \in Sizes, set_advanced_optimization_struct(b, p)
        PROVE  TypeOK'
    BY <2>6 DEF TypeOK, set_advanced_optimization_struct
  <2>7. ASSUME NEW e \in Endianness, MergeKeyword(e) PROVE TypeOK'
    BY <2>7 DEF TypeOK, MergeKeyword
  <2>8. CASE UNCHANGED vars
    BY <2>8 DEF TypeOK, vars
  <2>. QED  BY <2>1, <2>2, <2>3, <2>4, <2>5, <2>6, <2>7, <2>8 DEF Next
<1>. QED  BY <1>1, <1>2, PTL DEF Spec

-----------------------------------------------------------------------------
(***************************************************************************)
(* Threads run in a started component only, and the reader with the batch  *)
(* it began with.  The second rests on the first: what may be changed      *)
(* while the component is stopped cannot change under a session.           *)
(***************************************************************************)
SessionInv == SessionOnlyWhenStarted /\ BatchKept

\* The invariant the next two theorems are read off.
LEMMA SessionsStarted == Spec => []SessionInv
<1>1. Init => SessionInv
  BY DEF Init, SessionInv, SessionOnlyWhenStarted, BatchKept
<1>2. ASSUME SessionInv, [Next]_vars PROVE SessionInv'
  <2>. USE <1>2 DEF SessionInv, SessionOnlyWhenStarted, BatchKept
  <2>1. CASE start
    BY <2>1 DEF start, Hold, StartSucceeds, StartFails
  <2>2. CASE stop
    BY <2>2 DEF stop
  <2>3. ASSUME NEW id, NEW address, attach(id, address) PROVE SessionInv'
    <3>. DEFINE stream == [attached |-> TRUE, id |-> id, address |-> address]
    <3>1. AttachOrRevert(stream) /\ UNCHANGED <<started, advanced_optimizations>>
      BY <2>3 DEF attach
    <3>. HIDE DEF stream
    <3>. QED  BY <3>1 DEF AttachOrRevert, StartSucceeds, StartFails
  <2>4. ASSUME NEW id, detach(id) PROVE SessionInv'
    BY <2>4 DEF detach
  <2>5. ASSUME NEW enabled, NEW address, NEW e, configureOverride(enabled, address, e)
        PROVE  SessionInv'
    BY <2>5 DEF configureOverride
  <2>6. ASSUME NEW b, NEW p, set_advanced_optimization_struct(b, p) PROVE SessionInv'
    BY <2>6 DEF set_advanced_optimization_struct
  <2>7. ASSUME NEW e, MergeKeyword(e) PROVE SessionInv'
    BY <2>7 DEF MergeKeyword
  <2>8. CASE UNCHANGED vars
    BY <2>8 DEF vars
  <2>. QED  BY <2>1, <2>2, <2>3, <2>4, <2>5, <2>6, <2>7, <2>8 DEF Next
<1>. QED  BY <1>1, <1>2, PTL DEF Spec

\* A stopped component receives and pushes nothing.
THEOREM OnlyWhenStarted == Spec => []SessionOnlyWhenStarted
<1>1. SessionInv => SessionOnlyWhenStarted
  BY DEF SessionInv
<1>. QED  BY <1>1, SessionsStarted, PTL

\* The reader fills its arrays to the length they have, whatever sizes are configured
\* under it or wait for the next start.
THEOREM BatchIsKept == Spec => []BatchKept
<1>1. SessionInv => BatchKept
  BY DEF SessionInv
<1>. QED  BY <1>1, SessionsStarted, PTL

(***************************************************************************)
(* While the override is left alone, a started component receives exactly  *)
(* when it has a source, and from that source.                             *)
(***************************************************************************)
THEOREM SourceReceived == Spec => []ReceivesItsSource
<1>1. Init => ReceivesItsSource
  BY DEF Init, ReceivesItsSource
<1>2. ASSUME TypeOK, SessionInv, ReceivesItsSource, [Next]_vars
      PROVE  ReceivesItsSource'
  <2>. USE <1>2 DEF ReceivesItsSource, HasSource, Overridden, Selected
  <2>1. CASE start
    <3>. ~started /\ UNCHANGED <<m_attach_stream, attachment_override>>
      BY <2>1 DEF start
    <3>1. CASE ~HasSource /\ Hold
      BY <3>1 DEF Hold, SessionInv, SessionOnlyWhenStarted
    <3>2. CASE HasSource /\ StartSucceeds(m_attach_stream)
      <4>1. m_attach_stream \in [attached : BOOLEAN, id : StreamIds \cup {NoId},
                                 address : Addresses \cup {NoAddress}]
        BY DEF TypeOK
      <4>2. session' # NoSession
        BY <3>2, <4>1, StartSucceedsType, ControlAssumption
      <4>3. session'.address = Selected(m_attach_stream)
        BY <3>2 DEF StartSucceeds
      <4>4. HasSource' = HasSource
        OBVIOUS
      <4>5. Selected(m_attach_stream)' = Selected(m_attach_stream)
        OBVIOUS
      <4>. QED  BY <3>2, <4>2, <4>3, <4>4, <4>5
    <3>3. CASE StartFails /\ UNCHANGED started
      BY <2>1, <3>3 DEF start
    <3>. QED  BY <2>1, <3>1, <3>2, <3>3 DEF start
  <2>2. CASE stop
    BY <2>2 DEF stop
  <2>3. ASSUME NEW id \in StreamIds, NEW address \in Addresses \cup {NoAddress},
               attach(id, address)
        PROVE  ReceivesItsSource'
    <3>. DEFINE stream == [attached |-> TRUE, id |-> id, address |-> address]
    <3>1. stream \in [attached : BOOLEAN, id : StreamIds \cup {NoId},
                      address : Addresses \cup {NoAddress}]
      OBVIOUS
    <3>2. stream.attached /\ ~[stream EXCEPT !.attached = FALSE].attached
      OBVIOUS
    <3>3. /\ AttachOrRevert(stream)
          /\ ~m_attach_stream.attached
          /\ UNCHANGED <<started, attachment_override>>
      BY <2>3 DEF attach
    <3>. HIDE DEF stream
    <3>4. CASE StartSucceeds(stream) /\ m_attach_stream' = stream
      <4>1. session' # NoSession
        BY <3>1, <3>4, StartSucceedsType, ControlAssumption
      <4>2. session'.address = Selected(stream)
        BY <3>4 DEF StartSucceeds
      <4>. QED  BY <3>2, <3>3, <3>4, <4>1, <4>2
    <3>5. CASE /\ started /\ ~Overridden
               /\ StartFails /\ m_attach_stream' = [stream EXCEPT !.attached = FALSE]
      BY <3>2, <3>3, <3>5 DEF StartFails
    <3>6. CASE /\ ~(started /\ ~Overridden)
               /\ m_attach_stream' = stream
               /\ UNCHANGED <<session, m_pkts_per_read, m_endianness, edited>>
      BY <3>3, <3>6
    <3>. QED  BY <3>3, <3>4, <3>5, <3>6 DEF AttachOrRevert
  <2>4. ASSUME NEW id, detach(id) PROVE ReceivesItsSource'
    <3>1. ~m_attach_stream'.attached
      BY <2>4 DEF detach, TypeOK
    <3>2. UNCHANGED <<started, attachment_override>>
      BY <2>4 DEF detach
    <3>3. CASE started /\ ~Overridden
      BY <2>4, <3>1, <3>2, <3>3 DEF detach
    <3>4. CASE ~started
      BY <3>2, <3>4
    <3>5. CASE Overridden
      BY <2>4, <3>1, <3>2, <3>5 DEF detach
    <3>. QED  BY <3>3, <3>4, <3>5
  <2>5. ASSUME NEW enabled, NEW address, NEW e, configureOverride(enabled, address, e)
        PROVE  ReceivesItsSource'
    BY <2>5 DEF configureOverride
  <2>6. ASSUME NEW b, NEW p, set_advanced_optimization_struct(b, p)
        PROVE  ReceivesItsSource'
    BY <2>6 DEF set_advanced_optimization_struct
  <2>7. ASSUME NEW e, MergeKeyword(e) PROVE ReceivesItsSource'
    BY <2>7 DEF MergeKeyword
  <2>8. CASE UNCHANGED vars
    BY <2>8 DEF vars
  <2>. QED  BY <2>1, <2>2, <2>3, <2>4, <2>5, <2>6, <2>7, <2>8 DEF Next
<1>. QED  BY <1>1, <1>2, TypeCorrect, SessionsStarted, PTL DEF Spec

=============================================================================
