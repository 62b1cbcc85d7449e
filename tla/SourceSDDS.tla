----------------------------- MODULE SourceSDDS -----------------------------
(***************************************************************************)
(* The control plane of the component (SourceSDDS_i): start, stop, attach  *)
(* and detach, and the properties that decide which source it receives and *)
(* with which sizes.  Here a call is one step and a session (the pool of   *)
(* buffers, the socket and the two threads that _start creates and         *)
(* destroyBuffersAndJoinThreads takes down) is one record; what happens    *)
(* inside a session is the subject of PacketPipeline and                   *)
(* SddsToBulkIOProcessor.                                                  *)
(*                                                                         *)
(* External: the framework's started flag, and its assignment of new       *)
(* values to attachment_override, which has no setter and so can change at *)
(* any time, and to advanced_optimizations, before its setter is called.   *)
(***************************************************************************)
EXTENDS Integers

CONSTANTS Addresses,    \* where a source may send to, and nobody else does
          NoAddress,    \* the empty IP address
          StreamIds,    \* stream IDs attach may be given or generate
          NoId,         \* the empty stream ID
          Sizes,        \* values of buffer_size and pkts_per_socket_read
          NoSession

\* What _start sets up: the address it receives from and whether the override gave
\* it, the size of the pool and of a batch of the reader.
Sessions == [address : Addresses, overridden : BOOLEAN, buffer_size : Sizes,
             pkts_per_read : Sizes]

ASSUME ControlAssumption ==
    /\ NoSession \notin Sessions
    /\ NoAddress \notin Addresses
    /\ NoId \notin StreamIds
    /\ Sizes # {}

VARIABLES
    started,                \* of the base class
    m_attach_stream,        \* [attached, id, address]
    attachment_override,    \* [enabled, address, endianness]
    advanced_optimizations, \* [buffer_size, pkts_per_socket_read]
    m_pkts_per_read,        \* of the socket reader
    session,                \* what _start set up, while there are threads
    m_endianness,           \* of the packet processor
    keyword,                \* history: endianness merged from SRI since detach
    edited                  \* history: the override changed since it was read

vars == <<started, m_attach_stream, attachment_override, advanced_optimizations,
          m_pkts_per_read, session, m_endianness, keyword, edited>>

Endianness == {"1234", "4321"}

Overridden == attachment_override.enabled

\* setupSocketReaderOptions: the override comes first.
Selected(stream) == IF Overridden THEN attachment_override.address ELSE stream.address

(***************************************************************************)
(* _start, which begins by destroying the session there may be.            *)
(* setConnectionInfo throws on an empty address, and on an address no      *)
(* socket can be opened for; then StartError leaves no session.            *)
(***************************************************************************)
StartSucceedsAnywhere(stream) ==
    /\ session' = [address |-> Selected(stream), overridden |-> Overridden,
                   buffer_size |-> advanced_optimizations.buffer_size,
                   pkts_per_read |-> advanced_optimizations.pkts_per_socket_read]
    /\ m_pkts_per_read' = advanced_optimizations.pkts_per_socket_read
    /\ m_endianness' = IF Overridden THEN attachment_override.endianness ELSE m_endianness
    /\ edited' = FALSE

StartSucceeds(stream) ==
    /\ Selected(stream) # NoAddress
    /\ session' = [address |-> Selected(stream), overridden |-> Overridden,
                   buffer_size |-> advanced_optimizations.buffer_size,
                   pkts_per_read |-> advanced_optimizations.pkts_per_socket_read]
    /\ m_pkts_per_read' = advanced_optimizations.pkts_per_socket_read
    /\ m_endianness' = IF Overridden THEN attachment_override.endianness ELSE m_endianness
    /\ edited' = FALSE

StartFails ==
    /\ session' = NoSession
    /\ edited' = FALSE
    /\ UNCHANGED <<m_pkts_per_read, m_endianness>>

\* start with neither an attached stream nor an override: the holding pattern.
Hold == edited' = FALSE /\ UNCHANGED <<session, m_pkts_per_read, m_endianness>>

(***************************************************************************)
(* The calls.                                                              *)
(***************************************************************************)
start ==
    /\ ~started
    /\ IF ~m_attach_stream.attached /\ ~Overridden
       THEN Hold /\ started' = TRUE
       ELSE \/ StartSucceeds(m_attach_stream) /\ started' = TRUE
            \/ StartFails /\ UNCHANGED started
    /\ UNCHANGED <<m_attach_stream, attachment_override, advanced_optimizations, keyword>>

stop ==
    /\ session' = NoSession
    /\ started' = FALSE
    /\ UNCHANGED <<m_attach_stream, attachment_override, advanced_optimizations,
                   m_pkts_per_read, m_endianness, keyword, edited>>

\* A stream without an ID is given a generated one, so id is never empty.
AttachOrRevert(stream) ==
    IF started /\ ~Overridden
    THEN \/ StartSucceeds(stream) /\ m_attach_stream' = stream
         \/ StartFails /\ m_attach_stream' = [stream EXCEPT !.attached = FALSE]
    ELSE /\ m_attach_stream' = stream
         /\ UNCHANGED <<session, m_pkts_per_read, m_endianness, edited>>

attachWithoutRevert(id, address) ==
    LET stream == [attached |-> TRUE, id |-> id, address |-> address]
    IN  /\ ~m_attach_stream.attached
        /\ m_attach_stream' = stream
        /\ IF started /\ ~Overridden
           THEN StartSucceeds(stream) \/ StartFails
           ELSE UNCHANGED <<session, m_pkts_per_read, m_endianness, edited>>
        /\ UNCHANGED <<started, attachment_override, advanced_optimizations, keyword>>

attachWhileStopped(id, address) ==
    LET stream == [attached |-> TRUE, id |-> id, address |-> address]
    IN  /\ ~m_attach_stream.attached
        /\ m_attach_stream' = stream
        /\ IF Overridden
           THEN UNCHANGED <<session, m_pkts_per_read, m_endianness, edited>>
           ELSE StartSucceeds(stream) \/ StartFails
        /\ UNCHANGED <<started, attachment_override, advanced_optimizations, keyword>>

\* Refused with AttachError while a stream is attached.
attach(id, address) ==
    /\ ~m_attach_stream.attached
    /\ AttachOrRevert([attached |-> TRUE, id |-> id, address |-> address])
    /\ UNCHANGED <<started, attachment_override, advanced_optimizations, keyword>>

(***************************************************************************)
(* Refused with DetachError unless attachId is the last stream ID, which   *)
(* an earlier detach leaves in place.  A session that is in use is         *)
(* stopped; the start that follows finds no source and holds.              *)
(***************************************************************************)
detach(attachId) ==
    /\ attachId = m_attach_stream.id
    /\ IF started /\ ~Overridden
       THEN session' = NoSession /\ edited' = FALSE
       ELSE UNCHANGED <<session, edited>>
    /\ m_attach_stream' = [m_attach_stream EXCEPT !.attached = FALSE]
    /\ m_endianness' = "4321"
    /\ keyword' = "none"
    /\ UNCHANGED <<started, attachment_override, advanced_optimizations, m_pkts_per_read>>

\* The framework's assignment to attachment_override.
configureOverride(enabled, address, endianness) ==
    /\ attachment_override' =
          [enabled |-> enabled, address |-> address, endianness |-> endianness]
    /\ edited' = TRUE
    /\ UNCHANGED <<started, m_attach_stream, advanced_optimizations, m_pkts_per_read,
                   session, m_endianness, keyword>>

\* The framework has stored both values, so that the setter finds buffer_size to be as
\* requested; the reader's batch is left to the next start by a started component.
set_advanced_optimization_always(buffer_size, pkts_per_socket_read) ==
    /\ advanced_optimizations' = [buffer_size |-> buffer_size,
                                  pkts_per_socket_read |-> pkts_per_socket_read]
    /\ m_pkts_per_read' = pkts_per_socket_read
    /\ UNCHANGED <<started, m_attach_stream, attachment_override, session,
                   m_endianness, keyword, edited>>

set_advanced_optimization_struct(buffer_size, pkts_per_socket_read) ==
    /\ advanced_optimizations' = [buffer_size |-> buffer_size,
                                  pkts_per_socket_read |-> pkts_per_socket_read]
    /\ m_pkts_per_read' = IF started THEN m_pkts_per_read ELSE pkts_per_socket_read
    /\ UNCHANGED <<started, m_attach_stream, attachment_override, session,
                   m_endianness, keyword, edited>>

\* The packet processor merges SRI with a dataRef keyword (see MergeUpstream in
\* SddsToBulkIOProcessor).
MergeKeyword(endianness) ==
    /\ session # NoSession
    /\ m_endianness' = endianness
    /\ keyword' = endianness
    /\ UNCHANGED <<started, m_attach_stream, attachment_override,
                   advanced_optimizations, m_pkts_per_read, session, edited>>

-----------------------------------------------------------------------------
Init ==
    /\ started = FALSE
    /\ m_attach_stream = [attached |-> FALSE, id |-> NoId, address |-> NoAddress]
    /\ attachment_override = [enabled |-> FALSE, address |-> NoAddress, endianness |-> "4321"]
    /\ advanced_optimizations \in [buffer_size : Sizes, pkts_per_socket_read : Sizes]
    /\ m_pkts_per_read \in Sizes
    /\ session = NoSession
    /\ m_endianness = "4321"
    /\ keyword = "none"
    /\ edited = FALSE

Next ==
    \/ start
    \/ stop
    \/ \E id \in StreamIds, address \in Addresses \cup {NoAddress} : attach(id, address)
    \/ \E id \in StreamIds \cup {NoId} : detach(id)
    \/ \E enabled \in BOOLEAN, address \in Addresses \cup {NoAddress}, e \in Endianness :
          configureOverride(enabled, address, e)
    \/ \E buffer_size, pkts_per_socket_read \in Sizes :
          set_advanced_optimization_struct(buffer_size, pkts_per_socket_read)
    \/ \E e \in Endianness : MergeKeyword(e)

Spec == Init /\ [][Next]_vars
-----------------------------------------------------------------------------
(***************************************************************************)
(* Properties.                                                             *)
(***************************************************************************)
\* Type invariant; a session always has an address to receive from.
TypeOK ==
    /\ started \in BOOLEAN
    /\ m_attach_stream \in [attached : BOOLEAN, id : StreamIds \cup {NoId},
                            address : Addresses \cup {NoAddress}]
    /\ attachment_override \in [enabled : BOOLEAN, address : Addresses \cup {NoAddress},
                                endianness : Endianness]
    /\ advanced_optimizations \in [buffer_size : Sizes, pkts_per_socket_read : Sizes]
    /\ m_pkts_per_read \in Sizes
    /\ session \in Sessions \cup {NoSession}
    /\ m_endianness \in Endianness
    /\ keyword \in Endianness \cup {"none"}
    /\ edited \in BOOLEAN

(***************************************************************************)
(* The threads only ever run in a started component, whatever order start, *)
(* stop, attach and detach come in and whichever of them fails: a stopped  *)
(* component receives and pushes nothing.                                  *)
(***************************************************************************)
SessionOnlyWhenStarted == session # NoSession => started

(***************************************************************************)
(* As long as the override is left alone, a started component has threads  *)
(* exactly when it has a source, and they receive from that source; the    *)
(* holding pattern (SourceSDDS.cpp:261) ends with the attach call.         *)
(***************************************************************************)
HasSource == Overridden \/ m_attach_stream.attached

ReceivesItsSource ==
    started /\ ~edited =>
        /\ (session # NoSession) <=> HasSource
        /\ session # NoSession => session.address = Selected(m_attach_stream)

(***************************************************************************)
(* The reader's arrays have the length its batch had when its run began,   *)
(* and run fills them to the length the batch has now                      *)
(* (SocketReader.cpp:217, :251): whatever is configured, waits or fails,   *)
(* the two never differ.  Of the pool no such thing can be said: the       *)
(* warning that its size cannot be set while the component is running      *)
(* (SourceSDDS.cpp:184) compares the new value with itself, and the size   *)
(* shown, of which the status gives percentages, is then not the pool's.   *)
(***************************************************************************)
BatchKept == session # NoSession => session.pkts_per_read = m_pkts_per_read

(***************************************************************************)
(* An enabled override has its data taken in its "endianness (Big or       *)
(* Little) of the data portion" (README.md:82), and overrules "calls to    *)
(* attach" (README.md:73), unless the keywords of an SRI say otherwise.    *)
(***************************************************************************)
EndiannessOfSource ==
    session # NoSession /\ session.overridden /\ ~edited /\ keyword = "none" =>
        m_endianness = attachment_override.endianness
=============================================================================
