----------------------------- MODULE Component -----------------------------
(***************************************************************************)
(* The component's calls with everything else they do: SourceSDDS joined   *)
(* with the affinity and the priority of the threads a session has, which  *)
(* _start sets from properties and then replaces by what the threads       *)
(* really have, and with the options of the packet processor.              *)
(*                                                                         *)
(* External: the framework stores advanced_configuration and               *)
(* advanced_optimizations before it calls their setters, so that a value   *)
(* the setter refuses waits for the next start (tests/test_SourceSDDS.py   *)
(* relies on it at line 781); and anyone may set the affinity of a thread, *)
(* with taskset or the like.                                               *)
(*                                                                         *)
(* offers is the part of the calls' arguments a behaviour uses; it never   *)
(* changes, and stands for nothing in the code.                            *)
(***************************************************************************)
EXTENDS SourceSDDS, ThreadAttributes

CONSTANTS Threads,      \* the socket reader's and the packet processor's
          Priorities,   \* values of the priority properties
          Offers,       \* [addresses, ids, orders, pools, sizes, masks, priorities,
                        \*  permitted, ttv, pushes, tasksets]
          SDDS_DATA_SIZE, CORBA_MAX_XFER_BYTES

ASSUME OfferAssumption ==
    \A o \in Offers :
        /\ o.addresses \subseteq Addresses /\ o.ids \subseteq StreamIds
        /\ o.orders \subseteq Endianness /\ o.pools \subseteq Sizes /\ o.sizes \subseteq Sizes
        /\ o.ttv \subseteq BOOLEAN /\ o.permitted \in BOOLEAN /\ o.pushes \subseteq Nat
        /\ \A masks \in o.masks, t \in Threads :
              masks[t] \in {NoMask, Malformed} \/ masks[t] \in Masks
        /\ o.priorities \subseteq [Threads -> Priorities]
        /\ o.tasksets \subseteq Threads \X (SUBSET Allowed \ {{}})

ASSUME TransferAssumption ==
    SDDS_DATA_SIZE \in Nat \ {0} /\ CORBA_MAX_XFER_BYTES \in Nat

ASSUME PriorityAssumption == Priorities \subseteq Int /\ -1 \in Priorities

VARIABLES
    offers,
    affinity, priority,     \* the properties of each thread
    kernel,                 \* [affinity, priority] of the threads of the session
    advanced_configuration, \* [push, wait], the property
    sdds_pkts_per_bulkio_push,
    processing,             \* [push, wait, packets] of the packet processor
    begun,                  \* history: processing when the session began
    wanted,                 \* history: [affinity, priority] a thread should have
    outside                 \* history: was its affinity set from outside, and not read since?

threadVars == <<affinity, priority, kernel, wanted, outside>>
optionVars == <<advanced_configuration, sdds_pkts_per_bulkio_push, processing, begun>>
cvars == <<vars, offers, threadVars, optionVars>>

Inherited  == [affinity |-> Allowed, priority |-> 0]
NoPriority == -1            \* nothing is promised of the priority
NoCpus     == {}            \* nothing is promised of the affinity
Nobody     == [t \in Threads |-> FALSE]

-----------------------------------------------------------------------------
(***************************************************************************)
(* The threads begin with _start.  The affinity is only set if there is a  *)
(* string, and the property is replaced by what the thread has.            *)
(***************************************************************************)
Begins(t) ==
    [affinity |-> IF affinity[t] = NoMask THEN Allowed
                  ELSE setAffinity(Allowed, affinity[t]),
     priority |-> setPolicyAndPriority(0, priority[t], offers.permitted)]

ThreadsBegin ==
    /\ kernel' = [t \in Threads |-> Begins(t)]
    /\ affinity' = [t \in Threads |-> getAffinity(Begins(t).affinity)]
    /\ outside' = Nobody
    /\ UNCHANGED <<priority, wanted>>

ThreadsGone ==
    /\ kernel' = [t \in Threads |-> Inherited]
    /\ outside' = Nobody
    /\ UNCHANGED <<affinity, priority, wanted>>

\* SddsToBulkIOProcessor::setPktsPerRead: no push may be larger than CORBA allows.
setPktsPerReadUnbounded(packets) == packets

setPktsPerRead(packets) ==
    IF packets * SDDS_DATA_SIZE > CORBA_MAX_XFER_BYTES
    THEN CORBA_MAX_XFER_BYTES \div SDDS_DATA_SIZE
    ELSE packets

setupSddsToBulkIOOptions ==
    /\ processing' = [push    |-> advanced_configuration.push,
                      wait    |-> advanced_configuration.wait,
                      packets |-> setPktsPerRead(sdds_pkts_per_bulkio_push)]
    /\ sdds_pkts_per_bulkio_push' = processing'.packets
    /\ begun' = processing'
    /\ UNCHANGED advanced_configuration

\* Of a call that may have made _start run, which begins by joining the threads.
ThreadsFollow(starts) ==
    /\ CASE session' = NoSession -> ThreadsGone /\ UNCHANGED optionVars
         [] session' # NoSession /\ starts -> ThreadsBegin /\ setupSddsToBulkIOOptions
         [] OTHER -> UNCHANGED <<threadVars, optionVars>>
    /\ UNCHANGED offers

-----------------------------------------------------------------------------
(***************************************************************************)
(* The setter: the affinity of a running thread is set and read back, that *)
(* of one yet to be started is remembered, and a failure is only logged.   *)
(* It leaves the CPUs a thread has, be they from outside.                  *)
(***************************************************************************)
Promised(t, masks, priorities) ==
    [affinity |-> IF ConvertString(masks[t]).success /\ masks[t] \cap Allowed # {}
                  THEN masks[t] \cap Allowed
                  ELSE IF session = NoSession THEN Allowed
                  ELSE IF outside[t] THEN NoCpus ELSE wanted[t].affinity,
     priority |-> IF priorities[t] = 0 \/ (priorities[t] > 0 /\ offers.permitted)
                  THEN priorities[t] ELSE NoPriority]

ShownAsSet(t, mask) == mask

\* The property after the affinity of t has been set.
Shown(t, mask) == IF started /\ session # NoSession
                  THEN getAffinity(setAffinity(kernel[t].affinity, mask))
                  ELSE mask

SetThreads(masks, priorities) ==
    /\ kernel' = IF session = NoSession THEN kernel
                 ELSE [t \in Threads |->
                         [affinity |-> setAffinity(kernel[t].affinity, masks[t]),
                          priority |-> setPolicyAndPriority(kernel[t].priority,
                                          priorities[t], offers.permitted)]]
    /\ affinity' = [t \in Threads |-> Shown(t, masks[t])]
    /\ priority' = priorities
    /\ wanted' = [t \in Threads |-> Promised(t, masks, priorities)]
    /\ outside' = Nobody

Optimize(buffer_size, pkts_per_socket_read, packets, masks, priorities) ==
    /\ set_advanced_optimization_struct(buffer_size, pkts_per_socket_read)
    /\ SetThreads(masks, priorities)
    /\ sdds_pkts_per_bulkio_push' = packets
    /\ processing' = IF started THEN processing
                     ELSE [processing EXCEPT !.packets = setPktsPerRead(packets)]
    /\ UNCHANGED <<offers, advanced_configuration, begun>>

getPriorityCrossed(t) == kernel[CHOOSE u \in Threads : u # t].priority

getPriority(t) == kernel[t].priority

\* The query replaces the priorities by those of the threads, and not the affinities.
get_advanced_optimizations_struct ==
    /\ session # NoSession
    /\ priority' = [t \in Threads |-> getPriority(t)]
    /\ UNCHANGED <<vars, offers, affinity, kernel, wanted, outside, optionVars>>

\* Each of the options is refused by a started component if it differs.
set_advanced_configuration_struct(push, wait) ==
    /\ advanced_configuration' = [push |-> push, wait |-> wait]
    /\ processing' = IF started THEN processing
                     ELSE [processing EXCEPT !.push = push, !.wait = wait]
    /\ UNCHANGED <<vars, offers, threadVars, sdds_pkts_per_bulkio_push, begun>>

\* Someone else sets the affinity of a thread of the component.
taskset(t, cpus) ==
    /\ session # NoSession
    /\ kernel' = [kernel EXCEPT ![t].affinity = cpus]
    /\ outside' = [outside EXCEPT ![t] = TRUE]
    /\ UNCHANGED <<vars, offers, affinity, priority, wanted, optionVars>>

-----------------------------------------------------------------------------
CInit ==
    /\ Init
    /\ offers \in Offers
    /\ advanced_optimizations.buffer_size \in offers.pools
    /\ advanced_optimizations.pkts_per_socket_read \in offers.sizes
    /\ m_pkts_per_read \in offers.sizes
    /\ affinity = [t \in Threads |-> NoMask]
    /\ priority = [t \in Threads |-> -1]
    /\ kernel = [t \in Threads |-> Inherited]
    /\ advanced_configuration = [push |-> FALSE, wait |-> FALSE]
    /\ sdds_pkts_per_bulkio_push \in offers.pushes
    /\ processing = [push |-> FALSE, wait |-> FALSE,
                     packets |-> setPktsPerRead(sdds_pkts_per_bulkio_push)]
    /\ begun = processing
    /\ wanted = [t \in Threads |-> [affinity |-> Allowed, priority |-> NoPriority]]
    /\ outside = Nobody

CNext ==
    \/ start /\ ThreadsFollow(TRUE)
    \/ stop /\ ThreadsFollow(FALSE)
    \/ \E id \in offers.ids, address \in offers.addresses \cup {NoAddress} :
          attach(id, address) /\ ThreadsFollow(started /\ ~Overridden)
    \/ \E id \in offers.ids \cup {NoId} : detach(id) /\ ThreadsFollow(FALSE)
    \/ \E enabled \in BOOLEAN, address \in offers.addresses \cup {NoAddress},
             e \in offers.orders :
          /\ configureOverride(enabled, address, e)
          /\ UNCHANGED <<offers, threadVars, optionVars>>
    \/ \E buffer_size \in offers.pools, pkts_per_socket_read \in offers.sizes,
             packets \in offers.pushes, masks \in offers.masks, priorities \in offers.priorities :
          Optimize(buffer_size, pkts_per_socket_read, packets, masks, priorities)
    \/ get_advanced_optimizations_struct
    \/ \E set \in offers.tasksets : taskset(set[1], set[2])
    \/ \E push, wait \in offers.ttv : set_advanced_configuration_struct(push, wait)
    \/ \E e \in offers.orders : MergeKeyword(e) /\ UNCHANGED <<offers, threadVars, optionVars>>

CSpec == CInit /\ [][CNext]_cvars
-----------------------------------------------------------------------------
(***************************************************************************)
(* Properties.                                                             *)
(***************************************************************************)
\* Type invariant of what this module adds: no thread runs on a CPU its process may
\* not use, and the properties are strings and numbers that configure accepts.
CTypeOK ==
    /\ offers \in Offers
    /\ \A t \in Threads : affinity[t] \in {NoMask, Malformed} \/ affinity[t] \in Masks
    /\ DOMAIN affinity = Threads
    /\ priority \in [Threads -> Priorities \cup {0}]
    /\ kernel \in [Threads -> [affinity : SUBSET Allowed, priority : Nat]]
    /\ advanced_configuration \in [push : BOOLEAN, wait : BOOLEAN]
    /\ sdds_pkts_per_bulkio_push \in Nat
    /\ {processing, begun} \subseteq [push : BOOLEAN, wait : BOOLEAN, packets : Nat]
    /\ wanted \in [Threads -> [affinity : SUBSET Allowed, priority : Nat \cup {NoPriority}]]
    /\ outside \in [Threads -> BOOLEAN]

(***************************************************************************)
(* The affinity a user is shown is that of the running thread, as far as   *)
(* the mask reaches, whether it was set before the start or during a       *)
(* session, accepted or refused, and whatever the thread was given from    *)
(* outside before.  But README.md:67 says more, "If externally set, this   *)
(* property will update to reflect the actual thread affinity", which the  *)
(* code does not do: the query returns what the component read last        *)
(* (SourceSDDS.cpp:137), and reads only the priorities again.  So it is    *)
(* until the component next reads the affinity that an affinity set from   *)
(* outside is excepted.                                                    *)
(***************************************************************************)
AffinityTrue ==
    session # NoSession =>
        \A t \in Threads : ~outside[t] => affinity[t] = getAffinity(kernel[t].affinity)

(***************************************************************************)
(* Through every restart, until the user says otherwise, each thread has   *)
(* the CPUs the user gave it, or all the process may use if the user gave  *)
(* it none, although _start sets what it read back from the last session:  *)
(* CPUs given from outside last until the thread ends, unless the          *)
(* component reads them back; and it has the priority the user asked for   *)
(* if the system allows it, although a query writes the property that the  *)
(* next _start reads.  Of CPUs beyond the mask nothing is said: there the  *)
(* second session of a component loses CPUs the first one had.             *)
(***************************************************************************)
AttributesKept ==
    session # NoSession =>
        \A t \in Threads :
            /\ ~outside[t] /\ wanted[t].affinity # NoCpus =>
                  getAffinity(kernel[t].affinity) = getAffinity(wanted[t].affinity)
            /\ wanted[t].priority # NoPriority => kernel[t].priority = wanted[t].priority

(***************************************************************************)
(* A session keeps the time tag options and the size of a push it began    *)
(* with, and that size is one CORBA can transfer.                          *)
(***************************************************************************)
OptionsKept ==
    session # NoSession =>
        /\ processing = begun
        /\ begun.packets * SDDS_DATA_SIZE <= CORBA_MAX_XFER_BYTES
=============================================================================
