------------------------- MODULE SmartPacketBuffer -------------------------
(***************************************************************************)
(* SmartPacketBuffer<SDDSpacket>: one deque of empty buffers and one of    *)
(* full buffers, each under its own mutex, and a plain bool that tells     *)
(* both sides to stop waiting.  This module holds the three fields and the *)
(* effect of each critical section on them; the threads that execute the   *)
(* sections, and the steps they take around them (unlocked flag checks,    *)
(* waits, notifications), are in PacketPipeline.                           *)
(*                                                                         *)
(* `que' is always the caller's container, passed by reference in the      *)
(* code: the operators say what becomes of it as well.                     *)
(***************************************************************************)
EXTENDS Integers, Sequences

CONSTANTS Capacity,      \* advanced_optimizations.buffer_size
          Generations    \* how many pools allocated by initialize may coexist

ASSUME CapacityAssumption ==
    /\ Capacity \in Nat
    /\ Generations \in Nat \ {0}

(***************************************************************************)
(* A buffer is the address of one SDDSpacket: the call of initialize that  *)
(* allocated it and its place in that pool.                                *)
(***************************************************************************)
Buffers == (1..Generations) \X (1..Capacity)

PoolOneTooMany(g) == [i \in 1..Capacity + 1 |-> <<g, i>>]
Pool(g) == [i \in 1..Capacity |-> <<g, i>>]

VARIABLES m_empty_buffers,   \* deque, front first
          m_full_buffers,    \* deque, front first
          m_shuttingDown     \* plain bool: written without a lock

bufferVars == <<m_empty_buffers, m_full_buffers, m_shuttingDown>>

Front(que, num) == SubSeq(que, 1, num)
Rest(que, num)  == SubSeq(que, num + 1, Len(que))

Holds(que, b) == \E i \in DOMAIN que : que[i] = b

(***************************************************************************)
(* What the waiters wait for (num is their request, len - que.size()).     *)
(***************************************************************************)
empties_available(num) == Len(m_empty_buffers) >= num \/ m_shuttingDown

full_available(num) == Len(m_full_buffers) >= num \/ m_shuttingDown

-----------------------------------------------------------------------------
(***************************************************************************)
(* initialize(capacity): `new T()' returns memory nobody still holds, so   *)
(* the new pool is one that no container has a buffer of.  The full deque  *)
(* is left as it is.                                                       *)
(***************************************************************************)
InitializeShort(g) ==
    /\ m_shuttingDown' = FALSE
    /\ m_empty_buffers' = Front(Pool(g), Capacity - 1)
    /\ UNCHANGED m_full_buffers

Initialize(g) ==
    /\ m_shuttingDown' = FALSE
    /\ m_empty_buffers' = Pool(g)
    /\ UNCHANGED m_full_buffers

\* The three assignments of shutDown(); its notify_all calls are the caller's.
RaiseShuttingDown ==
    /\ m_shuttingDown' = TRUE
    /\ UNCHANGED <<m_empty_buffers, m_full_buffers>>

ClearFullForgotten == UNCHANGED bufferVars

ClearFull ==
    /\ m_full_buffers' = <<>>
    /\ UNCHANGED <<m_empty_buffers, m_shuttingDown>>

ClearEmpty ==
    /\ m_empty_buffers' = <<>>
    /\ UNCHANGED <<m_full_buffers, m_shuttingDown>>

-----------------------------------------------------------------------------
(***************************************************************************)
(* pop_empty_buffers: the buffers popped go to the FRONT of the caller's   *)
(* container.                                                              *)
(***************************************************************************)
PopEmpty(que, len) ==
    LET request == len - Len(que)
    IN  /\ que' = Front(m_empty_buffers, request) \o que
        /\ m_empty_buffers' = Rest(m_empty_buffers, request)
        /\ UNCHANGED <<m_full_buffers, m_shuttingDown>>

\* push_full_buffers: the first num buffers of the container, to the back.
PushFullKeepingQue(que, num) ==
    /\ m_full_buffers' = m_full_buffers \o Front(que, num)
    /\ UNCHANGED <<que, m_empty_buffers, m_shuttingDown>>

PushFull(que, num) ==
    /\ m_full_buffers' = m_full_buffers \o Front(que, num)
    /\ que' = Rest(que, num)
    /\ UNCHANGED <<m_empty_buffers, m_shuttingDown>>

\* pop_full_buffers: to the back of the caller's container, oldest first.
PopFullToFront(que, len) ==
    LET request == len - Len(que)
    IN  /\ que' = Front(m_full_buffers, request) \o que
        /\ m_full_buffers' = Rest(m_full_buffers, request)
        /\ UNCHANGED <<m_empty_buffers, m_shuttingDown>>

PopFull(que, len) ==
    LET request == len - Len(que)
    IN  /\ que' = que \o Front(m_full_buffers, request)
        /\ m_full_buffers' = Rest(m_full_buffers, request)
        /\ UNCHANGED <<m_empty_buffers, m_shuttingDown>>

\* recycle_buffers: the whole container, to the back of the empty deque.
RecycleBuffersDropping(que) ==
    /\ que' = <<>>
    /\ UNCHANGED bufferVars

RecycleBuffers(que) ==
    /\ m_empty_buffers' = m_empty_buffers \o que
    /\ que' = <<>>
    /\ UNCHANGED <<m_full_buffers, m_shuttingDown>>
=============================================================================
