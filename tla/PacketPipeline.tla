--------------------------- MODULE PacketPipeline ---------------------------
(***************************************************************************)
(* The packet path of SourceSDDS: the socket reader thread                 *)
(* (SocketReader::run), the packet processor thread                        *)
(* (SddsToBulkIOProcessor::run) and the control thread that starts and     *)
(* stops them (SourceSDDS_i::_start, stop, destroyBuffersAndJoinThreads),  *)
(* around the SmartPacketBuffer they share.                                *)
(*                                                                         *)
(* Grain.  A step is what a thread does between two reads or writes of     *)
(* shared state.  A critical section is one step, except where the thread  *)
(* goes to sleep in it: condition_variable::wait evaluates its predicate   *)
(* under the mutex, and only later blocks and releases the mutex.  In      *)
(* between the thread is "deciding": it holds the mutex but is not yet     *)
(* among the waiters a notify reaches.  Each condition variable has one    *)
(* possible waiter, so notify_one and notify_all are the same step.        *)
(***************************************************************************)
EXTENDS SmartPacketBuffer

CONSTANTS PktsPerRead,     \* advanced_optimizations.pkts_per_socket_read
          PktsPerPush,     \* advanced_optimizations.sdds_pkts_per_bulkio_push
          Payload,         \* contents of SDDS packets, told apart by FIFO only
          NoData,          \* contents of a packet buffer nothing was read into
          SocketErrors,    \* may recvmmsg fail, may errno be stale at start?
          LiveRestart,     \* may an attach call _start while the threads still run?
          StopRacesStart   \* may a stop overtake the first lines of a thread?

ASSUME PipelineAssumption ==
    /\ PktsPerRead \in Nat \ {0}
    /\ PktsPerPush \in Nat \ {0}
    /\ NoData \notin Payload
    /\ {SocketErrors, LiveRestart, StopRacesStart} \subseteq BOOLEAN

VARIABLES
    rpc,            \* where the socket reader thread is
    bufQue,         \* its container of empty buffers
    iov,            \* iovecs[i].iov_base: where recvmmsg writes message i
    pktsRead,       \* pktsReadThisPass, 0 until the first successful read
    errno,          \* of the reader thread: "zero" or "stale"
    data,           \* the packet each buffer holds
    ppc,            \* where the packet processor thread is
    pktsToProcess,  \* its container of full buffers
    pktsToRecycle,  \* its container of processed buffers
    recycling,      \* which of the calls of recycle_buffers it is in
    stop,           \* the m_shuttingDown of each thread's object
    running,        \* the m_running of each thread's object
    cpc,            \* where the control thread is
    call,           \* the operation it executes
    live,           \* history: the pool's session began by a _start over threads
    generation,     \* pool the last initialize allocated, 0 before
    sockOpen        \* the socket descriptor is open

readerVars    == <<rpc, bufQue, iov, pktsRead, errno, data>>
processorVars == <<ppc, pktsToProcess, pktsToRecycle, recycling>>
controlVars   == <<cpc, call, live, generation>>
flagVars      == <<stop, running>>

vars == <<bufferVars, readerVars, processorVars, flagVars, controlVars, sockOpen>>

Threads == {"reader", "processor"}

\* An iovec whose base was read past the end of bufQue.
Wild == <<0, 0>>

NoIovecs == [i \in 1..PktsPerRead |-> Wild]

-----------------------------------------------------------------------------
\* notify_one, notify_all: wakes the waiter, which evaluates its predicate again.
Notify(pc) == IF pc = "waiting" THEN "pop" ELSE pc

\* The mutex of each deque: only a thread about to sleep holds it across steps.
EmptyMutexFree == rpc # "deciding"
FullMutexFree  == ppc # "deciding"

(***************************************************************************)
(* The socket reader thread.                                               *)
(***************************************************************************)
\* run: from its first line to the first call of pop_empty_buffers.
ReaderBegin ==
    /\ rpc = "spawned"
    /\ stop' = [stop EXCEPT !["reader"] = FALSE]
    /\ running' = [running EXCEPT !["reader"] = TRUE]
    /\ errno' \in IF SocketErrors THEN {"zero", "stale"} ELSE {"zero"}
    /\ rpc' = "pop"
    /\ UNCHANGED <<bufferVars, bufQue, iov, pktsRead, data, processorVars,
                   controlVars, sockOpen>>

(***************************************************************************)
(* pop_empty_buffers(bufQue, m_pkts_per_read).  The unlocked test of the   *)
(* flag and the one after the wait give the same result, "return with the  *)
(* container as it is", so they are one test here.                         *)
(***************************************************************************)
ReaderPop ==
    /\ rpc = "pop"
    /\ \/ /\ m_shuttingDown \/ Len(bufQue) >= PktsPerRead
          /\ rpc' = "point"
          /\ UNCHANGED <<bufferVars, bufQue>>
       \/ /\ ~m_shuttingDown
          /\ Len(bufQue) < PktsPerRead
          /\ empties_available(PktsPerRead - Len(bufQue))
          /\ PopEmpty(bufQue, PktsPerRead)
          /\ rpc' = "point"
       \/ /\ Len(bufQue) < PktsPerRead
          /\ ~empties_available(PktsPerRead - Len(bufQue))
          /\ rpc' = "deciding"
          /\ UNCHANGED <<bufferVars, bufQue>>
    /\ UNCHANGED <<iov, pktsRead, errno, data, processorVars, flagVars,
                   controlVars, sockOpen>>

\* The wait blocks and releases the empty mutex.
ReaderSleep ==
    /\ rpc = "deciding"
    /\ rpc' = "waiting"
    /\ UNCHANGED <<bufferVars, bufQue, iov, pktsRead, errno, data,
                   processorVars, flagVars, controlVars, sockOpen>>

\* The container element an index yields, also past the end of the container.
IovBase(que, i) == IF i <= Len(que) THEN que[i] ELSE Wild

\* Points all iovecs before the loop; in the loop, those of the packets read.
PointIovecsShort ==
    /\ rpc = "point"
    /\ LET num == IF pktsRead = 0 THEN PktsPerRead ELSE pktsRead - 1
       IN  iov' = [i \in 1..PktsPerRead |->
                     IF i <= num THEN IovBase(bufQue, i) ELSE iov[i]]
    /\ rpc' = "loop"
    /\ UNCHANGED <<bufferVars, bufQue, pktsRead, errno, data, processorVars,
                   flagVars, controlVars, sockOpen>>

PointIovecs ==
    /\ rpc = "point"
    /\ LET num == IF pktsRead = 0 THEN PktsPerRead ELSE pktsRead
       IN  iov' = [i \in 1..PktsPerRead |->
                     IF i <= num THEN IovBase(bufQue, i) ELSE iov[i]]
    /\ rpc' = "loop"
    /\ UNCHANGED <<bufferVars, bufQue, pktsRead, errno, data, processorVars,
                   flagVars, controlVars, sockOpen>>

ReaderLoopForever ==
    /\ rpc = "loop"
    /\ rpc' = "recv"
    /\ UNCHANGED <<bufferVars, bufQue, iov, pktsRead, errno, data,
                   processorVars, flagVars, controlVars, sockOpen>>

ReaderLoop ==
    /\ rpc = "loop"
    /\ rpc' = IF stop["reader"] THEN "recycleCheck" ELSE "recv"
    /\ UNCHANGED <<bufferVars, bufQue, iov, pktsRead, errno, data,
                   processorVars, flagVars, controlVars, sockOpen>>

\* The branches of the switch on errno that end the thread.
ReaderGivesUp ==
    /\ stop' = [stop EXCEPT !["reader"] = TRUE]
    /\ running' = [running EXCEPT !["reader"] = FALSE]
    /\ rpc' = "loop"

(***************************************************************************)
(* recvmmsg returns num messages, message i in the memory iovec i points   *)
(* to.  A success leaves errno as it was, and the switch looks at errno    *)
(* only.                                                                   *)
(***************************************************************************)
Receive(num, msg) ==
    /\ rpc = "recv"
    /\ data' = [b \in Buffers |->
                  IF \E i \in 1..num : iov[i] = b
                  THEN msg[CHOOSE i \in 1..num : iov[i] = b]
                  ELSE data[b]]
    /\ pktsRead' = num
    /\ IF errno = "zero"
       THEN rpc' = "pushCheck" /\ UNCHANGED flagVars
       ELSE ReaderGivesUp
    /\ UNCHANGED <<bufferVars, bufQue, iov, errno, processorVars, controlVars,
                   sockOpen>>

\* EWOULDBLOCK: poll for at most 100 ms, then clear errno.
ReceiveNothing ==
    /\ rpc = "recv"
    /\ errno' = "zero"
    /\ rpc' = "loop"
    /\ UNCHANGED <<bufferVars, bufQue, iov, pktsRead, data, processorVars,
                   flagVars, controlVars, sockOpen>>

\* EINTR or any other error.
ReceiveFails ==
    /\ rpc = "recv"
    /\ SocketErrors
    /\ ReaderGivesUp
    /\ errno' = "stale"
    /\ UNCHANGED <<bufferVars, bufQue, iov, pktsRead, data, processorVars,
                   controlVars, sockOpen>>

\* push_full_buffers(bufQue, pktsReadThisPass): the unlocked test of the flag.
PushCheck ==
    /\ rpc = "pushCheck"
    /\ IF m_shuttingDown
       THEN bufQue' = Rest(bufQue, pktsRead) /\ rpc' = "pop"
       ELSE UNCHANGED bufQue /\ rpc' = "push"
    /\ UNCHANGED <<bufferVars, iov, pktsRead, errno, data, processorVars,
                   flagVars, controlVars, sockOpen>>

Push ==
    /\ rpc = "push"
    /\ FullMutexFree
    /\ PushFull(bufQue, pktsRead)
    /\ rpc' = "pushNotify"
    /\ UNCHANGED <<iov, pktsRead, errno, data, processorVars, flagVars,
                   controlVars, sockOpen>>

PushForgettingNotify ==
    /\ rpc = "pushNotify"
    /\ rpc' = "pop"
    /\ UNCHANGED <<bufferVars, bufQue, iov, pktsRead, errno, data, processorVars,
                   flagVars, controlVars, sockOpen>>

PushNotify ==
    /\ rpc = "pushNotify"
    /\ ppc' = Notify(ppc)
    /\ rpc' = "pop"
    /\ UNCHANGED <<bufferVars, bufQue, iov, pktsRead, errno, data, pktsToProcess,
                   pktsToRecycle, recycling, flagVars, controlVars, sockOpen>>

\* recycle_buffers(bufQue) after the loop.
ReaderRecycleCheck ==
    /\ rpc = "recycleCheck"
    /\ IF m_shuttingDown
       THEN bufQue' = <<>> /\ rpc' = "close"
       ELSE UNCHANGED bufQue /\ rpc' = "recycle"
    /\ UNCHANGED <<bufferVars, iov, pktsRead, errno, data, processorVars,
                   flagVars, controlVars, sockOpen>>

\* The only thread that ever waits for empties is this one: no one to notify.
ReaderRecycle ==
    /\ rpc = "recycle"
    /\ RecycleBuffers(bufQue)
    /\ rpc' = "close"
    /\ UNCHANGED <<iov, pktsRead, errno, data, processorVars, flagVars,
                   controlVars, sockOpen>>

\* The last lines of run; its locals go out of scope.
ReaderEndLeavingSocket ==
    /\ rpc = "close"
    /\ running' = [running EXCEPT !["reader"] = FALSE]
    /\ iov' = NoIovecs
    /\ pktsRead' = 0
    /\ errno' = "zero"
    /\ rpc' = "finished"
    /\ UNCHANGED <<bufferVars, bufQue, data, processorVars, stop, controlVars, sockOpen>>

ReaderEnd ==
    /\ rpc = "close"
    /\ running' = [running EXCEPT !["reader"] = FALSE]
    /\ sockOpen' = FALSE
    /\ iov' = NoIovecs
    /\ pktsRead' = 0
    /\ errno' = "zero"
    /\ rpc' = "finished"
    /\ UNCHANGED <<bufferVars, bufQue, data, processorVars, stop, controlVars>>

ReaderStep ==
    \/ ReaderBegin
    \/ ReaderPop
    \/ ReaderSleep
    \/ PointIovecs
    \/ ReaderLoop
    \/ \E num \in 1..PktsPerRead : \E msg \in [1..num -> Payload] : Receive(num, msg)
    \/ ReceiveNothing
    \/ ReceiveFails
    \/ PushCheck
    \/ Push
    \/ PushNotify
    \/ ReaderRecycleCheck
    \/ ReaderRecycle
    \/ ReaderEnd

-----------------------------------------------------------------------------
(***************************************************************************)
(* The packet processor thread.                                            *)
(***************************************************************************)
ProcessorBegin ==
    /\ ppc = "spawned"
    /\ running' = [running EXCEPT !["processor"] = TRUE]
    /\ stop' = [stop EXCEPT !["processor"] = FALSE]
    /\ ppc' = "loop"
    /\ UNCHANGED <<bufferVars, readerVars, pktsToProcess, pktsToRecycle,
                   recycling, controlVars, sockOpen>>

\* The loop test; when it fails the streams are closed and recycling begins.
ProcessorLoop ==
    /\ ppc = "loop"
    /\ IF stop["processor"]
       THEN ppc' = "recycleCheck" /\ recycling' = "unprocessed"
       ELSE ppc' = "pop" /\ UNCHANGED recycling
    /\ UNCHANGED <<bufferVars, readerVars, pktsToProcess, pktsToRecycle,
                   flagVars, controlVars, sockOpen>>

\* pop_full_buffers(pktsToProcess, m_pkts_per_read), as ReaderPop.
ProcessorPop ==
    /\ ppc = "pop"
    /\ \/ /\ m_shuttingDown \/ Len(pktsToProcess) >= PktsPerPush
          /\ ppc' = "process"
          /\ UNCHANGED <<bufferVars, pktsToProcess>>
       \/ /\ ~m_shuttingDown
          /\ Len(pktsToProcess) < PktsPerPush
          /\ full_available(PktsPerPush - Len(pktsToProcess))
          /\ PopFull(pktsToProcess, PktsPerPush)
          /\ ppc' = "process"
       \/ /\ Len(pktsToProcess) < PktsPerPush
          /\ ~full_available(PktsPerPush - Len(pktsToProcess))
          /\ ppc' = "deciding"
          /\ UNCHANGED <<bufferVars, pktsToProcess>>
    /\ UNCHANGED <<readerVars, pktsToRecycle, recycling, flagVars, controlVars,
                   sockOpen>>

ProcessorSleep ==
    /\ ppc = "deciding"
    /\ ppc' = "waiting"
    /\ UNCHANGED <<bufferVars, readerVars, pktsToProcess, pktsToRecycle,
                   recycling, flagVars, controlVars, sockOpen>>

(***************************************************************************)
(* processPackets uses up the first num packets, none when it returns to   *)
(* have the container refilled before it has used one: lost packets, a     *)
(* change of TTV or a new SRI.  Which it is depends on the packets alone.  *)
(***************************************************************************)
Process(num) ==
    /\ ppc = "process"
    /\ IF stop["processor"]
       THEN num = 0 /\ UNCHANGED <<pktsToProcess, pktsToRecycle>>
       ELSE /\ num <= Len(pktsToProcess)
            /\ pktsToRecycle' = pktsToRecycle \o Front(pktsToProcess, num)
            /\ pktsToProcess' = Rest(pktsToProcess, num)
    /\ recycling' = "processed"
    /\ ppc' = "recycleCheck"
    /\ UNCHANGED <<bufferVars, readerVars, flagVars, controlVars, sockOpen>>

(***************************************************************************)
(* recycle_buffers, called for the processed packets in the loop and after *)
(* it for the unprocessed and then once more for the processed ones.       *)
(***************************************************************************)
AfterRecycle ==
    CASE recycling = "processed" ->
           ppc' = "loop" /\ UNCHANGED recycling
      [] recycling = "unprocessed" ->
           ppc' = "recycleCheck" /\ recycling' = "last"
      [] recycling = "last" ->
           ppc' = "reset" /\ UNCHANGED recycling

ProcessorRecycleCheck ==
    /\ ppc = "recycleCheck"
    /\ IF m_shuttingDown
       THEN /\ AfterRecycle
            /\ IF recycling = "unprocessed"
               THEN pktsToProcess' = <<>> /\ UNCHANGED pktsToRecycle
               ELSE pktsToRecycle' = <<>> /\ UNCHANGED pktsToProcess
       ELSE /\ ppc' = "recycle"
            /\ UNCHANGED <<pktsToProcess, pktsToRecycle, recycling>>
    /\ UNCHANGED <<bufferVars, readerVars, flagVars, controlVars, sockOpen>>

ProcessorRecycle ==
    /\ ppc = "recycle"
    /\ EmptyMutexFree
    /\ IF recycling = "unprocessed"
       THEN RecycleBuffers(pktsToProcess) /\ UNCHANGED pktsToRecycle
       ELSE RecycleBuffers(pktsToRecycle) /\ UNCHANGED pktsToProcess
    /\ ppc' = "recycleNotify"
    /\ UNCHANGED <<readerVars, recycling, flagVars, controlVars, sockOpen>>

ProcessorForgettingNotify ==
    /\ ppc = "recycleNotify"
    /\ AfterRecycle
    /\ UNCHANGED <<bufferVars, readerVars, pktsToProcess,
                   pktsToRecycle, flagVars, controlVars, sockOpen>>

ProcessorRecycleNotify ==
    /\ ppc = "recycleNotify"
    /\ rpc' = Notify(rpc)
    /\ AfterRecycle
    /\ UNCHANGED <<bufferVars, bufQue, iov, pktsRead, errno, data, pktsToProcess,
                   pktsToRecycle, flagVars, controlVars, sockOpen>>

ProcessorEnd ==
    /\ ppc = "reset"
    /\ running' = [running EXCEPT !["processor"] = FALSE]
    /\ recycling' = "processed"
    /\ ppc' = "finished"
    /\ UNCHANGED <<bufferVars, readerVars, pktsToProcess, pktsToRecycle, stop,
                   controlVars, sockOpen>>

ProcessorStep ==
    \/ ProcessorBegin
    \/ ProcessorLoop
    \/ ProcessorPop
    \/ ProcessorSleep
    \/ \E num \in 0..PktsPerPush : Process(num)
    \/ ProcessorRecycleCheck
    \/ ProcessorRecycle
    \/ ProcessorRecycleNotify
    \/ ProcessorEnd

\* A condition variable may also wake its waiter for no reason.
SpuriousWakeup ==
    /\ \/ rpc = "waiting" /\ rpc' = "pop" /\ UNCHANGED ppc
       \/ ppc = "waiting" /\ ppc' = "pop" /\ UNCHANGED rpc
    /\ UNCHANGED <<bufferVars, bufQue, iov, pktsRead, errno, data, pktsToProcess,
                   pktsToRecycle, recycling, flagVars, controlVars, sockOpen>>

-----------------------------------------------------------------------------
(***************************************************************************)
(* The control thread.  Both operations begin with                         *)
(* destroyBuffersAndJoinThreads; "idle" is outside of any operation.  A    *)
(* "restart" is a _start that finds threads: an attach that comes to a     *)
(* running component whose override has been disabled since.               *)
(***************************************************************************)
Operations == {"start", "restart", "stop"}

NoThreads == rpc = "none" /\ ppc = "none"

ThreadsBegan == ~StopRacesStart => rpc # "spawned" /\ ppc # "spawned"

Call(operation) ==
    /\ cpc = "idle"
    /\ ThreadsBegan
    /\ operation = "start" => NoThreads
    /\ operation = "restart" => LiveRestart /\ ~NoThreads
    /\ call' = operation
    /\ cpc' = "stopReader"
    /\ UNCHANGED <<bufferVars, readerVars, processorVars, flagVars, live,
                   generation, sockOpen>>

ShutDownThreadSilently(thread, from, to) ==
    /\ cpc = from
    /\ running' = [running EXCEPT ![thread] = FALSE]
    /\ cpc' = to
    /\ UNCHANGED <<bufferVars, readerVars, processorVars, stop, call, live, generation, sockOpen>>

ShutDownThread(thread, from, to) ==
    /\ cpc = from
    /\ stop' = [stop EXCEPT ![thread] = TRUE]
    /\ running' = [running EXCEPT ![thread] = FALSE]
    /\ cpc' = to
    /\ UNCHANGED <<bufferVars, readerVars, processorVars, call, live, generation, sockOpen>>

ShutDownReader    == ShutDownThread("reader", "stopReader", "stopProcessor")
ShutDownProcessor == ShutDownThread("processor", "stopProcessor", "raise")

\* SmartPacketBuffer::shutDown, line by line.
BufferRaise ==
    /\ cpc = "raise"
    /\ RaiseShuttingDown
    /\ cpc' = "notifyEmpty"
    /\ UNCHANGED <<readerVars, processorVars, flagVars, call, live, generation, sockOpen>>

BufferNotifyEmpty ==
    /\ cpc = "notifyEmpty"
    /\ rpc' = Notify(rpc)
    /\ cpc' = "notifyFull"
    /\ UNCHANGED <<bufferVars, bufQue, iov, pktsRead, errno, data, processorVars,
                   flagVars, call, live, generation, sockOpen>>

BufferNotifyFull ==
    /\ cpc = "notifyFull"
    /\ ppc' = Notify(ppc)
    /\ cpc' = "clearFull"
    /\ UNCHANGED <<bufferVars, readerVars, pktsToProcess, pktsToRecycle,
                   recycling, flagVars, call, live, generation, sockOpen>>

BufferClearFull ==
    /\ cpc = "clearFull"
    /\ FullMutexFree
    /\ ClearFull
    /\ cpc' = "clearEmpty"
    /\ UNCHANGED <<readerVars, processorVars, flagVars, call, live, generation, sockOpen>>

BufferClearEmpty ==
    /\ cpc = "clearEmpty"
    /\ EmptyMutexFree
    /\ ClearEmpty
    /\ cpc' = "joinReader"
    /\ UNCHANGED <<readerVars, processorVars, flagVars, call, live, generation, sockOpen>>

JoinReader ==
    /\ cpc = "joinReader"
    /\ rpc \in {"finished", "none"}
    /\ rpc' = "none"
    /\ cpc' = "joinProcessor"
    /\ UNCHANGED <<bufferVars, bufQue, iov, pktsRead, errno, data, processorVars,
                   flagVars, call, live, generation, sockOpen>>

JoinProcessor ==
    /\ cpc = "joinProcessor"
    /\ ppc \in {"finished", "none"}
    /\ ppc' = "none"
    /\ cpc' = "destroyed"
    /\ UNCHANGED <<bufferVars, readerVars, pktsToProcess, pktsToRecycle,
                   recycling, flagVars, call, live, generation, sockOpen>>

StopReturns ==
    /\ cpc = "destroyed"
    /\ call = "stop"
    /\ cpc' = "idle"
    /\ UNCHANGED <<bufferVars, readerVars, processorVars, flagVars, call, live,
                   generation, sockOpen>>

\* Containers at the moment of initialize, when the threads are joined.
Unreferenced(g) ==
    \A b \in Buffers : Holds(m_full_buffers, b) => b[1] # g

InitializeBuffers(g) ==
    /\ cpc = "destroyed"
    /\ call \in {"start", "restart"}
    /\ Unreferenced(g)
    /\ Initialize(g)
    /\ data' = [b \in Buffers |-> IF b[1] = g THEN NoData ELSE data[b]]
    /\ generation' = g
    /\ live' = (call = "restart")
    /\ cpc' = "setup"
    /\ UNCHANGED <<rpc, bufQue, iov, pktsRead, errno, processorVars, flagVars,
                   call, sockOpen>>

(***************************************************************************)
(* setupSocketReaderOptions: setConnectionInfo opens the socket, unless    *)
(* the reader claims to be running; or it throws and so does _start.       *)
(***************************************************************************)
SetupReader ==
    /\ cpc = "setup"
    /\ \/ sockOpen' = (sockOpen \/ ~running["reader"]) /\ cpc' = "spawnReader"
       \/ ~running["reader"] /\ sockOpen' = FALSE /\ cpc' = "idle"
    /\ UNCHANGED <<bufferVars, readerVars, processorVars, flagVars, call, live,
                   generation>>

SpawnReader ==
    /\ cpc = "spawnReader"
    /\ rpc' = "spawned"
    /\ cpc' = "spawnProcessor"
    /\ UNCHANGED <<bufferVars, bufQue, iov, pktsRead, errno, data, processorVars,
                   flagVars, call, live, generation, sockOpen>>

SpawnProcessor ==
    /\ cpc = "spawnProcessor"
    /\ ppc' = "spawned"
    /\ cpc' = "idle"
    /\ UNCHANGED <<bufferVars, readerVars, pktsToProcess, pktsToRecycle,
                   recycling, flagVars, call, live, generation, sockOpen>>

\* What the control thread does once an operation has been called.
ControlStep ==
    \/ ShutDownReader
    \/ ShutDownProcessor
    \/ BufferRaise
    \/ BufferNotifyEmpty
    \/ BufferNotifyFull
    \/ BufferClearFull
    \/ BufferClearEmpty
    \/ JoinReader
    \/ JoinProcessor
    \/ StopReturns
    \/ \E g \in 1..Generations : InitializeBuffers(g)
    \/ SetupReader
    \/ SpawnReader
    \/ SpawnProcessor

-----------------------------------------------------------------------------
Init ==
    /\ m_empty_buffers = <<>>
    /\ m_full_buffers = <<>>
    /\ m_shuttingDown = FALSE
    /\ rpc = "none"
    /\ bufQue = <<>>
    /\ iov = NoIovecs
    /\ pktsRead = 0
    /\ errno = "zero"
    /\ data = [b \in Buffers |-> NoData]
    /\ ppc = "none"
    /\ pktsToProcess = <<>>
    /\ pktsToRecycle = <<>>
    /\ recycling = "processed"
    /\ stop = [t \in Threads |-> FALSE]
    /\ running = [t \in Threads |-> FALSE]
    /\ cpc = "idle"
    /\ call = "stop"
    /\ live = FALSE
    /\ generation = 0
    /\ sockOpen = FALSE

Next ==
    \/ ReaderStep
    \/ ProcessorStep
    \/ SpuriousWakeup
    \/ \E operation \in Operations : Call(operation)
    \/ ControlStep

Spec == Init /\ [][Next]_vars

(***************************************************************************)
(* Fairness: the scheduler runs every thread that can run, and a mutex     *)
(* that is released again and again (by a waiter that is woken for no      *)
(* reason and sleeps again) is obtained at last.  processPackets returns   *)
(* without using a packet at most a few times in a row for the same packet *)
(* (once for a gap, once for a TTV change, once per new SRI), so a         *)
(* processor that calls it again and again uses one.  Nobody has to call   *)
(* start or stop, no packet has to arrive and no wakeup is spurious.       *)
(***************************************************************************)
Fairness ==
    /\ WF_vars(ReaderStep) /\ SF_vars(Push)
    /\ WF_vars(ProcessorStep) /\ SF_vars(ProcessorRecycle)
    /\ SF_vars(\E num \in 1..PktsPerPush : Process(num))
    /\ WF_vars(ControlStep)

FairSpec == Spec /\ Fairness
-----------------------------------------------------------------------------
(***************************************************************************)
(* Properties.                                                             *)
(***************************************************************************)
ReaderPcs == {"none", "spawned", "pop", "deciding", "waiting", "point", "loop",
              "recv", "pushCheck", "push", "pushNotify", "recycleCheck",
              "recycle", "close", "finished"}

ProcessorPcs == {"none", "spawned", "loop", "pop", "deciding", "waiting",
                 "process", "recycleCheck", "recycle", "recycleNotify",
                 "reset", "finished"}

ControlPcs == {"idle", "stopReader", "stopProcessor", "raise", "notifyEmpty",
               "notifyFull", "clearFull", "clearEmpty", "joinReader",
               "joinProcessor", "destroyed", "setup", "spawnReader",
               "spawnProcessor"}

\* Type invariant: every field has a value the code can store in it.
TypeOK ==
    /\ m_empty_buffers \in Seq(Buffers)
    /\ m_full_buffers \in Seq(Buffers)
    /\ m_shuttingDown \in BOOLEAN
    /\ rpc \in ReaderPcs
    /\ bufQue \in Seq(Buffers)
    /\ iov \in [1..PktsPerRead -> Buffers \cup {Wild}]
    /\ pktsRead \in 0..PktsPerRead
    /\ errno \in {"zero", "stale"}
    /\ data \in [Buffers -> Payload \cup {NoData}]
    /\ ppc \in ProcessorPcs
    /\ pktsToProcess \in Seq(Buffers)
    /\ pktsToRecycle \in Seq(Buffers)
    /\ recycling \in {"processed", "unprocessed", "last"}
    /\ stop \in [Threads -> BOOLEAN]
    /\ running \in [Threads -> BOOLEAN]
    /\ cpc \in ControlPcs
    /\ call \in Operations
    /\ live \in BOOLEAN
    /\ generation \in 0..Generations
    /\ sockOpen \in BOOLEAN

(***************************************************************************)
(* No packet buffer is ever in two containers, or twice in one: the two    *)
(* threads never work on the same packet, whatever the interleaving of     *)
(* pops, pushes, recycles and shut downs.                                  *)
(***************************************************************************)
Containers == <<m_empty_buffers, bufQue, m_full_buffers, pktsToProcess, pktsToRecycle>>

NoSharing ==
    /\ \A c \in 1..5 : \A i, j \in DOMAIN Containers[c] :
          Containers[c][i] = Containers[c][j] => i = j
    /\ \A c, d \in 1..5 : c # d =>
          \A i \in DOMAIN Containers[c] : \A j \in DOMAIN Containers[d] :
             Containers[c][i] # Containers[d][j]

(***************************************************************************)
(* "You MUST follow this cycle" (SmartPacketBuffer.h:45): from initialize  *)
(* until the buffer is shut down the five containers hold exactly the      *)
(* Capacity buffers of the pool; no thread lets one go out of scope.  A    *)
(* _start over running threads may find more: a push that was past its     *)
(* test of the flag lands behind the clear (SourceSDDS.cpp:374).  The next *)
(* start that finds no thread sets the count right again.                  *)
(***************************************************************************)
BuffersHeld ==
    Len(m_empty_buffers) + Len(bufQue) + Len(m_full_buffers)
        + Len(pktsToProcess) + Len(pktsToRecycle)

PoolConserved ==
    generation # 0 /\ ~m_shuttingDown /\ ~live => BuffersHeld = Capacity

(***************************************************************************)
(* With room for one batch of each thread less one packet, the reader and  *)
(* the processor are never both short of buffers, so they cannot wait for  *)
(* each other for ever.  (No code checks this relation of the three        *)
(* properties a user may set.)                                             *)
(***************************************************************************)
AtPop(pc) == pc \in {"pop", "deciding", "waiting"}

ReaderShort    == AtPop(rpc) /\ Len(bufQue) + Len(m_empty_buffers) < PktsPerRead
ProcessorShort == AtPop(ppc) /\ Len(pktsToProcess) + Len(m_full_buffers) < PktsPerPush

Roomy == Capacity >= PktsPerRead + PktsPerPush - 1

NoMutualStarvation ==
    Roomy /\ generation # 0 /\ ~m_shuttingDown => ~(ReaderShort /\ ProcessorShort)

(***************************************************************************)
(* A thread that sleeps although its request could be met is about to be   *)
(* notified: push_full_buffers and recycle_buffers lose no wakeup.         *)
(***************************************************************************)
NoMissedWakeup ==
    /\ rpc = "waiting" /\ Len(m_empty_buffers) >= PktsPerRead - Len(bufQue)
          => ppc = "recycleNotify"
    /\ ppc = "waiting" /\ Len(m_full_buffers) >= PktsPerPush - Len(pktsToProcess)
          => rpc = "pushNotify"

(***************************************************************************)
(* recvmmsg writes message i into the i-th buffer of the reader's own      *)
(* container, the one push_full_buffers then hands over as the i-th; never *)
(* into a buffer the processor may be reading or into freed memory.        *)
(***************************************************************************)
KernelWritesOwnBuffers == rpc = "recv" => iov = bufQue

(***************************************************************************)
(* destroyBuffersAndJoinThreads leaves no thread, no buffer in a thread's  *)
(* hands and no socket behind: "the socket will be closed"                 *)
(* (SourceSDDS.cpp:464).  Buffers put back late may stay in the containers.*)
(***************************************************************************)
ThreadsGone == NoThreads /\ running = [t \in Threads |-> FALSE] /\ bufQue = <<>>
                /\ pktsToProcess = <<>> /\ pktsToRecycle = <<>>

SocketClosed == cpc = "destroyed" => ThreadsGone /\ ~sockOpen

(***************************************************************************)
(* A thread told to shut down keeps being told until it is joined: "during *)
(* the next pass the socket reader will close the socket and exit cleanly" *)
(* (SocketReader.cpp:70); SddsToBulkIOProcessor.cpp:102 says the same.     *)
(***************************************************************************)
BufferShutDown == {"raise", "notifyEmpty", "notifyFull", "clearFull", "clearEmpty"}

ShutDownHeard ==
    /\ cpc \in BufferShutDown \cup {"stopProcessor", "joinReader"} => stop["reader"]
    /\ cpc \in BufferShutDown \cup {"joinReader", "joinProcessor"} => stop["processor"]

(***************************************************************************)
(* The processor is only given packets of its own session: after a stop    *)
(* and a start nothing received before them is pushed as data of the new   *)
(* stream, not even what a session before left behind.  A session that     *)
(* attach began by a _start over running threads (SourceSDDS.cpp:371-374)  *)
(* is the exception: there a late push survives initialize, which clears   *)
(* no container of full buffers.                                           *)
(***************************************************************************)
NoStalePackets ==
    ~live => \A i \in DOMAIN pktsToProcess : pktsToProcess[i][1] = generation

(***************************************************************************)
(* The pipeline implements the FIFO channel.  A packet is in flight from   *)
(* the moment recvmmsg has returned it until processPackets is done with   *)
(* it.  The channel is open from initialize until the processor has been   *)
(* told to shut down.  That it opens empty holds without LiveRestart only: *)
(* a session attach begins over running threads may open with a late push. *)
(***************************************************************************)
Received == IF rpc \in {"pushCheck", "push"} THEN Front(bufQue, pktsRead) ELSE <<>>

InFlight ==
    LET que == pktsToProcess \o m_full_buffers \o Received
    IN  [i \in DOMAIN que |-> data[que[i]]]

Channel == INSTANCE PacketChannel WITH
               BatchSize <- PktsPerRead,
               open      <- ~m_shuttingDown /\ cpc # "raise",
               inflight  <- InFlight

ImplementsChannel == Channel!Spec

(***************************************************************************)
(* Liveness.                                                               *)
(***************************************************************************)
\* A thread blocked after the flag was raised and its condition notified.
WakeupLost ==
    /\ m_shuttingDown
    /\ \/ rpc = "waiting" /\ cpc \notin {"notifyEmpty"}
       \/ ppc = "waiting" /\ cpc \notin {"notifyEmpty", "notifyFull"}

(***************************************************************************)
(* With a roomy buffer a reader that waits for empties gets them all, from *)
(* the processor, unless the component is being stopped meanwhile.         *)
(***************************************************************************)
ReaderServed ==
    Roomy => (rpc = "waiting" ~> Len(bufQue) = PktsPerRead \/ stop["reader"])

(***************************************************************************)
(* Once a whole push of packets is buffered, the processor takes it, or    *)
(* the component is being stopped.                                         *)
(***************************************************************************)
BatchProcessed ==
    Len(pktsToProcess) + Len(m_full_buffers) >= PktsPerPush
        ~> \/ ppc = "process" /\ Len(pktsToProcess) >= PktsPerPush
           \/ m_shuttingDown

(***************************************************************************)
(* destroyBuffersAndJoinThreads returns: shutDown "notifies any waiting    *)
(* thread" (SmartPacketBuffer.h:91) and the joins end.                     *)
(***************************************************************************)
StopReturnsEventually == cpc = "joinReader" ~> cpc = "destroyed"

(***************************************************************************)
(* The only way for it not to return is a thread that was between the      *)
(* evaluation of its predicate and the wait when it was notified.          *)
(***************************************************************************)
StopReturnsOrWakeupLost == cpc = "joinReader" ~> cpc = "destroyed" \/ WakeupLost
=============================================================================
