------------------------ MODULE PacketPipeline_proofs ------------------------
(***************************************************************************)
(* Proofs about PacketPipeline for any size of the buffer and of the       *)
(* batches.  Everything rests on one inductive invariant, IInv: where the  *)
(* three threads can be relative to each other (PhaseInv), what the reader *)
(* and the processor hold at each place (ReaderInv, ProcessorInv).  The    *)
(* assumption ~StopRacesStart, that a stop finds the threads past their    *)
(* first lines, is needed: the run start_race shows what happens without.  *)
(***************************************************************************)
EXTENDS PacketPipeline, SequenceTheorems, TLAPS

(***************************************************************************)
(* Where the threads are while the control thread is at a given place, and *)
(* which flags are up.  A thread that finds the buffer shutting down will  *)
(* find its own flag up as well: it is raised before, and only a thread    *)
(* that is about to begin takes it back.                                   *)
(***************************************************************************)
Stopping == {"raise", "notifyEmpty", "notifyFull", "clearFull", "clearEmpty", "joinReader"}

PhaseInv ==
    /\ rpc = "spawned" => cpc \in {"spawnProcessor", "idle"} /\ ~m_shuttingDown
    /\ ppc = "spawned" => cpc = "idle" /\ ~m_shuttingDown
    /\ cpc \in {"joinProcessor", "destroyed", "setup", "spawnReader"} => rpc = "none"
    /\ cpc \in {"destroyed", "setup", "spawnReader", "spawnProcessor"} => ppc = "none"
    /\ cpc \in Stopping \cup {"stopProcessor"} => stop["reader"]
    /\ cpc \in Stopping \cup {"joinProcessor"} => stop["processor"]
    /\ m_shuttingDown /\ rpc # "none" => stop["reader"]
    /\ m_shuttingDown /\ ppc # "none" => stop["processor"]
    /\ cpc \in {"setup", "spawnReader", "spawnProcessor"} => ~m_shuttingDown
    /\ cpc \in (Stopping \ {"raise"}) \cup {"joinProcessor", "destroyed"} => m_shuttingDown

(***************************************************************************)
(* What the reader holds.  Once it has read pktsRead packets, the buffers  *)
(* it keeps are those its last iovecs point to: only the ones it handed    *)
(* over have to be pointed to again.                                       *)
(***************************************************************************)
Kept == /\ Len(bufQue) = PktsPerRead - pktsRead
        /\ \A i \in 1..PktsPerRead - pktsRead : bufQue[i] = iov[i + pktsRead]

Refilled == /\ Len(bufQue) = PktsPerRead
            /\ pktsRead # 0 => \A i \in pktsRead + 1..PktsPerRead : iov[i] = bufQue[i]

Pointed == /\ Len(bufQue) = PktsPerRead
           /\ \A i \in 1..PktsPerRead : iov[i] = bufQue[i]

ReaderInv ==
    /\ Len(bufQue) <= PktsPerRead
    /\ rpc \in {"none", "spawned", "close", "finished"} => bufQue = <<>>
    /\ rpc \in {"none", "spawned", "finished"} => pktsRead = 0
    /\ AtPop(rpc) => IF pktsRead = 0 THEN bufQue = <<>> ELSE Kept
    /\ rpc = "pushNotify" => pktsRead # 0 /\ Kept
    /\ rpc = "point" => stop["reader"] \/ Refilled
    /\ rpc = "loop" => stop["reader"] \/ Pointed
    /\ rpc \in {"recv", "pushCheck", "push"} => Pointed
    /\ rpc \in {"pushCheck", "push"} => pktsRead # 0

(***************************************************************************)
(* What the processor holds: it comes back to its loop with nothing left   *)
(* to recycle, and it ends with nothing at all.                            *)
(***************************************************************************)
ProcessorInv ==
    /\ Len(pktsToProcess) <= PktsPerPush
    /\ ppc \in {"none", "spawned", "reset", "finished"} =>
          pktsToProcess = <<>> /\ pktsToRecycle = <<>>
    /\ ppc \in {"none", "spawned", "loop", "pop", "deciding", "waiting", "process", "finished"} =>
          pktsToRecycle = <<>> /\ recycling = "processed"
    /\ recycling = "last" => pktsToProcess = <<>>
    /\ ppc = "recycleNotify" => IF recycling = "unprocessed" THEN pktsToProcess = <<>>
                                ELSE pktsToRecycle = <<>>

IInv == TypeOK /\ PhaseInv /\ ReaderInv /\ ProcessorInv

(***************************************************************************)
(* The count: between two shut downs the containers hold the pool.  A      *)
(* start that finds no threads finds no full buffer at initialize either,  *)
(* not even one that a restart before it left behind.                      *)
(***************************************************************************)
CountInv ==
    /\ PoolConserved
    /\ call = "start" /\ cpc \in Stopping \cup {"stopReader", "stopProcessor", "joinProcessor", "destroyed"}
          => NoThreads
    /\ call = "start" /\ cpc \in {"clearEmpty", "joinReader", "joinProcessor", "destroyed"}
          => m_full_buffers = <<>>
    /\ ~LiveRestart => call # "restart"

-----------------------------------------------------------------------------
(***************************************************************************)
(* Lemmas about sequences of buffers.                                      *)
(***************************************************************************)
LEMMA FrontRest ==
    ASSUME NEW S, NEW que \in Seq(S), NEW num \in 0..Len(que)
    PROVE  /\ Front(que, num) \in Seq(S)
           /\ Len(Front(que, num)) = num
           /\ \A i \in 1..num : Front(que, num)[i] = que[i]
           /\ Rest(que, num) \in Seq(S)
           /\ Len(Rest(que, num)) = Len(que) - num
           /\ \A i \in 1..Len(que) - num : Rest(que, num)[i] = que[i + num]
<1>1. Len(que) \in Nat /\ num \in Int /\ \A i \in 1..Len(que) : que[i] \in S
  BY LenProperties, ElementOfSeq
<1>2. \A i \in 1..num : que[i] \in S
  BY <1>1
<1>3. \A i \in num + 1..Len(que) : que[i] \in S
  BY <1>1
<1>4. /\ Front(que, num) \in Seq(S)
      /\ Len(Front(que, num)) = num
      /\ \A i \in 1..num : Front(que, num)[i] = que[i]
  BY <1>1, <1>2, SubSeqProperties DEF Front
<1>5. /\ Rest(que, num) \in Seq(S)
      /\ Len(Rest(que, num)) = Len(que) - num
      /\ \A i \in 1..Len(que) - num : Rest(que, num)[i] = que[i + num]
  BY <1>1, <1>3, SubSeqProperties DEF Rest
<1>. QED  BY <1>4, <1>5

LEMMA PoolType ==
    ASSUME NEW g \in 1..Generations
    PROVE  Pool(g) \in Seq(Buffers) /\ Len(Pool(g)) = Capacity
<1>1. Capacity \in Nat
  BY CapacityAssumption
<1>2. Pool(g) \in [1..Capacity -> Buffers]
  BY DEF Pool, Buffers
<1>. QED  BY <1>1, <1>2

-----------------------------------------------------------------------------
(***************************************************************************)
(* Every step keeps the types.  The reader's steps.                        *)
(***************************************************************************)
LEMMA ReaderTypes == ASSUME IInv, ReaderStep PROVE TypeOK'
<1>. USE IInv, PipelineAssumption, CapacityAssumption
     DEF IInv, TypeOK, bufferVars, readerVars, processorVars, controlVars, flagVars
<1>1. CASE ReaderBegin
  BY <1>1 DEF ReaderBegin, ReaderPcs, Threads
<1>2. CASE ReaderPop
  <2>1. CASE UNCHANGED <<bufferVars, bufQue>>
    BY <1>2, <2>1 DEF ReaderPop, ReaderPcs
  <2>2. CASE /\ PopEmpty(bufQue, PktsPerRead)
             /\ Len(bufQue) < PktsPerRead
             /\ ~m_shuttingDown
             /\ empties_available(PktsPerRead - Len(bufQue))
    <3>. DEFINE request == PktsPerRead - Len(bufQue)
    <3>1. request \in 0..Len(m_empty_buffers)
      BY <2>2 DEF empties_available
    <3>2. /\ Front(m_empty_buffers, request) \in Seq(Buffers)
          /\ Rest(m_empty_buffers, request) \in Seq(Buffers)
      BY <3>1, FrontRest
    <3>3. bufQue' \in Seq(Buffers) /\ m_empty_buffers' \in Seq(Buffers)
      BY <2>2, <3>2, ConcatProperties DEF PopEmpty
    <3>. QED  BY <1>2, <2>2, <3>3 DEF ReaderPop, PopEmpty, ReaderPcs
  <2>. QED  BY <1>2, <2>1, <2>2 DEF ReaderPop
<1>3. CASE ReaderSleep
  BY <1>3 DEF ReaderSleep, ReaderPcs
<1>4. CASE PointIovecs
  BY <1>4 DEF PointIovecs, ReaderPcs, IovBase
<1>5. CASE ReaderLoop
  BY <1>5 DEF ReaderLoop, ReaderPcs
<1>6. ASSUME NEW num \in 1..PktsPerRead, NEW msg \in [1..num -> Payload], Receive(num, msg)
      PROVE  TypeOK'
  <2>1. \A b \in Buffers : data'[b] \in Payload \cup {NoData}
    <3>. TAKE b \in Buffers
    <3>1. CASE \E i \in 1..num : iov[i] = b
      <4>1. (CHOOSE i \in 1..num : iov[i] = b) \in 1..num
        BY <3>1
      <4>. QED  BY <1>6, <3>1, <4>1 DEF Receive
    <3>2. CASE ~\E i \in 1..num : iov[i] = b
      BY <1>6, <3>2 DEF Receive
    <3>. QED  BY <3>1, <3>2
  <2>2. data' \in [Buffers -> Payload \cup {NoData}]
    BY <1>6, <2>1 DEF Receive
  <2>3. pktsRead' \in 0..PktsPerRead
    BY <1>6 DEF Receive
  <2>4. /\ rpc' \in ReaderPcs
        /\ stop' \in [Threads -> BOOLEAN] /\ running' \in [Threads -> BOOLEAN]
    BY <1>6 DEF Receive, ReaderPcs, ReaderGivesUp
  <2>. QED  BY <1>6, <2>2, <2>3, <2>4 DEF Receive
<1>7. CASE ReceiveNothing
  BY <1>7 DEF ReceiveNothing, ReaderPcs
<1>8. CASE ReceiveFails
  BY <1>8 DEF ReceiveFails, ReaderPcs, ReaderGivesUp, Threads
<1>9. CASE PushCheck
  <2>1. pktsRead \in 0..Len(bufQue)
    BY <1>9 DEF PushCheck, ReaderInv, Pointed
  <2>2. Rest(bufQue, pktsRead) \in Seq(Buffers)
    BY <2>1, FrontRest
  <2>. QED  BY <1>9, <2>2 DEF PushCheck, ReaderPcs
<1>10. CASE Push
  <2>1. pktsRead \in 0..Len(bufQue)
    BY <1>10 DEF Push, ReaderInv, Pointed
  <2>2. bufQue' \in Seq(Buffers) /\ m_full_buffers' \in Seq(Buffers)
    BY <1>10, <2>1, FrontRest, ConcatProperties DEF Push, PushFull
  <2>. QED  BY <1>10, <2>2 DEF Push, PushFull, ReaderPcs
<1>11. CASE PushNotify
  BY <1>11 DEF PushNotify, Notify, ReaderPcs, ProcessorPcs
<1>12. CASE ReaderRecycleCheck
  BY <1>12, EmptySeq DEF ReaderRecycleCheck, ReaderPcs
<1>13. CASE ReaderRecycle
  BY <1>13, EmptySeq, ConcatProperties DEF ReaderRecycle, RecycleBuffers, ReaderPcs
<1>14. CASE ReaderEnd
  <2>1. iov' \in [1..PktsPerRead -> Buffers \cup {Wild}] /\ pktsRead' \in 0..PktsPerRead
    BY <1>14 DEF ReaderEnd, NoIovecs
  <2>. QED  BY <1>14, <2>1 DEF ReaderEnd, ReaderPcs
<1>. QED
  BY <1>1, <1>2, <1>3, <1>4, <1>5, <1>6, <1>7, <1>8, <1>9, <1>10, <1>11, <1>12,
     <1>13, <1>14 DEF ReaderStep
\* The processor's steps.
LEMMA ProcessorTypes == ASSUME IInv, ProcessorStep PROVE TypeOK'
<1>. USE IInv, PipelineAssumption, CapacityAssumption
     DEF IInv, TypeOK, bufferVars, readerVars, processorVars, controlVars, flagVars
<1>1. CASE ProcessorBegin
  BY <1>1 DEF ProcessorBegin, ProcessorPcs, Threads
<1>2. CASE ProcessorLoop
  BY <1>2 DEF ProcessorLoop, ProcessorPcs
<1>3. CASE ProcessorPop
  <2>1. CASE UNCHANGED <<bufferVars, pktsToProcess>>
    BY <1>3, <2>1 DEF ProcessorPop, ProcessorPcs
  <2>2. CASE /\ PopFull(pktsToProcess, PktsPerPush)
             /\ Len(pktsToProcess) < PktsPerPush
             /\ ~m_shuttingDown
             /\ full_available(PktsPerPush - Len(pktsToProcess))
    <3>. DEFINE request == PktsPerPush - Len(pktsToProcess)
    <3>1. request \in 0..Len(m_full_buffers)
      BY <2>2 DEF full_available
    <3>2. /\ Front(m_full_buffers, request) \in Seq(Buffers)
          /\ Rest(m_full_buffers, request) \in Seq(Buffers)
      BY <3>1, FrontRest
    <3>3. pktsToProcess' \in Seq(Buffers) /\ m_full_buffers' \in Seq(Buffers)
      BY <2>2, <3>2, ConcatProperties DEF PopFull
    <3>. QED  BY <1>3, <2>2, <3>3 DEF ProcessorPop, PopFull, ProcessorPcs
  <2>. QED  BY <1>3, <2>1, <2>2 DEF ProcessorPop
<1>4. CASE ProcessorSleep
  BY <1>4 DEF ProcessorSleep, ProcessorPcs
<1>5. ASSUME NEW num \in 0..PktsPerPush, Process(num) PROVE TypeOK'
  <2>1. CASE stop["processor"]
    BY <1>5, <2>1 DEF Process, ProcessorPcs
  <2>2. CASE ~stop["processor"]
    <3>1. num \in 0..Len(pktsToProcess)
      BY <1>5, <2>2 DEF Process
    <3>2. pktsToProcess' \in Seq(Buffers) /\ pktsToRecycle' \in Seq(Buffers)
      <4>1. Front(pktsToProcess, num) \in Seq(Buffers) /\ Rest(pktsToProcess, num) \in Seq(Buffers)
        BY <3>1, FrontRest
      <4>2. pktsToRecycle \o Front(pktsToProcess, num) \in Seq(Buffers)
        BY <4>1, ConcatProperties
      <4>. QED  BY <1>5, <2>2, <4>1, <4>2 DEF Process
    <3>. QED  BY <1>5, <3>2 DEF Process, ProcessorPcs
  <2>. QED  BY <2>1, <2>2
<1>6. CASE ProcessorRecycleCheck
  <2>1. ppc' \in ProcessorPcs /\ recycling' \in {"processed", "unprocessed", "last"}
    BY <1>6 DEF ProcessorRecycleCheck, AfterRecycle, ProcessorPcs
  <2>2. pktsToProcess' \in Seq(Buffers) /\ pktsToRecycle' \in Seq(Buffers)
    BY <1>6, EmptySeq DEF ProcessorRecycleCheck
  <2>. QED  BY <1>6, <2>1, <2>2 DEF ProcessorRecycleCheck
<1>7. CASE ProcessorRecycle
  <2>1. pktsToProcess' \in Seq(Buffers) /\ pktsToRecycle' \in Seq(Buffers)
    BY <1>7, EmptySeq DEF ProcessorRecycle, RecycleBuffers
  <2>2. m_empty_buffers' \in Seq(Buffers) /\ UNCHANGED <<m_full_buffers, m_shuttingDown>>
    <3>1. /\ m_empty_buffers \o pktsToProcess \in Seq(Buffers)
          /\ m_empty_buffers \o pktsToRecycle \in Seq(Buffers)
      BY ConcatProperties
    <3>. QED  BY <1>7, <3>1 DEF ProcessorRecycle, RecycleBuffers
  <2>. QED  BY <1>7, <2>1, <2>2 DEF ProcessorRecycle, ProcessorPcs
<1>8. CASE ProcessorRecycleNotify
  <2>1. ppc' \in ProcessorPcs /\ recycling' \in {"processed", "unprocessed", "last"}
    BY <1>8 DEF ProcessorRecycleNotify, AfterRecycle, ProcessorPcs
  <2>. QED  BY <1>8, <2>1 DEF ProcessorRecycleNotify, Notify, ReaderPcs
<1>9. CASE ProcessorEnd
  BY <1>9 DEF ProcessorEnd, ProcessorPcs, Threads
<1>. QED
  BY <1>1, <1>2, <1>3, <1>4, <1>5, <1>6, <1>7, <1>8, <1>9 DEF ProcessorStep

\* The control thread's steps.
LEMMA ControlTypes == ASSUME IInv, ControlStep PROVE TypeOK'
<1>. USE IInv, PipelineAssumption, CapacityAssumption
     DEF IInv, TypeOK, bufferVars, readerVars, processorVars, controlVars, flagVars
<1>1. CASE ShutDownReader \/ ShutDownProcessor
  BY <1>1 DEF ShutDownReader, ShutDownProcessor, ShutDownThread, ControlPcs, Threads
<1>2. CASE BufferRaise
  BY <1>2 DEF BufferRaise, RaiseShuttingDown, ControlPcs
<1>3. CASE BufferNotifyEmpty
  BY <1>3 DEF BufferNotifyEmpty, Notify, ControlPcs, ReaderPcs
<1>4. CASE BufferNotifyFull
  BY <1>4 DEF BufferNotifyFull, Notify, ControlPcs, ProcessorPcs
<1>5. CASE BufferClearFull
  BY <1>5, EmptySeq DEF BufferClearFull, ClearFull, ControlPcs
<1>6. CASE BufferClearEmpty
  BY <1>6, EmptySeq DEF BufferClearEmpty, ClearEmpty, ControlPcs
<1>7. CASE JoinReader
  BY <1>7 DEF JoinReader, ControlPcs, ReaderPcs
<1>8. CASE JoinProcessor
  BY <1>8 DEF JoinProcessor, ControlPcs, ProcessorPcs
<1>9. CASE StopReturns
  BY <1>9 DEF StopReturns, ControlPcs
<1>10. ASSUME NEW g \in 1..Generations, InitializeBuffers(g) PROVE TypeOK'
  <2>1. m_empty_buffers' \in Seq(Buffers)
    BY <1>10, PoolType DEF InitializeBuffers, Initialize
  <2>2. data' \in [Buffers -> Payload \cup {NoData}]
    BY <1>10 DEF InitializeBuffers
  <2>3. m_shuttingDown' \in BOOLEAN /\ UNCHANGED m_full_buffers
    BY <1>10 DEF InitializeBuffers, Initialize
  <2>. QED  BY <1>10, <2>1, <2>2, <2>3 DEF InitializeBuffers, ControlPcs
<1>11. CASE SetupReader
  BY <1>11 DEF SetupReader, ControlPcs, Threads
<1>12. CASE SpawnReader
  BY <1>12 DEF SpawnReader, ControlPcs, ReaderPcs
<1>13. CASE SpawnProcessor
  BY <1>13 DEF SpawnProcessor, ControlPcs, ProcessorPcs
<1>. QED
  BY <1>1, <1>2, <1>3, <1>4, <1>5, <1>6, <1>7, <1>8, <1>9, <1>10, <1>11, <1>12,
     <1>13 DEF ControlStep

LEMMA TypeStep == ASSUME IInv, [Next]_vars PROVE TypeOK'
<1>1. CASE SpuriousWakeup
  BY <1>1 DEF IInv, TypeOK, SpuriousWakeup, bufferVars, flagVars, controlVars, ReaderPcs,
     ProcessorPcs
<1>2. ASSUME NEW operation \in Operations, Call(operation) PROVE TypeOK'
  BY <1>2 DEF IInv, TypeOK, Call, Operations, bufferVars, readerVars, processorVars, flagVars,
     ControlPcs
<1>3. CASE UNCHANGED vars
  BY <1>3 DEF IInv, TypeOK, vars, bufferVars, readerVars, processorVars, flagVars, controlVars
<1>. QED
  BY <1>1, <1>2, <1>3, ReaderTypes, ProcessorTypes, ControlTypes DEF Next
-----------------------------------------------------------------------------
(***************************************************************************)
(* Every step keeps the phases.  Beginning to run takes the thread's flag  *)
(* back: a thread that has been spawned and has not begun is the case that *)
(* matters, and ~StopRacesStart keeps it away from the control thread.     *)
(***************************************************************************)
LEMMA PhaseStep == ASSUME IInv, ~StopRacesStart, [Next]_vars PROVE PhaseInv'
<1>. USE ~StopRacesStart
     DEF IInv, PhaseInv, Stopping, bufferVars, readerVars, processorVars, controlVars, flagVars
<1>0. stop \in [{"reader", "processor"} -> BOOLEAN]
  BY DEF TypeOK, Threads
<1>1. CASE ReaderStep
  <2>1. CASE ReaderBegin
    BY <1>0, <2>1 DEF ReaderBegin
  <2>2. CASE ReaderPop
    BY <2>2 DEF ReaderPop, PopEmpty
  <2>3. ASSUME NEW num \in 1..PktsPerRead, NEW msg \in [1..num -> Payload], Receive(num, msg)
        PROVE  PhaseInv'
    BY <1>0, <2>3 DEF Receive, ReaderGivesUp
  <2>4. CASE ReceiveFails
    BY <1>0, <2>4 DEF ReceiveFails, ReaderGivesUp
  <2>5. CASE Push
    BY <2>5 DEF Push, PushFull
  <2>6. CASE PushNotify
    BY <2>6 DEF PushNotify, Notify
  <2>7. CASE ReaderRecycle
    BY <2>7 DEF ReaderRecycle, RecycleBuffers
  <2>8. CASE \/ ReaderSleep \/ PointIovecs \/ ReaderLoop \/ ReceiveNothing \/ PushCheck
             \/ ReaderRecycleCheck \/ ReaderEnd
    BY <2>8 DEF ReaderSleep, PointIovecs, ReaderLoop, ReceiveNothing, PushCheck,
       ReaderRecycleCheck, ReaderEnd
  <2>. QED
    BY <1>1, <2>1, <2>2, <2>3, <2>4, <2>5, <2>6, <2>7, <2>8 DEF ReaderStep
<1>2. CASE ProcessorStep
  <2>1. CASE ProcessorBegin
    BY <1>0, <2>1 DEF ProcessorBegin
  <2>2. CASE ProcessorPop
    BY <2>2 DEF ProcessorPop, PopFull
  <2>3. ASSUME NEW num, Process(num) PROVE PhaseInv'
    BY <2>3 DEF Process
  <2>4. CASE ProcessorRecycleCheck
    BY <2>4 DEF ProcessorRecycleCheck, AfterRecycle, TypeOK
  <2>5. CASE ProcessorRecycle
    BY <2>5 DEF ProcessorRecycle, RecycleBuffers
  <2>6. CASE ProcessorRecycleNotify
    BY <2>6 DEF ProcessorRecycleNotify, Notify, AfterRecycle, TypeOK
  <2>7. CASE ProcessorLoop \/ ProcessorSleep \/ ProcessorEnd
    BY <2>7 DEF ProcessorLoop, ProcessorSleep, ProcessorEnd
  <2>. QED
    BY <1>2, <2>1, <2>2, <2>3, <2>4, <2>5, <2>6, <2>7 DEF ProcessorStep
<1>3. CASE SpuriousWakeup
  BY <1>3 DEF SpuriousWakeup
<1>4. ASSUME NEW operation, Call(operation) PROVE PhaseInv'
  BY <1>4 DEF Call, ThreadsBegan
<1>5. CASE ControlStep
  <2>1. CASE ShutDownReader \/ ShutDownProcessor
    BY <1>0, <2>1 DEF ShutDownReader, ShutDownProcessor, ShutDownThread
  <2>2. CASE BufferRaise
    BY <2>2 DEF BufferRaise, RaiseShuttingDown
  <2>3. CASE BufferNotifyEmpty \/ BufferNotifyFull
    BY <2>3 DEF BufferNotifyEmpty, BufferNotifyFull, Notify
  <2>4. CASE BufferClearFull \/ BufferClearEmpty
    BY <2>4 DEF BufferClearFull, ClearFull, BufferClearEmpty, ClearEmpty
  <2>5. CASE JoinReader \/ JoinProcessor \/ StopReturns
    BY <2>5 DEF JoinReader, JoinProcessor, StopReturns
  <2>6. ASSUME NEW g, InitializeBuffers(g) PROVE PhaseInv'
    BY <2>6 DEF InitializeBuffers, Initialize
  <2>7. CASE SetupReader \/ SpawnReader \/ SpawnProcessor
    BY <2>7 DEF SetupReader, SpawnReader, SpawnProcessor
  <2>. QED
    BY <1>5, <2>1, <2>2, <2>3, <2>4, <2>5, <2>6, <2>7 DEF ControlStep
<1>6. CASE UNCHANGED vars
  BY <1>6 DEF vars
<1>. QED
  BY <1>1, <1>2, <1>3, <1>4, <1>5, <1>6 DEF Next
-----------------------------------------------------------------------------
(***************************************************************************)
(* Every step keeps what the reader holds.  The pop puts the new buffers   *)
(* in front of those it kept, which so come back to the places their       *)
(* iovecs still point to.                                                  *)
(***************************************************************************)
LEMMA ReaderInvPop == ASSUME IInv, ReaderPop PROVE ReaderInv'
<1>. USE PipelineAssumption DEF IInv, TypeOK, ReaderInv, AtPop
<1>0. rpc = "pop" /\ rpc' \in {"point", "deciding"} /\ UNCHANGED <<iov, pktsRead, stop>>
  BY ReaderPop DEF ReaderPop, flagVars
<1>1. CASE rpc' = "deciding"
  BY <1>0, <1>1, ReaderPop DEF ReaderPop, Kept
<1>2. CASE m_shuttingDown /\ rpc' = "point" /\ UNCHANGED bufQue
  BY <1>0, <1>2 DEF PhaseInv
<1>3. CASE Len(bufQue) >= PktsPerRead /\ rpc' = "point" /\ UNCHANGED bufQue
  <2>1. Len(bufQue) < PktsPerRead
    BY <1>0, EmptySeq DEF Kept
  <2>. QED  BY <1>3, <2>1
<1>4. CASE /\ Len(bufQue) < PktsPerRead
           /\ empties_available(PktsPerRead - Len(bufQue)) /\ ~m_shuttingDown
           /\ PopEmpty(bufQue, PktsPerRead) /\ rpc' = "point"
  <2>. DEFINE request == PktsPerRead - Len(bufQue)
              new     == Front(m_empty_buffers, request)
  <2>0. m_empty_buffers \in Seq(Buffers) /\ bufQue \in Seq(Buffers)
    OBVIOUS
  <2>1. request \in 1..Len(m_empty_buffers) /\ request \in 0..Len(m_empty_buffers)
    BY <1>4, <2>0 DEF empties_available
  <2>2. new \in Seq(Buffers) /\ Len(new) = request
    <3>. HIDE DEF IInv, TypeOK, ReaderInv, request
    <3>. QED  BY <2>0, <2>1, FrontRest
  <2>3. bufQue' = new \o bufQue
    BY <1>4 DEF PopEmpty
  <2>. HIDE DEF request, new
  <2>4. /\ Len(bufQue') = request + Len(bufQue)
        /\ \A i \in 1..request + Len(bufQue) :
              bufQue'[i] = IF i <= request THEN new[i] ELSE bufQue[i - request]
    <3>. HIDE DEF IInv, TypeOK, ReaderInv
    <3>. QED  BY <2>0, <2>2, <2>3, ConcatProperties
  <2>5. Len(bufQue') = PktsPerRead
    BY <2>4 DEF request
  <2>6. ASSUME pktsRead # 0
        PROVE  \A i \in pktsRead + 1..PktsPerRead : iov[i] = bufQue'[i]
    <3>1. request = pktsRead /\ Kept
      BY <1>0, <2>6 DEF Kept, request
    <3>2. \A i \in pktsRead + 1..PktsPerRead :
             /\ i \in 1..request + Len(bufQue)
             /\ i - request \in 1..PktsPerRead - pktsRead
             /\ i - request + pktsRead = i
      BY <3>1 DEF Kept
    <3>3. ASSUME NEW i \in pktsRead + 1..PktsPerRead PROVE iov[i] = bufQue'[i]
      <4>1. bufQue'[i] = bufQue[i - request]
        BY <2>4, <3>1, <3>2
      <4>2. bufQue[i - request] = iov[i]
        BY <3>1, <3>2 DEF Kept
      <4>. QED  BY <4>1, <4>2
    <3>. QED  BY <3>3
  <2>7. Refilled'
    BY <1>0, <2>5, <2>6 DEF Refilled
  <2>. QED  BY <1>0, <1>4, <2>5, <2>7
<1>. QED  BY <1>0, <1>1, <1>2, <1>3, <1>4, ReaderPop DEF ReaderPop

LEMMA ReaderInvPush ==
    ASSUME IInv, Pointed, pktsRead # 0, UNCHANGED <<iov, pktsRead, stop>>,
           bufQue' = Rest(bufQue, pktsRead), rpc' \in {"pop", "pushNotify"}
    PROVE  ReaderInv'
<1>. USE PipelineAssumption
<1>1. bufQue \in Seq(Buffers) /\ Len(bufQue) = PktsPerRead /\ pktsRead \in 1..PktsPerRead
  BY DEF IInv, TypeOK, Pointed
<1>2. /\ Len(bufQue') = Len(bufQue) - pktsRead
      /\ \A i \in 1..Len(bufQue) - pktsRead : bufQue'[i] = bufQue[i + pktsRead]
  <2>1. pktsRead \in 0..Len(bufQue)
    BY <1>1
  <2>. QED  BY <1>1, <2>1, FrontRest
<1>3. Kept'
  BY <1>1, <1>2 DEF Kept, Pointed
<1>. QED  BY <1>1, <1>2, <1>3 DEF ReaderInv, AtPop

LEMMA ReaderInvStep == ASSUME IInv, ~StopRacesStart, [Next]_vars PROVE ReaderInv'
<1>. USE PipelineAssumption DEF IInv
<1>0. stop \in [Threads -> BOOLEAN] /\ bufQue \in Seq(Buffers) /\ pktsRead \in 0..PktsPerRead
  BY DEF TypeOK
<1>1. CASE ReaderStep
  <2>1. CASE ReaderBegin
    BY <1>0, <2>1 DEF ReaderBegin, ReaderInv, AtPop
  <2>2. CASE ReaderSleep
    BY <2>2 DEF ReaderSleep, ReaderInv, AtPop, Kept, flagVars
  <2>3. CASE PointIovecs
    <3>1. UNCHANGED <<bufQue, pktsRead, stop>> /\ rpc = "point" /\ rpc' = "loop"
      BY <2>3 DEF PointIovecs, flagVars
    <3>2. ASSUME Refilled PROVE Pointed'
      <4>1. ASSUME NEW i \in 1..PktsPerRead PROVE iov'[i] = bufQue[i]
        BY <2>3, <3>2, <1>0 DEF PointIovecs, IovBase, Refilled
      <4>. QED  BY <3>1, <3>2, <4>1 DEF Refilled, Pointed
    <3>. QED  BY <3>1, <3>2 DEF ReaderInv, AtPop
  <2>4. CASE ReaderLoop
    BY <2>4 DEF ReaderLoop, ReaderInv, AtPop, Pointed, flagVars
  <2>5. ASSUME NEW num \in 1..PktsPerRead, NEW msg \in [1..num -> Payload], Receive(num, msg)
        PROVE  ReaderInv'
    BY <1>0, <2>5 DEF Receive, ReaderGivesUp, ReaderInv, AtPop, Pointed, Threads, flagVars
  <2>6. CASE ReceiveNothing \/ ReceiveFails
    BY <1>0, <2>6 DEF ReceiveNothing, ReceiveFails, ReaderGivesUp, ReaderInv, AtPop, Pointed,
       Threads, flagVars
  <2>7. CASE PushCheck
    <3>1. CASE m_shuttingDown
      BY <2>7, <3>1, ReaderInvPush DEF PushCheck, ReaderInv, flagVars
    <3>2. CASE ~m_shuttingDown
      BY <2>7, <3>2 DEF PushCheck, ReaderInv, AtPop, Pointed, flagVars
    <3>. QED  BY <3>1, <3>2
  <2>8. CASE Push
    BY <2>8, ReaderInvPush DEF Push, PushFull, ReaderInv, flagVars
  <2>9. CASE PushNotify
    BY <2>9 DEF PushNotify, ReaderInv, AtPop, Kept, flagVars
  <2>10. CASE ReaderRecycleCheck \/ ReaderRecycle \/ ReaderEnd
    BY <1>0, <2>10, EmptySeq DEF ReaderRecycleCheck, ReaderRecycle, RecycleBuffers, ReaderEnd,
       ReaderInv, AtPop, flagVars
  <2>. QED
    BY <1>1, <2>1, <2>2, <2>3, <2>4, <2>5, <2>6, <2>7, <2>8, <2>9, <2>10, ReaderInvPop
       DEF ReaderStep
<1>2. ASSUME UNCHANGED <<bufQue, iov, pktsRead>>, stop'["reader"] = stop["reader"],
             rpc' = rpc \/ (rpc = "waiting" /\ rpc' = "pop")
      PROVE  ReaderInv'
  BY <1>2 DEF ReaderInv, AtPop, Kept, Refilled, Pointed
<1>3. CASE ProcessorStep
  <2>1. /\ UNCHANGED <<bufQue, iov, pktsRead>> /\ stop'["reader"] = stop["reader"]
        /\ rpc' = rpc \/ (rpc = "waiting" /\ rpc' = "pop")
    BY <1>0, <1>3 DEF ProcessorStep, ProcessorBegin, ProcessorLoop, ProcessorPop, PopFull,
       ProcessorSleep, Process, ProcessorRecycleCheck, ProcessorRecycle, ProcessorEnd,
       ProcessorRecycleNotify, Notify, readerVars, flagVars, Threads
  <2>. QED  BY <1>2, <2>1
<1>4. CASE SpuriousWakeup \/ \E operation \in Operations : Call(operation)
  BY <1>2, <1>4 DEF SpuriousWakeup, Call, readerVars, flagVars
<1>5. CASE ControlStep
  <2>1. CASE ShutDownReader
    BY <1>0, <2>1 DEF ShutDownReader, ShutDownThread, ReaderInv, AtPop, Kept, Refilled,
       Pointed, readerVars, Threads
  <2>2. CASE JoinReader \/ SpawnReader
    BY <2>2 DEF JoinReader, SpawnReader, ReaderInv, AtPop, PhaseInv
  <2>3. CASE ~(ShutDownReader \/ JoinReader \/ SpawnReader)
    <3>1. /\ UNCHANGED <<bufQue, iov, pktsRead>> /\ stop'["reader"] = stop["reader"]
          /\ rpc' = rpc \/ (rpc = "waiting" /\ rpc' = "pop")
      BY <1>0, <1>5, <2>3 DEF ControlStep, ShutDownProcessor, ShutDownThread, BufferRaise,
         BufferNotifyEmpty, BufferNotifyFull, Notify, BufferClearFull, BufferClearEmpty,
         JoinProcessor, StopReturns, InitializeBuffers, SetupReader, SpawnProcessor,
         readerVars, flagVars, Threads
    <3>. QED  BY <1>2, <3>1
  <2>. QED  BY <2>1, <2>2, <2>3
<1>6. CASE UNCHANGED vars
  BY <1>2, <1>6 DEF vars, readerVars, flagVars
<1>. QED
  BY <1>1, <1>3, <1>4, <1>5, <1>6 DEF Next
-----------------------------------------------------------------------------
(***************************************************************************)
(* Every step keeps what the processor holds.                              *)
(***************************************************************************)
LEMMA ProcessorInvStep == ASSUME IInv, [Next]_vars PROVE ProcessorInv'
<1>. USE PipelineAssumption DEF IInv
<1>0. /\ stop \in [Threads -> BOOLEAN] /\ pktsToProcess \in Seq(Buffers)
      /\ pktsToRecycle \in Seq(Buffers) /\ recycling \in {"processed", "unprocessed", "last"}
      /\ m_full_buffers \in Seq(Buffers)
  BY DEF TypeOK
<1>1. CASE ProcessorStep
  <2>1. CASE ProcessorBegin \/ ProcessorLoop \/ ProcessorSleep \/ ProcessorEnd
    BY <2>1 DEF ProcessorBegin, ProcessorLoop, ProcessorSleep, ProcessorEnd, ProcessorInv
  <2>2. CASE ProcessorPop
    <3>1. CASE UNCHANGED pktsToProcess
      BY <2>2, <3>1 DEF ProcessorPop, ProcessorInv
    <3>2. CASE /\ Len(pktsToProcess) < PktsPerPush /\ ~m_shuttingDown
               /\ full_available(PktsPerPush - Len(pktsToProcess))
               /\ PopFull(pktsToProcess, PktsPerPush)
      <4>. DEFINE request == PktsPerPush - Len(pktsToProcess)
      <4>1. request \in 0..Len(m_full_buffers)
        BY <1>0, <3>2 DEF full_available
      <4>2. Len(Front(m_full_buffers, request)) = request
            /\ Front(m_full_buffers, request) \in Seq(Buffers)
        BY <1>0, <4>1, FrontRest
      <4>3. Len(pktsToProcess') = PktsPerPush
        BY <1>0, <3>2, <4>2, ConcatProperties DEF PopFull
      <4>. QED  BY <2>2, <3>2, <4>3 DEF ProcessorPop, ProcessorInv
    <3>. QED  BY <2>2, <3>1, <3>2 DEF ProcessorPop
  <2>3. ASSUME NEW num \in 0..PktsPerPush, Process(num) PROVE ProcessorInv'
    <3>1. CASE stop["processor"]
      BY <2>3, <3>1 DEF Process, ProcessorInv
    <3>2. CASE ~stop["processor"]
      <4>1. num \in 0..Len(pktsToProcess)
        BY <1>0, <2>3, <3>2 DEF Process
      <4>2. Len(pktsToProcess') = Len(pktsToProcess) - num
        BY <1>0, <2>3, <3>2, <4>1, FrontRest DEF Process
      <4>. QED  BY <1>0, <2>3, <3>2, <4>1, <4>2 DEF Process, ProcessorInv
    <3>. QED  BY <3>1, <3>2
  <2>4. CASE ProcessorRecycleCheck
    <3>1. CASE ~m_shuttingDown
      BY <2>4, <3>1 DEF ProcessorRecycleCheck, ProcessorInv
    <3>2. CASE m_shuttingDown /\ recycling = "processed"
      BY <1>0, <2>4, <3>2, EmptySeq DEF ProcessorRecycleCheck, AfterRecycle, ProcessorInv
    <3>3. CASE m_shuttingDown /\ recycling = "unprocessed"
      BY <1>0, <2>4, <3>3, EmptySeq DEF ProcessorRecycleCheck, AfterRecycle, ProcessorInv
    <3>4. CASE m_shuttingDown /\ recycling = "last"
      BY <1>0, <2>4, <3>4, EmptySeq DEF ProcessorRecycleCheck, AfterRecycle, ProcessorInv
    <3>. QED  BY <1>0, <3>1, <3>2, <3>3, <3>4
  <2>5. CASE ProcessorRecycle
    BY <1>0, <2>5, EmptySeq DEF ProcessorRecycle, RecycleBuffers, ProcessorInv
  <2>6. CASE ProcessorRecycleNotify
    BY <1>0, <2>6 DEF ProcessorRecycleNotify, AfterRecycle, ProcessorInv
  <2>. QED
    BY <1>1, <2>1, <2>2, <2>3, <2>4, <2>5, <2>6 DEF ProcessorStep
<1>2. ASSUME UNCHANGED <<pktsToProcess, pktsToRecycle, recycling>>,
             ppc' = ppc \/ (ppc = "waiting" /\ ppc' = "pop")
      PROVE  ProcessorInv'
  BY <1>2 DEF ProcessorInv
<1>3. CASE ReaderStep
  <2>1. /\ UNCHANGED <<pktsToProcess, pktsToRecycle, recycling>>
        /\ ppc' = ppc \/ (ppc = "waiting" /\ ppc' = "pop")
    BY <1>3 DEF ReaderStep, ReaderBegin, ReaderPop, ReaderSleep, PointIovecs, ReaderLoop,
       Receive, ReceiveNothing, ReceiveFails, PushCheck, Push, PushNotify, Notify,
       ReaderRecycleCheck, ReaderRecycle, ReaderEnd, processorVars
  <2>. QED  BY <1>2, <2>1
<1>4. CASE SpuriousWakeup \/ \E operation \in Operations : Call(operation)
  BY <1>2, <1>4 DEF SpuriousWakeup, Call, processorVars
<1>5. CASE ControlStep
  <2>1. CASE JoinProcessor \/ SpawnProcessor
    BY <2>1 DEF JoinProcessor, SpawnProcessor, ProcessorInv, PhaseInv
  <2>2. CASE ~(JoinProcessor \/ SpawnProcessor)
    <3>1. /\ UNCHANGED <<pktsToProcess, pktsToRecycle, recycling>>
          /\ ppc' = ppc \/ (ppc = "waiting" /\ ppc' = "pop")
      BY <1>5, <2>2 DEF ControlStep, ShutDownReader, ShutDownProcessor, ShutDownThread,
         BufferRaise, BufferNotifyEmpty, BufferNotifyFull, Notify, BufferClearFull,
         BufferClearEmpty, JoinReader, StopReturns, InitializeBuffers, SetupReader,
         SpawnReader, processorVars
    <3>. QED  BY <1>2, <3>1
  <2>. QED  BY <2>1, <2>2
<1>6. CASE UNCHANGED vars
  BY <1>2, <1>6 DEF vars, processorVars
<1>. QED
  BY <1>1, <1>3, <1>4, <1>5, <1>6 DEF Next

-----------------------------------------------------------------------------
LEMMA InitIInv == Init => IInv
<1>. SUFFICES ASSUME Init PROVE IInv
  OBVIOUS
<1>. USE PipelineAssumption, CapacityAssumption, EmptySeq
<1>1. /\ iov \in [1..PktsPerRead -> Buffers \cup {Wild}]
      /\ data \in [Buffers -> Payload \cup {NoData}]
      /\ stop \in [Threads -> BOOLEAN] /\ running \in [Threads -> BOOLEAN]
  BY DEF Init, NoIovecs
<1>2. TypeOK
  <2>1. /\ rpc \in ReaderPcs /\ ppc \in ProcessorPcs /\ cpc \in ControlPcs
        /\ pktsRead \in 0..PktsPerRead /\ generation \in 0..Generations
    BY DEF Init, ReaderPcs, ProcessorPcs, ControlPcs
  <2>2. /\ {m_empty_buffers, m_full_buffers, bufQue, pktsToProcess, pktsToRecycle} = {<<>>}
        /\ <<>> \in Seq(Buffers)
    BY DEF Init
  <2>3. /\ m_shuttingDown \in BOOLEAN /\ sockOpen \in BOOLEAN
        /\ errno \in {"zero", "stale"} /\ call \in Operations /\ live \in BOOLEAN
        /\ recycling \in {"processed", "unprocessed", "last"}
    BY DEF Init, Operations
  <2>. QED  BY <1>1, <2>1, <2>2, <2>3 DEF TypeOK
<1>3. PhaseInv
  BY DEF Init, PhaseInv, Stopping
<1>4. ReaderInv
  BY DEF Init, ReaderInv, AtPop
<1>5. ProcessorInv
  BY DEF Init, ProcessorInv
<1>. QED  BY <1>2, <1>3, <1>4, <1>5 DEF IInv

(***************************************************************************)
(* The invariant everything rests on.                                      *)
(***************************************************************************)
THEOREM Inductive == ASSUME ~StopRacesStart PROVE Spec => []IInv
<1>1. ASSUME IInv, [Next]_vars PROVE IInv'
  BY <1>1, TypeStep, PhaseStep, ReaderInvStep, ProcessorInvStep DEF IInv
<1>. QED  BY <1>1, InitIInv, PTL DEF Spec

(***************************************************************************)
(* Every field has a value the code can store in it.                       *)
(***************************************************************************)
THEOREM TypeCorrect == ASSUME ~StopRacesStart PROVE Spec => []TypeOK
<1>1. IInv => TypeOK
  BY DEF IInv
<1>. QED  BY <1>1, Inductive, PTL

(***************************************************************************)
(* recvmmsg only ever writes into the buffers the reader has in its        *)
(* container, message i into buffer i: the iovecs are right although only  *)
(* those of the packets read last are pointed again.                       *)
(***************************************************************************)
THEOREM KernelWrites == ASSUME ~StopRacesStart PROVE Spec => []KernelWritesOwnBuffers
<1>1. ASSUME IInv PROVE KernelWritesOwnBuffers
  <2>1. SUFFICES ASSUME rpc = "recv" PROVE iov = bufQue
    BY DEF KernelWritesOwnBuffers
  <2>2. Pointed
    BY <1>1, <2>1 DEF IInv, ReaderInv
  <2>3. iov \in [1..PktsPerRead -> Buffers \cup {Wild}] /\ bufQue \in [1..PktsPerRead -> Buffers]
    BY <1>1, <2>2, LenProperties DEF IInv, TypeOK, Pointed
  <2>4. \A i \in 1..PktsPerRead : iov[i] = bufQue[i]
    BY <2>2 DEF Pointed
  <2>5. /\ iov = [i \in 1..PktsPerRead |-> iov[i]]
        /\ bufQue = [i \in 1..PktsPerRead |-> bufQue[i]]
    BY <2>3
  <2>6. [i \in 1..PktsPerRead |-> iov[i]] = [i \in 1..PktsPerRead |-> bufQue[i]]
    BY <2>4
  <2>. QED  BY <2>5, <2>6
<1>. QED  BY <1>1, Inductive, PTL

(***************************************************************************)
(* A thread that has been told to stop stays told until it is joined.      *)
(***************************************************************************)
THEOREM StopHeard == ASSUME ~StopRacesStart PROVE Spec => []ShutDownHeard
<1>1. IInv => ShutDownHeard
  BY DEF IInv, PhaseInv, Stopping, BufferShutDown, ShutDownHeard
<1>. QED  BY <1>1, Inductive, PTL
-----------------------------------------------------------------------------
(***************************************************************************)
(* No missed wakeup.  The steps that may disturb the reader's half are     *)
(* those that add to the empty buffers or let it sleep; likewise for the   *)
(* processor's half.                                                       *)
(***************************************************************************)
ReaderWait ==
    /\ rpc = "deciding" => Len(bufQue) + Len(m_empty_buffers) < PktsPerRead
    /\ rpc = "waiting" /\ Len(m_empty_buffers) >= PktsPerRead - Len(bufQue)
          => ppc = "recycleNotify"

ProcessorWait ==
    /\ ppc = "deciding" => Len(pktsToProcess) + Len(m_full_buffers) < PktsPerPush
    /\ ppc = "waiting" /\ Len(m_full_buffers) >= PktsPerPush - Len(pktsToProcess)
          => rpc = "pushNotify"

LEMMA ReaderWaitStep ==
    ASSUME IInv, ReaderWait, [Next]_vars
    PROVE  ReaderWait'
<1>. USE PipelineAssumption
<1>0. /\ Len(bufQue) \in Nat /\ Len(m_empty_buffers) \in Nat
  BY LenProperties DEF IInv, TypeOK
<1>1. ASSUME rpc' \notin {"deciding", "waiting"} PROVE ReaderWait'
  BY <1>1 DEF ReaderWait
<1>2. ASSUME rpc' = rpc, UNCHANGED <<bufQue, m_empty_buffers>>,
             ppc = "recycleNotify" => ppc' = "recycleNotify"
      PROVE  ReaderWait'
  BY <1>2 DEF ReaderWait
<1>3. CASE ReaderStep
  <2>1. CASE ReaderPop
    <3>1. CASE rpc' = "deciding"
      BY <1>0, <2>1, <3>1 DEF ReaderPop, empties_available, ReaderWait, bufferVars
    <3>2. CASE rpc' = "point"
      BY <1>1, <3>2
    <3>. QED  BY <2>1, <3>1, <3>2 DEF ReaderPop
  <2>2. CASE ReaderSleep
    BY <1>0, <2>2 DEF ReaderSleep, ReaderWait, bufferVars
  <2>3. CASE ~(ReaderPop \/ ReaderSleep)
    <3>1. rpc' \notin {"deciding", "waiting"}
      BY <1>3, <2>3 DEF ReaderStep, ReaderBegin, PointIovecs, ReaderLoop, Receive, ReaderGivesUp,
         ReceiveNothing, ReceiveFails, PushCheck, Push, PushNotify, ReaderRecycleCheck,
         ReaderRecycle, ReaderEnd
    <3>. QED  BY <1>1, <3>1
  <2>. QED  BY <2>1, <2>2, <2>3
<1>4. CASE ProcessorStep
  <2>1. CASE ProcessorRecycle
    BY <2>1 DEF ProcessorRecycle, EmptyMutexFree, ReaderWait, readerVars
  <2>2. CASE ProcessorRecycleNotify
    BY <1>1, <1>2, <2>2 DEF ProcessorRecycleNotify, Notify, ReaderWait, bufferVars
  <2>3. CASE ~(ProcessorRecycle \/ ProcessorRecycleNotify)
    <3>1. /\ rpc' = rpc /\ UNCHANGED <<bufQue, m_empty_buffers>>
          /\ ppc = "recycleNotify" => ppc' = "recycleNotify"
      BY <1>4, <2>3 DEF ProcessorStep, ProcessorBegin, ProcessorLoop, ProcessorPop, PopFull,
         ProcessorSleep, Process, ProcessorRecycleCheck, ProcessorEnd, readerVars, bufferVars
    <3>. QED  BY <1>2, <3>1
  <2>. QED  BY <2>1, <2>2, <2>3
<1>5. CASE SpuriousWakeup
  BY <1>5 DEF SpuriousWakeup, ReaderWait, bufferVars
<1>6. ASSUME NEW operation, Call(operation) PROVE ReaderWait'
  BY <1>2, <1>6 DEF Call, readerVars, processorVars, bufferVars
<1>7. CASE ControlStep
  <2>1. ASSUME NEW g, InitializeBuffers(g) PROVE ReaderWait'
    BY <1>1, <2>1 DEF InitializeBuffers, IInv, PhaseInv
  <2>2. CASE JoinReader \/ SpawnReader \/ BufferNotifyEmpty
    BY <1>1, <1>2, <2>2 DEF JoinReader, SpawnReader, BufferNotifyEmpty, Notify, bufferVars,
       processorVars, ReaderWait
  <2>3. CASE BufferClearEmpty
    BY <1>0, <2>3, EmptySeq DEF BufferClearEmpty, ClearEmpty, EmptyMutexFree, ReaderWait,
       readerVars, processorVars
  <2>4. CASE \/ ShutDownReader \/ ShutDownProcessor \/ BufferRaise \/ BufferNotifyFull
             \/ BufferClearFull \/ JoinProcessor \/ StopReturns \/ SetupReader \/ SpawnProcessor
    <3>1. /\ rpc' = rpc /\ UNCHANGED <<bufQue, m_empty_buffers>>
          /\ ppc = "recycleNotify" => ppc' = "recycleNotify"
      BY <2>4 DEF ShutDownReader, ShutDownProcessor, ShutDownThread, BufferRaise,
         RaiseShuttingDown, BufferNotifyFull, Notify, BufferClearFull, ClearFull,
         JoinProcessor, StopReturns, SetupReader, SpawnProcessor, readerVars, processorVars,
         bufferVars, IInv, PhaseInv
    <3>. QED  BY <1>2, <3>1
  <2>. QED  BY <1>7, <2>1, <2>2, <2>3, <2>4 DEF ControlStep
<1>8. CASE UNCHANGED vars
  BY <1>2, <1>8 DEF vars, readerVars, processorVars, bufferVars
<1>. QED  BY <1>3, <1>4, <1>5, <1>6, <1>7, <1>8 DEF Next

LEMMA ProcessorWaitStep ==
    ASSUME IInv, ProcessorWait, [Next]_vars
    PROVE  ProcessorWait'
<1>. USE PipelineAssumption
<1>0. /\ Len(pktsToProcess) \in Nat /\ Len(m_full_buffers) \in Nat
  BY LenProperties DEF IInv, TypeOK
<1>1. ASSUME ppc' \notin {"deciding", "waiting"} PROVE ProcessorWait'
  BY <1>1 DEF ProcessorWait
<1>2. ASSUME ppc' = ppc, UNCHANGED <<pktsToProcess, m_full_buffers>>,
             rpc = "pushNotify" => rpc' = "pushNotify"
      PROVE  ProcessorWait'
  BY <1>2 DEF ProcessorWait
<1>3. CASE ProcessorStep
  <2>1. CASE ProcessorPop
    <3>1. CASE ppc' = "deciding"
      BY <1>0, <2>1, <3>1 DEF ProcessorPop, full_available, ProcessorWait, bufferVars
    <3>2. CASE ppc' = "process"
      BY <1>1, <3>2
    <3>. QED  BY <2>1, <3>1, <3>2 DEF ProcessorPop
  <2>2. CASE ProcessorSleep
    BY <1>0, <2>2 DEF ProcessorSleep, ProcessorWait, bufferVars
  <2>3. CASE ~(ProcessorPop \/ ProcessorSleep)
    <3>1. recycling \in {"processed", "unprocessed", "last"}
      BY DEF IInv, TypeOK
    <3>2. ppc' \notin {"deciding", "waiting"}
      BY <1>3, <2>3, <3>1 DEF ProcessorStep, ProcessorBegin, ProcessorLoop, Process,
         ProcessorRecycleCheck, ProcessorRecycle, ProcessorRecycleNotify, AfterRecycle,
         ProcessorEnd
    <3>. QED  BY <1>1, <3>2
  <2>. QED  BY <2>1, <2>2, <2>3
<1>4. CASE ReaderStep
  <2>1. CASE Push
    BY <2>1 DEF Push, FullMutexFree, ProcessorWait, processorVars
  <2>2. CASE PushNotify
    BY <1>1, <1>2, <2>2 DEF PushNotify, Notify, ProcessorWait, bufferVars
  <2>3. CASE ~(Push \/ PushNotify)
    <3>1. /\ ppc' = ppc /\ UNCHANGED <<pktsToProcess, m_full_buffers>>
          /\ rpc = "pushNotify" => rpc' = "pushNotify"
      BY <1>4, <2>3 DEF ReaderStep, ReaderBegin, ReaderPop, PopEmpty, ReaderSleep, PointIovecs,
         ReaderLoop, Receive, ReceiveNothing, ReceiveFails, PushCheck, ReaderRecycleCheck,
         ReaderRecycle, RecycleBuffers, ReaderEnd, processorVars, bufferVars
    <3>. QED  BY <1>2, <3>1
  <2>. QED  BY <2>1, <2>2, <2>3
<1>5. CASE SpuriousWakeup
  BY <1>5 DEF SpuriousWakeup, ProcessorWait, bufferVars
<1>6. ASSUME NEW operation, Call(operation) PROVE ProcessorWait'
  BY <1>2, <1>6 DEF Call, readerVars, processorVars, bufferVars
<1>7. CASE ControlStep
  <2>1. ASSUME NEW g, InitializeBuffers(g) PROVE ProcessorWait'
    BY <1>1, <2>1 DEF InitializeBuffers, processorVars, IInv, PhaseInv
  <2>2. CASE JoinProcessor \/ SpawnProcessor \/ BufferNotifyFull
    BY <1>1, <1>2, <2>2 DEF JoinProcessor, SpawnProcessor, BufferNotifyFull, Notify, bufferVars,
       readerVars, ProcessorWait
  <2>3. CASE BufferClearFull
    BY <1>0, <2>3, EmptySeq DEF BufferClearFull, ClearFull, FullMutexFree, ProcessorWait,
       readerVars, processorVars
  <2>4. CASE \/ ShutDownReader \/ ShutDownProcessor \/ BufferRaise \/ BufferNotifyEmpty
             \/ BufferClearEmpty \/ JoinReader \/ StopReturns \/ SetupReader \/ SpawnReader
    <3>1. /\ ppc' = ppc /\ UNCHANGED <<pktsToProcess, m_full_buffers>>
          /\ rpc = "pushNotify" => rpc' = "pushNotify"
      BY <2>4 DEF ShutDownReader, ShutDownProcessor, ShutDownThread, BufferRaise,
         RaiseShuttingDown, BufferNotifyEmpty, Notify, BufferClearEmpty, ClearEmpty,
         JoinReader, StopReturns, SetupReader, SpawnReader, readerVars, processorVars,
         bufferVars, IInv, PhaseInv
    <3>. QED  BY <1>2, <3>1
  <2>. QED  BY <1>7, <2>1, <2>2, <2>3, <2>4 DEF ControlStep
<1>8. CASE UNCHANGED vars
  BY <1>2, <1>8 DEF vars, readerVars, processorVars, bufferVars
<1>. QED  BY <1>3, <1>4, <1>5, <1>6, <1>7, <1>8 DEF Next

(***************************************************************************)
(* push_full_buffers and recycle_buffers lose no wakeup.                   *)
(***************************************************************************)
THEOREM WakeupsSent == ASSUME ~StopRacesStart PROVE Spec => []NoMissedWakeup
<1>1. Init => ReaderWait /\ ProcessorWait
  BY DEF Init, ReaderWait, ProcessorWait
<1>2. ASSUME IInv, ReaderWait /\ ProcessorWait, [Next]_vars
      PROVE  (ReaderWait /\ ProcessorWait)'
  BY <1>2, ReaderWaitStep, ProcessorWaitStep
<1>3. ReaderWait /\ ProcessorWait => NoMissedWakeup
  BY DEF ReaderWait, ProcessorWait, NoMissedWakeup
<1>. QED  BY <1>1, <1>2, <1>3, Inductive, PTL DEF Spec
-----------------------------------------------------------------------------
(***************************************************************************)
(* The count.  Pops, pushes and recycles move buffers from one container   *)
(* to another; the rest happens while the buffer shuts down or, in         *)
(* initialize, when nobody holds a buffer.                                 *)
(***************************************************************************)
LEMMA LengthsNat ==
    ASSUME TypeOK
    PROVE  /\ Len(m_empty_buffers) \in Nat /\ Len(bufQue) \in Nat
           /\ Len(m_full_buffers) \in Nat /\ Len(pktsToProcess) \in Nat
           /\ Len(pktsToRecycle) \in Nat
BY LenProperties DEF TypeOK

LEMMA ReaderCounts ==
    ASSUME IInv, ReaderStep, ~m_shuttingDown
    PROVE  BuffersHeld' = BuffersHeld
<1>. USE PipelineAssumption, LengthsNat DEF IInv
<1>0. /\ bufQue \in Seq(Buffers) /\ m_empty_buffers \in Seq(Buffers)
      /\ m_full_buffers \in Seq(Buffers)
  BY DEF TypeOK
<1>1. CASE ReaderPop
  <2>1. CASE UNCHANGED <<bufferVars, bufQue>>
    BY <1>1, <2>1 DEF ReaderPop, BuffersHeld, bufferVars, processorVars
  <2>2. CASE /\ PopEmpty(bufQue, PktsPerRead)
             /\ Len(bufQue) < PktsPerRead
             /\ empties_available(PktsPerRead - Len(bufQue))
    <3>. DEFINE request == PktsPerRead - Len(bufQue)
    <3>1. request \in 0..Len(m_empty_buffers)
      BY <2>2 DEF empties_available
    <3>2. /\ Front(m_empty_buffers, request) \in Seq(Buffers)
          /\ Len(Front(m_empty_buffers, request)) = request
          /\ Len(Rest(m_empty_buffers, request)) = Len(m_empty_buffers) - request
      BY <1>0, <3>1, FrontRest
    <3>3. /\ Len(bufQue') = request + Len(bufQue)
          /\ Len(m_empty_buffers') = Len(m_empty_buffers) - request
      BY <1>0, <2>2, <3>2, ConcatProperties DEF PopEmpty
    <3>4. UNCHANGED <<m_full_buffers, pktsToProcess, pktsToRecycle>>
      BY <1>1, <2>2 DEF ReaderPop, PopEmpty, processorVars
    <3>. HIDE DEF request
    <3>. QED  BY <3>1, <3>3, <3>4 DEF BuffersHeld
  <2>. QED  BY <1>1, <2>1, <2>2 DEF ReaderPop
<1>2. CASE Push
  <2>1. pktsRead \in 0..Len(bufQue)
    BY <1>2 DEF Push, ReaderInv, Pointed, TypeOK
  <2>2. /\ Front(bufQue, pktsRead) \in Seq(Buffers)
        /\ Len(Front(bufQue, pktsRead)) = pktsRead
        /\ Len(Rest(bufQue, pktsRead)) = Len(bufQue) - pktsRead
    BY <1>0, <2>1, FrontRest
  <2>3. /\ Len(bufQue') = Len(bufQue) - pktsRead
        /\ Len(m_full_buffers') = Len(m_full_buffers) + pktsRead
    BY <1>0, <1>2, <2>2, ConcatProperties DEF Push, PushFull
  <2>4. UNCHANGED <<m_empty_buffers, pktsToProcess, pktsToRecycle>>
    BY <1>2 DEF Push, PushFull, processorVars
  <2>. QED  BY <2>1, <2>3, <2>4 DEF BuffersHeld
<1>3. CASE ReaderRecycle
  <2>1. /\ Len(m_empty_buffers') = Len(m_empty_buffers) + Len(bufQue)
        /\ Len(bufQue') = 0
    BY <1>0, <1>3, ConcatProperties, EmptySeq DEF ReaderRecycle, RecycleBuffers
  <2>2. UNCHANGED <<m_full_buffers, pktsToProcess, pktsToRecycle>>
    BY <1>3 DEF ReaderRecycle, RecycleBuffers, processorVars
  <2>. QED  BY <2>1, <2>2 DEF BuffersHeld
<1>4. CASE ~(ReaderPop \/ Push \/ ReaderRecycle)
  <2>1. UNCHANGED <<m_empty_buffers, bufQue, m_full_buffers, pktsToProcess, pktsToRecycle>>
    BY <1>4 DEF ReaderStep, ReaderBegin, ReaderSleep, PointIovecs, ReaderLoop, Receive,
       ReceiveNothing, ReceiveFails, PushCheck, PushNotify, ReaderRecycleCheck, ReaderEnd,
       bufferVars, processorVars
  <2>. QED  BY <2>1 DEF BuffersHeld
<1>. QED  BY <1>1, <1>2, <1>3, <1>4

LEMMA ProcessorCounts ==
    ASSUME IInv, ProcessorStep, ~m_shuttingDown
    PROVE  BuffersHeld' = BuffersHeld
<1>. USE PipelineAssumption, LengthsNat DEF IInv
<1>0. /\ pktsToProcess \in Seq(Buffers) /\ pktsToRecycle \in Seq(Buffers)
      /\ m_empty_buffers \in Seq(Buffers) /\ m_full_buffers \in Seq(Buffers)
  BY DEF TypeOK
<1>1. CASE ProcessorPop
  <2>1. CASE UNCHANGED <<bufferVars, pktsToProcess>>
    BY <1>1, <2>1 DEF ProcessorPop, BuffersHeld, bufferVars, readerVars
  <2>2. CASE /\ PopFull(pktsToProcess, PktsPerPush)
             /\ Len(pktsToProcess) < PktsPerPush
             /\ full_available(PktsPerPush - Len(pktsToProcess))
    <3>. DEFINE request == PktsPerPush - Len(pktsToProcess)
    <3>1. request \in 0..Len(m_full_buffers)
      BY <2>2 DEF full_available
    <3>2. /\ Front(m_full_buffers, request) \in Seq(Buffers)
          /\ Len(Front(m_full_buffers, request)) = request
          /\ Len(Rest(m_full_buffers, request)) = Len(m_full_buffers) - request
      BY <1>0, <3>1, FrontRest
    <3>3. /\ Len(pktsToProcess') = request + Len(pktsToProcess)
          /\ Len(m_full_buffers') = Len(m_full_buffers) - request
      BY <1>0, <2>2, <3>2, ConcatProperties DEF PopFull
    <3>4. UNCHANGED <<m_empty_buffers, bufQue, pktsToRecycle>>
      BY <1>1, <2>2 DEF ProcessorPop, PopFull, readerVars
    <3>. HIDE DEF request
    <3>. QED  BY <3>1, <3>3, <3>4 DEF BuffersHeld
  <2>. QED  BY <1>1, <2>1, <2>2 DEF ProcessorPop
<1>2. ASSUME NEW num \in 0..PktsPerPush, Process(num) PROVE BuffersHeld' = BuffersHeld
  <2>1. CASE stop["processor"]
    BY <1>2, <2>1 DEF Process, BuffersHeld, bufferVars, readerVars
  <2>2. CASE ~stop["processor"]
    <3>1. num \in 0..Len(pktsToProcess)
      BY <1>2, <2>2 DEF Process
    <3>2. /\ Front(pktsToProcess, num) \in Seq(Buffers)
          /\ Len(Front(pktsToProcess, num)) = num
          /\ Len(Rest(pktsToProcess, num)) = Len(pktsToProcess) - num
      BY <1>0, <3>1, FrontRest
    <3>3. /\ Len(pktsToProcess') = Len(pktsToProcess) - num
          /\ Len(pktsToRecycle') = Len(pktsToRecycle) + num
      BY <1>0, <1>2, <2>2, <3>2, ConcatProperties DEF Process
    <3>4. UNCHANGED <<m_empty_buffers, bufQue, m_full_buffers>>
      BY <1>2 DEF Process, bufferVars, readerVars
    <3>. QED  BY <3>1, <3>3, <3>4 DEF BuffersHeld
  <2>. QED  BY <2>1, <2>2
<1>3. CASE ProcessorRecycle
  <2>1. UNCHANGED <<bufQue, m_full_buffers>>
    BY <1>3 DEF ProcessorRecycle, RecycleBuffers, readerVars
  <2>2. CASE recycling = "unprocessed"
    <3>1. /\ Len(m_empty_buffers') = Len(m_empty_buffers) + Len(pktsToProcess)
          /\ Len(pktsToProcess') = 0 /\ UNCHANGED pktsToRecycle
      BY <1>0, <1>3, <2>2, ConcatProperties, EmptySeq DEF ProcessorRecycle, RecycleBuffers
    <3>. QED  BY <2>1, <3>1 DEF BuffersHeld
  <2>3. CASE recycling # "unprocessed"
    <3>1. /\ Len(m_empty_buffers') = Len(m_empty_buffers) + Len(pktsToRecycle)
          /\ Len(pktsToRecycle') = 0 /\ UNCHANGED pktsToProcess
      BY <1>0, <1>3, <2>3, ConcatProperties, EmptySeq DEF ProcessorRecycle, RecycleBuffers
    <3>. QED  BY <2>1, <3>1 DEF BuffersHeld
  <2>. QED  BY <2>2, <2>3
<1>4. CASE /\ ~(ProcessorPop \/ ProcessorRecycle)
           /\ ~\E num \in 0..PktsPerPush : Process(num)
  <2>1. UNCHANGED <<m_empty_buffers, bufQue, m_full_buffers, pktsToProcess, pktsToRecycle>>
    BY <1>4 DEF ProcessorStep, ProcessorBegin, ProcessorLoop, ProcessorSleep,
       ProcessorRecycleCheck, ProcessorRecycleNotify, ProcessorEnd, bufferVars, readerVars
  <2>. QED  BY <2>1 DEF BuffersHeld
<1>. QED  BY <1>1, <1>2, <1>3, <1>4
LEMMA CountInvStep ==
    ASSUME IInv, ~StopRacesStart, CountInv, [Next]_vars
    PROVE  CountInv'
<1>. USE DEF IInv, CountInv, PoolConserved, Stopping, NoThreads
<1>1. CASE ReaderStep
  <2>1. UNCHANGED <<m_shuttingDown, generation, cpc, call, live>> /\ rpc # "none"
    BY <1>1 DEF ReaderStep, ReaderBegin, ReaderPop, PopEmpty, ReaderSleep, PointIovecs, ReaderLoop,
       Receive, ReceiveNothing, ReceiveFails, PushCheck, Push, PushFull, PushNotify,
       ReaderRecycleCheck, ReaderRecycle, RecycleBuffers, ReaderEnd, bufferVars, controlVars
  <2>2. ~m_shuttingDown => BuffersHeld' = BuffersHeld
    BY <1>1, ReaderCounts
  <2>. QED  BY <2>1, <2>2 DEF PhaseInv
<1>2. CASE ProcessorStep
  <2>1. UNCHANGED <<m_shuttingDown, generation, cpc, call, live>> /\ ppc # "none"
    BY <1>2 DEF ProcessorStep, ProcessorBegin, ProcessorLoop, ProcessorPop, PopFull,
       ProcessorSleep, Process, ProcessorRecycleCheck, ProcessorRecycle, RecycleBuffers,
       ProcessorRecycleNotify, ProcessorEnd, bufferVars, controlVars
  <2>2. ~m_shuttingDown => BuffersHeld' = BuffersHeld
    BY <1>2, ProcessorCounts
  <2>. QED  BY <2>1, <2>2 DEF PhaseInv
<1>3. CASE SpuriousWakeup
  BY <1>3 DEF SpuriousWakeup, BuffersHeld, bufferVars, controlVars
<1>4. ASSUME NEW operation, Call(operation) PROVE CountInv'
  BY <1>4 DEF Call, BuffersHeld, bufferVars, readerVars, processorVars
<1>5. CASE ControlStep
  <2>1. CASE ShutDownReader \/ ShutDownProcessor
    BY <2>1 DEF ShutDownReader, ShutDownProcessor, ShutDownThread, BuffersHeld, bufferVars,
       readerVars, processorVars
  <2>2. CASE BufferRaise
    BY <2>2 DEF BufferRaise, RaiseShuttingDown, readerVars, processorVars
  <2>3. CASE BufferNotifyEmpty \/ BufferNotifyFull
    BY <2>3 DEF BufferNotifyEmpty, BufferNotifyFull, Notify, BuffersHeld, bufferVars,
       readerVars, processorVars
  <2>4. CASE BufferClearFull \/ BufferClearEmpty
    BY <2>4 DEF PhaseInv, BufferClearFull, ClearFull, BufferClearEmpty, ClearEmpty, readerVars,
       processorVars
  <2>5. CASE JoinReader \/ JoinProcessor \/ StopReturns
    BY <2>5 DEF JoinReader, JoinProcessor, StopReturns, BuffersHeld, bufferVars, readerVars,
       processorVars
  <2>6. ASSUME NEW g \in 1..Generations, InitializeBuffers(g) PROVE CountInv'
    <3>1. /\ UNCHANGED <<bufQue, m_full_buffers, pktsToProcess, pktsToRecycle>>
          /\ m_empty_buffers' = Pool(g) /\ cpc' = "setup"
      BY <2>6 DEF InitializeBuffers, Initialize, processorVars
    <3>2. /\ bufQue = <<>> /\ (~live' => m_full_buffers = <<>>)
          /\ pktsToProcess = <<>> /\ pktsToRecycle = <<>> /\ UNCHANGED call
      BY <2>6 DEF InitializeBuffers, PhaseInv, ReaderInv, ProcessorInv
    <3>3. Len(m_empty_buffers') = Capacity /\ Capacity \in Nat
      BY <3>1, PoolType, CapacityAssumption
    <3>4. ~live' => BuffersHeld' = Capacity
      BY <3>1, <3>2, <3>3, EmptySeq DEF BuffersHeld
    <3>5. PoolConserved'
      BY <3>4
    <3>. QED  BY <3>1, <3>2, <3>5
  <2>7. CASE SetupReader \/ SpawnReader \/ SpawnProcessor
    BY <2>7 DEF SetupReader, SpawnReader, SpawnProcessor, BuffersHeld, bufferVars, readerVars,
       processorVars
  <2>. QED
    BY <1>5, <2>1, <2>2, <2>3, <2>4, <2>5, <2>6, <2>7 DEF ControlStep
<1>6. CASE UNCHANGED vars
  BY <1>6 DEF vars, BuffersHeld, bufferVars, readerVars, processorVars, controlVars
<1>. QED
  BY <1>1, <1>2, <1>3, <1>4, <1>5, <1>6 DEF Next

\* The invariant that counts: what holds together with IInv in every session.
THEOREM Counted == ASSUME ~StopRacesStart PROVE Spec => []CountInv
<1>1. Init => CountInv
  BY DEF Init, CountInv, PoolConserved, Stopping
<1>2. ASSUME IInv, CountInv, [Next]_vars PROVE CountInv'
  BY <1>2, CountInvStep
<1>. QED  BY <1>1, <1>2, Inductive, PTL DEF Spec

(***************************************************************************)
(* PoolConserved, for any capacity and any batch sizes: from initialize to *)
(* shutDown no buffer leaves the cycle of the five containers, and every   *)
(* start that finds no thread begins with exactly the pool.                *)
(***************************************************************************)
THEOREM PoolKept == ASSUME ~StopRacesStart PROVE Spec => []PoolConserved
<1>1. CountInv => PoolConserved
  BY DEF CountInv
<1>. QED  BY <1>1, Counted, PTL

(***************************************************************************)
(* NoMutualStarvation does not need the count to be exact.  When _start is *)
(* called while the threads still run, initialize may find full buffers of *)
(* the session before, but it never finds fewer than it makes.             *)
(***************************************************************************)
PoolEnough == generation # 0 /\ ~m_shuttingDown => BuffersHeld >= Capacity

\* Only initialize takes the flag of the buffer down.
LEMMA OnlyInitializeOpens ==
    ASSUME [Next]_vars, m_shuttingDown, ~m_shuttingDown'
    PROVE  \E g \in 1..Generations : InitializeBuffers(g)
<1>1. CASE ReaderStep
  BY <1>1 DEF ReaderStep, ReaderBegin, ReaderPop, PopEmpty, ReaderSleep, PointIovecs, ReaderLoop,
     Receive, ReceiveNothing, ReceiveFails, PushCheck, Push, PushFull, PushNotify,
     ReaderRecycleCheck, ReaderRecycle, RecycleBuffers, ReaderEnd, bufferVars
<1>2. CASE ProcessorStep
  BY <1>2 DEF ProcessorStep, ProcessorBegin, ProcessorLoop, ProcessorPop, PopFull,
     ProcessorSleep, Process, ProcessorRecycleCheck, ProcessorRecycle, RecycleBuffers,
     ProcessorRecycleNotify, ProcessorEnd, bufferVars
<1>3. CASE SpuriousWakeup \/ UNCHANGED vars \/ \E operation \in Operations : Call(operation)
  BY <1>3 DEF SpuriousWakeup, Call, vars, bufferVars
<1>4. CASE ControlStep
  BY <1>4 DEF ControlStep, ShutDownReader, ShutDownProcessor, ShutDownThread, BufferRaise,
     RaiseShuttingDown, BufferNotifyEmpty, BufferNotifyFull, BufferClearFull, ClearFull,
     BufferClearEmpty, ClearEmpty, JoinReader, JoinProcessor, StopReturns, SetupReader,
     SpawnReader, SpawnProcessor, bufferVars
<1>. QED  BY <1>1, <1>2, <1>3, <1>4 DEF Next

\* While the flag is down no buffer leaves the cycle.
LEMMA HeldKept ==
    ASSUME IInv, [Next]_vars, ~m_shuttingDown, ~m_shuttingDown'
    PROVE  BuffersHeld' = BuffersHeld /\ UNCHANGED generation
<1>1. CASE ReaderStep
  <2>1. UNCHANGED generation
    BY <1>1 DEF ReaderStep, ReaderBegin, ReaderPop, ReaderSleep, PointIovecs, ReaderLoop,
       Receive, ReceiveNothing, ReceiveFails, PushCheck, Push, PushNotify,
       ReaderRecycleCheck, ReaderRecycle, ReaderEnd, controlVars
  <2>. QED  BY <1>1, <2>1, ReaderCounts
<1>2. CASE ProcessorStep
  <2>1. UNCHANGED generation
    BY <1>2 DEF ProcessorStep, ProcessorBegin, ProcessorLoop, ProcessorPop, ProcessorSleep,
       Process, ProcessorRecycleCheck, ProcessorRecycle, ProcessorRecycleNotify, ProcessorEnd,
       controlVars
  <2>. QED  BY <1>2, <2>1, ProcessorCounts
<1>3. CASE SpuriousWakeup \/ UNCHANGED vars \/ \E operation \in Operations : Call(operation)
  BY <1>3 DEF SpuriousWakeup, Call, vars, BuffersHeld, bufferVars, readerVars, processorVars,
     controlVars
<1>4. CASE ControlStep
  <2>1. CASE \/ BufferRaise \/ BufferClearFull \/ BufferClearEmpty
             \/ \E g \in 1..Generations : InitializeBuffers(g)
    BY <2>1 DEF BufferRaise, RaiseShuttingDown, BufferClearFull, BufferClearEmpty,
       InitializeBuffers, IInv, PhaseInv, Stopping
  <2>2. CASE \/ ShutDownReader \/ ShutDownProcessor \/ BufferNotifyEmpty \/ BufferNotifyFull
             \/ JoinReader \/ JoinProcessor \/ StopReturns \/ SetupReader \/ SpawnReader
             \/ SpawnProcessor
    BY <2>2 DEF ShutDownReader, ShutDownProcessor, ShutDownThread, BufferNotifyEmpty,
       BufferNotifyFull, Notify, JoinReader, JoinProcessor, StopReturns, SetupReader,
       SpawnReader, SpawnProcessor, BuffersHeld, bufferVars, readerVars, processorVars
  <2>. QED  BY <1>4, <2>1, <2>2 DEF ControlStep
<1>. QED  BY <1>1, <1>2, <1>3, <1>4 DEF Next

LEMMA PoolEnoughStep == ASSUME IInv, PoolEnough, [Next]_vars PROVE PoolEnough'
<1>1. CASE m_shuttingDown'
  BY <1>1 DEF PoolEnough
<1>2. CASE ~m_shuttingDown /\ ~m_shuttingDown'
  BY <1>2, HeldKept DEF PoolEnough
<1>3. CASE m_shuttingDown /\ ~m_shuttingDown'
  <2>1. PICK g \in 1..Generations : InitializeBuffers(g)
    BY <1>3, OnlyInitializeOpens
  <2>2. /\ UNCHANGED <<bufQue, m_full_buffers, pktsToProcess, pktsToRecycle>>
        /\ m_empty_buffers' = Pool(g)
    BY <2>1 DEF InitializeBuffers, Initialize, processorVars
  <2>3. Len(m_empty_buffers') = Capacity /\ Capacity \in Nat
    BY <2>2, PoolType, CapacityAssumption
  <2>. QED  BY <2>2, <2>3, LengthsNat DEF PoolEnough, BuffersHeld, IInv
<1>. QED  BY <1>1, <1>2, <1>3

(***************************************************************************)
(* NoMutualStarvation: Capacity >= PktsPerRead + PktsPerPush - 1 is enough *)
(* for the reader and the processor never to wait for each other, even     *)
(* when a running component is started again.                              *)
(***************************************************************************)
THEOREM NeverBothStarved == ASSUME ~StopRacesStart PROVE Spec => []NoMutualStarvation
<1>1. Init => PoolEnough
  BY DEF Init, PoolEnough
<1>2. ASSUME IInv, PoolEnough, [Next]_vars PROVE PoolEnough'
  BY <1>2, PoolEnoughStep
<1>3. ASSUME IInv, PoolEnough PROVE NoMutualStarvation
  <2>. SUFFICES ASSUME Roomy, generation # 0, ~m_shuttingDown, ReaderShort, ProcessorShort
                PROVE  FALSE
    BY DEF NoMutualStarvation
  <2>1. BuffersHeld >= Capacity
    BY <1>3 DEF PoolEnough
  <2>2. Len(pktsToRecycle) = 0
    BY <1>3, EmptySeq DEF ProcessorShort, AtPop, IInv, ProcessorInv
  <2>3. /\ Len(bufQue) + Len(m_empty_buffers) < PktsPerRead
        /\ Len(pktsToProcess) + Len(m_full_buffers) < PktsPerPush
        /\ Capacity >= PktsPerRead + PktsPerPush - 1
    BY DEF ReaderShort, ProcessorShort, Roomy
  <2>. QED
    BY <1>3, <2>1, <2>2, <2>3, LengthsNat, PipelineAssumption, CapacityAssumption
       DEF BuffersHeld, IInv
<1>. QED  BY <1>1, <1>2, <1>3, Inductive, PTL DEF Spec
=============================================================================
