------------------------- MODULE AsyncConnectionProofs -------------------------
(***************************************************************************)
(* Theorems about AsyncConnection.  The wrapper uses its delegate as a     *)
(* SimpleJdwpConnection may be used, so that what is proved of             *)
(* SimpleConnection holds under the wrapper; it accepts no call that its   *)
(* read task could not serve; and it hands the VM's commands over in order.*)
(***************************************************************************)
EXTENDS AsyncConnection, SimpleConnectionProofs

(* The inductive invariant behind the claim that the delegate has one       *)
(* receiver at a time: whoever reads is the read task.                      *)
OnlyTaskReads ==
  /\ rtask = "running" \/ reader = "idle"
  /\ ~crowded

(* A read task that begins finds nobody reading, so that it is not refused  *)
(* and takes nobody's place.                                                *)
LEMMA LoopBeginsAlone ==
  ASSUME OnlyTaskReads, LoopBegins
  PROVE  \/ CallReceive /\ rtask' = "running" /\ UNCHANGED <<werror, shut>>
         \/ Down /\ UNCHANGED pvars /\ LoopEnds /\ werror' = TRUE
  <1>1. reader # "reading"
    BY DEF OnlyTaskReads, LoopBegins
  <1>2. CallReceive \/ (Down /\ UNCHANGED pvars)
    BY <1>1 DEF LoopBegins, EnterReceive, ReceiveClash, SecondReceive
  <1>3. CASE CallReceive
    <2>1. ~Down'
      BY <1>3 DEF CallReceive, Down, stateVars
    <2> QED BY <1>3, <2>1 DEF LoopBegins
  <1>4. CASE Down /\ UNCHANGED pvars
    <2>1. Down'
      BY <1>4 DEF Down, pvars, stateVars
    <2> QED BY <1>4, <2>1 DEF LoopBegins
  <1> QED BY <1>2, <1>3, <1>4

LEMMA OnlyTaskReadsKept ==
  ASSUME OnlyTaskReads, [AsyncNext]_avars
  PROVE  OnlyTaskReads'
  <1> USE DEF OnlyTaskReads
  <1>1. ASSUME UNCHANGED <<reader, crowded>>,
               rtask' = rtask \/ rtask # "running"
        PROVE  OnlyTaskReads'
    BY <1>1
  <1>2. CASE LoopBegins
    <2>1. CASE CallReceive /\ rtask' = "running"
      BY <2>1 DEF CallReceive
    <2>2. CASE UNCHANGED pvars
      BY <1>2, <2>2 DEF LoopBegins, pvars, readVars
    <2> QED BY <1>2, <2>1, <2>2, LoopBeginsAlone
  <1>3. CASE LoopNeverBegins \/ LoopReply
    BY <1>1, <1>3
    DEF LoopNeverBegins, LoopReply, DeliverReply, loopVars, svars, pvars, readVars
  <1>4. CASE LoopCommand
    BY <1>4 DEF LoopCommand, ReceiveCommand, DeliverCommand, CanRead
  <1>5. CASE LoopUnparsable
    BY <1>5 DEF LoopUnparsable, ReceiveCommand, DeliverCommand
  <1>6. CASE LoopFails \/ LoopCancelled
    BY <1>6 DEF LoopFails, LoopCancelled, ReceiveFails, OneLeaves, ReceiveCancelled
  <1>7. CASE Enter \/ LoopSendOneWay \/ UNCHANGED avars
    BY <1>1, <1>7
    DEF Enter, LoopSendOneWay, StartLoop, SendOneWayCommand, SendOneWay, svars,
        pvars, readVars, avars, loopVars
  <1>8. ASSUME NEW c \in Calls, LoopSendCommand(c)
        PROVE  OnlyTaskReads'
    <2>1. UNCHANGED <<reader, crowded>>
      BY <1>8, SMT
      DEF LoopSendCommand, SendCommand, SendCommandPacket, SendPacket,
          RefuseDuplicate, SendOnLostLink, RefuseCall, SendFails, TurnDown,
          svars, pvars, readVars
    <2> QED BY <1>1, <1>8, <2>1 DEF LoopSendCommand, StartLoop
  <1>9. ASSUME NEW c \in Calls, LoopContinueCommand(c) \/ LoopCancelCall(c)
        PROVE  OnlyTaskReads'
    <2>1. UNCHANGED <<reader, crowded>>
      BY <1>9, SMT
      DEF LoopContinueCommand, ContinueCommand, CallStep, Drained, DrainFails,
          Resume, CallCancelled, EndCall, LoopCancelCall, CancelCall, readVars
    <2> QED BY <1>1, <1>9, <2>1 DEF LoopContinueCommand, LoopCancelCall, loopVars
  <1>10. ASSUME NEW g \in Getters,
                GetCommand(g) \/ GetterTakes(g) \/ GetterStops(g) \/ GetterCancelled(g)
         PROVE  OnlyTaskReads'
    BY <1>1, <1>10
    DEF GetCommand, GetterTakes, GetterStops, GetterCancelled, StartLoop, svars,
        pvars, readVars
  <1>11. ASSUME NEW k \in Closers, BeginClose(k) \/ CloseStep(k) \/ CancelClose(k)
         PROVE  OnlyTaskReads'
    <2>1. UNCHANGED <<reader, crowded>>
      BY <1>11, SMT
      DEF BeginClose, CloseStep, CloseDelegate, CloseReturns, CancelClose,
          CancelReceive, CloseConnection, Close, svars, pvars, readVars
    <2>2. rtask' = rtask \/ rtask # "running"
      BY <1>11 DEF BeginClose, CloseStep, CloseDelegate, CloseReturns, CancelClose
    <2> QED BY <1>1, <2>1, <2>2
  <1>12. CASE LoopEnvironment
    <2>1. UNCHANGED <<reader, crowded>>
      BY <1>12, SMT
      DEF LoopEnvironment, Environment, VmTakes, VmReplies, VmRepliesOneWay,
          VmSendsCommand, VmSendsGarbage, VmHangsUp, LinkLost, LinkClosed, readVars
    <2> QED BY <1>1, <1>12, <2>1 DEF LoopEnvironment, loopVars
  <1> QED
    BY <1>2, <1>3, <1>4, <1>5, <1>6, <1>7, <1>8, <1>9, <1>10, <1>11, <1>12
    DEF AsyncNext, LoopStep

------------------------------------------------------------------------------
(* Every step of the wrapper is a step of a delegate with one receiver, or  *)
(* leaves the delegate alone.                                               *)
LEMMA AsyncStepIsSimpleStep ==
  ASSUME OnlyTaskReads, [AsyncNext]_avars
  PROVE  [OneReceiverNext]_svars
  <1> USE DEF svars, simpleVars
  <1>1. CASE LoopStep
    <2>1. CASE LoopBegins
      <3>1. UNCHANGED simpleVars
        BY <2>1 DEF LoopBegins
      <3> QED BY <2>1, <3>1, LoopBeginsAlone DEF OneReceiverNext, UserStep
    <2>2. CASE LoopNeverBegins
      BY <2>2 DEF LoopNeverBegins
    <2>3. CASE LoopReply
      BY <2>3 DEF LoopReply, OneReceiverNext, ReceiveStep
    <2>4. CASE LoopCommand
      BY <2>4 DEF LoopCommand, OneReceiverNext
    <2>5. CASE LoopUnparsable
      BY <2>5 DEF LoopUnparsable, OneReceiverNext
    <2>6. CASE LoopFails
      BY <2>6 DEF LoopFails, OneReceiverNext, ReceiveStep
    <2>7. CASE LoopCancelled
      BY <2>7 DEF LoopCancelled, OneReceiverNext, ReceiveStep
    <2> QED
      BY <1>1, <2>1, <2>2, <2>3, <2>4, <2>5, <2>6, <2>7 DEF LoopStep
  <1>2. CASE Enter
    BY <1>2 DEF Enter
  <1>3. ASSUME NEW c \in Calls, LoopSendCommand(c)
        PROVE  [OneReceiverNext]_svars
    BY <1>3, Zenon DEF LoopSendCommand, OneReceiverNext
  <1>4. ASSUME NEW c \in Calls, LoopContinueCommand(c)
        PROVE  [OneReceiverNext]_svars
    BY <1>4 DEF LoopContinueCommand, OneReceiverNext
  <1>5. ASSUME NEW c \in Calls, LoopCancelCall(c)
        PROVE  [OneReceiverNext]_svars
    BY <1>5 DEF LoopCancelCall, OneReceiverNext, UserStep
  <1>6. ASSUME NEW g \in Getters,
               GetCommand(g) \/ GetterTakes(g) \/ GetterStops(g) \/ GetterCancelled(g)
        PROVE  [OneReceiverNext]_svars
    BY <1>6 DEF GetCommand, GetterTakes, GetterStops, GetterCancelled
  <1>7. ASSUME NEW k \in Closers, BeginClose(k)
        PROVE  [OneReceiverNext]_svars
    BY <1>7, Zenon DEF BeginClose, CloseConnection, OneReceiverNext, UserStep
  <1>8. ASSUME NEW k \in Closers, CloseStep(k) \/ CancelClose(k)
        PROVE  [OneReceiverNext]_svars
    BY <1>8, Zenon
    DEF CloseStep, CloseDelegate, CloseReturns, CancelClose, CloseConnection,
        OneReceiverNext, UserStep
  <1>9. CASE LoopEnvironment
    BY <1>9 DEF LoopEnvironment, OneReceiverNext, EnvironmentStep
  <1>10. CASE UNCHANGED avars
    BY <1>10 DEF avars
  <1>11. CASE LoopSendOneWay
    BY <1>11, Zenon DEF LoopSendOneWay, OneReceiverNext
  <1> QED
    BY <1>1, <1>2, <1>3, <1>4, <1>5, <1>6, <1>7, <1>8, <1>9, <1>10, <1>11
    DEF AsyncNext

(* The delegate is closed by close() alone, once the read task is gone.     *)
LEMMA ClosedUnread ==
  ASSUME OnlyTaskReads, [AsyncNext]_avars, ~closed, closed'
  PROVE  reader = "idle"
  <1>1. rtask # "running"
    <2> SUFFICES ASSUME rtask = "running" PROVE FALSE
      OBVIOUS
    <2> USE DEF pvars, stateVars
    <2>1. CASE LoopStep
      <3>1. ~LoopBegins /\ ~LoopNeverBegins
        BY DEF LoopBegins, LoopNeverBegins
      <3>2. closed' = closed
        BY <2>1, <3>1
        DEF LoopStep, LoopReply, LoopCommand, LoopUnparsable, LoopFails,
            LoopCancelled, DeliverReply, ReceiveCommand, DeliverCommand,
            ReceiveFails, ReceiveCancelled
      <3> QED BY <3>2
    <2>2. CASE \/ Enter \/ LoopSendOneWay \/ UNCHANGED avars
               \/ \E g \in Getters : GetCommand(g) \/ GetterTakes(g)
                                      \/ GetterStops(g) \/ GetterCancelled(g)
      BY <2>2
      DEF Enter, LoopSendOneWay, SendOneWayCommand, SendOneWay, GetCommand,
          GetterTakes, GetterStops, GetterCancelled, svars, avars
    <2>3. ASSUME NEW c \in Calls,
                 LoopSendCommand(c) \/ LoopContinueCommand(c) \/ LoopCancelCall(c)
          PROVE  FALSE
      <3>1. closed' = closed
        BY <2>3, Zenon
        DEF LoopSendCommand, SendCommand, SendCommandPacket, SendPacket,
            RefuseDuplicate, SendOnLostLink, RefuseCall, SendFails, TurnDown,
            LoopContinueCommand, ContinueCommand, CallStep, Drained, DrainFails,
            Resume, CallCancelled, EndCall, LoopCancelCall, CancelCall, svars
      <3> QED BY <3>1
    <2>4. ASSUME NEW k \in Closers, BeginClose(k) \/ CloseStep(k) \/ CancelClose(k)
          PROVE  FALSE
      <3>1. ~CloseDelegate(k)
        BY DEF CloseDelegate
      <3>2. closed' = closed
        <4>1. CASE BeginClose(k)
          <5>1. CancelReceive \/ UNCHANGED pvars
            BY <4>1 DEF BeginClose
          <5> QED BY <5>1 DEF CancelReceive
        <4>2. CASE CloseReturns(k) \/ CancelClose(k)
          BY <4>2 DEF CloseReturns, CancelClose, svars
        <4> QED BY <2>4, <3>1, <4>1, <4>2 DEF CloseStep
      <3> QED BY <3>2
    <2>5. CASE LoopEnvironment
      <3>1. closed' = closed
        BY <2>5
        DEF LoopEnvironment, Environment, VmTakes, VmReplies, VmRepliesOneWay,
            VmSendsCommand, VmSendsGarbage, VmHangsUp, LinkLost, LinkClosed
      <3> QED BY <3>1
    <2> QED BY <2>1, <2>2, <2>3, <2>4, <2>5 DEF AsyncNext
  <1> QED BY <1>1 DEF OnlyTaskReads

LEMMA AsyncOnlyTaskReads == AsyncSpec => []OnlyTaskReads
  <1>1. AsyncInit => OnlyTaskReads
    BY DEF AsyncInit, SimpleInit, PacketInit, OnlyTaskReads
  <1> QED BY <1>1, OnlyTaskReadsKept, PTL DEF AsyncSpec

(* The wrapper has one task at a time in its delegate's receive_command(),  *)
(* and none when it closes it.                                              *)
THEOREM AsyncImplementsSimple == AsyncSpec => ImplementsSimple
  <1>1. AsyncInit => SimpleInit
    BY DEF AsyncInit
  <1>2. AsyncSpec => OneReceiverSpec
    BY <1>1, AsyncOnlyTaskReads, AsyncStepIsSimpleStep, PTL
    DEF AsyncSpec, OneReceiverSpec
  <1>3. OnlyTaskReads /\ [AsyncNext]_avars
          => [~closed /\ closed' => reader = "idle"]_svars
    BY ClosedUnread
  <1>4. AsyncSpec => [][~closed /\ closed' => reader = "idle"]_svars
    BY <1>3, AsyncOnlyTaskReads, PTL DEF AsyncSpec
  <1> QED BY <1>2, <1>4 DEF ImplementsSimple

LEMMA AsyncIsSimple == AsyncSpec => SimpleSpec
  <1>1. [OneReceiverNext]_svars => [SimpleNext]_svars
    BY DEF SimpleNext
  <1>2. OneReceiverSpec => SimpleSpec
    BY <1>1, PTL DEF OneReceiverSpec, SimpleSpec
  <1> QED BY <1>2, AsyncImplementsSimple DEF ImplementsSimple

LEMMA AsyncInv == AsyncSpec => [](Inv /\ OnlyTaskReads)
  <1>1. SimpleSpec => []Inv
    BY SimpleInitInv, SimpleNextInv, PTL DEF SimpleSpec
  <1> QED BY <1>1, AsyncIsSimple, AsyncOnlyTaskReads, PTL

(* What callers of the wrapper get from it: their own replies, a pending    *)
(* table that knows every waiting call, and nobody left waiting once the    *)
(* connection is down.                                                      *)
THEOREM AsyncCallsSafe ==
  AsyncSpec => [](WaiterRegistered /\ NoOrphan /\ OwnReply)
  BY AsyncIsSimple, SimpleWaiterRegistered, SimpleNoOrphan, SimpleOwnReply, PTL

------------------------------------------------------------------------------
(* The wrapper's own variables.                                             *)
LoopTypeOK ==
  /\ wclosed \in BOOLEAN
  /\ werror \in BOOLEAN
  /\ rtask \in {"none", "created", "doomed", "running", "done"}
  /\ queue \in Seq(1..MaxEvents)
  /\ shut \in BOOLEAN
  /\ getter \in SUBSET Getters
  /\ taken \in Seq(1..MaxEvents)
  /\ closer \in [Closers -> {"idle", "joining", "closing", "done", "cancelled"}]
  /\ waiterGone \in BOOLEAN

LEMMA HeadTail ==
  ASSUME NEW S, NEW s \in Seq(S), s # <<>>
  PROVE  Head(s) \in S /\ Tail(s) \in Seq(S)
  BY SMT

LEMMA AppendTo ==
  ASSUME NEW S, NEW s \in Seq(S), NEW e \in S
  PROVE  Append(s, e) \in Seq(S)
  BY SMT

LEMMA LoopTypes ==
  ASSUME Inv, LoopTypeOK, [AsyncNext]_avars
  PROVE  LoopTypeOK'
  <1> USE DEF LoopTypeOK, closeVars
  <1>1. CASE LoopCommand
    <2>1. Head(wire) \in Messages /\ Head(wire).kind = "command"
      BY <1>1, ConsumeWire
      DEF LoopCommand, ReceiveCommand, DeliverCommand, CanRead, Inv, PacketInv
    <2>2. Head(wire).event \in 1..MaxEvents
      BY <2>1, MessageKinds
    <2>3. Append(queue, Head(wire).event) \in Seq(1..MaxEvents)
      BY <2>2, SMT
    <2> QED BY <1>1, <2>3 DEF LoopCommand
  <1>2. CASE LoopStep /\ ~LoopCommand
    BY <1>2
    DEF LoopStep, LoopBegins, LoopNeverBegins, LoopReply, LoopUnparsable,
        LoopFails, LoopCancelled, LoopEnds, loopVars
  <1>3. CASE Enter \/ LoopSendOneWay \/ LoopEnvironment \/ UNCHANGED avars
    BY <1>3 DEF Enter, LoopSendOneWay, LoopEnvironment, StartLoop, avars, loopVars
  <1>4. ASSUME NEW c \in Calls,
               LoopSendCommand(c) \/ LoopContinueCommand(c) \/ LoopCancelCall(c)
        PROVE  LoopTypeOK'
    BY <1>4
    DEF LoopSendCommand, LoopContinueCommand, LoopCancelCall, StartLoop, loopVars
  <1>5. ASSUME NEW g \in Getters, GetCommand(g) \/ GetterStops(g) \/ GetterCancelled(g)
        PROVE  LoopTypeOK'
    BY <1>5 DEF GetCommand, GetterStops, GetterCancelled, StartLoop
  <1>6. ASSUME NEW g \in Getters, GetterTakes(g)
        PROVE  LoopTypeOK'
    <2>1. queue # <<>>
      BY <1>6 DEF GetterTakes
    <2>2. /\ Head(queue) \in 1..MaxEvents
          /\ Tail(queue) \in Seq(1..MaxEvents)
          /\ Append(taken, Head(queue)) \in Seq(1..MaxEvents)
      <3>1. Head(queue) \in 1..MaxEvents /\ Tail(queue) \in Seq(1..MaxEvents)
        BY <2>1, HeadTail
      <3> QED BY <3>1, AppendTo
    <2>3. /\ queue' = Tail(queue) /\ taken' = Append(taken, Head(queue))
          /\ getter' = getter \ {g}
          /\ UNCHANGED <<wclosed, werror, rtask, shut, closer, waiterGone>>
      BY <1>6 DEF GetterTakes
    <2> QED BY <2>2, <2>3
  <1>7. ASSUME NEW k \in Closers, BeginClose(k) \/ CloseStep(k) \/ CancelClose(k)
        PROVE  LoopTypeOK'
    BY <1>7
    DEF BeginClose, CloseStep, CloseDelegate, CloseReturns, CancelClose, WaitClosed
  <1> QED BY <1>1, <1>2, <1>3, <1>4, <1>5, <1>6, <1>7 DEF AsyncNext

(* What is queued and handed over are numbers of the VM's commands: nothing *)
(* else is ever put into the queue, also when the read task ends.           *)
THEOREM AsyncTypes == AsyncSpec => []AsyncTypeOK
  <1>1. AsyncInit => LoopTypeOK
    <2>1. <<>> \in Seq(1..MaxEvents)
      OBVIOUS
    <2> QED BY <2>1 DEF AsyncInit, LoopTypeOK
  <1>2. Inv /\ LoopTypeOK => AsyncTypeOK
    BY DEF Inv, SimpleInv, LoopTypeOK, AsyncTypeOK
  <1>3. AsyncSpec => [](Inv /\ OnlyTaskReads)
    BY AsyncInv
  <1> QED BY <1>1, <1>2, <1>3, LoopTypes, PTL DEF AsyncSpec

------------------------------------------------------------------------------
(* The inductive invariant behind AcceptedOnlyWithReader: whatever ended    *)
(* the read task, or doomed it, has put the wrapper's state down.           *)
ReaderGoneMeansDown ==
  /\ rtask \in {"none", "created", "doomed", "running", "done"}
  /\ rtask = "done" => WrapperDown
  /\ rtask = "doomed" => wclosed
  /\ rcancel => wclosed

LEMMA CloseOnlyGoesUp ==
  ASSUME OnlyTaskReads, ReaderGoneMeansDown, [AsyncNext]_avars
  PROVE  ReaderGoneMeansDown'
  <1> USE DEF ReaderGoneMeansDown, WrapperDown
  <1>1. CASE LoopBegins
    <2>1. wclosed' = wclosed /\ rtask = "created"
      BY <1>1 DEF LoopBegins
    <2>2. rcancel' = rcancel
      BY <1>1, LoopBeginsAlone DEF CallReceive, pvars, readVars
    <2>3. rtask' = "running" \/ (rtask' = "done" /\ werror')
      BY <1>1, LoopBeginsAlone DEF LoopEnds
    <2> QED BY <2>1, <2>2, <2>3
  <1>2. CASE LoopNeverBegins
    BY <1>2 DEF LoopNeverBegins, svars, pvars, readVars
  <1>3. CASE LoopReply
    BY <1>3 DEF LoopReply, DeliverReply, loopVars, readVars
  <1>4. CASE LoopCommand
    BY <1>4 DEF LoopCommand, ReceiveCommand, DeliverCommand
  <1>5. CASE LoopUnparsable
    BY <1>5 DEF LoopUnparsable, LoopEnds, ReceiveCommand, DeliverCommand
  <1>6. CASE LoopFails
    BY <1>6 DEF LoopFails, LoopEnds, ReceiveFails
  <1>7. CASE LoopCancelled
    BY <1>7 DEF LoopCancelled, LoopEnds, ReceiveCancelled
  <1>8. CASE Enter
    BY <1>8 DEF Enter, StartLoop, svars, pvars, readVars
  <1>9. ASSUME NEW c \in Calls, LoopSendCommand(c)
        PROVE  ReaderGoneMeansDown'
    <2>1. rcancel' = rcancel
      BY <1>9, SMT
      DEF LoopSendCommand, SendCommand, SendCommandPacket, SendPacket,
          RefuseDuplicate, SendOnLostLink, RefuseCall, SendFails, TurnDown,
          svars, pvars, readVars
    <2> QED BY <1>9, <2>1 DEF LoopSendCommand, StartLoop
  <1>10. ASSUME NEW c \in Calls, LoopContinueCommand(c)
         PROVE  ReaderGoneMeansDown'
    <2>1. rcancel' = rcancel
      BY <1>10, SMT
      DEF LoopContinueCommand, ContinueCommand, CallStep, Drained, DrainFails,
          Resume, CallCancelled, EndCall, readVars
    <2> QED BY <1>10, <2>1 DEF LoopContinueCommand, loopVars
  <1>11. ASSUME NEW c \in Calls, LoopCancelCall(c)
         PROVE  ReaderGoneMeansDown'
    BY <1>11 DEF LoopCancelCall, CancelCall, readVars, loopVars
  <1>12. ASSUME NEW g \in Getters,
                GetCommand(g) \/ GetterTakes(g) \/ GetterStops(g) \/ GetterCancelled(g)
         PROVE  ReaderGoneMeansDown'
    BY <1>12
    DEF GetCommand, GetterTakes, GetterStops, GetterCancelled, StartLoop,
        svars, pvars, readVars
  <1>13. ASSUME NEW k \in Closers, BeginClose(k)
         PROVE  ReaderGoneMeansDown'
    BY <1>13, SMT
    DEF BeginClose, CancelReceive, CloseConnection, Close, pvars, readVars
  <1>14. ASSUME NEW k \in Closers, CloseStep(k) \/ CancelClose(k)
         PROVE  ReaderGoneMeansDown'
    BY <1>14, SMT
    DEF CloseStep, CloseDelegate, CloseReturns, CancelClose, CloseConnection,
        Close, svars, pvars, readVars
  <1>15. CASE LoopEnvironment
    <2>1. rcancel' = rcancel
      BY <1>15, SMT
      DEF LoopEnvironment, Environment, VmTakes, VmReplies, VmRepliesOneWay,
          VmSendsCommand, VmSendsGarbage, VmHangsUp, LinkLost, LinkClosed, readVars
    <2> QED BY <1>15, <2>1 DEF LoopEnvironment, loopVars
  <1>16. CASE UNCHANGED avars
    BY <1>16 DEF avars, loopVars, svars, pvars, readVars
  <1>17. CASE LoopSendOneWay
    BY <1>17, SMT
    DEF LoopSendOneWay, SendOneWayCommand, SendOneWay, StartLoop, svars, pvars,
        readVars
  <1> QED
    BY <1>1, <1>2, <1>3, <1>4, <1>5, <1>6, <1>7, <1>8, <1>9, <1>10, <1>11,
       <1>12, <1>13, <1>14, <1>15, <1>16, <1>17 DEF AsyncNext, LoopStep

(* A call leaves "new" for a live state only in the wrapper's send_command. *)
LEMMA OnlySendAccepts ==
  ASSUME Inv, [AsyncNext]_avars, ~(\E d \in Calls : LoopSendCommand(d)),
         NEW c \in Calls, pc[c] = "new"
  PROVE  pc'[c] = "new"
  <1>0. pc \in [Calls -> {"new"} \cup Live \cup Ended]
    BY DEF Inv, PacketInv, PacketTypeOK
  <1>1. CASE LoopStep
    BY <1>1, SMT
    DEF LoopStep, LoopBegins, LoopNeverBegins, LoopReply, LoopCommand,
        LoopUnparsable, LoopFails, LoopCancelled, EnterReceive, CallReceive,
        ReceiveClash, SecondReceive, DeliverReply, ReceiveCommand, DeliverCommand,
        ReceiveFails, ReceiveCancelled, svars, pvars, callVars
  <1>2. CASE Enter \/ (\E g \in Getters :
               GetCommand(g) \/ GetterTakes(g) \/ GetterStops(g) \/ GetterCancelled(g))
    BY <1>2
    DEF Enter, GetCommand, GetterTakes, GetterStops, GetterCancelled,
        svars, pvars, callVars
  <1>3. ASSUME NEW d \in Calls, LoopContinueCommand(d)
        PROVE  pc'[c] = "new"
    <2>1. CallStep(d)
      BY <1>3 DEF LoopContinueCommand, ContinueCommand
    <2>2. pc[d] \in Live /\ \E how : pc' = [pc EXCEPT ![d] = how]
      BY <2>1, Zenon
      DEF CallStep, Drained, DrainFails, Resume, CallCancelled, EndCall, Live
    <2>3. d # c
      BY <2>2 DEF Live
    <2> QED BY <1>0, <2>2, <2>3
  <1>4. ASSUME NEW d \in Calls, LoopCancelCall(d)
        PROVE  pc'[c] = "new"
    BY <1>4 DEF LoopCancelCall, CancelCall
  <1>5. ASSUME NEW k \in Closers, BeginClose(k) \/ CloseStep(k) \/ CancelClose(k)
        PROVE  pc'[c] = "new"
    BY <1>5, SMT
    DEF BeginClose, CloseStep, CloseDelegate, CloseReturns, CancelClose,
        CancelReceive, CloseConnection, Close, svars, pvars, callVars
  <1>6. CASE LoopEnvironment
    BY <1>6, SMT
    DEF LoopEnvironment, Environment, VmTakes, VmReplies, VmRepliesOneWay,
        VmSendsCommand, VmSendsGarbage, VmHangsUp, LinkLost, LinkClosed, callVars
  <1>7. CASE UNCHANGED avars
    BY <1>7 DEF avars, svars, pvars, callVars
  <1>8. CASE LoopSendOneWay
    BY <1>8
    DEF LoopSendOneWay, SendOneWayCommand, SendOneWay, svars, pvars, callVars
  <1> QED BY <1>1, <1>2, <1>3, <1>4, <1>5, <1>6, <1>7, <1>8 DEF AsyncNext

(* A call is accepted only while the read task can bring its reply.         *)
THEOREM AsyncAcceptedOnlyWithReader == AsyncSpec => AcceptedOnlyWithReader
  <1> DEFINE Accepted ==
        \A c \in Calls : pc[c] = "new" /\ pc'[c] \in Live =>
          rtask' \in {"created", "running"}
  <1>1. AsyncInit => ReaderGoneMeansDown
    BY DEF AsyncInit, SimpleInit, PacketInit, ReaderGoneMeansDown
  <1>2. Inv /\ ReaderGoneMeansDown /\ [AsyncNext]_avars => [Accepted]_avars
    <2> SUFFICES ASSUME Inv, ReaderGoneMeansDown, [AsyncNext]_avars,
                        NEW c \in Calls, pc[c] = "new", pc'[c] \in Live
                 PROVE  rtask' \in {"created", "running"}
      OBVIOUS
    <2>1. pc'[c] # "new"
      BY DEF Live
    <2>2. PICK d \in Calls : LoopSendCommand(d)
      BY <2>1, OnlySendAccepts
    <2>3. CASE ~WrapperDown
      BY <2>2, <2>3 DEF LoopSendCommand, StartLoop, ReaderGoneMeansDown, WrapperDown
    <2>4. CASE WrapperDown
      BY <2>1, <2>2, <2>4 DEF LoopSendCommand, svars, pvars, callVars
    <2> QED BY <2>3, <2>4
  <1>3. AsyncSpec => [](Inv /\ OnlyTaskReads)
    BY AsyncInv
  <1>4. AsyncSpec => []ReaderGoneMeansDown
    BY <1>1, <1>3, CloseOnlyGoesUp, PTL DEF AsyncSpec
  <1>5. AsyncSpec => [][Accepted]_avars
    BY <1>2, <1>3, <1>4, PTL DEF AsyncSpec
  <1> QED BY <1>5 DEF AcceptedOnlyWithReader

------------------------------------------------------------------------------
(* The inductive invariant behind CloseLeavesNothingOpen, beside Inv: the   *)
(* delegate is closed only when no task reads from it, and no task begins   *)
(* to read from a closed one.                                               *)
ClosedMeansShut ==
  /\ closed => link # "up" /\ rtask # "running"
  /\ closer \in [Closers -> {"idle", "joining", "closing", "done", "cancelled"}]
  /\ \A k \in Closers : closer[k] \in {"closing", "done", "cancelled"} => closed

(* Whatever does not close the connection leaves it open, and a transport   *)
(* that is not up any more stays so.                                        *)
LEMMA OnlyCloseCloses ==
  ASSUME [SimpleNext]_svars, ~Close
  PROVE  closed' = closed /\ (link' = "up" => link = "up")
  <1> USE DEF stateVars, netVars
  <1>1. ASSUME NEW c \in Calls, SendCommand(c)
        PROVE  closed' = closed /\ link' = link
    BY <1>1, Zenon
    DEF SendCommand, SendCommandPacket, SendPacket, RefuseDuplicate,
        SendOnLostLink, RefuseCall, SendFails, TurnDown
  <1>2. ASSUME NEW c \in Calls, ContinueCommand(c)
        PROVE  closed' = closed /\ link' = link
    BY <1>2, Zenon
    DEF ContinueCommand, CallStep, Drained, DrainFails, Resume, CallCancelled,
        EndCall
  <1>3. ASSUME NEW next, ReceiveCommand(next)
        PROVE  closed' = closed /\ link' = link
    BY <1>3 DEF ReceiveCommand, DeliverCommand
  <1>4. CASE ReceiveStep
    BY <1>4 DEF ReceiveStep, DeliverReply, ReceiveFails, ReceiveCancelled
  <1>5. CASE UserStep
    BY <1>5 DEF UserStep, CallReceive, CancelReceive, CancelCall
  <1>9. CASE SecondReceiver
    BY <1>9 DEF SecondReceiver, ReceiveClash
  <1>6. CASE EnvironmentStep
    BY <1>6
    DEF EnvironmentStep, Environment, VmTakes, VmReplies, VmRepliesOneWay,
        VmSendsCommand, VmSendsGarbage, VmHangsUp, LinkLost, LinkClosed
  <1>7. CASE UNCHANGED svars
    BY <1>7 DEF svars, pvars
  <1>8. CASE SendOneWayCommand
    BY <1>8 DEF SendOneWayCommand, SendOneWay, pvars
  <1> QED
    BY <1>1, <1>2, <1>3, <1>4, <1>5, <1>6, <1>7, <1>8, <1>9
    DEF SimpleNext, OneReceiverNext

LEMMA ClosedStaysShut ==
  ASSUME OnlyTaskReads, ClosedMeansShut, [AsyncNext]_avars
  PROVE  ClosedMeansShut'
  <1> USE DEF ClosedMeansShut
  <1>1. [SimpleNext]_svars
    BY AsyncStepIsSimpleStep DEF SimpleNext
  <1>2. ASSUME ~Close PROVE closed' = closed /\ (link' = "up" => link = "up")
    BY <1>1, <1>2, OnlyCloseCloses
  <1>3. CASE UNCHANGED closeVars /\ ~Close /\ (rtask' = "running" => rtask = "running")
    BY <1>2, <1>3 DEF closeVars
  <1>4. CASE LoopBegins
    <2>1. ~Close
      BY <1>4, LoopBeginsAlone DEF Close, CallReceive, pvars, stateVars
    <2>2. closed => rtask' # "running"
      BY <1>4, LoopBeginsAlone DEF LoopEnds, CallReceive, Down
    <2> QED BY <1>2, <1>4, <2>1, <2>2 DEF LoopBegins, closeVars
  <1>5. CASE LoopStep /\ ~LoopBegins
    <2>1. ~Close
      BY <1>5, SMT
      DEF LoopStep, LoopNeverBegins, LoopReply, LoopCommand, LoopUnparsable,
          LoopFails, LoopCancelled, DeliverReply, ReceiveCommand,
          DeliverCommand, ReceiveFails, ReceiveCancelled, Close, svars, pvars,
          stateVars
    <2>2. rtask' = "running" => rtask = "running"
      BY <1>5
      DEF LoopStep, LoopNeverBegins, LoopReply, LoopCommand, LoopUnparsable,
          LoopFails, LoopCancelled, LoopEnds, loopVars
    <2>3. UNCHANGED closeVars
      BY <1>5
      DEF LoopStep, LoopNeverBegins, LoopReply, LoopCommand, LoopUnparsable,
          LoopFails, LoopCancelled, loopVars
    <2> QED BY <1>3, <2>1, <2>2, <2>3
  <1>6. CASE Enter \/ (\E g \in Getters :
               GetCommand(g) \/ GetterTakes(g) \/ GetterStops(g) \/ GetterCancelled(g))
    <2>1. UNCHANGED <<svars, closeVars>> /\ (rtask' = "running" => rtask = "running")
      BY <1>6
      DEF Enter, GetCommand, GetterTakes, GetterStops, GetterCancelled, StartLoop
    <2> QED BY <2>1 DEF svars, pvars, stateVars, netVars, closeVars
  <1>7. ASSUME NEW c \in Calls,
               LoopSendCommand(c) \/ LoopContinueCommand(c) \/ LoopCancelCall(c)
        PROVE  ClosedMeansShut'
    <2>1. closed' = closed
      BY <1>7, Zenon
      DEF LoopSendCommand, SendCommand, SendCommandPacket, SendPacket,
          RefuseDuplicate, SendOnLostLink, RefuseCall, SendFails, TurnDown,
          LoopContinueCommand, ContinueCommand, CallStep, Drained, DrainFails,
          Resume, CallCancelled, EndCall, LoopCancelCall, CancelCall,
          svars, pvars, stateVars
    <2>2. ~Close
      BY <2>1 DEF Close
    <2>3. UNCHANGED closeVars /\ (rtask' = "running" => rtask = "running")
      BY <1>7
      DEF LoopSendCommand, LoopContinueCommand, LoopCancelCall, StartLoop, loopVars
    <2> QED BY <1>3, <2>2, <2>3
  <1>8. ASSUME NEW k \in Closers, CloseConnection, WaitClosed(k), rtask' # "running"
        PROVE  ClosedMeansShut'
    <2>1. closed' /\ link' # "up"
      BY <1>8, SMT DEF CloseConnection, Close, pvars, stateVars, netVars
    <2> QED BY <1>8, <2>1 DEF WaitClosed
  <1>9. ASSUME NEW k \in Closers, BeginClose(k)
        PROVE  ClosedMeansShut'
    <2>1. CASE rtask \in {"none", "done"}
      BY <1>8, <1>9, <2>1 DEF BeginClose
    <2>2. CASE rtask \notin {"none", "done"}
      <3>1. closer' = [closer EXCEPT ![k] = "joining"]
        BY <1>9, <2>2 DEF BeginClose
      <3>2. UNCHANGED <<closed, link>>
        BY <1>9, <2>2, SMT
        DEF BeginClose, CancelReceive, pvars, stateVars, netVars
      <3>3. rtask' = "running" => rtask = "running"
        BY <1>9, <2>2 DEF BeginClose
      <3> QED BY <3>1, <3>2, <3>3
    <2> QED BY <2>1, <2>2
  <1>10. ASSUME NEW k \in Closers, CloseReturns(k) \/ CancelClose(k)
         PROVE  ClosedMeansShut'
    <2>1. UNCHANGED <<closed, link, rtask>>
      BY <1>10 DEF CloseReturns, CancelClose, svars, pvars, stateVars, netVars
    <2>2. closer' = closer \/ (closer[k] = "closing" /\ WaitClosed(k))
          \/ (closer[k] = "closing" /\ closer' = [closer EXCEPT ![k] = "cancelled"])
      BY <1>10 DEF CloseReturns, CancelClose, closeVars
    <2> QED BY <2>1, <2>2 DEF WaitClosed
  <1>11. CASE LoopEnvironment
    <2>1. closed' = closed
      BY <1>11
      DEF LoopEnvironment, Environment, VmTakes, VmReplies, VmRepliesOneWay,
          VmSendsCommand, VmSendsGarbage, VmHangsUp, LinkLost, LinkClosed, stateVars
    <2>2. ~Close
      BY <2>1 DEF Close
    <2> QED BY <1>3, <1>11, <2>2 DEF LoopEnvironment, loopVars
  <1>12. CASE UNCHANGED avars
    BY <1>12 DEF avars, loopVars, closeVars, svars, pvars, stateVars, netVars
  <1>13. ASSUME NEW k \in Closers, CloseStep(k)
         PROVE  ClosedMeansShut'
    BY <1>8, <1>10, <1>13 DEF CloseStep, CloseDelegate
  <1>14. CASE LoopSendOneWay
    <2>1. closed' = closed
      BY <1>14
      DEF LoopSendOneWay, SendOneWayCommand, SendOneWay, svars, pvars, stateVars
    <2>2. ~Close
      BY <2>1 DEF Close
    <2>3. UNCHANGED closeVars /\ (rtask' = "running" => rtask = "running")
      BY <1>14 DEF LoopSendOneWay, StartLoop
    <2> QED BY <1>3, <2>2, <2>3
  <1> QED
    BY <1>4, <1>5, <1>6, <1>7, <1>9, <1>10, <1>11, <1>12, <1>13, <1>14
    DEF AsyncNext

(* However a close() ends, nothing is left open.                            *)
THEOREM AsyncCloseLeavesNothingOpen == AsyncSpec => []CloseLeavesNothingOpen
  <1>1. AsyncInit => ClosedMeansShut
    BY DEF AsyncInit, SimpleInit, PacketInit, ClosedMeansShut
  <1>2. Inv /\ ClosedMeansShut => CloseLeavesNothingOpen
    BY DEF Inv, PacketInv, SweptWhenDown, Down, ClosedMeansShut,
           CloseLeavesNothingOpen
  <1>3. AsyncSpec => [](Inv /\ OnlyTaskReads)
    BY AsyncInv
  <1> QED BY <1>1, <1>2, <1>3, ClosedStaysShut, PTL DEF AsyncSpec

------------------------------------------------------------------------------
(* The wrapper hands the VM's commands over in order, each once, for any   *)
(* number of them, of receivers and of closers.                            *)

Handed == Len(taken) + Len(queue)

(* The inductive invariant behind CommandsInOrder, beside Inv: the commands *)
(* on the wire are in order and follow those already handed over or queued. *)
HandedInOrder ==
  /\ taken \in Seq(Nat) /\ queue \in Seq(Nat)
  /\ \A k \in 1..Len(taken) : taken[k] = k
  /\ \A k \in 1..Len(queue) : queue[k] = Len(taken) + k
  /\ Handed <= sent

WireInOrder ==
  /\ \A k \in 1..Len(wire) :
       wire[k].kind = "command" => wire[k].event \in (Handed + 1)..sent
  /\ \A j, k \in 1..Len(wire) :
       j < k /\ wire[j].kind = "command" /\ wire[k].kind = "command"
         => wire[j].event < wire[k].event

NoneMissing == rtask # "done" => \A n \in (Handed + 1)..sent : OnWire(n)

OrderInv == HandedInOrder /\ WireInOrder /\ NoneMissing

------------------------------------------------------------------------------
(* Steps that hand nothing over.                                            *)
LEMMA OrderFrame ==
  ASSUME OrderInv, UNCHANGED <<taken, queue, sent, wire>>,
         rtask' # "done" => rtask # "done"
  PROVE  OrderInv'
  BY DEF OrderInv, HandedInOrder, WireInOrder, NoneMissing, Handed, OnWire

(* The read task consumes a packet that is no command, or ends.             *)
LEMMA OrderConsumed ==
  ASSUME OrderInv, wire \in Seq(Messages), wire # <<>>, wire' = Tail(wire),
         UNCHANGED <<taken, queue, sent>>,
         \/ Head(wire).kind # "command" /\ rtask' = rtask
         \/ rtask' = "done"
  PROVE  OrderInv'
  <1>0. HandedInOrder' /\ Handed' = Handed
    BY DEF OrderInv, HandedInOrder, Handed
  <1>1. /\ Len(wire) \in Nat /\ Len(wire') = Len(wire) - 1
        /\ \A k \in 1..Len(wire') : k + 1 \in 1..Len(wire) /\ wire'[k] = wire[k + 1]
        /\ Head(wire) = wire[1]
    BY SMT
  <1>2. WireInOrder'
    BY <1>0, <1>1, SMT DEF OrderInv, WireInOrder
  <1>3. NoneMissing'
    <2> SUFFICES ASSUME rtask' # "done", NEW n \in (Handed + 1)..sent
                 PROVE  OnWire(n)'
      BY <1>0 DEF NoneMissing
    <2>1. OnWire(n)
      BY DEF OrderInv, NoneMissing
    <2>2. PICK k \in 1..Len(wire) : wire[k].kind = "command" /\ wire[k].event = n
      BY <2>1 DEF OnWire
    <2>3. k # 1
      BY <1>1, <2>2
    <2>4. k - 1 \in 1..Len(wire') /\ wire'[k - 1] = wire[k]
      BY <1>1, <2>3, SMT
    <2> QED BY <2>2, <2>4 DEF OnWire
  <1> QED BY <1>0, <1>2, <1>3 DEF OrderInv

(* The read task queues the first command on the wire: the next one.        *)
LEMMA OrderQueued ==
  ASSUME OnlyTaskReads, OrderInv, wire \in Seq(Messages), sent \in Nat, LoopCommand
  PROVE  OrderInv'
  <1> DEFINE e == Head(wire).event
  <1>0. /\ wire # <<>> /\ wire' = Tail(wire) /\ Head(wire).kind = "command"
        /\ reader = "reading" /\ reader' = "reading" /\ rtask' = rtask
        /\ UNCHANGED <<taken, sent>> /\ queue' = Append(queue, e)
    BY DEF LoopCommand, ReceiveCommand, DeliverCommand, CanRead
  <1>1. /\ Len(wire) \in Nat /\ Len(wire') = Len(wire) - 1 /\ 1 \in 1..Len(wire)
        /\ \A k \in 1..Len(wire') : k + 1 \in 1..Len(wire) /\ wire'[k] = wire[k + 1]
        /\ Head(wire) = wire[1]
    BY <1>0, SMT
  <1>2. rtask = "running" /\ rtask' = "running"
    BY <1>0 DEF OnlyTaskReads
  <1>3. Len(taken) \in Nat /\ Len(queue) \in Nat /\ Handed \in Nat
    BY SMT DEF OrderInv, HandedInOrder, Handed
  <1>4. e \in (Handed + 1)..sent
    BY <1>0, <1>1 DEF OrderInv, WireInOrder
  <1>5. e = Handed + 1
    <2>1. Handed + 1 \in (Handed + 1)..sent
      BY <1>3, <1>4, SMT
    <2>2. OnWire(Handed + 1)
      BY <1>2, <2>1 DEF OrderInv, NoneMissing
    <2>3. PICK k \in 1..Len(wire) :
            wire[k].kind = "command" /\ wire[k].event = Handed + 1
      BY <2>2 DEF OnWire
    <2>4. CASE k = 1
      BY <1>1, <2>3, <2>4
    <2>5. CASE k # 1
      <3>1. 1 < k
        BY <1>1, <2>5, SMT
      <3>2. wire[1].event < wire[k].event
        BY <1>0, <1>1, <2>3, <3>1 DEF OrderInv, WireInOrder
      <3> QED BY <1>1, <1>3, <1>4, <2>3, <3>2, SMT
    <2> QED BY <2>4, <2>5
  <1> HIDE DEF e
  <1>6. /\ queue' \in Seq(Nat) /\ Len(queue') = Len(queue) + 1
        /\ \A k \in 1..Len(queue) : queue'[k] = queue[k]
        /\ queue'[Len(queue) + 1] = e
    <2>1. queue \in Seq(Nat) /\ e \in Nat
      BY <1>3, <1>5, SMT DEF OrderInv, HandedInOrder
    <2> QED BY <1>0, <2>1, SMT
  <1>7. Handed' = Handed + 1
    BY <1>0, <1>3, <1>6, SMT DEF Handed
  <1>8. HandedInOrder'
    <2>1. \A k \in 1..Len(queue') : queue'[k] = Len(taken) + k
      <3> TAKE k \in 1..Len(queue')
      <3>1. k \in 1..Len(queue) \/ k = Len(queue) + 1
        BY <1>3, <1>6, SMT
      <3>2. CASE k \in 1..Len(queue)
        BY <1>6, <3>2 DEF OrderInv, HandedInOrder
      <3>3. CASE k = Len(queue) + 1
        BY <1>3, <1>5, <1>6, <3>3, SMT DEF Handed
      <3> QED BY <3>1, <3>2, <3>3
    <2>2. Handed' <= sent'
      BY <1>0, <1>3, <1>4, <1>5, <1>7, SMT
    <2> QED BY <1>0, <1>6, <2>1, <2>2 DEF OrderInv, HandedInOrder
  <1>9. WireInOrder'
    <2>1. ASSUME NEW k \in 1..Len(wire'), wire'[k].kind = "command"
          PROVE  wire'[k].event \in (Handed' + 1)..sent'
      <3>1. k + 1 \in 1..Len(wire) /\ wire'[k] = wire[k + 1] /\ 1 < k + 1
        BY <1>1, SMT
      <3>2. wire[k + 1].event \in (Handed + 1)..sent
        BY <2>1, <3>1 DEF OrderInv, WireInOrder
      <3>3. wire[1].event < wire[k + 1].event
        BY <1>0, <1>1, <2>1, <3>1 DEF OrderInv, WireInOrder
      <3>4. wire[1].event = Handed + 1
        BY <1>1, <1>5 DEF e
      <3> QED BY <1>0, <1>3, <1>7, <3>1, <3>2, <3>3, <3>4, SMT
    <2>2. ASSUME NEW j \in 1..Len(wire'), NEW k \in 1..Len(wire'), j < k,
                 wire'[j].kind = "command", wire'[k].kind = "command"
          PROVE  wire'[j].event < wire'[k].event
      <3>1. /\ j + 1 \in 1..Len(wire) /\ wire'[j] = wire[j + 1]
            /\ k + 1 \in 1..Len(wire) /\ wire'[k] = wire[k + 1]
            /\ j + 1 < k + 1
        BY <1>1, <2>2, SMT
      <3> QED BY <2>2, <3>1 DEF OrderInv, WireInOrder
    <2> QED BY <2>1, <2>2 DEF WireInOrder
  <1>10. NoneMissing'
    <2> SUFFICES ASSUME NEW n \in (Handed + 2)..sent
                 PROVE  OnWire(n)'
      BY <1>0, <1>3, <1>7, SMT DEF NoneMissing
    <2>1. n \in (Handed + 1)..sent /\ n # Handed + 1
      BY <1>3, SMT
    <2>2. PICK k \in 1..Len(wire) : wire[k].kind = "command" /\ wire[k].event = n
      BY <1>2, <2>1 DEF OrderInv, NoneMissing, OnWire
    <2>3. k # 1
      BY <1>1, <1>5, <2>1, <2>2 DEF e
    <2>4. k - 1 \in 1..Len(wire') /\ wire'[k - 1] = wire[k]
      BY <1>1, <2>3, SMT
    <2> QED BY <2>2, <2>4 DEF OnWire
  <1> QED BY <1>2, <1>8, <1>9, <1>10 DEF OrderInv

(* A packet arrives: the VM's next command, or none.                        *)
LEMMA OrderArrived ==
  ASSUME OrderInv, wire \in Seq(Messages), sent \in Nat,
         NEW m, wire' = Append(wire, m),
         \/ m.kind # "command" /\ sent' = sent
         \/ m.kind = "command" /\ sent' = sent + 1 /\ m.event = sent + 1,
         UNCHANGED <<taken, queue, rtask>>
  PROVE  OrderInv'
  <1>0. Handed \in Nat /\ Handed' = Handed /\ Handed <= sent
    BY SMT DEF OrderInv, HandedInOrder, Handed
  <1>1. HandedInOrder'
    BY <1>0, SMT DEF OrderInv, HandedInOrder
  <1>2. /\ Len(wire) \in Nat /\ Len(wire') = Len(wire) + 1
        /\ \A k \in 1..Len(wire) : k \in 1..Len(wire') /\ wire'[k] = wire[k]
        /\ Len(wire') \in 1..Len(wire') /\ wire'[Len(wire')] = m
        /\ \A k \in 1..Len(wire') : k \in 1..Len(wire) \/ k = Len(wire')
    BY SMT
  <1>3. \A k \in 1..Len(wire) : wire[k].kind = "command" =>
          wire[k].event \in (Handed + 1)..sent
    BY DEF OrderInv, WireInOrder
  <1>4. ASSUME NEW k \in 1..Len(wire'), wire'[k].kind = "command"
        PROVE  wire'[k].event \in (Handed' + 1)..sent'
    <2>1. CASE k \in 1..Len(wire)
      <3>1. wire[k].event \in (Handed + 1)..sent /\ wire'[k] = wire[k]
        BY <1>2, <1>3, <1>4, <2>1
      <3> QED BY <1>0, <3>1, SMT
    <2>2. CASE k = Len(wire')
      <3>1. m.event = sent + 1 /\ sent' = sent + 1 /\ wire'[k] = m
        BY <1>2, <1>4, <2>2
      <3> QED BY <1>0, <3>1, SMT
    <2> QED BY <1>2, <2>1, <2>2
  <1>5. ASSUME NEW j \in 1..Len(wire'), NEW k \in 1..Len(wire'), j < k,
               wire'[j].kind = "command", wire'[k].kind = "command"
        PROVE  wire'[j].event < wire'[k].event
    <2>1. j \in 1..Len(wire) /\ wire'[j] = wire[j]
      BY <1>2, <1>5, SMT
    <2>2. CASE k \in 1..Len(wire)
      BY <1>2, <1>5, <2>1, <2>2 DEF OrderInv, WireInOrder
    <2>3. CASE k = Len(wire')
      <3>1. wire'[k].event = sent + 1
        BY <1>2, <1>5, <2>3
      <3>2. wire[j].event \in (Handed + 1)..sent
        BY <1>3, <1>5, <2>1
      <3> QED BY <1>0, <2>1, <3>1, <3>2, SMT
    <2> QED BY <1>2, <2>2, <2>3
  <1>6. NoneMissing'
    <2> SUFFICES ASSUME rtask # "done", NEW n \in (Handed + 1)..sent'
                 PROVE  OnWire(n)'
      BY <1>0 DEF NoneMissing
    <2>1. CASE n \in (Handed + 1)..sent
      <3>1. PICK k \in 1..Len(wire) : wire[k].kind = "command" /\ wire[k].event = n
        BY <2>1 DEF OrderInv, NoneMissing, OnWire
      <3> QED BY <1>2, <3>1 DEF OnWire
    <2>2. CASE n \notin (Handed + 1)..sent
      <3>1. n = sent + 1 /\ sent' # sent
        BY <1>0, <2>2, SMT
      <3>2. m.kind = "command" /\ m.event = n
        BY <3>1
      <3> QED BY <1>2, <3>2 DEF OnWire
    <2> QED BY <2>1, <2>2
  <1>7. WireInOrder'
    BY <1>4, <1>5 DEF WireInOrder
  <1> QED BY <1>1, <1>6, <1>7 DEF OrderInv

(* A receiver is handed the oldest command of the queue.                    *)
LEMMA OrderTaken ==
  ASSUME OrderInv, NEW g \in Getters, GetterTakes(g)
  PROVE  OrderInv'
  <1>0. /\ queue # <<>> /\ taken' = Append(taken, Head(queue)) /\ queue' = Tail(queue)
        /\ UNCHANGED <<sent, wire, rtask, reader>>
    BY DEF GetterTakes, svars, pvars, netVars, readVars
  <1>1. taken \in Seq(Nat) /\ queue \in Seq(Nat)
    BY DEF OrderInv, HandedInOrder
  <1>2. /\ queue' \in Seq(Nat) /\ Len(queue) \in Nat /\ Len(queue') = Len(queue) - 1
        /\ \A k \in 1..Len(queue') : k + 1 \in 1..Len(queue) /\ queue'[k] = queue[k + 1]
        /\ Head(queue) = queue[1] /\ 1 \in 1..Len(queue) /\ Head(queue) \in Nat
    BY <1>0, <1>1, SMT
  <1>3. /\ taken' \in Seq(Nat) /\ Len(taken) \in Nat /\ Len(taken') = Len(taken) + 1
        /\ \A k \in 1..Len(taken) : taken'[k] = taken[k]
        /\ taken'[Len(taken) + 1] = Head(queue)
    BY <1>0, <1>1, <1>2, SMT
  <1>4. Head(queue) = Len(taken) + 1
    BY <1>2 DEF OrderInv, HandedInOrder
  <1>5. Handed' = Handed
    BY <1>2, <1>3, SMT DEF Handed
  <1>6. \A k \in 1..Len(taken') : taken'[k] = k
    <2> TAKE k \in 1..Len(taken')
    <2>1. k \in 1..Len(taken) \/ k = Len(taken) + 1
      BY <1>3, SMT
    <2> QED BY <1>3, <1>4, <2>1 DEF OrderInv, HandedInOrder
  <1>7. \A k \in 1..Len(queue') : queue'[k] = Len(taken') + k
    <2> TAKE k \in 1..Len(queue')
    <2>1. queue'[k] = Len(taken) + (k + 1)
      BY <1>2 DEF OrderInv, HandedInOrder
    <2> QED BY <1>2, <1>3, <2>1, SMT
  <1>8. HandedInOrder'
    BY <1>0, <1>2, <1>3, <1>5, <1>6, <1>7 DEF OrderInv, HandedInOrder
  <1> QED
    BY <1>0, <1>5, <1>8
    DEF OrderInv, WireInOrder, NoneMissing, OnWire

------------------------------------------------------------------------------
(* The read task's steps.                                                   *)
LEMMA LoopStepOrder ==
  ASSUME OnlyTaskReads, OrderInv, wire \in Seq(Messages), sent \in Nat, LoopStep
  PROVE  OrderInv'
  <1>1. CASE LoopBegins
    <2>1. UNCHANGED <<taken, queue>>
      BY <1>1 DEF LoopBegins
    <2>2. UNCHANGED <<sent, wire>>
      BY <1>1, LoopBeginsAlone DEF CallReceive, pvars, netVars
    <2>3. rtask # "done"
      BY <1>1 DEF LoopBegins
    <2> QED BY <2>1, <2>2, <2>3, OrderFrame
  <1>2. CASE LoopNeverBegins
    BY <1>2, OrderFrame DEF LoopNeverBegins, svars, pvars, netVars
  <1>3. CASE LoopReply
    BY <1>3, OrderConsumed DEF LoopReply, DeliverReply, CanRead, loopVars
  <1>4. CASE LoopCommand
    BY <1>4, OrderQueued
  <1>5. CASE LoopUnparsable
    BY <1>5, OrderConsumed
    DEF LoopUnparsable, LoopEnds, ReceiveCommand, DeliverCommand, CanRead
  <1>6. CASE LoopFails \/ LoopCancelled
    <2>1. /\ UNCHANGED <<taken, queue, sent>> /\ rtask' = "done"
          /\ wire' = wire \/ (wire # <<>> /\ wire' = Tail(wire))
      BY <1>6
      DEF LoopFails, LoopCancelled, LoopEnds, ReceiveFails, ReceiveCancelled,
          CanRead, netVars
    <2> QED BY <2>1, OrderFrame, OrderConsumed
  <1> QED BY <1>1, <1>2, <1>3, <1>4, <1>5, <1>6 DEF LoopStep

(* What the network and the VM do.                                          *)
LEMMA EnvironmentOrder ==
  ASSUME OrderInv, wire \in Seq(Messages), sent \in Nat, Environment,
         UNCHANGED <<taken, queue, rtask>>
  PROVE  OrderInv'
  <1>1. CASE VmTakes \/ VmHangsUp \/ LinkLost \/ LinkClosed
    BY <1>1, OrderFrame DEF VmTakes, VmHangsUp, LinkLost, LinkClosed
  <1>2. ASSUME NEW c \in Calls, VmReplies(c)
        PROVE  OrderInv'
    BY <1>2, OrderArrived DEF VmReplies, Reply
  <1>3. ASSUME NEW i \in OneWayIds, VmRepliesOneWay(i)
        PROVE  OrderInv'
    BY <1>3, OrderArrived DEF VmRepliesOneWay, Stray
  <1>4. CASE VmSendsCommand
    BY <1>4, OrderArrived DEF VmSendsCommand, Command
  <1>5. CASE VmSendsGarbage
    BY <1>5, OrderArrived DEF VmSendsGarbage, Garbage
  <1> QED BY <1>1, <1>2, <1>3, <1>4, <1>5 DEF Environment

(* What the program's tasks do: only a receiver that is handed a command    *)
(* touches the queue.                                                       *)
LEMMA ProgramOrder ==
  ASSUME OrderInv,
         \/ Enter \/ LoopSendOneWay
         \/ \E c \in Calls :
              LoopSendCommand(c) \/ LoopContinueCommand(c) \/ LoopCancelCall(c)
         \/ \E g \in Getters : GetCommand(g) \/ GetterStops(g) \/ GetterCancelled(g)
         \/ \E k \in Closers : BeginClose(k) \/ CloseStep(k) \/ CancelClose(k)
         \/ UNCHANGED avars
  PROVE  OrderInv'
  <1> USE DEF netVars
  <1>1. ASSUME UNCHANGED <<taken, queue, sent, wire>>,
               rtask' = rtask \/ (rtask = "none" /\ rtask' = "created")
                 \/ (rtask \in {"created", "doomed"} /\ rtask' = "doomed")
        PROVE  OrderInv'
    BY <1>1, OrderFrame
  <1>2. CASE Enter \/ LoopSendOneWay \/ UNCHANGED avars
    BY <1>1, <1>2
    DEF Enter, LoopSendOneWay, StartLoop, SendOneWayCommand, SendOneWay, svars,
        pvars, avars, loopVars
  <1>3. ASSUME NEW c \in Calls, LoopSendCommand(c)
        PROVE  OrderInv'
    <2>1. UNCHANGED <<sent, wire>>
      BY <1>3, SMT
      DEF LoopSendCommand, SendCommand, SendCommandPacket, SendPacket,
          RefuseDuplicate, SendOnLostLink, RefuseCall, SendFails, TurnDown,
          svars, pvars
    <2> QED BY <1>1, <1>3, <2>1 DEF LoopSendCommand, StartLoop
  <1>4. ASSUME NEW c \in Calls, LoopContinueCommand(c) \/ LoopCancelCall(c)
        PROVE  OrderInv'
    <2>1. UNCHANGED <<sent, wire>>
      BY <1>4, SMT
      DEF LoopContinueCommand, ContinueCommand, CallStep, Drained, DrainFails,
          Resume, CallCancelled, EndCall, LoopCancelCall, CancelCall
    <2> QED BY <1>1, <1>4, <2>1 DEF LoopContinueCommand, LoopCancelCall, loopVars
  <1>5. ASSUME NEW g \in Getters, GetCommand(g) \/ GetterStops(g) \/ GetterCancelled(g)
        PROVE  OrderInv'
    BY <1>1, <1>5
    DEF GetCommand, GetterStops, GetterCancelled, StartLoop, svars, pvars
  <1>6. ASSUME NEW k \in Closers, BeginClose(k) \/ CloseStep(k) \/ CancelClose(k)
        PROVE  OrderInv'
    <2>1. UNCHANGED <<sent, wire, taken, queue>>
      BY <1>6, SMT
      DEF BeginClose, CloseStep, CloseDelegate, CloseReturns, CancelClose,
          CancelReceive, CloseConnection, Close, svars, pvars
    <2>2. rtask' = rtask \/ (rtask \in {"created", "doomed"} /\ rtask' = "doomed")
      BY <1>6 DEF BeginClose, CloseStep, CloseDelegate, CloseReturns, CancelClose
    <2> QED BY <1>1, <2>1, <2>2
  <1> QED BY <1>2, <1>3, <1>4, <1>5, <1>6

LEMMA OrderNext ==
  ASSUME Inv, OnlyTaskReads, OrderInv, [AsyncNext]_avars
  PROVE  OrderInv'
  <1>0. wire \in Seq(Messages) /\ sent \in Nat
    BY PacketConnectionAssumption, SMT DEF Inv, PacketInv, PacketTypeOK
  <1>1. CASE LoopStep
    BY <1>0, <1>1, LoopStepOrder
  <1>2. CASE LoopEnvironment
    BY <1>0, <1>2, EnvironmentOrder DEF LoopEnvironment, loopVars
  <1>3. ASSUME NEW g \in Getters, GetterTakes(g)
        PROVE  OrderInv'
    BY <1>3, OrderTaken
  <1>4. CASE ~LoopStep /\ ~LoopEnvironment /\ ~(\E g \in Getters : GetterTakes(g))
    BY <1>4, ProgramOrder DEF AsyncNext
  <1> QED BY <1>1, <1>2, <1>3, <1>4

(* The commands reach the program in the order the VM sent them, each once, *)
(* and none is missing until the read task ends.                            *)
THEOREM AsyncCommandsInOrder == AsyncSpec => []CommandsInOrder
  <1>1. AsyncInit => OrderInv
    BY SMT
    DEF AsyncInit, SimpleInit, PacketInit, OrderInv, HandedInOrder, WireInOrder,
        NoneMissing, Handed
  <1>2. OrderInv => CommandsInOrder
    <2> SUFFICES ASSUME OrderInv PROVE CommandsInOrder
      OBVIOUS
    <2>1. taken \in Seq(Nat) /\ queue \in Seq(Nat)
      BY DEF OrderInv, HandedInOrder
    <2>2. /\ Len(taken) \in Nat /\ Len(queue) \in Nat
          /\ Len(taken \o queue) = Handed
          /\ \A k \in 1..Len(taken \o queue) :
               (taken \o queue)[k] =
                 IF k <= Len(taken) THEN taken[k] ELSE queue[k - Len(taken)]
      BY <2>1, SMT DEF Handed
    <2>3. \A k \in 1..Len(taken \o queue) : (taken \o queue)[k] = k
      <3> TAKE k \in 1..Len(taken \o queue)
      <3>1. CASE k <= Len(taken)
        BY <2>2, <3>1, SMT DEF OrderInv, HandedInOrder
      <3>2. CASE ~(k <= Len(taken))
        <4>1. k - Len(taken) \in 1..Len(queue)
          BY <2>2, <3>2, SMT DEF Handed
        <4>2. queue[k - Len(taken)] = Len(taken) + (k - Len(taken))
          BY <4>1 DEF OrderInv, HandedInOrder
        <4> QED BY <2>2, <3>2, <4>2, SMT
      <3> QED BY <3>1, <3>2
    <2> QED BY <2>2, <2>3 DEF OrderInv, NoneMissing, CommandsInOrder
  <1>3. AsyncSpec => [](Inv /\ OnlyTaskReads)
    BY AsyncInv
  <1> QED BY <1>1, <1>2, <1>3, OrderNext, PTL DEF AsyncSpec
==============================================================================
