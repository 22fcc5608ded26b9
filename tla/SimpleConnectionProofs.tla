------------------------ MODULE SimpleConnectionProofs ------------------------
(* Theorems about SimpleConnection, for any calls, id width and bounds:     *)
(* it uses the packet connection as PacketSpec allows, no call is lost or   *)
(* given another call's reply, and it implements CommandExchange.           *)
EXTENDS SimpleConnection, PacketConnectionProofs

(* Every step of the layer is a step of the packet connection or leaves it  *)
(* alone.                                                                   *)
LEMMA SimpleStepIsPacketStep ==
  ASSUME [SimpleNext]_svars
  PROVE  [PacketNext]_pvars
  <1>1. ASSUME NEW c \in Calls, SendCommand(c)
        PROVE  PacketNext
    <2>1. CASE nextId \in PacketIds /\ SendCommandPacket(c, nextId)
      BY <2>1 DEF PacketNext
    <2>2. CASE RefuseCall(c) \/ SendFails(c)
      BY <2>2 DEF PacketNext
    <2> QED BY <1>1, <2>1, <2>2 DEF SendCommand
  <1>2. ASSUME NEW c \in Calls, ContinueCommand(c)
        PROVE  PacketNext
    BY <1>2 DEF ContinueCommand, PacketNext
  <1>8. CASE SendOneWayCommand
    BY <1>8 DEF SendOneWayCommand, PacketNext
  <1>3. ASSUME NEW next \in {"idle", "reading"}, ReceiveCommand(next)
        PROVE  PacketNext
    BY <1>3 DEF ReceiveCommand, PacketNext
  <1>4. CASE ReceiveStep
    BY <1>4 DEF ReceiveStep, PacketNext
  <1>5. CASE UserStep
    BY <1>5 DEF UserStep, PacketNext, EnterReceive
  <1>9. CASE SecondReceiver
    BY <1>9 DEF SecondReceiver, PacketNext, EnterReceive
  <1>6. CASE EnvironmentStep
    BY <1>6 DEF EnvironmentStep, PacketNext
  <1>7. CASE UNCHANGED svars
    BY <1>7 DEF svars
  <1> QED
    BY <1>1, <1>2, <1>3, <1>4, <1>5, <1>6, <1>7, <1>8, <1>9
    DEF SimpleNext, OneReceiverNext

(* Nobody reads in another's place.                                         *)
LEMMA NoCrowd ==
  ASSUME [SimpleNext]_svars
  PROVE  crowded' = crowded
  <1> USE DEF readVars
  <1>1. ASSUME NEW c \in Calls, SendCommand(c)
        PROVE  crowded' = crowded
    BY <1>1, SMT
    DEF SendCommand, SendCommandPacket, SendPacket, RefuseDuplicate, SendOnLostLink,
        RefuseCall, SendFails, TurnDown
  <1>2. ASSUME NEW c \in Calls, ContinueCommand(c)
        PROVE  crowded' = crowded
    BY <1>2, SMT
    DEF ContinueCommand, CallStep, Drained, DrainFails, Resume, CallCancelled, EndCall
  <1>3. CASE SendOneWayCommand
    BY <1>3 DEF SendOneWayCommand, SendOneWay, pvars
  <1>4. ASSUME NEW next \in {"idle", "reading"}, ReceiveCommand(next)
        PROVE  crowded' = crowded
    BY <1>4 DEF ReceiveCommand, DeliverCommand
  <1>5. CASE ReceiveStep
    BY <1>5 DEF ReceiveStep, DeliverReply, ReceiveFails, ReceiveCancelled
  <1>6. CASE UserStep \/ SecondReceiver
    BY <1>6
    DEF UserStep, SecondReceiver, CallReceive, ReceiveClash, CancelReceive, Close, CancelCall
  <1>7. CASE EnvironmentStep
    BY <1>7, SMT
    DEF EnvironmentStep, Environment, VmTakes, VmReplies, VmRepliesOneWay,
        VmSendsCommand, VmSendsGarbage, VmHangsUp, LinkLost, LinkClosed
  <1>8. CASE UNCHANGED svars
    BY <1>8 DEF svars, pvars
  <1> QED
    BY <1>1, <1>2, <1>3, <1>4, <1>5, <1>6, <1>7, <1>8
    DEF SimpleNext, OneReceiverNext

(* SimpleConnection is a PacketConnection whose caller numbers its packets. *)
THEOREM SimpleIsPacket == SimpleSpec => PacketSpec
  <1>1. SimpleInit => PacketInit
    BY DEF SimpleInit
  <1> QED BY <1>1, SimpleStepIsPacketStep, PTL DEF SimpleSpec, PacketSpec

LEMMA SimplePacketInv == SimpleSpec => []PacketInv
  BY SimpleIsPacket, PacketInvariant, PTL

------------------------------------------------------------------------------
(* Both invariants together.                                                *)
Inv == PacketInv /\ SimpleInv

(* The parts of SimpleInv about the calls, and about the VM and the wire.   *)
CallsInv == IdsAreFresh /\ WaiterRegistered /\ OwnReply /\ FailuresHaveCause
VmInv == SentOnce /\ RepliesOnTheWire /\ ResultsAreAnswers

LEMMA PidsArePositive ==
  ASSUME PacketInv, NEW c \in Calls, fut[c] # "none"
  PROVE  pid[c] \in PacketIds /\ pid[c] # 0
  BY SimpleConnectionAssumption, SMT DEF PacketInv, CallPhases

(* A packet with the next id keeps the ids fresh; so does an id not used.   *)
LEMMA FreshIds ==
  ASSUME PacketTypeOK, SimpleTypeOK, IdsAreFresh, nextId' = nextId + 1,
         \/ pid' = pid
         \/ \E c \in Calls : pid' = [pid EXCEPT ![c] = nextId]
  PROVE  IdsAreFresh'
  <1>1. pid \in [Calls -> Nat] /\ nextId \in Nat
    BY SimpleConnectionAssumption, SMT DEF PacketTypeOK, SimpleTypeOK
  <1>2. CASE pid' = pid
    BY <1>1, <1>2, SMT DEF IdsAreFresh
  <1>3. ASSUME NEW c \in Calls, pid' = [pid EXCEPT ![c] = nextId]
        PROVE  IdsAreFresh'
    BY <1>1, <1>3, SMT DEF IdsAreFresh
  <1> QED BY <1>2, <1>3

(* What holds of every packet on the wire holds of what is left of it.      *)
LEMMA WireTail ==
  ASSUME PacketTypeOK, RepliesOnTheWire,
         UNCHANGED <<pid, owed, answered>>,
         wire' = wire \/ (wire # <<>> /\ wire' = Tail(wire))
  PROVE  RepliesOnTheWire'
  <1>1. CASE wire' = wire
    BY <1>1 DEF RepliesOnTheWire
  <1>2. CASE wire # <<>> /\ wire' = Tail(wire)
    <2>1. \A k \in 1..Len(wire') : k + 1 \in 1..Len(wire) /\ wire'[k] = wire[k + 1]
      BY <1>2, SMT DEF PacketTypeOK
    <2> QED BY <2>1 DEF RepliesOnTheWire
  <1> QED BY <1>1, <1>2

LEMMA SendCallsInv ==
  ASSUME Inv, NEW c \in Calls, SendCommand(c)
  PROVE  CallsInv' /\ VmInv'
  <1> USE DEF Inv, PacketInv, SimpleInv, PacketTypeOK, SimpleTypeOK
  <1>0. nextId' = nextId + 1 /\ nextId \in Nat \ {0}
    BY DEF SendCommand, AllocatePacketId
  <1>1. CASE nextId \in PacketIds /\ SendPacket(c, nextId)
    <2>0. pc[c] = "new" /\ fut[c] = "none"
      BY <1>1 DEF SendPacket, CallPhases
    <2>1. IdsAreFresh'
      BY <1>0, <1>1, FreshIds DEF SendPacket
    <2>2. WaiterRegistered'
      BY <1>0, <1>1, SMT
      DEF WaiterRegistered, IdsAreFresh, SendPacket, Unresolved, Live
    <2>3. OwnReply' /\ FailuresHaveCause'
      BY <1>1, SMT DEF OwnReply, FailuresHaveCause, SendPacket, stateVars
    <2>4. SentOnce'
      <3>1. c \notin owed \cup answered /\ \A k \in 1..Len(outbox) : outbox[k] # c
        BY <2>0 DEF VmKnowsSentCalls
      <3> QED BY <1>1, <3>1, SMT DEF SentOnce, SendPacket
    <2>5. RepliesOnTheWire'
      <3>1. \A k \in 1..Len(wire) : wire[k].kind = "reply" => wire[k].for # c
        BY <2>0, PacketConnectionAssumption DEF RepliesOnTheWire, VmKnowsSentCalls
      <3> QED BY <1>1, <3>1, SMT DEF RepliesOnTheWire, SendPacket
    <2>6. ResultsAreAnswers'
      BY <1>1, SMT DEF ResultsAreAnswers, SendPacket
    <2> QED BY <2>1, <2>2, <2>3, <2>4, <2>5, <2>6 DEF CallsInv, VmInv
  <1>2. CASE nextId \in PacketIds /\ SendOnLostLink(c, nextId)
    <2>0. fut[c] = "none"
      BY <1>2 DEF SendOnLostLink, CallPhases
    <2>1. IdsAreFresh'
      BY <1>0, <1>2, FreshIds DEF SendOnLostLink
    <2>2. WaiterRegistered'
      BY <1>2, <2>0, SMT DEF WaiterRegistered, SendOnLostLink, Unresolved, Live
    <2>3. OwnReply' /\ FailuresHaveCause' /\ SentOnce' /\ ResultsAreAnswers'
      BY <1>2
      DEF OwnReply, FailuresHaveCause, SentOnce, ResultsAreAnswers,
          SendOnLostLink, stateVars, netVars
    <2>4. RepliesOnTheWire'
      <3>1. \A k \in 1..Len(wire) : wire[k].kind = "reply" => wire[k].for # c
        BY <2>0, PacketConnectionAssumption DEF RepliesOnTheWire, VmKnowsSentCalls
      <3> QED BY <1>2, <3>1, SMT DEF RepliesOnTheWire, SendOnLostLink, netVars
    <2> QED BY <2>1, <2>2, <2>3, <2>4 DEF CallsInv, VmInv
  <1>3. ASSUME NEW how \in {"refused", "failed"}, TurnDown(c, how)
        PROVE  CallsInv' /\ VmInv'
    <2> USE DEF TurnDown, stateVars, netVars
    <2>1. IdsAreFresh'
      BY <1>0, <1>3, FreshIds
    <2>2. WaiterRegistered'
      BY <1>3, SMT DEF WaiterRegistered, Unresolved, Live
    <2>3. OwnReply' /\ FailuresHaveCause' /\ VmInv'
      BY <1>3
      DEF OwnReply, FailuresHaveCause, VmInv, SentOnce, RepliesOnTheWire,
          ResultsAreAnswers
    <2> QED BY <2>1, <2>2, <2>3 DEF CallsInv
  <1> QED
    BY <1>1, <1>2, <1>3
    DEF SendCommand, SendCommandPacket, RefuseDuplicate, RefuseCall, SendFails

(* A call that leaves pops the entry of its own id: nobody else's.          *)
LEMMA EndCallCallsInv ==
  ASSUME Inv, NEW c \in Calls, pc[c] \in Live, nextId' = nextId,
         NEW how \in Ended, EndCall(c, how)
  PROVE  CallsInv' /\ VmInv'
  <1> USE DEF Inv, PacketInv, SimpleInv, PacketTypeOK, EndCall
  <1>1. pid[c] \in PacketIds /\ pid[c] # 0
    BY PidsArePositive DEF CallPhases
  <1>2. WaiterRegistered'
    <2>1. \A d \in Calls : d # c => pid[d] # pid[c]
      BY <1>1 DEF IdsAreFresh
    <2> QED BY <1>1, <2>1, SMT DEF WaiterRegistered, Unresolved, Live, Ended
  <1>3. IdsAreFresh' /\ OwnReply' /\ FailuresHaveCause' /\ VmInv'
    BY DEF IdsAreFresh, OwnReply, FailuresHaveCause, VmInv, SentOnce,
           RepliesOnTheWire, ResultsAreAnswers, stateVars, netVars
  <1> QED BY <1>2, <1>3 DEF CallsInv

LEMMA ContinueCallsInv ==
  ASSUME Inv, NEW c \in Calls, CallStep(c) \/ CancelCall(c), nextId' = nextId
  PROVE  CallsInv' /\ VmInv'
  <1> USE DEF Inv, PacketInv, SimpleInv, PacketTypeOK
  <1>1. CASE Drained(c)
    <2>1. CASE Unresolved(c)
      <3>1. UNCHANGED <<stateVars, pending, pid, fut, got, must, readVars, netVars>>
        BY <1>1, <2>1 DEF Drained
      <3>2. WaiterRegistered'
        BY <1>1, <2>1, <3>1, SMT DEF WaiterRegistered, Drained, Unresolved, Live
      <3>3. IdsAreFresh' /\ OwnReply' /\ FailuresHaveCause' /\ VmInv'
        BY <3>1
        DEF IdsAreFresh, OwnReply, FailuresHaveCause, VmInv, SentOnce,
            RepliesOnTheWire, ResultsAreAnswers, stateVars, netVars
      <3> QED BY <3>2, <3>3 DEF CallsInv
    <2>2. CASE ~Unresolved(c)
      BY <1>1, <2>2, OutcomeEnds, EndCallCallsInv DEF Drained, Live
    <2> QED BY <2>1, <2>2
  <1>2. CASE DrainFails(c)
    BY <1>2, EndCallCallsInv DEF DrainFails, Ended, Live
  <1>3. CASE Resume(c)
    BY <1>3, OutcomeEnds, EndCallCallsInv DEF Resume, Live
  <1>4. CASE CallCancelled(c)
    BY <1>4, EndCallCallsInv DEF CallCancelled, Ended
  <1>5. CASE CancelCall(c)
    <2> USE DEF CancelCall, Unresolved
    <2>1. WaiterRegistered'
      BY <1>5, SMT DEF WaiterRegistered
    <2>2. OwnReply' /\ FailuresHaveCause' /\ ResultsAreAnswers'
      BY <1>5, SMT DEF OwnReply, FailuresHaveCause, ResultsAreAnswers, stateVars, netVars
    <2>3. IdsAreFresh' /\ SentOnce' /\ RepliesOnTheWire'
      BY <1>5 DEF IdsAreFresh, SentOnce, RepliesOnTheWire, netVars
    <2> QED BY <2>1, <2>2, <2>3 DEF CallsInv, VmInv
  <1> QED BY <1>1, <1>2, <1>3, <1>4, <1>5 DEF CallStep

(* A sweep resolves every future that is waited for: all are in the table.  *)
LEMMA SweepCallsInv ==
  ASSUME Inv, NEW how \in {"exception", "cancelled"}, Sweep(how),
         how = "exception" => error' # "none", error # "none" => error' # "none",
         UNCHANGED <<pid, pc, got, owed, answered, outbox, nextId>>,
         wire' = wire \/ (wire # <<>> /\ wire' = Tail(wire))
  PROVE  CallsInv' /\ VmInv'
  <1> USE DEF Inv, PacketInv, SimpleInv, PacketTypeOK
  <1>1. WaiterRegistered'
    <2>1. \A c \in Calls : pc[c] \in Live => fut'[c] # "pending"
      <3> SUFFICES ASSUME NEW c \in Calls, pc[c] \in Live, fut'[c] = "pending"
                   PROVE  FALSE
        OBVIOUS
      <3>1. Unresolved(c)
        BY SMT DEF Sweep, Unresolved
      <3>2. Registered(c)
        BY <3>1 DEF WaiterRegistered, Registered, CallPhases
      <3> QED BY <3>1, <3>2, SMT DEF Sweep
    <2> QED BY <2>1 DEF WaiterRegistered, Unresolved
  <1>2. OwnReply' /\ ResultsAreAnswers' /\ FailuresHaveCause'
    BY SMT DEF OwnReply, ResultsAreAnswers, FailuresHaveCause, Sweep, Unresolved
  <1>3. IdsAreFresh' /\ SentOnce'
    BY DEF IdsAreFresh, SentOnce
  <1>4. RepliesOnTheWire'
    BY WireTail
  <1> QED BY <1>1, <1>2, <1>3, <1>4 DEF CallsInv, VmInv

(* The entry a reply finds belongs to the one call that it answers.         *)
LEMMA DeliverReplyCallsInv ==
  ASSUME Inv, DeliverReply, nextId' = nextId
  PROVE  CallsInv' /\ VmInv'
  <1> USE DEF Inv, PacketInv, SimpleInv, PacketTypeOK
  <1> DEFINE m == Head(wire)
             c == pending[m.id]
  <1>0. m \in Messages /\ m.kind = "reply" /\ m = wire[1] /\ 1 \in 1..Len(wire)
    BY ConsumeWire, SMT DEF DeliverReply, CanRead
  <1>1. /\ m.id \in PacketIds
        /\ m.for # NoCall =>
             m.for \in Calls /\ m.id = pid[m.for] /\ m.for \in answered
    BY <1>0, MessageKinds DEF RepliesOnTheWire
  <1>2. pending' = [pending EXCEPT ![m.id] = NoCall]
    BY DEF DeliverReply
  <1>3. UNCHANGED <<stateVars, pid, pc, owed, answered, outbox>>
        /\ wire # <<>> /\ wire' = Tail(wire)
    BY DEF DeliverReply, CanRead
  <1>4. c # NoCall => c \in Calls /\ c = m.for /\ m.for \in answered
    <2>1. m.id # 0
      BY <1>1, SimpleConnectionAssumption, SMT
    <2>2. c # NoCall => c \in Calls /\ pid[c] = m.id
      BY <1>1 DEF EntriesAreOwned
    <2>3. m.for = NoCall => \A d \in Calls : pid[d] # m.id
      BY <1>0 DEF OneWayIdsAreOwn
    <2> QED BY <1>1, <2>1, <2>2, <2>3 DEF IdsAreFresh
  <1>5. \/ /\ c # NoCall /\ fut[c] = "pending"
           /\ fut' = [fut EXCEPT ![c] = "result"]
           /\ got' = [got EXCEPT ![c] = m.for]
        \/ /\ ~(c # NoCall /\ fut[c] = "pending")
           /\ fut' = fut /\ got' = got
    BY DEF DeliverReply
  <1>6. WaiterRegistered'
    <2> SUFFICES ASSUME NEW d \in Calls, pc[d] \in Live, fut'[d] = "pending"
                 PROVE  pending'[pid[d]] = d
      BY <1>3 DEF WaiterRegistered, Unresolved
    <2>1. fut[d] = "pending"
      BY <1>5, <1>4, SMT
    <2>2. pending[pid[d]] = d
      BY <2>1 DEF WaiterRegistered, Unresolved
    <2>3. pid[d] # m.id
      BY <1>4, <1>5, <2>1, <2>2, PacketConnectionAssumption, SMT
    <2> QED BY <1>1, <1>2, <2>2, <2>3, SMT
  <1>7. OwnReply' /\ ResultsAreAnswers' /\ FailuresHaveCause'
    <2>1. UNCHANGED <<closed, error, answered>>
      BY <1>3 DEF stateVars
    <2>2. CASE c # NoCall /\ fut[c] = "pending"
      <3>1. c \in Calls /\ m.for = c /\ c \in answered
        BY <1>4, <2>2
      <3>2. fut' = [fut EXCEPT ![c] = "result"] /\ got' = [got EXCEPT ![c] = c]
        BY <1>5, <2>2, <3>1
      <3> HIDE DEF c, m
      <3> QED
        BY <2>1, <3>1, <3>2, SMT DEF OwnReply, ResultsAreAnswers, FailuresHaveCause
    <2>3. CASE ~(c # NoCall /\ fut[c] = "pending")
      <3>1. fut' = fut /\ got' = got
        BY <1>5, <2>3
      <3> HIDE DEF c, m
      <3> QED
        BY <2>1, <3>1 DEF OwnReply, ResultsAreAnswers, FailuresHaveCause
    <2> QED BY <2>2, <2>3
  <1>8. IdsAreFresh' /\ SentOnce'
    BY <1>3 DEF IdsAreFresh, SentOnce
  <1>9. RepliesOnTheWire'
    BY <1>3, WireTail
  <1> QED BY <1>6, <1>7, <1>8, <1>9 DEF CallsInv, VmInv

(* Steps that leave the calls and the table alone.                          *)
LEMMA BystanderCallsInv ==
  ASSUME Inv, UNCHANGED <<stateVars, pending, pid, pc, fut, got, nextId>>
  PROVE  CallsInv' /\ (answered \subseteq answered' => ResultsAreAnswers')
  BY DEF Inv, PacketInv, SimpleInv, CallsInv, IdsAreFresh, WaiterRegistered,
         Unresolved, OwnReply, FailuresHaveCause, ResultsAreAnswers, stateVars

LEMMA ReceiveCallsInv ==
  ASSUME Inv, nextId' = nextId,
         \/ CallReceive \/ DeliverReply \/ ReceiveFails \/ ReceiveClash
         \/ CancelReceive \/ ReceiveCancelled \/ Close
         \/ \E next \in {"idle", "reading"} : DeliverCommand(next)
  PROVE  CallsInv' /\ VmInv'
  <1>0. Inv /\ SentOnce /\ RepliesOnTheWire /\ PacketTypeOK
    BY DEF Inv, PacketInv, SimpleInv
  <1>1. CASE CallReceive \/ CancelReceive
    BY <1>0, <1>1, BystanderCallsInv
    DEF CallReceive, CancelReceive, callVars, netVars, VmInv, SentOnce,
        RepliesOnTheWire
  <1>2. CASE DeliverReply
    BY <1>2, DeliverReplyCallsInv
  <1>3. CASE ReceiveFails
    <2>1. wire' = wire \/ (wire # <<>> /\ wire' = Tail(wire))
      BY <1>3 DEF ReceiveFails, CanRead
    <2> QED BY <1>3, <2>1, SweepCallsInv, SMT DEF ReceiveFails, MarkError
  <1>4. CASE ReceiveClash
    BY <1>4, SweepCallsInv, SMT DEF ReceiveClash, MarkError, netVars
  <1>5. CASE ReceiveCancelled
    BY <1>5, SweepCallsInv, SMT DEF ReceiveCancelled, MarkError, netVars
  <1>6. CASE Close
    BY <1>6, SweepCallsInv, SMT DEF Close
  <1>7. ASSUME NEW next \in {"idle", "reading"}, DeliverCommand(next)
        PROVE  CallsInv' /\ VmInv'
    <2>1. CallsInv' /\ ResultsAreAnswers'
      BY <1>7, BystanderCallsInv DEF DeliverCommand, callVars
    <2>2. RepliesOnTheWire'
      BY <1>0, <1>7, WireTail DEF DeliverCommand, CanRead, callVars
    <2>3. SentOnce'
      BY <1>0, <1>7 DEF DeliverCommand, SentOnce
    <2> QED BY <2>1, <2>2, <2>3 DEF VmInv
  <1> QED BY <1>1, <1>2, <1>3, <1>4, <1>5, <1>6, <1>7

LEMMA EnvironmentCallsInv ==
  ASSUME Inv, Environment, nextId' = nextId
  PROVE  CallsInv' /\ VmInv'
  <1>0. Inv /\ SentOnce /\ RepliesOnTheWire /\ PacketTypeOK
    BY DEF Inv, PacketInv, SimpleInv
  <1> USE DEF callVars
  <1>1. CASE VmTakes
    <2>1. CallsInv' /\ ResultsAreAnswers'
      BY <1>1, BystanderCallsInv DEF VmTakes
    <2>2. RepliesOnTheWire'
      <3>1. Head(outbox) = outbox[1] /\ 1 \in 1..Len(outbox)
        BY <1>0, <1>1, SMT DEF VmTakes, PacketTypeOK
      <3>2. Head(outbox) \notin answered
        BY <1>0, <3>1 DEF SentOnce
      <3>3. UNCHANGED <<pid, wire, answered>> /\ owed' = owed \cup {Head(outbox)}
        BY <1>1 DEF VmTakes
      <3> QED BY <1>0, <3>2, <3>3 DEF RepliesOnTheWire
    <2>3. SentOnce'
      <3>1. \A k \in 1..Len(outbox') : k + 1 \in 1..Len(outbox) /\ outbox'[k] = outbox[k + 1]
        BY <1>0, <1>1, SMT DEF VmTakes, PacketTypeOK
      <3>2. Head(outbox) = outbox[1] /\ 1 \in 1..Len(outbox)
        BY <1>0, <1>1, SMT DEF VmTakes, PacketTypeOK
      <3>3. \A k \in 1..Len(outbox') : outbox'[k] \notin owed' \cup answered'
        BY <1>0, <1>1, <3>1, <3>2, SMT DEF VmTakes, SentOnce
      <3>4. \A j, k \in 1..Len(outbox') : j # k => outbox'[j] # outbox'[k]
        BY <1>0, <3>1, SMT DEF SentOnce
      <3>5. owed' \cap answered' = {}
        BY <1>0, <1>1, <3>2 DEF VmTakes, SentOnce
      <3> QED BY <3>3, <3>4, <3>5 DEF SentOnce
    <2> QED BY <2>1, <2>2, <2>3 DEF VmInv
  <1>2. ASSUME NEW c \in Calls, VmReplies(c)
        PROVE  CallsInv' /\ VmInv'
    <2>1. CallsInv' /\ ResultsAreAnswers'
      BY <1>2, BystanderCallsInv DEF VmReplies
    <2>2. SentOnce'
      BY <1>0, <1>2, SMT DEF VmReplies, SentOnce
    <2>3. RepliesOnTheWire'
      <3>1. \A k \in 1..Len(wire') :
              \/ k \in 1..Len(wire) /\ wire'[k] = wire[k]
              \/ wire'[k] = Reply(c)
        BY <1>0, <1>2, SMT DEF VmReplies, PacketTypeOK
      <3>2. Reply(c).id = pid[c] /\ Reply(c).for = c
        BY DEF Reply
      <3>3. pid' = pid /\ owed' = owed \ {c} /\ answered' = answered \cup {c}
        BY <1>2 DEF VmReplies
      <3> QED BY <1>0, <3>1, <3>2, <3>3 DEF RepliesOnTheWire
    <2> QED BY <2>1, <2>2, <2>3 DEF VmInv
  <1>3. ASSUME NEW m, m.kind = "reply" => m.for = NoCall, wire' = Append(wire, m),
               UNCHANGED <<stateVars, pending, callVars, outbox, owed, answered>>
        PROVE  CallsInv' /\ VmInv'
    <2>1. CallsInv' /\ ResultsAreAnswers'
      BY <1>3, BystanderCallsInv
    <2>2. SentOnce'
      BY <1>0, <1>3 DEF SentOnce
    <2>3. RepliesOnTheWire'
      <3>1. \A k \in 1..Len(wire') :
              \/ k \in 1..Len(wire) /\ wire'[k] = wire[k]
              \/ wire'[k] = m
        BY <1>0, <1>3, SMT DEF PacketTypeOK
      <3> QED BY <1>0, <1>3, <3>1 DEF RepliesOnTheWire
    <2> QED BY <2>1, <2>2, <2>3 DEF VmInv
  <1>4. CASE VmSendsCommand
    BY <1>3, <1>4 DEF VmSendsCommand, Command
  <1>5. CASE VmSendsGarbage
    BY <1>3, <1>5 DEF VmSendsGarbage, Garbage
  <1>8. ASSUME NEW i \in OneWayIds, VmRepliesOneWay(i)
        PROVE  CallsInv' /\ VmInv'
    BY <1>3, <1>8 DEF VmRepliesOneWay, Stray
  <1>6. CASE VmHangsUp \/ LinkClosed
    BY <1>0, <1>6, BystanderCallsInv
    DEF VmHangsUp, LinkClosed, VmInv, SentOnce, RepliesOnTheWire
  <1>7. CASE LinkLost
    <2>1. 1..Len(outbox') = {}
      BY <1>7, SMT DEF LinkLost
    <2> QED
      BY <1>0, <1>7, <2>1, BystanderCallsInv
      DEF LinkLost, VmInv, SentOnce, RepliesOnTheWire
  <1> QED BY <1>1, <1>2, <1>4, <1>5, <1>6, <1>7, <1>8 DEF Environment

(* A command without a response uses up an id, and nothing else of a call's.*)
LEMMA SendOneWayCallsInv ==
  ASSUME Inv, SendOneWayCommand
  PROVE  CallsInv' /\ VmInv' /\ OneWayIdsAreOwn'
  <1> USE DEF Inv, PacketInv, SimpleInv
  <1>0. /\ nextId' = nextId + 1 /\ nextId \in Nat
        /\ UNCHANGED <<stateVars, pending, callVars, outbox, owed, answered, wire>>
        /\ oneWay' \subseteq oneWay \cup {nextId}
    BY DEF SendOneWayCommand, AllocatePacketId, SendOneWay, SimpleTypeOK, pvars, netVars
  <1>1. IdsAreFresh'
    BY <1>0, FreshIds DEF callVars
  <1>2. WaiterRegistered' /\ OwnReply' /\ FailuresHaveCause' /\ VmInv'
    BY <1>0
    DEF WaiterRegistered, Unresolved, OwnReply, FailuresHaveCause, VmInv, SentOnce,
        RepliesOnTheWire, ResultsAreAnswers, callVars, stateVars
  <1>3. OneWayIdsAreOwn'
    <2>0. pid \in [Calls -> Nat]
      BY SimpleConnectionAssumption, SMT DEF PacketTypeOK
    <2>1. \A c \in Calls : pid[c] \in Nat /\ pid[c] < nextId
      BY <2>0 DEF IdsAreFresh
    <2>2. \A i \in oneWay : i \in Nat
      BY PacketConnectionAssumption, SimpleConnectionAssumption, SMT DEF PacketTypeOK
    <2>3. ASSUME NEW i \in oneWay'
          PROVE  i < nextId' /\ \A c \in Calls : pid'[c] # i
      <3>1. CASE i = nextId
        BY <1>0, <2>1, <3>1, SMT DEF callVars
      <3>2. CASE i \in oneWay
        BY <1>0, <2>2, <3>2, SMT DEF OneWayIdsAreOwn, callVars
      <3> QED BY <1>0, <2>3, <3>1, <3>2
    <2>4. ASSUME NEW k \in 1..Len(wire'), wire'[k].kind = "reply", wire'[k].for = NoCall
          PROVE  wire'[k].id < nextId' /\ \A c \in Calls : pid'[c] # wire'[k].id
      <3>1. k \in 1..Len(wire) /\ wire'[k] = wire[k]
        BY <1>0, <2>4
      <3>2. wire[k].id \in Nat
        <4>1. wire[k] \in Messages
          BY <3>1, SMT DEF PacketTypeOK
        <4> QED BY <2>4, <3>1, <4>1, MessageKinds, SimpleConnectionAssumption, SMT
      <3>3. wire[k].id < nextId /\ \A c \in Calls : pid[c] # wire[k].id
        BY <2>4, <3>1 DEF OneWayIdsAreOwn
      <3> QED BY <1>0, <3>1, <3>2, <3>3, SMT DEF callVars
    <2> QED BY <2>3, <2>4 DEF OneWayIdsAreOwn
  <1> QED BY <1>1, <1>2, <1>3 DEF CallsInv

(* Whatever comes from the wire, or is put on it and answers a call, leaves *)
(* the ids of the commands without a response alone.                        *)
LEMMA OneWayKept ==
  ASSUME PacketTypeOK, OneWayIdsAreOwn, nextId \in Nat,
         UNCHANGED <<pid, nextId>>, oneWay' \subseteq oneWay,
         \/ wire' = wire
         \/ wire # <<>> /\ wire' = Tail(wire)
         \/ \E m : /\ wire' = Append(wire, m)
                   /\ m.kind = "reply" /\ m.for = NoCall => m.id \in oneWay
  PROVE  OneWayIdsAreOwn'
  <1>1. \A i \in oneWay' : i < nextId' /\ \A c \in Calls : pid'[c] # i
    BY DEF OneWayIdsAreOwn
  <1>2. ASSUME NEW k \in 1..Len(wire'), wire'[k].kind = "reply", wire'[k].for = NoCall
        PROVE  wire'[k].id < nextId' /\ \A c \in Calls : pid'[c] # wire'[k].id
    <2>1. CASE wire' = wire
      BY <1>2, <2>1 DEF OneWayIdsAreOwn
    <2>2. CASE wire # <<>> /\ wire' = Tail(wire)
      <3>1. k + 1 \in 1..Len(wire) /\ wire'[k] = wire[k + 1]
        BY <1>2, <2>2, SMT DEF PacketTypeOK
      <3> QED BY <1>2, <3>1 DEF OneWayIdsAreOwn
    <2>3. ASSUME NEW m, wire' = Append(wire, m),
                 m.kind = "reply" /\ m.for = NoCall => m.id \in oneWay
          PROVE  wire'[k].id < nextId' /\ \A c \in Calls : pid'[c] # wire'[k].id
      <3>1. (k \in 1..Len(wire) /\ wire'[k] = wire[k]) \/ wire'[k] = m
        BY <1>2, <2>3, SMT DEF PacketTypeOK
      <3>2. CASE k \in 1..Len(wire) /\ wire'[k] = wire[k]
        BY <1>2, <3>2 DEF OneWayIdsAreOwn
      <3>3. CASE wire'[k] = m
        <4>1. m.id \in oneWay
          BY <1>2, <2>3, <3>3
        <4>2. m.id < nextId /\ \A c \in Calls : pid[c] # m.id
          BY <4>1 DEF OneWayIdsAreOwn
        <4>3. nextId' = nextId /\ pid' = pid
          OBVIOUS
        <4> QED BY <3>3, <4>2, <4>3
      <3> QED BY <3>1, <3>2, <3>3
    <2> QED BY <2>1, <2>2, <2>3
  <1> QED BY <1>1, <1>2 DEF OneWayIdsAreOwn

(* The id of a new call is that of no command without a response.           *)
LEMMA SendKeepsOneWay ==
  ASSUME Inv, NEW c \in Calls, SendCommand(c)
  PROVE  OneWayIdsAreOwn'
  <1> USE DEF Inv, PacketInv, SimpleInv
  <1>0. /\ nextId' = nextId + 1 /\ nextId \in Nat
        /\ UNCHANGED <<oneWay, wire>>
        /\ pid' = pid \/ pid' = [pid EXCEPT ![c] = nextId]
    BY Zenon
    DEF SendCommand, AllocatePacketId, SimpleTypeOK, SendCommandPacket, SendPacket,
        RefuseDuplicate, SendOnLostLink, RefuseCall, SendFails, TurnDown, netVars
  <1>1. pid \in [Calls -> Nat]
    BY SimpleConnectionAssumption, SMT DEF PacketTypeOK
  <1>2. ASSUME NEW i \in Nat, i < nextId, \A d \in Calls : pid[d] # i
        PROVE  i < nextId' /\ \A d \in Calls : pid'[d] # i
    BY <1>0, <1>1, <1>2, SMT
  <1>3. \A i \in oneWay : i \in Nat
    BY PacketConnectionAssumption, SimpleConnectionAssumption, SMT DEF PacketTypeOK
  <1>4. ASSUME NEW k \in 1..Len(wire), wire[k].kind = "reply", wire[k].for = NoCall
        PROVE  wire[k].id \in Nat
    <2>1. wire[k] \in Messages
      BY SMT DEF PacketTypeOK
    <2> QED BY <1>4, <2>1, MessageKinds, SimpleConnectionAssumption, SMT
  <1> QED BY <1>0, <1>2, <1>3, <1>4 DEF OneWayIdsAreOwn

LEMMA StepKeepsOneWay ==
  ASSUME Inv, [SimpleNext]_svars
  PROVE  OneWayIdsAreOwn'
  <1>0. PacketTypeOK /\ OneWayIdsAreOwn /\ nextId \in Nat
    BY DEF Inv, PacketInv, SimpleInv, SimpleTypeOK
  <1>1. ASSUME NEW c \in Calls, SendCommand(c)
        PROVE  OneWayIdsAreOwn'
    BY <1>1, SendKeepsOneWay
  <1>2. CASE SendOneWayCommand
    BY <1>2, SendOneWayCallsInv
  <1>3. ASSUME NEW c \in Calls, ContinueCommand(c) \/ CancelCall(c), nextId' = nextId
        PROVE  OneWayIdsAreOwn'
    <2>1. UNCHANGED <<pid, oneWay, wire>>
      BY <1>3, Zenon
      DEF ContinueCommand, CallStep, Drained, DrainFails, Resume, CallCancelled,
          EndCall, CancelCall, netVars
    <2> QED BY <1>0, <1>3, <2>1, OneWayKept
  <1>4. ASSUME NEW next \in {"idle", "reading"}, ReceiveCommand(next)
        PROVE  OneWayIdsAreOwn'
    BY <1>0, <1>4, OneWayKept DEF ReceiveCommand, DeliverCommand, CanRead, callVars
  <1>5. CASE ReceiveStep
    BY <1>0, <1>5, OneWayKept
    DEF ReceiveStep, DeliverReply, ReceiveFails, ReceiveCancelled, CanRead,
        callVars, netVars
  <1>6. CASE UserStep
    <2>1. CASE \E c \in Calls : CancelCall(c)
      BY <1>3, <1>6, <2>1 DEF UserStep
    <2>2. CASE CallReceive \/ CancelReceive \/ Close
      BY <1>0, <1>6, <2>2, OneWayKept
      DEF UserStep, CallReceive, CancelReceive, Close, callVars, netVars
    <2> QED BY <1>6, <2>1, <2>2 DEF UserStep
  <1>7. CASE EnvironmentStep
    <2>1. nextId' = nextId
      BY <1>7 DEF EnvironmentStep
    <2>2. CASE VmTakes \/ VmHangsUp \/ LinkLost \/ LinkClosed
      BY <1>0, <2>1, <2>2, OneWayKept
      DEF VmTakes, VmHangsUp, LinkLost, LinkClosed, callVars
    <2>3. ASSUME NEW c \in Calls, VmReplies(c)
          PROVE  OneWayIdsAreOwn'
      <3>1. Reply(c).for # NoCall
        BY PacketConnectionAssumption DEF Reply
      <3> QED BY <1>0, <2>1, <2>3, <3>1, OneWayKept DEF VmReplies, callVars
    <2>4. ASSUME NEW i \in OneWayIds, VmRepliesOneWay(i)
          PROVE  OneWayIdsAreOwn'
      <3>1. Stray(i).id \in oneWay
        BY <2>4 DEF VmRepliesOneWay, Stray
      <3> QED BY <1>0, <2>1, <2>4, <3>1, OneWayKept DEF VmRepliesOneWay, callVars
    <2>5. CASE VmSendsCommand
      <3>1. Command(sent').kind # "reply"
        BY DEF Command
      <3> QED BY <1>0, <2>1, <2>5, <3>1, OneWayKept DEF VmSendsCommand, callVars
    <2>6. CASE VmSendsGarbage
      <3>1. Garbage.kind # "reply"
        BY DEF Garbage
      <3> QED BY <1>0, <2>1, <2>6, <3>1, OneWayKept DEF VmSendsGarbage, callVars
    <2> QED
      BY <1>7, <2>2, <2>3, <2>4, <2>5, <2>6 DEF EnvironmentStep, Environment
  <1>8. CASE UNCHANGED svars
    BY <1>0, <1>8, OneWayKept DEF svars, pvars, callVars, netVars
  <1>9. CASE SecondReceiver
    BY <1>0, <1>9, OneWayKept DEF SecondReceiver, ReceiveClash, callVars, netVars
  <1> QED
    BY <1>1, <1>2, <1>3, <1>4, <1>5, <1>6, <1>7, <1>8, <1>9
    DEF SimpleNext, OneReceiverNext, ContinueCommand

------------------------------------------------------------------------------
LEMMA SimpleTypes ==
  ASSUME SimpleTypeOK, PacketTypeOK', [SimpleNext]_svars
  PROVE  SimpleTypeOK'
  <1> USE DEF SimpleTypeOK, Sizes
  <1>1. ASSUME NEW c \in Calls, SendCommand(c)
        PROVE  SimpleTypeOK'
    BY <1>1, SMT DEF SendCommand, AllocatePacketId
  <1>2. ASSUME NEW c \in Calls, ContinueCommand(c)
        PROVE  SimpleTypeOK'
    BY <1>2, SMT DEF ContinueCommand, AdoptSizes
  <1>6. CASE SendOneWayCommand
    BY <1>6, SMT DEF SendOneWayCommand, AllocatePacketId
  <1>3. ASSUME NEW next \in {"idle", "reading"}, ReceiveCommand(next)
        PROVE  SimpleTypeOK'
    BY <1>3 DEF ReceiveCommand
  <1>4. CASE ReceiveStep \/ UserStep \/ EnvironmentStep \/ SecondReceiver
    BY <1>4 DEF ReceiveStep, UserStep, EnvironmentStep, SecondReceiver
  <1>5. CASE UNCHANGED svars
    BY <1>5 DEF svars
  <1> QED BY <1>1, <1>2, <1>3, <1>4, <1>5, <1>6 DEF SimpleNext, OneReceiverNext

LEMMA SimpleNextInv ==
  ASSUME Inv, [SimpleNext]_svars
  PROVE  Inv'
  <1>1. PacketInv'
    BY SimpleStepIsPacketStep, PacketNextInv DEF Inv
  <1>2. SimpleTypeOK'
    BY <1>1, SimpleTypes DEF Inv, SimpleInv, PacketInv
  <1>3. CallsInv' /\ VmInv'
    <2>1. ASSUME NEW c \in Calls, SendCommand(c)
          PROVE  CallsInv' /\ VmInv'
      BY <2>1, SendCallsInv
    <2>2. ASSUME NEW c \in Calls, ContinueCommand(c)
          PROVE  CallsInv' /\ VmInv'
      BY <2>2, ContinueCallsInv DEF ContinueCommand
    <2>3. ASSUME NEW next \in {"idle", "reading"}, ReceiveCommand(next)
          PROVE  CallsInv' /\ VmInv'
      BY <2>3, ReceiveCallsInv DEF ReceiveCommand
    <2>4. CASE ReceiveStep
      BY <2>4, ReceiveCallsInv DEF ReceiveStep
    <2>5. CASE UserStep
      BY <2>5, ReceiveCallsInv, ContinueCallsInv DEF UserStep
    <2>6. CASE EnvironmentStep
      BY <2>6, EnvironmentCallsInv DEF EnvironmentStep
    <2>8. CASE SendOneWayCommand
      BY <2>8, SendOneWayCallsInv
    <2>7. CASE UNCHANGED svars
      BY <2>7
      DEF Inv, SimpleInv, CallsInv, VmInv, IdsAreFresh, WaiterRegistered,
          Unresolved, OwnReply, FailuresHaveCause, SentOnce, RepliesOnTheWire,
          ResultsAreAnswers, svars, pvars, stateVars, callVars, netVars
    <2>9. CASE SecondReceiver
      BY <2>9, ReceiveCallsInv DEF SecondReceiver
    <2> QED
      BY <2>1, <2>2, <2>3, <2>4, <2>5, <2>6, <2>7, <2>8, <2>9
      DEF SimpleNext, OneReceiverNext
  <1>4. OneWayIdsAreOwn'
    BY StepKeepsOneWay
  <1>5. ~crowded'
    BY NoCrowd DEF Inv, SimpleInv
  <1> QED BY <1>1, <1>2, <1>3, <1>4, <1>5 DEF Inv, SimpleInv, CallsInv, VmInv

LEMMA SimpleInitInv == SimpleInit => Inv
  <1> SUFFICES ASSUME SimpleInit PROVE Inv
    OBVIOUS
  <1>1. PacketInv
    BY PacketInitInv DEF SimpleInit
  <1>2. SimpleTypeOK
    BY <1>1, SMT DEF SimpleInit, SimpleTypeOK, PacketInv, Sizes
  <1>3. CallsInv
    BY SMT
    DEF SimpleInit, PacketInit, CallsInv, IdsAreFresh, WaiterRegistered, OwnReply,
        FailuresHaveCause, Live
  <1>4. VmInv
    BY SMT
    DEF SimpleInit, PacketInit, VmInv, SentOnce, RepliesOnTheWire, ResultsAreAnswers
  <1>5. OneWayIdsAreOwn
    BY SMT DEF SimpleInit, PacketInit, OneWayIdsAreOwn
  <1>6. ~crowded
    BY DEF SimpleInit, PacketInit
  <1> QED BY <1>1, <1>2, <1>3, <1>4, <1>5, <1>6 DEF Inv, SimpleInv, CallsInv, VmInv

(* The inductive invariant holds in every behaviour.                        *)
THEOREM SimpleInvariant == SimpleSpec => []SimpleInv
  <1>1. Inv => SimpleInv
    BY DEF Inv
  <1> QED BY <1>1, SimpleInitInv, SimpleNextInv, PTL DEF SimpleSpec

(* The id of the next packet, the sizes and the whole packet connection     *)
(* below keep their types: in particular no call is ever numbered 0.        *)
THEOREM SimpleTyped == SimpleSpec => []SimpleTypeOK
  <1>1. SimpleInv => SimpleTypeOK
    BY DEF SimpleInv
  <1> QED BY <1>1, SimpleInvariant, PTL

(* The duplicate test of the layer below never fires for this layer.        *)
THEOREM SimpleIdsAreFresh == SimpleSpec => []IdsAreFresh
  <1>1. SimpleInv => IdsAreFresh
    BY DEF SimpleInv
  <1> QED BY <1>1, SimpleInvariant, PTL

(* The pending table and the calls agree: a call that waits is registered,  *)
(* so its reply, an error or close() reaches it.                            *)
THEOREM SimpleWaiterRegistered == SimpleSpec => []WaiterRegistered
  <1>1. SimpleInv => WaiterRegistered
    BY DEF SimpleInv
  <1> QED BY <1>1, SimpleInvariant, PTL

(* When the connection is closed or in error nobody waits for a reply that  *)
(* can no longer come.                                                      *)
THEOREM SimpleNoOrphan == SimpleSpec => []NoOrphan
  <1>1. PacketInv /\ SimpleInv => NoOrphan
    <2> SUFFICES ASSUME PacketInv, SimpleInv, Down,
                        NEW c \in Calls, pc[c] \in Live, Unresolved(c)
                 PROVE  FALSE
      BY DEF NoOrphan
    <2>1. pending[pid[c]] = c
      BY DEF SimpleInv, WaiterRegistered
    <2>2. pending = NoEntries /\ pid[c] \in PacketIds
      BY DEF PacketInv, SweptWhenDown, CallPhases
    <2> QED BY <2>1, <2>2, PacketConnectionAssumption DEF NoEntries
  <1> QED BY <1>1, SimplePacketInv, SimpleInvariant, PTL

(* No call is given the reply to another call's packet.                     *)
THEOREM SimpleOwnReply == SimpleSpec => []OwnReply
  <1>1. SimpleInv => OwnReply
    BY DEF SimpleInv
  <1> QED BY <1>1, SimpleInvariant, PTL

------------------------------------------------------------------------------
(* SimpleConnection implements CommandExchange.                             *)

Accepting == ~Down /\ link # "down"
Status == [c \in Calls |-> CallStatus(c)]
Returned == [c \in Calls |-> IF pc[c] = "replied" THEN got[c] ELSE NoCall]


(* The status of a call depends on its pc, and on its future when it failed.*)
LEMMA StatusFrame ==
  ASSUME PacketTypeOK, UNCHANGED pc,
         \A c \in Calls : pc[c] = "failed" => (fut'[c] = "none" <=> fut[c] = "none")
  PROVE  Status' = Status
  <1>1. \A c \in Calls : CallStatus(c)' = CallStatus(c)
    BY SMT DEF CallStatus, PacketTypeOK, Live
  <1> QED BY <1>1 DEF Status

LEMMA StatusOfOne ==
  ASSUME PacketTypeOK, NEW c \in Calls, NEW how, pc' = [pc EXCEPT ![c] = how],
         \A d \in Calls \ {c} : fut'[d] = fut[d]
  PROVE  Status' = [Status EXCEPT ![c] = CallStatus(c)']
  <1>1. \A d \in Calls \ {c} : CallStatus(d)' = CallStatus(d)
    BY SMT DEF CallStatus, PacketTypeOK, Live
  <1>2. Status' = [d \in Calls |-> IF d = c THEN CallStatus(c)' ELSE CallStatus(d)]
    BY <1>1, Zenon DEF Status
  <1>3. @ = [Status EXCEPT ![c] = CallStatus(c)']
    BY Zenon DEF Status
  <1> QED BY <1>2, <1>3

LEMMA ReturnedFrame ==
  ASSUME PacketTypeOK, NEW c \in Calls, NEW how,
         pc' = pc \/ (pc[c] # "replied" /\ how # "replied" /\ pc' = [pc EXCEPT ![c] = how]),
         \A d \in Calls : pc[d] = "replied" => got'[d] = got[d]
  PROVE  Returned' = Returned
  BY SMT DEF Returned, PacketTypeOK

(* A step that changes neither a status nor an answer breaks the connection *)
(* or does nothing.                                                         *)
LEMMA BreakOrStutter ==
  ASSUME Status' = Status, Returned' = Returned, answered' = answered,
         Accepting' => Accepting
  PROVE  [Exchange!ExchangeNext]_Exchange!evars
  <1>1. CASE Accepting /\ ~Accepting'
    <2>1. Exchange!Break
      BY <1>1, Zenon DEF Exchange!Break, Accepting, Status, Returned
    <2> QED BY <2>1 DEF Exchange!ExchangeNext
  <1>2. CASE Accepting' = Accepting
    <2>1. UNCHANGED Exchange!evars
      BY <1>2, Zenon DEF Exchange!evars, Accepting, Status, Returned
    <2> QED BY <2>1
  <1> QED BY <1>1, <1>2, Zenon DEF Accepting

(* A call that is turned down was never sent.                               *)
LEMMA RejectMaps ==
  ASSUME Inv, NEW c \in Calls,
         RefuseCall(c) \/ SendFails(c) \/
           \E i \in PacketIds : RefuseDuplicate(c, i) \/ SendOnLostLink(c, i)
  PROVE  [Exchange!ExchangeNext]_Exchange!evars
  <1> USE DEF SendOnLostLink, RefuseDuplicate, RefuseCall, SendFails, TurnDown, netVars
  <1>0. PacketTypeOK /\ CallPhases
    BY DEF Inv, PacketInv
  <1>1. pc[c] = "new" /\ fut[c] = "none" /\ Status[c] = "new"
    BY <1>0 DEF CallPhases, Status, CallStatus
  <1>2. PICK how \in {"failed", "refused"} : pc' = [pc EXCEPT ![c] = how]
    OBVIOUS
  <1>3. UNCHANGED <<stateVars, link, fut, got, answered>>
    OBVIOUS
  <1>4. CallStatus(c)' = "rejected"
    BY <1>0, <1>1, <1>2, <1>3, SMT DEF CallStatus, Live, PacketTypeOK
  <1>5. Status' = [Status EXCEPT ![c] = "rejected"]
    BY <1>0, <1>2, <1>3, <1>4, StatusOfOne
  <1>6. Returned' = Returned
    BY <1>0, <1>1, <1>2, <1>3, ReturnedFrame
  <1>7. Accepting' <=> Accepting
    BY <1>3 DEF Accepting, Down, stateVars
  <1>8. Exchange!Reject(c)
    BY <1>1, <1>3, <1>5, <1>6, <1>7, Zenon
    DEF Exchange!Reject, Accepting, Status, Returned
  <1> QED BY <1>8 DEF Exchange!ExchangeNext

LEMMA SendMaps ==
  ASSUME Inv, NEW c \in Calls, NEW i \in PacketIds, SendCommandPacket(c, i)
  PROVE  [Exchange!ExchangeNext]_Exchange!evars
  <1>1. CASE SendPacket(c, i)
    <2>0. PacketTypeOK /\ CallPhases
      BY DEF Inv, PacketInv
    <2>1. pc[c] = "new" /\ Status[c] = "new"
      <3>1. pc[c] = "new"
        BY <1>1 DEF SendPacket
      <3> QED BY <2>0, <3>1 DEF CallPhases, Status, CallStatus
    <2>2. PICK how \in Live : pc' = [pc EXCEPT ![c] = how]
      BY <1>1 DEF SendPacket, Live
    <2>3. CallStatus(c)' = "pending"
      BY <2>0, <2>2, SMT DEF CallStatus, Live, PacketTypeOK
    <2>4. Status' = [Status EXCEPT ![c] = "pending"]
      <3>1. \A d \in Calls \ {c} : fut'[d] = fut[d]
        BY <1>1, <2>0, SMT DEF SendPacket, PacketTypeOK
      <3> QED BY <2>0, <2>2, <2>3, <3>1, StatusOfOne
    <2>5. Returned' = Returned
      BY <1>1, <2>0, <2>1, <2>2, ReturnedFrame DEF SendPacket, Live
    <2>6. answered' = answered /\ Accepting /\ (Accepting' <=> Accepting)
      BY <1>1 DEF SendPacket, Accepting, Down, stateVars
    <2>7. Exchange!Issue(c)
      BY <2>1, <2>4, <2>5, <2>6, Zenon
      DEF Exchange!Issue, Accepting, Status, Returned
    <2> QED BY <2>7 DEF Exchange!ExchangeNext
  <1>2. CASE RefuseDuplicate(c, i) \/ SendOnLostLink(c, i)
    BY <1>2, RejectMaps
  <1> QED BY <1>1, <1>2 DEF SendCommandPacket

(* A call ends as its future did, or is cancelled, or fails with the link.  *)
LEMMA EndCallMaps ==
  ASSUME Inv, NEW c \in Calls, pc[c] \in Live, NEW how, EndCall(c, how),
         \/ how = "replied" /\ fut[c] = "result"
         \/ how = "failed" /\ ~Accepting
         \/ how = "cancelled"
  PROVE  [Exchange!ExchangeNext]_Exchange!evars
  <1>0. PacketTypeOK /\ CallPhases
    BY DEF Inv, PacketInv
  <1>1. /\ pc' = [pc EXCEPT ![c] = how]
        /\ UNCHANGED <<stateVars, link, fut, got, answered>>
    BY DEF EndCall, netVars
  <1>2. fut[c] # "none" /\ Status[c] = "pending" /\ pc[c] # "replied"
    BY <1>0 DEF CallPhases, Status, CallStatus, Live
  <1>3. Accepting' <=> Accepting
    BY <1>1 DEF Accepting, Down, stateVars
  <1>4. Status' = [Status EXCEPT ![c] = CallStatus(c)']
    BY <1>0, <1>1, StatusOfOne
  <1>5. CASE how = "replied" /\ fut[c] = "result"
    <2>1. CallStatus(c)' = "returned"
      BY <1>0, <1>1, <1>5, SMT DEF CallStatus, Live, PacketTypeOK
    <2>2. c \in answered /\ got[c] = c
      BY <1>5 DEF Inv, SimpleInv, ResultsAreAnswers, OwnReply
    <2>3. Returned' = [Returned EXCEPT ![c] = c]
      <3>1. \A d \in Calls : pc'[d] = IF d = c THEN "replied" ELSE pc[d]
        BY <1>0, <1>1, <1>5, SMT DEF PacketTypeOK
      <3>2. Returned' = [d \in Calls |-> IF d = c THEN c ELSE
                                          IF pc[d] = "replied" THEN got[d] ELSE NoCall]
        BY <1>1, <2>2, <3>1, SMT DEF Returned
      <3> QED BY <3>2, Zenon DEF Returned
    <2>4. Exchange!Return(c)
      BY <1>1, <1>2, <1>3, <1>4, <2>1, <2>2, <2>3, Zenon
      DEF Exchange!Return, Accepting, Status, Returned
    <2> QED BY <2>4 DEF Exchange!ExchangeNext
  <1>6. CASE how # "replied"
    <2>1. Returned' = Returned
      BY <1>0, <1>1, <1>2, <1>6, ReturnedFrame
    <2>2. CASE how = "failed" /\ ~Accepting
      <3>1. CallStatus(c)' = "failed"
        BY <1>0, <1>1, <1>2, <2>2, SMT DEF CallStatus, Live, PacketTypeOK
      <3>2. Exchange!Fail(c)
        BY <1>1, <1>2, <1>3, <1>4, <2>1, <2>2, <3>1, Zenon
        DEF Exchange!Fail, Accepting, Status, Returned
      <3> QED BY <3>2 DEF Exchange!ExchangeNext
    <2>3. CASE how = "cancelled"
      <3>1. CallStatus(c)' = "cancelled"
        BY <1>0, <1>1, <2>3, SMT DEF CallStatus, Live, PacketTypeOK
      <3>2. Exchange!Cancel(c)
        BY <1>1, <1>2, <1>3, <1>4, <2>1, <3>1, Zenon
        DEF Exchange!Cancel, Accepting, Status, Returned
      <3> QED BY <3>2 DEF Exchange!ExchangeNext
    <2> QED BY <1>6, <2>2, <2>3
  <1> QED BY <1>5, <1>6

LEMMA CallMaps ==
  ASSUME Inv, NEW c \in Calls, CallStep(c) \/ CancelCall(c)
  PROVE  [Exchange!ExchangeNext]_Exchange!evars
  <1>0. PacketTypeOK /\ CallPhases
    BY DEF Inv, PacketInv
  <1>1. ASSUME pc[c] \in Live, ~Unresolved(c), EndCall(c, Outcome(c))
        PROVE  [Exchange!ExchangeNext]_Exchange!evars
    <2>1. fut[c] \in {"result", "exception", "cancelled"}
      BY <1>0, <1>1, SMT DEF PacketTypeOK, CallPhases, Unresolved
    <2>2. fut[c] = "exception" => ~Accepting
      BY DEF Inv, SimpleInv, FailuresHaveCause, Accepting, Down
    <2>3. \/ Outcome(c) = "replied" /\ fut[c] = "result"
          \/ Outcome(c) = "failed" /\ ~Accepting
          \/ Outcome(c) = "cancelled"
      BY <2>1, <2>2 DEF Outcome
    <2> QED BY <1>1, <2>3, EndCallMaps
  <1>2. CASE Drained(c)
    <2>1. CASE Unresolved(c)
      <3>1. /\ pc[c] = "draining" /\ pc' = [pc EXCEPT ![c] = "waiting"]
            /\ UNCHANGED <<stateVars, link, fut, got, answered>>
        BY <1>2, <2>1 DEF Drained, netVars
      <3>2. CallStatus(c)' = CallStatus(c)
        BY <1>0, <3>1, SMT DEF CallStatus, Live, PacketTypeOK
      <3>3. Status' = [Status EXCEPT ![c] = CallStatus(c)]
        BY <1>0, <3>1, <3>2, StatusOfOne
      <3>4. @ = Status
        BY Zenon DEF Status
      <3>5. Returned' = Returned
        BY <1>0, <3>1, ReturnedFrame
      <3>6. Accepting' <=> Accepting
        BY <3>1 DEF Accepting, Down, stateVars
      <3> QED BY <3>1, <3>3, <3>4, <3>5, <3>6, BreakOrStutter
    <2>2. CASE ~Unresolved(c)
      BY <1>1, <1>2, <2>2 DEF Drained, Live
    <2> QED BY <2>1, <2>2
  <1>3. CASE DrainFails(c)
    BY <1>3, EndCallMaps DEF DrainFails, Live, Accepting
  <1>4. CASE Resume(c)
    BY <1>1, <1>4 DEF Resume, Live
  <1>5. CASE CallCancelled(c)
    BY <1>5, EndCallMaps DEF CallCancelled
  <1>6. CASE CancelCall(c)
    <2>1. UNCHANGED <<stateVars, pc, got, link, answered>>
      BY <1>6 DEF CancelCall, netVars
    <2>2. \A d \in Calls : pc[d] = "failed" => (fut'[d] = "none" <=> fut[d] = "none")
      BY <1>0, <1>6, SMT DEF CancelCall, PacketTypeOK, Live
    <2>3. Status' = Status
      BY <1>0, <2>1, <2>2, StatusFrame
    <2>4. Returned' = Returned
      BY <2>1 DEF Returned
    <2>5. Accepting' <=> Accepting
      BY <2>1 DEF Accepting, Down, stateVars
    <2> QED BY <2>1, <2>3, <2>4, <2>5, BreakOrStutter
  <1> QED BY <1>2, <1>3, <1>4, <1>5, <1>6 DEF CallStep

(* Steps that end no call: the connection may break, the calls stay.        *)
LEMMA QuietMaps ==
  ASSUME Inv, UNCHANGED <<pc, answered>>,
         \A d \in Calls : fut'[d] = "none" <=> fut[d] = "none",
         \A d \in Calls : pc[d] = "replied" => got'[d] = got[d],
         Accepting' => Accepting
  PROVE  [Exchange!ExchangeNext]_Exchange!evars
  <1>0. PacketTypeOK
    BY DEF Inv, PacketInv
  <1>1. Status' = Status
    BY <1>0, StatusFrame
  <1>2. Returned' = Returned
    BY DEF Returned
  <1> QED BY <1>1, <1>2, BreakOrStutter

LEMMA ReceiveMaps ==
  ASSUME Inv,
         \/ CallReceive \/ DeliverReply \/ ReceiveFails \/ ReceiveClash
         \/ CancelReceive \/ ReceiveCancelled \/ Close
         \/ \E next \in {"idle", "reading"} : DeliverCommand(next)
  PROVE  [Exchange!ExchangeNext]_Exchange!evars
  <1>0. PacketTypeOK /\ EntriesAreOwned
    BY DEF Inv, PacketInv
  <1>1. CASE CallReceive \/ CancelReceive
    BY <1>1, QuietMaps
    DEF CallReceive, CancelReceive, callVars, netVars, Accepting, Down, stateVars
  <1>2. CASE DeliverReply
    <2> DEFINE m == Head(wire)
               c == pending[m.id]
    <2>1. m.id \in PacketIds
      BY <1>0, <1>2, ConsumeWire, MessageKinds DEF DeliverReply, CanRead
    <2>2. c # NoCall => c \in Calls /\ pc[c] \in Live
      BY <1>0, <2>1 DEF EntriesAreOwned, PacketTypeOK
    <2>3. \/ /\ c # NoCall /\ fut[c] = "pending"
             /\ fut' = [fut EXCEPT ![c] = "result"]
             /\ got' = [got EXCEPT ![c] = m.for]
          \/ fut' = fut /\ got' = got
      BY <1>2 DEF DeliverReply
    <2>4. \A d \in Calls : fut'[d] = "none" <=> fut[d] = "none"
      BY <1>0, <2>2, <2>3, SMT DEF PacketTypeOK
    <2>5. \A d \in Calls : pc[d] = "replied" => got'[d] = got[d]
      BY <1>0, <2>2, <2>3, SMT DEF PacketTypeOK, Live
    <2> QED
      BY <1>2, <2>4, <2>5, QuietMaps DEF DeliverReply, Accepting, Down, stateVars
  <1>3. CASE ReceiveFails \/ ReceiveClash \/ ReceiveCancelled \/ Close
    <2>1. \A d \in Calls : fut'[d] = "none" <=> fut[d] = "none"
      BY <1>0, <1>3, SMT
      DEF ReceiveFails, ReceiveClash, ReceiveCancelled, Close, Sweep, Unresolved,
          PacketTypeOK
    <2>2. UNCHANGED <<pc, got, answered>>
      BY <1>3 DEF ReceiveFails, ReceiveClash, ReceiveCancelled, Close, netVars
    <2>3. Down'
      BY <1>3, SMT
      DEF ReceiveFails, ReceiveClash, ReceiveCancelled, Close, MarkError, Down
    <2> QED BY <2>1, <2>2, <2>3, QuietMaps DEF Accepting
  <1>4. ASSUME NEW next \in {"idle", "reading"}, DeliverCommand(next)
        PROVE  [Exchange!ExchangeNext]_Exchange!evars
    BY <1>4, QuietMaps DEF DeliverCommand, callVars, Accepting, Down, stateVars
  <1> QED BY <1>1, <1>2, <1>3, <1>4

LEMMA EnvironmentMaps ==
  ASSUME Inv, Environment
  PROVE  [Exchange!ExchangeNext]_Exchange!evars
  <1> USE DEF callVars, stateVars, Accepting, Down
  <1>1. CASE VmTakes \/ VmSendsCommand \/ VmSendsGarbage \/ VmHangsUp
    BY <1>1, QuietMaps DEF VmTakes, VmSendsCommand, VmSendsGarbage, VmHangsUp
  <1>2. CASE LinkLost \/ LinkClosed
    BY <1>2, QuietMaps DEF LinkLost, LinkClosed
  <1>3. ASSUME NEW c \in Calls, VmReplies(c)
        PROVE  [Exchange!ExchangeNext]_Exchange!evars
    <2>1. fut[c] # "none" /\ c \notin answered
      BY <1>3 DEF VmReplies, Inv, PacketInv, VmKnowsSentCalls, SimpleInv, SentOnce
    <2>2. Status[c] \notin {"new", "rejected"}
      BY <2>1, SMT
      DEF Inv, PacketInv, CallPhases, Status, CallStatus, Live, Ended, PacketTypeOK
    <2>3. /\ answered' = answered \cup {c}
          /\ UNCHANGED <<stateVars, pc, fut, got, link>>
      BY <1>3 DEF VmReplies
    <2>4. UNCHANGED Accepting /\ Returned' = Returned
      BY <2>3, Zenon DEF Returned
    <2>5. Status' = Status
      BY <2>3, StatusFrame DEF Inv, PacketInv
    <2>6. Exchange!Answer(c)
      BY <2>1, <2>2, <2>3, <2>4, <2>5, Zenon DEF Exchange!Answer, Status, Returned
    <2> QED BY <2>6 DEF Exchange!ExchangeNext
  <1>4. ASSUME NEW i \in OneWayIds, VmRepliesOneWay(i)
        PROVE  [Exchange!ExchangeNext]_Exchange!evars
    BY <1>4, QuietMaps DEF VmRepliesOneWay
  <1> QED BY <1>1, <1>2, <1>3, <1>4 DEF Environment

------------------------------------------------------------------------------
LEMMA SimpleInitMaps == SimpleInit => Exchange!ExchangeInit
  BY SMT
  DEF SimpleInit, PacketInit, Exchange!ExchangeInit, Down, CallStatus, Live

LEMMA SimpleStepMaps ==
  ASSUME Inv, [SimpleNext]_svars
  PROVE  [Exchange!ExchangeNext]_Exchange!evars
  <1>1. ASSUME NEW c \in Calls, SendCommand(c)
        PROVE  [Exchange!ExchangeNext]_Exchange!evars
    <2>1. CASE nextId \in PacketIds /\ SendCommandPacket(c, nextId)
      BY <2>1, SendMaps
    <2>2. CASE RefuseCall(c) \/ SendFails(c)
      BY <2>2, RejectMaps
    <2> QED BY <1>1, <2>1, <2>2 DEF SendCommand
  <1>2. ASSUME NEW c \in Calls, ContinueCommand(c)
        PROVE  [Exchange!ExchangeNext]_Exchange!evars
    BY <1>2, CallMaps DEF ContinueCommand
  <1>3. ASSUME NEW next \in {"idle", "reading"}, ReceiveCommand(next)
        PROVE  [Exchange!ExchangeNext]_Exchange!evars
    BY <1>3, ReceiveMaps DEF ReceiveCommand
  <1>4. CASE ReceiveStep
    BY <1>4, ReceiveMaps DEF ReceiveStep
  <1>5. CASE UserStep
    BY <1>5, ReceiveMaps, CallMaps DEF UserStep
  <1>6. CASE EnvironmentStep
    BY <1>6, EnvironmentMaps DEF EnvironmentStep
  <1>7. CASE UNCHANGED svars
    BY <1>7, QuietMaps
    DEF svars, pvars, callVars, netVars, stateVars, Accepting, Down
  <1>8. CASE SendOneWayCommand
    BY <1>8, QuietMaps
    DEF SendOneWayCommand, SendOneWay, pvars, callVars, netVars, stateVars,
        Accepting, Down
  <1>9. CASE SecondReceiver
    BY <1>9, ReceiveMaps DEF SecondReceiver
  <1> QED
    BY <1>1, <1>2, <1>3, <1>4, <1>5, <1>6, <1>7, <1>8, <1>9
    DEF SimpleNext, OneReceiverNext

(* Whatever the calls, the VM and the network do, a caller sees only what   *)
(* CommandExchange allows.                                                  *)
THEOREM SimpleImplementsExchange == SimpleSpec => ImplementsExchange
  <1>1. SimpleSpec => []Inv
    BY SimpleInitInv, SimpleNextInv, PTL DEF SimpleSpec
  <1> QED
    BY <1>1, SimpleInitMaps, SimpleStepMaps, PTL
    DEF SimpleSpec, ImplementsExchange, Exchange!ExchangeSpec
==============================================================================
