------------------------ MODULE PacketConnectionProofs ------------------------
(* Theorems about PacketConnection, for any calls, ids and bounds.          *)
EXTENDS PacketConnection, TLAPS

(* The kind of a packet tells its other fields.                             *)
LEMMA MessageKinds ==
  ASSUME NEW m \in Messages
  PROVE  /\ m.kind = "reply" => m.id \in PacketIds /\ m.for \in Calls \cup {NoCall}
         /\ m.kind = "command" => m.event \in 1..MaxEvents
  BY SMT DEF Messages, Garbage

(* Consuming the wire keeps it a sequence of packets.                       *)
LEMMA ConsumeWire ==
  ASSUME PacketTypeOK, wire # <<>>
  PROVE  Head(wire) \in Messages /\ Tail(wire) \in Seq(Messages)
  BY SMT DEF PacketTypeOK

LEMMA SweepTypes ==
  ASSUME PacketTypeOK, NEW how \in {"exception", "cancelled"}, Sweep(how)
  PROVE  /\ pending' \in [PacketIds -> Calls \cup {NoCall}]
         /\ fut' \in [Calls -> {"none", "pending", "result", "exception", "cancelled"}]
  BY SMT DEF PacketTypeOK, Sweep, NoEntries, Registered, Unresolved

LEMMA EndCallTypes ==
  ASSUME PacketTypeOK, NEW c \in Calls, NEW how \in Ended, EndCall(c, how)
  PROVE  PacketTypeOK'
  <1>1. pending' \in [PacketIds -> Calls \cup {NoCall}]
    BY Zenon DEF PacketTypeOK, EndCall
  <1>2. pc' \in [Calls -> {"new"} \cup Live \cup Ended]
    BY SMT DEF PacketTypeOK, EndCall
  <1> QED
    BY <1>1, <1>2 DEF PacketTypeOK, EndCall, stateVars, readVars, netVars

LEMMA OutcomeEnds ==
  ASSUME NEW c \in Calls
  PROVE  Outcome(c) \in Ended \ {"refused"}
  BY SMT DEF Outcome, Ended

LEMMA TurnDownTypes ==
  ASSUME PacketTypeOK, NEW c \in Calls, NEW how \in {"refused", "failed"},
         TurnDown(c, how)
  PROVE  PacketTypeOK'
  BY SMT DEF PacketTypeOK, TurnDown, Live, Ended, stateVars, readVars, netVars

LEMMA SendTypes ==
  ASSUME PacketTypeOK, NEW c \in Calls, NEW i \in PacketIds,
         SendCommandPacket(c, i)
  PROVE  PacketTypeOK'
  <1>1. CASE SendPacket(c, i)
    BY <1>1, SMT DEF PacketTypeOK, SendPacket, Live, Ended, stateVars, readVars
  <1>2. CASE RefuseDuplicate(c, i)
    BY <1>2, TurnDownTypes DEF RefuseDuplicate
  <1>3. CASE SendOnLostLink(c, i)
    BY <1>3, SMT DEF PacketTypeOK, SendOnLostLink, Live, Ended, stateVars, readVars, netVars
  <1> QED BY <1>1, <1>2, <1>3 DEF SendCommandPacket

LEMMA CallTypes ==
  ASSUME PacketTypeOK, NEW c \in Calls, CallStep(c) \/ CancelCall(c)
  PROVE  PacketTypeOK'
  <1>1. CASE Drained(c)
    <2>1. CASE Unresolved(c)
      BY <1>1, <2>1, SMT
      DEF PacketTypeOK, Drained, EndCall, Live, Ended, stateVars, readVars, netVars
    <2>2. CASE ~Unresolved(c)
      BY <1>1, <2>2, OutcomeEnds, EndCallTypes DEF Drained
    <2> QED BY <2>1, <2>2
  <1>2. CASE DrainFails(c)
    BY <1>2, EndCallTypes DEF DrainFails, Ended
  <1>3. CASE Resume(c)
    BY <1>3, OutcomeEnds, EndCallTypes DEF Resume
  <1>4. CASE CallCancelled(c)
    BY <1>4, EndCallTypes DEF CallCancelled, Ended
  <1>5. CASE CancelCall(c)
    BY <1>5, SMT DEF PacketTypeOK, CancelCall, stateVars, readVars, netVars
  <1> QED BY <1>1, <1>2, <1>3, <1>4, <1>5 DEF CallStep

LEMMA ReceiveTypes ==
  ASSUME PacketTypeOK,
         \/ EnterReceive \/ Misread \/ DeliverReply \/ ReceiveFails
         \/ CancelReceive \/ ReceiveCancelled
         \/ \E next \in {"idle", "reading"} : DeliverCommand(next)
  PROVE  PacketTypeOK'
  <1>1. CASE CallReceive
    BY <1>1, SMT DEF PacketTypeOK, CallReceive, stateVars, callVars, netVars
  <1>2. CASE DeliverReply
    <2>1. Head(wire) \in Messages /\ Tail(wire) \in Seq(Messages)
      BY <1>2, ConsumeWire DEF DeliverReply, CanRead
    <2>2. Head(wire).id \in PacketIds /\ Head(wire).for \in Calls \cup {NoCall}
      BY <1>2, <2>1, MessageKinds DEF DeliverReply
    <2>3. pending' \in [PacketIds -> Calls \cup {NoCall}]
      <3>1. pending' = [pending EXCEPT ![Head(wire).id] = NoCall]
        BY <1>2 DEF DeliverReply
      <3> QED BY <3>1, <2>2, SMT DEF PacketTypeOK
    <2>4. fut' \in [Calls -> {"none", "pending", "result", "exception", "cancelled"}]
      <3>1. \/ fut' = fut
            \/ fut' = [fut EXCEPT ![pending[Head(wire).id]] = "result"]
        BY <1>2 DEF DeliverReply
      <3> QED BY <3>1, SMT DEF PacketTypeOK
    <2>5. got' \in [Calls -> Calls \cup {NoCall}]
      BY <1>2, <2>2, SMT DEF PacketTypeOK, DeliverReply
    <2> QED
      BY <1>2, <2>1, <2>3, <2>4, <2>5
      DEF PacketTypeOK, DeliverReply, stateVars, readVars
  <1>3. CASE ReceiveFails
    <2>1. wire' \in Seq(Messages)
      BY <1>3, ConsumeWire DEF ReceiveFails, CanRead, PacketTypeOK
    <2>2. reader' \in {"idle", "reading"}
      BY <1>3 DEF ReceiveFails, OneLeaves
    <2> QED
      BY <1>3, <2>1, <2>2, SweepTypes DEF PacketTypeOK, ReceiveFails, MarkError
  <1>4. CASE ReceiveClash
    BY <1>4, SweepTypes DEF PacketTypeOK, ReceiveClash, MarkError, readVars, netVars
  <1>5. CASE CancelReceive
    BY <1>5, SMT DEF PacketTypeOK, CancelReceive, stateVars, callVars, netVars
  <1>6. CASE ReceiveCancelled
    BY <1>6, SweepTypes DEF PacketTypeOK, ReceiveCancelled, MarkError, netVars
  <1>7. ASSUME NEW next \in {"idle", "reading"}, DeliverCommand(next)
        PROVE  PacketTypeOK'
    BY <1>7, ConsumeWire
    DEF PacketTypeOK, DeliverCommand, CanRead, stateVars, callVars
  <1>8. CASE SecondReceive
    BY <1>8, SMT DEF PacketTypeOK, SecondReceive, stateVars, callVars, netVars
  <1>9. CASE Misread
    <2>1. PICK m \in {Stray(i) : i \in PacketIds} \cup {Command(n) : n \in 1..MaxEvents}
                      \cup {Garbage},
               k \in 0..Len(wire) :
            wire' = <<m>> \o SubSeq(wire, k + 1, Len(wire))
      BY <1>9 DEF Misread
    <2>2. m \in Messages
      BY <2>1, SMT DEF Messages, Stray, Command, Garbage
    <2>3. wire' \in Seq(Messages)
      <3>1. wire \in Seq(Messages) /\ Len(wire) \in Nat
        BY DEF PacketTypeOK
      <3>2. SubSeq(wire, k + 1, Len(wire)) \in Seq(Messages)
        BY <3>1, SMT
      <3>3. <<m>> \in Seq(Messages)
        BY <2>2, SMT
      <3> QED BY <2>1, <3>2, <3>3, SMT
    <2> QED
      BY <1>9, <2>3 DEF PacketTypeOK, Misread, stateVars, callVars, readVars
  <1> QED
    BY <1>1, <1>2, <1>3, <1>4, <1>5, <1>6, <1>7, <1>8, <1>9 DEF EnterReceive

LEMMA EnvironmentTypes ==
  ASSUME PacketInv, Environment
  PROVE  PacketTypeOK'
  <1> USE DEF PacketInv, PacketTypeOK, stateVars, callVars, readVars
  <1>1. CASE VmTakes
    BY <1>1, SMT DEF VmTakes
  <1>2. ASSUME NEW c \in Calls, VmReplies(c)
        PROVE  PacketTypeOK'
    <2>1. pid[c] \in PacketIds
      BY <1>2 DEF VmReplies, PacketInv, CallPhases, VmKnowsSentCalls
    <2>2. Reply(c) \in Messages
      BY <2>1, SMT DEF Reply, Messages
    <2> QED BY <1>2, <2>2, SMT DEF VmReplies
  <1>8. ASSUME NEW i \in OneWayIds, VmRepliesOneWay(i)
        PROVE  PacketTypeOK'
    <2>1. i \in PacketIds
      BY PacketConnectionAssumption
    <2>2. Stray(i) \in Messages
      BY <2>1, SMT DEF Stray, Messages
    <2> QED BY <1>8, <2>2, SMT DEF VmRepliesOneWay
  <1>3. CASE VmSendsCommand
    <2>1. sent' \in 1..MaxEvents
      BY <1>3, PacketConnectionAssumption, SMT DEF VmSendsCommand
    <2>2. Command(sent') \in Messages
      BY <2>1, SMT DEF Command, Messages
    <2> QED BY <1>3, <2>1, <2>2, SMT DEF VmSendsCommand
  <1>4. CASE VmSendsGarbage
    BY <1>4, SMT DEF VmSendsGarbage, Messages
  <1>5. CASE VmHangsUp
    BY <1>5, SMT DEF VmHangsUp
  <1>6. CASE LinkLost
    BY <1>6, SMT DEF LinkLost
  <1>7. CASE LinkClosed
    BY <1>7, SMT DEF LinkClosed
  <1> QED BY <1>1, <1>2, <1>3, <1>4, <1>5, <1>6, <1>7, <1>8 DEF Environment
------------------------------------------------------------------------------
(* The parts of the inductive invariant beside the types.                   *)
PhasesInv == CallPhases /\ VmKnowsSentCalls
TableInv == EntriesAreOwned /\ SweptWhenDown

(* Sweeping empties the table and leaves no future without a state.         *)
LEMMA SweepInv ==
  ASSUME PacketInv, NEW how \in {"exception", "cancelled"}, Sweep(how),
         UNCHANGED <<pid, pc, owed, answered, outbox>>
  PROVE  PhasesInv' /\ TableInv'
  <1>1. \A c \in Calls : fut'[c] = "none" <=> fut[c] = "none"
    BY SMT DEF PacketInv, PacketTypeOK, Sweep, Unresolved
  <1>2. CallPhases'
    BY <1>1 DEF PacketInv, CallPhases
  <1>3. VmKnowsSentCalls'
    BY <1>1, SMT DEF PacketInv, PacketTypeOK, VmKnowsSentCalls
  <1>4. TableInv'
    <2>1. pending' = NoEntries
      BY DEF Sweep
    <2>2. EntriesAreOwned'
      BY <2>1, SMT DEF EntriesAreOwned, NoEntries
    <2>3. SweptWhenDown'
      BY <2>1, Zenon DEF SweptWhenDown, NoEntries
    <2> QED BY <2>2, <2>3 DEF TableInv
  <1> QED BY <1>2, <1>3, <1>4 DEF PhasesInv

(* A call that leaves takes no entry but its own id's out of the table.     *)
LEMMA EndCallInv ==
  ASSUME PacketInv, NEW c \in Calls, pc[c] \in Live,
         NEW how \in Ended \ {"refused"}, EndCall(c, how)
  PROVE  PhasesInv' /\ TableInv'
  <1> USE DEF PacketInv, PacketTypeOK
  <1>1. pid[c] \in PacketIds
    BY DEF CallPhases
  <1>2. PhasesInv'
    BY SMT DEF PhasesInv, CallPhases, VmKnowsSentCalls, EndCall, Live, Ended, netVars
  <1>3. EntriesAreOwned'
    BY <1>1, SMT DEF EntriesAreOwned, EndCall, Live, Ended
  <1>4. SweptWhenDown'
    <2>1. Down' <=> Down
      BY DEF Down, EndCall, stateVars
    <2>2. pending = NoEntries => pending' = NoEntries
      BY <1>1, SMT DEF NoEntries, EndCall
    <2> QED BY <2>1, <2>2, Zenon DEF SweptWhenDown, NoEntries
  <1> QED BY <1>2, <1>3, <1>4 DEF TableInv

LEMMA TurnDownInv ==
  ASSUME PacketInv, NEW c \in Calls, NEW how \in {"refused", "failed"},
         TurnDown(c, how)
  PROVE  PhasesInv' /\ TableInv'
  <1> USE DEF PacketInv, PacketTypeOK, Live, Ended, TurnDown
  <1>1. PhasesInv'
    BY SMT DEF PhasesInv, CallPhases, VmKnowsSentCalls, netVars
  <1>2. EntriesAreOwned'
    BY SMT DEF EntriesAreOwned
  <1>3. SweptWhenDown'
    BY DEF SweptWhenDown, Down, stateVars, NoEntries
  <1> QED BY <1>1, <1>2, <1>3 DEF TableInv

LEMMA SendInv ==
  ASSUME PacketInv, NEW c \in Calls, NEW i \in PacketIds,
         SendCommandPacket(c, i)
  PROVE  PhasesInv' /\ TableInv'
  <1> USE DEF PacketInv, PacketTypeOK, Live, Ended
  <1>1. CASE SendPacket(c, i)
    <2>1. CallPhases'
      BY <1>1, SMT DEF CallPhases, SendPacket
    <2>2. VmKnowsSentCalls'
      BY <1>1, SMT DEF VmKnowsSentCalls, SendPacket
    <2>3. EntriesAreOwned'
      BY <1>1, PacketConnectionAssumption, SMT DEF EntriesAreOwned, SendPacket
    <2>4. SweptWhenDown'
      BY <1>1 DEF SweptWhenDown, SendPacket, Down, stateVars
    <2> QED BY <2>1, <2>2, <2>3, <2>4 DEF PhasesInv, TableInv
  <1>2. CASE RefuseDuplicate(c, i)
    BY <1>2, TurnDownInv DEF RefuseDuplicate
  <1>3. CASE SendOnLostLink(c, i)
    <2>1. PhasesInv'
      BY <1>3, SMT DEF PhasesInv, CallPhases, VmKnowsSentCalls, SendOnLostLink, netVars
    <2>2. EntriesAreOwned'
      BY <1>3, SMT DEF EntriesAreOwned, SendOnLostLink
    <2>3. SweptWhenDown'
      BY <1>3 DEF SweptWhenDown, SendOnLostLink, Down, stateVars, NoEntries
    <2> QED BY <2>1, <2>2, <2>3 DEF TableInv
  <1> QED BY <1>1, <1>2, <1>3 DEF SendCommandPacket

LEMMA CallInv ==
  ASSUME PacketInv, NEW c \in Calls, CallStep(c) \/ CancelCall(c)
  PROVE  PhasesInv' /\ TableInv'
  <1> USE DEF PacketInv, PacketTypeOK
  <1>1. CASE Drained(c)
    <2>1. CASE Unresolved(c)
      <3>1. PhasesInv'
        BY <1>1, <2>1, SMT
        DEF PhasesInv, CallPhases, VmKnowsSentCalls, Drained, EndCall,
            Unresolved, Live, netVars
      <3>2. EntriesAreOwned'
        BY <1>1, <2>1, SMT DEF EntriesAreOwned, Drained, Live
      <3>3. SweptWhenDown'
        BY <1>1, <2>1 DEF SweptWhenDown, Drained, Down, stateVars, NoEntries
      <3> QED BY <3>1, <3>2, <3>3 DEF TableInv
    <2>2. CASE ~Unresolved(c)
      BY <1>1, <2>2, OutcomeEnds, EndCallInv DEF Drained, Live
    <2> QED BY <2>1, <2>2
  <1>2. CASE DrainFails(c)
    BY <1>2, EndCallInv DEF DrainFails, Ended, Live
  <1>3. CASE Resume(c)
    BY <1>3, OutcomeEnds, EndCallInv DEF Resume, Live
  <1>4. CASE CallCancelled(c)
    BY <1>4, EndCallInv DEF CallCancelled, Ended, Live
  <1>5. CASE CancelCall(c)
    <2>1. PhasesInv'
      BY <1>5, SMT
      DEF PhasesInv, CallPhases, VmKnowsSentCalls, CancelCall, Unresolved, netVars
    <2>2. EntriesAreOwned'
      BY <1>5 DEF EntriesAreOwned, CancelCall
    <2>3. SweptWhenDown'
      BY <1>5 DEF SweptWhenDown, CancelCall, Down, stateVars, NoEntries
    <2> QED BY <2>1, <2>2, <2>3 DEF TableInv
  <1> QED BY <1>1, <1>2, <1>3, <1>4, <1>5 DEF CallStep

(* Steps that touch neither the calls nor the table nor the state flags.    *)
LEMMA BystanderInv ==
  ASSUME PacketInv, UNCHANGED <<stateVars, pending, pid, pc, fut>>,
         \A c \in (owed \cup answered)' : c \in owed \cup answered \/ fut[c] # "none",
         \A k \in 1..Len(outbox') : fut[outbox'[k]] # "none"
  PROVE  PhasesInv' /\ TableInv'
  <1>1. CallPhases'
    BY DEF PacketInv, CallPhases
  <1>2. VmKnowsSentCalls'
    BY SMT DEF PacketInv, VmKnowsSentCalls
  <1>3. EntriesAreOwned' /\ SweptWhenDown'
    BY Zenon DEF PacketInv, EntriesAreOwned, SweptWhenDown, Down, NoEntries, stateVars
  <1> QED BY <1>1, <1>2, <1>3 DEF PhasesInv, TableInv

LEMMA DeliverReplyInv ==
  ASSUME PacketInv, DeliverReply
  PROVE  PhasesInv' /\ TableInv'
  <1> DEFINE m == Head(wire)
  <1>1. m.id \in PacketIds
    BY ConsumeWire, MessageKinds DEF PacketInv, DeliverReply, CanRead
  <1>2. pending' = [pending EXCEPT ![m.id] = NoCall]
    BY DEF DeliverReply
  <1>3. \A c \in Calls : fut'[c] = "none" <=> fut[c] = "none"
    BY SMT DEF PacketInv, PacketTypeOK, DeliverReply
  <1>4. CallPhases'
    BY <1>3 DEF PacketInv, CallPhases, DeliverReply
  <1>5. VmKnowsSentCalls'
    BY <1>3, SMT DEF PacketInv, PacketTypeOK, VmKnowsSentCalls, DeliverReply
  <1>6. EntriesAreOwned'
    <2>1. pid' = pid /\ pc' = pc
      BY DEF DeliverReply
    <2> QED BY <1>1, <1>2, <2>1, SMT DEF PacketInv, PacketTypeOK, EntriesAreOwned
  <1>7. SweptWhenDown'
    <2>1. Down' <=> Down
      BY DEF Down, DeliverReply, stateVars
    <2>2. pending = NoEntries => pending' = NoEntries
      BY <1>1, <1>2, SMT DEF NoEntries
    <2> QED BY <2>1, <2>2, Zenon DEF PacketInv, SweptWhenDown, NoEntries
  <1> QED BY <1>4, <1>5, <1>6, <1>7 DEF PhasesInv, TableInv

LEMMA ReceiveInv ==
  ASSUME PacketInv,
         \/ EnterReceive \/ Misread \/ DeliverReply \/ ReceiveFails
         \/ CancelReceive \/ ReceiveCancelled \/ Close
         \/ \E next \in {"idle", "reading"} : DeliverCommand(next)
  PROVE  PhasesInv' /\ TableInv'
  <1>0. /\ \A c \in owed \cup answered : fut[c] # "none"
        /\ \A k \in 1..Len(outbox) : fut[outbox[k]] # "none"
    BY DEF PacketInv, VmKnowsSentCalls
  <1>1. CASE CallReceive
    BY <1>0, <1>1, BystanderInv DEF CallReceive, callVars, netVars
  <1>2. CASE DeliverReply
    BY <1>2, DeliverReplyInv
  <1>3. CASE ReceiveFails
    BY <1>3, SweepInv DEF ReceiveFails
  <1>4. CASE ReceiveClash
    BY <1>4, SweepInv DEF ReceiveClash, netVars
  <1>5. CASE CancelReceive
    BY <1>0, <1>5, BystanderInv DEF CancelReceive, callVars, netVars
  <1>6. CASE ReceiveCancelled
    BY <1>6, SweepInv DEF ReceiveCancelled, netVars
  <1>7. CASE Close
    BY <1>7, SweepInv DEF Close
  <1>8. ASSUME NEW next \in {"idle", "reading"}, DeliverCommand(next)
        PROVE  PhasesInv' /\ TableInv'
    BY <1>0, <1>8, BystanderInv DEF DeliverCommand, callVars
  <1>9. CASE SecondReceive \/ Misread
    BY <1>0, <1>9, BystanderInv DEF SecondReceive, Misread, callVars, netVars
  <1> QED
    BY <1>1, <1>2, <1>3, <1>4, <1>5, <1>6, <1>7, <1>8, <1>9 DEF EnterReceive

LEMMA EnvironmentInv ==
  ASSUME PacketInv, Environment
  PROVE  PhasesInv' /\ TableInv'
  <1>0. /\ \A c \in owed \cup answered : fut[c] # "none"
        /\ \A k \in 1..Len(outbox) : fut[outbox[k]] # "none"
    BY DEF PacketInv, VmKnowsSentCalls
  <1> USE DEF callVars
  <1>1. CASE VmTakes
    <2>1. \A k \in 1..Len(outbox') : fut[outbox'[k]] # "none"
      BY <1>0, <1>1, SMT DEF VmTakes, PacketInv, PacketTypeOK
    <2>2. \A c \in (owed \cup answered)' : c \in owed \cup answered \/ fut[c] # "none"
      BY <1>0, <1>1, SMT DEF VmTakes, PacketInv, PacketTypeOK
    <2> QED BY <1>1, <2>1, <2>2, BystanderInv DEF VmTakes
  <1>2. ASSUME NEW c \in Calls, VmReplies(c)
        PROVE  PhasesInv' /\ TableInv'
    BY <1>0, <1>2, BystanderInv DEF VmReplies
  <1>8. ASSUME NEW i \in OneWayIds, VmRepliesOneWay(i)
        PROVE  PhasesInv' /\ TableInv'
    BY <1>0, <1>8, BystanderInv DEF VmRepliesOneWay
  <1>3. CASE VmSendsCommand
    BY <1>0, <1>3, BystanderInv DEF VmSendsCommand
  <1>4. CASE VmSendsGarbage
    BY <1>0, <1>4, BystanderInv DEF VmSendsGarbage
  <1>5. CASE VmHangsUp
    BY <1>0, <1>5, BystanderInv DEF VmHangsUp
  <1>6. CASE LinkLost
    <2>1. outbox' = <<>> /\ 1..Len(outbox') = {}
      BY <1>6, SMT DEF LinkLost
    <2> QED BY <1>0, <1>6, <2>1, BystanderInv DEF LinkLost
  <1>7. CASE LinkClosed
    BY <1>0, <1>7, BystanderInv DEF LinkClosed
  <1> QED BY <1>1, <1>2, <1>3, <1>4, <1>5, <1>6, <1>7, <1>8 DEF Environment

\* A packet sent without a call concerns neither the table nor a call.
LEMMA SendOneWayInv ==
  ASSUME PacketInv, NEW i \in OneWayIds, SendOneWay(i)
  PROVE  PacketInv'
  <1>1. PacketTypeOK'
    BY SMT DEF PacketInv, PacketTypeOK, SendOneWay, stateVars, callVars, readVars
  <1>2. PhasesInv' /\ TableInv'
    BY BystanderInv DEF PacketInv, VmKnowsSentCalls, SendOneWay, callVars
  <1> QED BY <1>1, <1>2 DEF PacketInv, PhasesInv, TableInv

------------------------------------------------------------------------------
LEMMA PacketInitInv == PacketInit => PacketInv
  <1> SUFFICES ASSUME PacketInit PROVE PacketInv
    OBVIOUS
  <1>1. PacketTypeOK
    <2>1. sent \in 0..MaxEvents
      BY PacketConnectionAssumption, SMT DEF PacketInit
    <2>2. outbox \in Seq(Calls) /\ wire \in Seq(Messages)
      BY SMT DEF PacketInit
    <2>3. pending \in [PacketIds -> Calls \cup {NoCall}]
      BY Zenon DEF PacketInit, NoEntries
    <2> QED BY <2>1, <2>2, <2>3, Zenon DEF PacketInit, PacketTypeOK
  <1>2. CallPhases /\ VmKnowsSentCalls
    BY SMT DEF PacketInit, CallPhases, VmKnowsSentCalls, Live
  <1>3. EntriesAreOwned
    BY SMT DEF PacketInit, EntriesAreOwned, NoEntries
  <1>4. SweptWhenDown
    BY DEF PacketInit, SweptWhenDown
  <1> QED BY <1>1, <1>2, <1>3, <1>4 DEF PacketInv

LEMMA PacketNextInv ==
  ASSUME PacketInv, [PacketNext]_pvars
  PROVE  PacketInv'
  <1>0. PacketTypeOK
    BY DEF PacketInv
  <1>1. ASSUME NEW c \in Calls, NEW i \in PacketIds,
               SendCommandPacket(c, i)
        PROVE  PacketInv'
    BY <1>0, <1>1, SendTypes, SendInv DEF PacketInv, PhasesInv, TableInv
  <1>2. ASSUME NEW c \in Calls,
               RefuseCall(c) \/ SendFails(c) \/ CallStep(c) \/ CancelCall(c)
        PROVE  PacketInv'
    <2>1. CASE RefuseCall(c) \/ SendFails(c)
      BY <1>0, <2>1, TurnDownTypes, TurnDownInv
      DEF PacketInv, PhasesInv, TableInv, RefuseCall, SendFails
    <2>2. CASE CallStep(c) \/ CancelCall(c)
      BY <1>0, <2>2, CallTypes, CallInv DEF PacketInv, PhasesInv, TableInv
    <2> QED BY <1>2, <2>1, <2>2
  <1>3. ASSUME \/ EnterReceive \/ Misread \/ DeliverReply \/ ReceiveFails
               \/ CancelReceive \/ ReceiveCancelled
               \/ \E next \in {"idle", "reading"} : DeliverCommand(next)
        PROVE  PacketInv'
    <2>1. PacketTypeOK'
      BY <1>0, <1>3, ReceiveTypes
    <2>2. PhasesInv' /\ TableInv'
      BY <1>3, ReceiveInv
    <2> QED BY <2>1, <2>2 DEF PacketInv, PhasesInv, TableInv
  <1>4. CASE Close
    <2>1. PacketTypeOK'
      BY <1>0, <1>4, SweepTypes DEF PacketTypeOK, Close, readVars
    <2>2. PhasesInv' /\ TableInv'
      BY <1>4, ReceiveInv
    <2> QED BY <2>1, <2>2 DEF PacketInv, PhasesInv, TableInv
  <1>5. CASE Environment
    BY <1>5, EnvironmentTypes, EnvironmentInv DEF PacketInv, PhasesInv, TableInv
  <1>7. ASSUME NEW i \in OneWayIds, SendOneWay(i)
        PROVE  PacketInv'
    BY <1>7, SendOneWayInv
  <1>6. CASE UNCHANGED pvars
    BY <1>6, Zenon
    DEF PacketInv, PacketTypeOK, CallPhases, VmKnowsSentCalls, EntriesAreOwned,
        SweptWhenDown, Down, NoEntries, pvars, stateVars, callVars, readVars, netVars
  <1> QED BY <1>1, <1>2, <1>3, <1>4, <1>5, <1>6, <1>7 DEF PacketNext

(* The inductive invariant holds in every behaviour.                        *)
THEOREM PacketInvariant == PacketSpec => []PacketInv
  BY PacketInitInv, PacketNextInv, PTL DEF PacketSpec

(* No exit of a call leaves an entry behind, whatever ids the callers       *)
(* choose.                                                                  *)
THEOREM PacketEntriesAreOwned == PacketSpec => []EntriesAreOwned
  <1>1. PacketInv => EntriesAreOwned
    BY DEF PacketInv
  <1> QED BY <1>1, PacketInvariant, PTL

(* A connection that refuses calls has an empty table.                      *)
THEOREM PacketSweptWhenDown == PacketSpec => []SweptWhenDown
  <1>1. PacketInv => SweptWhenDown
    BY DEF PacketInv
  <1> QED BY <1>1, PacketInvariant, PTL

(* A future that is done is never completed again: the guards that the code *)
(* has for it are enough, whoever races whom.                               *)
LEMMA NoSecondCompletion ==
  ASSUME PacketInv, [PacketNext]_pvars, NEW c \in Calls,
         fut[c] \in {"result", "exception", "cancelled"}
  PROVE  fut'[c] = fut[c] /\ got'[c] = got[c]
  <1> USE DEF PacketInv, PacketTypeOK
  <1>1. ASSUME NEW d \in Calls, NEW i \in PacketIds,
               SendCommandPacket(d, i)
        PROVE  fut'[c] = fut[c] /\ got'[c] = got[c]
    BY <1>1, SMT
    DEF SendCommandPacket, SendPacket, RefuseDuplicate, TurnDown, SendOnLostLink,
        CallPhases
  <1>2. ASSUME NEW d \in Calls,
               RefuseCall(d) \/ SendFails(d) \/ CallStep(d) \/ CancelCall(d)
        PROVE  fut'[c] = fut[c] /\ got'[c] = got[c]
    BY <1>2, SMT
    DEF RefuseCall, SendFails, TurnDown, CallStep, CancelCall, Drained, DrainFails, Resume, CallCancelled,
        EndCall, Unresolved
  <1>3. CASE DeliverReply
    BY <1>3, SMT DEF DeliverReply
  <1>4. CASE ReceiveFails \/ ReceiveClash \/ ReceiveCancelled \/ Close
    BY <1>4, SMT
    DEF ReceiveFails, ReceiveClash, ReceiveCancelled, Close, Sweep, Unresolved
  <1>5. CASE CallReceive \/ SecondReceive \/ Misread \/ CancelReceive
    BY <1>5 DEF CallReceive, SecondReceive, Misread, CancelReceive, callVars
  <1>6. ASSUME NEW next \in {"idle", "reading"}, DeliverCommand(next)
        PROVE  fut'[c] = fut[c] /\ got'[c] = got[c]
    BY <1>6 DEF DeliverCommand, callVars
  <1>7. CASE Environment
    BY <1>7
    DEF Environment, VmTakes, VmReplies, VmRepliesOneWay, VmSendsCommand, VmSendsGarbage,
        VmHangsUp, LinkLost, LinkClosed, callVars
  <1>8. CASE UNCHANGED pvars
    BY <1>8 DEF pvars, callVars
  <1>9. ASSUME NEW i \in OneWayIds, SendOneWay(i)
        PROVE  fut'[c] = fut[c] /\ got'[c] = got[c]
    BY <1>9 DEF SendOneWay, callVars
  <1> QED
    BY <1>1, <1>2, <1>3, <1>4, <1>5, <1>6, <1>7, <1>8, <1>9
    DEF PacketNext, EnterReceive

THEOREM PacketCompletedOnce == PacketSpec => CompletedOnce
  <1>1. ASSUME PacketInv, [PacketNext]_pvars
        PROVE  [\A c \in Calls : fut[c] \in {"result", "exception", "cancelled"}
                  => fut'[c] = fut[c] /\ got'[c] = got[c]]_pvars
    BY <1>1, NoSecondCompletion
  <1> QED BY <1>1, PacketInvariant, PTL DEF PacketSpec, CompletedOnce
==============================================================================
