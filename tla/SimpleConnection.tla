--------------------------- MODULE SimpleConnection ---------------------------
(***************************************************************************)
(* SimpleJdwpConnection (connection.py): typed commands over a             *)
(* JdwpPacketConnection.  It numbers the packets, encodes and decodes with *)
(* the id sizes in spec, and adopts the VM's sizes when an IDSizes reply   *)
(* is returned to its caller.                                              *)
(*                                                                         *)
(* Every action is one of PacketConnection's with what this layer adds to  *)
(* it, in the same step: there is no suspension between the two.           *)
(* receive_command() has one caller at a time, or a second one that the    *)
(* StreamReader refuses; what a crowd of receivers does to the packets is  *)
(* PacketConnection's.                                                     *)
(*                                                                         *)
(* A payload is abstracted to what decoding it needs: the sizes it was     *)
(* encoded with.  The VM always uses its own sizes ("vm").                 *)
(***************************************************************************)
EXTENDS PacketConnection

CONSTANTS MaxPacketId,   \* largest id the packet header holds (2^32 - 1)
          IdSizesCalls   \* the calls that send VirtualMachine.IDSizes

ASSUME SimpleConnectionAssumption ==
  /\ MaxPacketId \in Nat
  /\ PacketIds = 1..MaxPacketId
  /\ IdSizesCalls \in SUBSET Calls

VARIABLES
  nextId,    \* _next_packet_id
  spec,      \* spec: the "default" 8-byte sizes or those of the "vm"
  decoded    \* the sizes the last command from the VM was decoded with

svars == <<pvars, nextId, spec, decoded>>

Sizes == {"default", "vm"}

SimpleTypeOK ==
  /\ PacketTypeOK
  /\ nextId \in Nat \ {0}
  /\ spec \in Sizes
  /\ decoded \in Sizes \cup {"none"}

SimpleInit ==
  /\ PacketInit
  /\ nextId = 1
  /\ spec = "default"
  /\ decoded = "none"

------------------------------------------------------------------------------
(* send_command                                                             *)

\* Mutants: the ids start again at 1, or at 0, when the header's width is used up.
AllocateWraps == nextId' = (nextId % MaxPacketId) + 1
AllocateOverflows == nextId' = (nextId + 1) % (MaxPacketId + 1)

\* The id is taken before anything can refuse the call.
AllocatePacketId == nextId' = nextId + 1

\* A payload that cannot be encoded raises before the packet exists; an id
\* beyond the header's width raises when the packet is packed.
SendCommand(c) ==
  /\ AllocatePacketId
  /\ \/ nextId \in PacketIds /\ SendCommandPacket(c, nextId)
     \/ RefuseCall(c)
     \/ SendFails(c)
  /\ UNCHANGED <<spec, decoded>>

\* Mutant: a command without a response takes no id of its own.
SendOneWayWithoutId ==
  /\ nextId \in OneWayIds
  /\ SendOneWay(nextId)
  /\ UNCHANGED <<nextId, spec, decoded>>

\* A command without a response: its packet goes to the sender past check(),
\* also on a closed connection.  It is not written if it cannot be encoded, or
\* if nothing is left to write to, and its caller's drain() concerns nobody.
SendOneWayCommand ==
  /\ nextId \in OneWayIds
  /\ AllocatePacketId
  /\ SendOneWay(nextId) \/ UNCHANGED pvars
  /\ UNCHANGED <<spec, decoded>>

\* The rest of send_command, in the step in which the packet's reply is
\* returned: an error code or an undecodable payload raises, and an IDSizes
\* response replaces spec if its sizes are supported.
AdoptSizes(c) ==
  spec' \in IF pc'[c] = "replied" /\ c \in IdSizesCalls
            THEN {spec, "vm"} ELSE {spec}

ContinueCommand(c) ==
  /\ CallStep(c)
  /\ AdoptSizes(c)
  /\ UNCHANGED <<nextId, decoded>>

------------------------------------------------------------------------------
(* receive_command                                                          *)

\* The command is decoded in the step that delivered it; an unknown command
\* or a decoding error raises here, and the packet connection stays as it is.
ReceiveCommand(next) ==
  /\ DeliverCommand(next)
  /\ decoded' = spec
  /\ UNCHANGED <<nextId, spec>>

ReceiveStep ==
  /\ DeliverReply \/ ReceiveFails \/ ReceiveCancelled
  /\ UNCHANGED <<nextId, spec, decoded>>

UserStep ==
  /\ \/ CallReceive
     \/ CancelReceive
     \/ Close
     \/ \E c \in Calls : CancelCall(c)
  /\ UNCHANGED <<nextId, spec, decoded>>

EnvironmentStep == Environment /\ UNCHANGED <<nextId, spec, decoded>>

\* A second task is refused: it finds the first waiting in the StreamReader.
SecondReceiver == ReceiveClash /\ UNCHANGED <<nextId, spec, decoded>>

\* The steps of a connection with one task at a time in receive_command().
OneReceiverNext ==
  \/ \E c \in Calls : SendCommand(c) \/ ContinueCommand(c)
  \/ SendOneWayCommand
  \/ \E next \in {"idle", "reading"} : ReceiveCommand(next)
  \/ ReceiveStep
  \/ UserStep
  \/ EnvironmentStep

SimpleNext == OneReceiverNext \/ SecondReceiver

OneReceiverSpec == SimpleInit /\ [][OneReceiverNext]_svars

SimpleSpec == SimpleInit /\ [][SimpleNext]_svars

------------------------------------------------------------------------------
(* Properties                                                               *)

(* The ids of calls that were sent are below the next id and pairwise       *)
(* different, so the duplicate test of send_command_packet never fires for  *)
(* this layer (_allocate_packet_id, connection.py:271).                     *)
IdsAreFresh ==
  /\ \A c \in Calls : pid[c] < nextId
  /\ \A c, d \in Calls : c # d /\ pid[c] # 0 => pid[c] # pid[d]

(* Every packet of a call carries the id the call was sent with: what the   *)
(* VM still owes and what is on the wire answers exactly one call, once.    *)
RepliesOnTheWire ==
  \A k \in 1..Len(wire) : wire[k].kind = "reply" /\ wire[k].for # NoCall =>
    /\ wire[k].id = pid[wire[k].for]
    /\ wire[k].for \in answered \ owed

(* No call has the id of a command without a response, so that the reply to *)
(* it, which finds no entry, is never taken for the reply to a call         *)
(* (connection.py:310-313, 168-176).                                        *)
OneWayIdsAreOwn ==
  /\ \A i \in oneWay : i < nextId /\ \A c \in Calls : pid[c] # i
  /\ \A k \in 1..Len(wire) : wire[k].kind = "reply" /\ wire[k].for = NoCall =>
       wire[k].id < nextId /\ \A c \in Calls : pid[c] # wire[k].id

(* What these rest on.  A call is in the write buffer, owed by the VM or    *)
(* answered, once and in one of the three; a reply was resolved from the    *)
(* VM's answer; a call fails only with the connection.                      *)
SentOnce ==
  /\ owed \cap answered = {}
  /\ \A k \in 1..Len(outbox) : outbox[k] \notin owed \cup answered
  /\ \A j, k \in 1..Len(outbox) : j # k => outbox[j] # outbox[k]

ResultsAreAnswers == \A c \in Calls : fut[c] = "result" => c \in answered

FailuresHaveCause == \A c \in Calls : fut[c] = "exception" => error # "none"

\* The inductive invariant, beside PacketInv.
SimpleInv ==
  /\ SimpleTypeOK
  /\ ~crowded
  /\ IdsAreFresh
  /\ WaiterRegistered
  /\ SentOnce
  /\ RepliesOnTheWire
  /\ OneWayIdsAreOwn
  /\ OwnReply
  /\ ResultsAreAnswers
  /\ FailuresHaveCause

(* The layer implements CommandExchange: a call returns only the VM's       *)
(* answer to that call, fails only when the connection is broken, is not    *)
(* accepted afterwards, and ends once.                                      *)
CallStatus(c) ==
  CASE pc[c] = "new" -> "new"
    [] pc[c] \in Live -> "pending"
    [] pc[c] = "replied" -> "returned"
    [] pc[c] = "cancelled" -> "cancelled"
    [] pc[c] = "failed" /\ fut[c] # "none" -> "failed"
    [] OTHER -> "rejected"

Exchange == INSTANCE CommandExchange WITH
  accepting <- ~Down /\ link # "down",
  answers   <- answered,
  status    <- [c \in Calls |-> CallStatus(c)],
  returned  <- [c \in Calls |-> IF pc[c] = "replied" THEN got[c] ELSE NoCall]

ImplementsExchange == Exchange!ExchangeSpec

(* A command that the VM sent after it answered IDSizes is decoded with the *)
(* sizes of that answer (README.md:13).                                     *)
DecodedWithVmSizes ==
  [][\A next \in {"idle", "reading"} :
       ReceiveCommand(next) /\ (\E c \in IdSizesCalls : fut[c] = "result")
         => decoded' = "vm"]_svars
==============================================================================
