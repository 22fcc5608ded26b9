--------------------------- MODULE PacketConnection ---------------------------
(***************************************************************************)
(* JdwpPacketConnection (connection.py) over the stream sender and the     *)
(* stream receiver: asyncio tasks that call send_command_packet(), tasks   *)
(* that call receive_command(), and close(), sharing the table of pending  *)
(* reply futures.  Everything a coroutine does between two suspensions is  *)
(* one action, as on the event loop.                                       *)
(*                                                                         *)
(* A call of send_command_packet() is a member of Calls and is made once;  *)
(* its future and its task are named by it.  The caller chooses the packet *)
(* id, as JdwpPacketConnection lets it.                                    *)
(*                                                                         *)
(* Nothing keeps a second task from calling receive_command() while one is *)
(* in it.  It is refused by the StreamReader, or, if bytes have arrived    *)
(* that the first has not been resumed for, reads in the first's place:    *)
(* from then on the receivers are a crowd, whose packets need not be the   *)
(* ones that were sent.                                                    *)
(*                                                                         *)
(* The VM and the TCP connection are the environment: the transport's      *)
(* write buffer (outbox), the packets that reached the reader (wire), the  *)
(* calls the VM has read and not answered (owed).                          *)
(***************************************************************************)
EXTENDS Naturals, Sequences

CONSTANTS Calls,       \* the calls of send_command_packet()
          PacketIds,   \* the ids their packets may carry
          OneWayIds,   \* bound: the ids of packets sent without a call
          NoCall,      \* "no entry in the pending table"
          MaxEvents,   \* bound: commands the VM sends
          MaxWire      \* bound: packets between the VM and the reader

ASSUME PacketConnectionAssumption ==
  /\ NoCall \notin Calls
  /\ OneWayIds \subseteq PacketIds
  /\ MaxEvents \in Nat
  /\ MaxWire \in Nat

VARIABLES
  closed,    \* _state._closed
  error,     \* _state._error: "none", or the kind of the first error marked
  pending,   \* _pending_replies: id -> the call whose future is registered
  pid,       \* id of a call's packet
  pc,        \* where a call is, and how it ended
  fut,       \* state of its reply future
  got,       \* the call that the reply which resolved its future answers
  must,      \* its task has been cancelled and has not run since
  reader,    \* the task in receive_command()
  rcancel,   \* that task has been cancelled and has not run since
  crowded,   \* two tasks have read at once: there may be several by now, and
             \* any of them may stand in the middle of a packet
  link,      \* our transport: "up", "closing" after close(), "down"
  rx,        \* the StreamReader: "open", "eof", or "broken" by an exception
  outbox,    \* calls whose packet is in the transport's write buffer
  paused,    \* the buffer is above its high-water mark: drain() suspends
  owed,      \* calls the VM has read and not yet answered
  answered,  \* history: calls the VM has answered
  wire,      \* packets from the VM that the reader has not consumed
  sent,      \* number of commands the VM has sent
  oneWay     \* ids of the packets sent without a call, not answered yet

callVars == <<pid, pc, fut, got, must>>
readVars == <<reader, rcancel, crowded>>
stateVars == <<closed, error>>
netVars == <<link, rx, outbox, paused, owed, answered, wire, sent, oneWay>>
pvars == <<stateVars, pending, callVars, readVars, netVars>>

Live == {"draining", "waiting"}
Ended == {"replied", "failed", "cancelled", "refused"}
Unresolved(c) == fut[c] = "pending"

Reply(c)   == [kind |-> "reply", id |-> pid[c], for |-> c]
Stray(i)   == [kind |-> "reply", id |-> i, for |-> NoCall]
Command(n) == [kind |-> "command", event |-> n]
Garbage    == [kind |-> "garbage"]
Messages == [kind : {"reply"}, id : PacketIds, for : Calls \cup {NoCall}]
            \cup [kind : {"command"}, event : 1..MaxEvents]
            \cup {Garbage}

NoEntries == [i \in PacketIds |-> NoCall]
Registered(c) == \E i \in PacketIds : pending[i] = c

\* check() raises: no call is accepted any more.
Down == closed \/ error # "none"

PacketTypeOK ==
  /\ closed \in BOOLEAN
  /\ error \in {"none", "failed", "cancelled"}
  /\ pending \in [PacketIds -> Calls \cup {NoCall}]
  /\ pid \in [Calls -> PacketIds \cup {0}]
  /\ pc \in [Calls -> {"new"} \cup Live \cup Ended]
  /\ fut \in [Calls -> {"none", "pending", "result", "exception", "cancelled"}]
  /\ got \in [Calls -> Calls \cup {NoCall}]
  /\ must \in [Calls -> BOOLEAN]
  /\ reader \in {"idle", "reading"}
  /\ rcancel \in BOOLEAN
  /\ crowded \in BOOLEAN
  /\ link \in {"up", "closing", "down"}
  /\ rx \in {"open", "eof", "broken"}
  /\ outbox \in Seq(Calls)
  /\ paused \in BOOLEAN
  /\ owed \in SUBSET Calls
  /\ answered \in SUBSET Calls
  /\ wire \in Seq(Messages)
  /\ sent \in 0..MaxEvents
  /\ oneWay \in SUBSET OneWayIds

PacketInit ==
  /\ closed = FALSE
  /\ error = "none"
  /\ pending = NoEntries
  /\ pid = [c \in Calls |-> 0]
  /\ pc = [c \in Calls |-> "new"]
  /\ fut = [c \in Calls |-> "none"]
  /\ got = [c \in Calls |-> NoCall]
  /\ must = [c \in Calls |-> FALSE]
  /\ reader = "idle"
  /\ rcancel = FALSE
  /\ crowded = FALSE
  /\ link = "up"
  /\ rx = "open"
  /\ outbox = <<>>
  /\ paused = FALSE
  /\ owed = {}
  /\ answered = {}
  /\ wire = <<>>
  /\ sent = 0
  /\ oneWay = {}

------------------------------------------------------------------------------
(* ConnectionState and the sweep of the pending table                       *)

\* mark_error: the first error wins.
MarkError(kind) == error' = IF error = "none" THEN kind ELSE error

\* Mutant: the table is cleared, the futures in it are forgotten.
SweepForgetsFutures(how) == pending' = NoEntries /\ fut' = fut

\* _clear_pending_replies, and what its caller does to each unresolved future.
Sweep(how) ==
  /\ pending' = NoEntries
  /\ fut' = [c \in Calls |->
               IF Registered(c) /\ Unresolved(c) THEN how ELSE fut[c]]

------------------------------------------------------------------------------
(* send_command_packet                                                      *)

\* Mutant: without check().
SendPacketUnchecked(c, i) ==
  /\ pc[c] = "new"
  /\ pending[i] = NoCall
  /\ link # "down"
  /\ pending' = [pending EXCEPT ![i] = c]
  /\ pid' = [pid EXCEPT ![c] = i]
  /\ fut' = [fut EXCEPT ![c] = "pending"]
  /\ outbox' = Append(outbox, c)
  /\ pc' = [pc EXCEPT ![c] = "waiting"]
  /\ UNCHANGED <<stateVars, got, must, readVars, link, rx, paused, owed, answered, wire, sent, oneWay>>

\* check(), the duplicate test, the registration and the write, up to the
\* first suspension: in drain() above the high-water mark, else in the future.
SendPacket(c, i) ==
  /\ pc[c] = "new"
  /\ ~Down
  /\ pending[i] = NoCall
  /\ link # "down"
  /\ pending' = [pending EXCEPT ![i] = c]
  /\ pid' = [pid EXCEPT ![c] = i]
  /\ fut' = [fut EXCEPT ![c] = "pending"]
  /\ outbox' = Append(outbox, c)
  /\ paused' \in {p \in BOOLEAN : paused => p}
  /\ pc' = [pc EXCEPT ![c] = IF paused' THEN "draining" ELSE "waiting"]
  /\ UNCHANGED <<stateVars, got, must, readVars, link, rx, owed, answered, wire, sent, oneWay>>

\* A call ends where it began, with nothing registered.
TurnDown(c, how) ==
  /\ pc[c] = "new"
  /\ pc' = [pc EXCEPT ![c] = how]
  /\ UNCHANGED <<stateVars, pending, pid, fut, got, must, readVars, netVars>>

\* check() raises.
RefuseCall(c) == Down /\ TurnDown(c, "refused")

\* The duplicate test raises.
RefuseDuplicate(c, i) ==
  ~Down /\ pending[i] # NoCall /\ TurnDown(c, "refused")

\* The packet cannot be packed: nothing is written, and the finally clause
\* takes the entry back out.  In the layer above, the payload cannot be
\* encoded, whether or not the connection still works.
SendFails(c) == TurnDown(c, "failed")

\* The connection was lost and the reader has not noticed yet: the write is
\* dropped, drain() raises the reader's exception without suspending, and the
\* finally clause takes the entry back out.
SendOnLostLink(c, i) ==
  /\ pc[c] = "new"
  /\ ~Down
  /\ pending[i] = NoCall
  /\ link = "down"
  /\ pid' = [pid EXCEPT ![c] = i]
  /\ pc' = [pc EXCEPT ![c] = "failed"]
  /\ UNCHANGED <<stateVars, pending, fut, got, must, readVars, netVars>>

SendCommandPacket(c, i) ==
  SendPacket(c, i) \/ RefuseDuplicate(c, i) \/ SendOnLostLink(c, i)

\* Mutant: no finally clause.
EndCallWithoutPop(c, how) ==
  /\ pc' = [pc EXCEPT ![c] = how]
  /\ UNCHANGED <<stateVars, pending, pid, fut, got, must, readVars, netVars>>

\* The finally clause: pops the entry of the call's id, whoever owns it.
EndCall(c, how) ==
  /\ pc' = [pc EXCEPT ![c] = how]
  /\ pending' = [pending EXCEPT ![pid[c]] = NoCall]
  /\ UNCHANGED <<stateVars, pid, fut, got, must, readVars, netVars>>

Outcome(c) == CASE fut[c] = "result"    -> "replied"
                [] fut[c] = "exception" -> "failed"
                [] OTHER                -> "cancelled"

\* drain() returns once the buffer is below its low-water mark; the await of
\* a future that is done does not suspend.
Drained(c) ==
  /\ pc[c] = "draining"
  /\ ~must[c]
  /\ ~paused
  /\ \/ /\ Unresolved(c)
        /\ pc' = [pc EXCEPT ![c] = "waiting"]
        /\ UNCHANGED <<stateVars, pending, pid, fut, got, must, readVars, netVars>>
     \/ ~Unresolved(c) /\ EndCall(c, Outcome(c))

\* The connection was lost under a suspended drain().
DrainFails(c) ==
  /\ pc[c] = "draining"
  /\ ~must[c]
  /\ paused
  /\ link = "down"
  /\ EndCall(c, "failed")

\* The awaited future is done and the task runs again.
Resume(c) ==
  /\ pc[c] = "waiting"
  /\ ~must[c]
  /\ ~Unresolved(c)
  /\ EndCall(c, Outcome(c))

\* task.cancel() on the caller: the future it waits for is cancelled with it;
\* in drain(), or once the future is done, only the task is.
CancelCall(c) ==
  /\ pc[c] \in Live
  /\ ~must[c]
  /\ must' = [must EXCEPT ![c] = TRUE]
  /\ fut' = [fut EXCEPT ![c] = IF pc[c] = "waiting" /\ Unresolved(c)
                               THEN "cancelled" ELSE @]
  /\ UNCHANGED <<stateVars, pending, pid, pc, got, readVars, netVars>>

\* The cancelled task runs: CancelledError, and a result it held is lost.
CallCancelled(c) ==
  /\ pc[c] \in Live
  /\ must[c]
  /\ EndCall(c, "cancelled")

\* A packet is given to the sender itself: no check(), no future, no entry.
\* The VM answers it like any other.
SendOneWay(i) ==
  /\ link # "down"
  /\ i \in OneWayIds
  /\ oneWay' = oneWay \cup {i}
  /\ UNCHANGED <<stateVars, pending, callVars, readVars,
                 link, rx, outbox, paused, owed, answered, wire, sent>>

------------------------------------------------------------------------------
(* receive_command                                                          *)

\* receive_command() is called and passes check().
CallReceive ==
  /\ reader = "idle"
  /\ ~Down
  /\ reader' = "reading"
  /\ UNCHANGED <<stateVars, pending, callVars, rcancel, crowded, netVars>>

\* A task calls while another is suspended in readexactly(), which raises for
\* the second: every pending future fails, and the first goes on reading.  In
\* a crowd that can happen to any of them, whenever one has to wait.
ReceiveClash ==
  /\ reader = "reading"
  /\ crowded \/ (~Down /\ wire = <<>> /\ rx = "open")
  /\ MarkError("failed")
  /\ Sweep("exception")
  /\ UNCHANGED <<closed, pid, pc, got, must, readVars, netVars>>

\* A task calls while another is in there that has been resumed, or could be,
\* but has not run: it reads what the other was waiting for.
SecondReceive ==
  /\ reader = "reading"
  /\ ~Down
  /\ crowded' = TRUE
  /\ UNCHANGED <<stateVars, pending, callVars, reader, rcancel, netVars>>

\* Whatever becomes of a receive_command() behind its check().
EnterReceive == CallReceive \/ ReceiveClash \/ SecondReceive

\* A crowd takes data for a header: what it reads next is no packet that was
\* sent, and ends somewhere in the packets that arrived, or before them.
Misread ==
  /\ crowded
  /\ wire # <<>>
  /\ \E m \in {Stray(i) : i \in PacketIds} \cup {Command(n) : n \in 1..MaxEvents}
            \cup {Garbage},
        k \in 0..Len(wire) :
       /\ Len(wire) - k < MaxWire
       /\ wire' = <<m>> \o SubSeq(wire, k + 1, Len(wire))
  /\ UNCHANGED <<stateVars, pending, callVars, readVars,
                 link, rx, outbox, paused, owed, answered, sent, oneWay>>

CanRead ==
  reader = "reading" /\ (~rcancel \/ crowded) /\ rx # "broken" /\ wire # <<>>

\* The task that read leaves.  In a crowd others may be in there still, a
\* cancelled one that has not run certainly is.
OneLeaves ==
  reader' \in (IF crowded THEN {"reading"} ELSE {}) \cup (IF rcancel THEN {} ELSE {"idle"})

\* Mutant: without the test of future.done().
DeliverReplyAnyway ==
  /\ CanRead
  /\ Head(wire).kind = "reply"
  /\ LET m == Head(wire)
         c == pending[m.id]
     IN  /\ pending' = [pending EXCEPT ![m.id] = NoCall]
         /\ fut' = IF c # NoCall THEN [fut EXCEPT ![c] = "result"] ELSE fut
         /\ got' = IF c # NoCall THEN [got EXCEPT ![c] = m.for] ELSE got
  /\ wire' = Tail(wire)
  /\ UNCHANGED <<stateVars, pid, pc, must, readVars,
                 link, rx, outbox, paused, owed, answered, sent, oneWay>>

\* A reply: its entry leaves the table, and its future is resolved unless it
\* is done already (a warning is logged then, and without an entry).
DeliverReply ==
  /\ CanRead
  /\ Head(wire).kind = "reply"
  /\ LET m == Head(wire)
         c == pending[m.id]
         open == c # NoCall /\ fut[c] = "pending"
     IN  /\ pending' = [pending EXCEPT ![m.id] = NoCall]
         /\ fut' = IF open THEN [fut EXCEPT ![c] = "result"] ELSE fut
         /\ got' = IF open THEN [got EXCEPT ![c] = m.for] ELSE got
  /\ wire' = Tail(wire)
  /\ UNCHANGED <<stateVars, pid, pc, must, readVars,
                 link, rx, outbox, paused, owed, answered, sent, oneWay>>

\* A command: receive_command() returns it.  Its caller is idle afterwards, or
\* calls again before it suspends ("reading"), if check() lets it.
DeliverCommand(next) ==
  /\ CanRead
  /\ Head(wire).kind = "command"
  /\ reader' = next
  /\ OneLeaves \/ (next = "reading" /\ ~Down)
  /\ wire' = Tail(wire)
  /\ UNCHANGED <<stateVars, pending, callVars, rcancel, crowded,
                 link, rx, outbox, paused, owed, answered, sent, oneWay>>

\* The read raises (lost connection, end of stream, a length below the
\* header's): the connection is in error and every pending future fails.
ReceiveFails ==
  /\ reader = "reading" /\ (~rcancel \/ crowded)
  /\ \/ rx = "broken" /\ wire' = wire
     \/ rx = "eof" /\ wire = <<>> /\ wire' = wire
     \/ CanRead /\ Head(wire).kind = "garbage" /\ wire' = Tail(wire)
  /\ OneLeaves
  /\ MarkError("failed")
  /\ Sweep("exception")
  /\ UNCHANGED <<closed, pid, pc, got, must, rcancel, crowded,
                 link, rx, outbox, paused, owed, answered, sent, oneWay>>

\* The receiving task is cancelled; it has no effect until the task runs.
CancelReceive ==
  /\ reader = "reading"
  /\ ~rcancel
  /\ rcancel' = TRUE
  /\ UNCHANGED <<stateVars, pending, callVars, reader, crowded, netVars>>

\* It runs: the connection is in error, every pending future is cancelled.
ReceiveCancelled ==
  /\ reader = "reading"
  /\ rcancel
  /\ reader' = "idle" \/ (crowded /\ reader' = "reading")
  /\ rcancel' = FALSE
  /\ MarkError("cancelled")
  /\ Sweep("cancelled")
  /\ UNCHANGED <<closed, pid, pc, got, must, crowded, netVars>>

------------------------------------------------------------------------------
(* close                                                                    *)

\* Mutant: without _clear_pending_replies().
CloseWithoutSweep ==
  /\ ~closed
  /\ closed' = TRUE
  /\ link' = IF link = "up" THEN "closing" ELSE link
  /\ UNCHANGED <<error, pending, callVars, readVars,
                 rx, outbox, paused, owed, answered, wire, sent, oneWay>>

\* Up to wait_closed(), which returns when the transport is down.  A second
\* close() finds nothing left to change.
Close ==
  /\ ~closed
  /\ closed' = TRUE
  /\ Sweep("cancelled")
  /\ link' = IF link = "up" THEN "closing" ELSE link
  /\ UNCHANGED <<error, pid, pc, got, must, readVars,
                 rx, outbox, paused, owed, answered, wire, sent, oneWay>>

------------------------------------------------------------------------------
(* The transport, the network and the VM                                    *)

\* The VM reads a packet; an emptied buffer is below the low-water mark.
VmTakes ==
  /\ link # "down"
  /\ outbox # <<>>
  /\ outbox' = Tail(outbox)
  /\ owed' = owed \cup {Head(outbox)}
  /\ paused' \in {p \in BOOLEAN : p => paused /\ Len(outbox) > 1}
  /\ UNCHANGED <<stateVars, pending, callVars, readVars,
                 link, rx, answered, wire, sent, oneWay>>

CanArrive == link = "up" /\ rx = "open" /\ Len(wire) < MaxWire

VmReplies(c) ==
  /\ CanArrive
  /\ c \in owed
  /\ owed' = owed \ {c}
  /\ answered' = answered \cup {c}
  /\ wire' = Append(wire, Reply(c))
  /\ UNCHANGED <<stateVars, pending, callVars, readVars,
                 link, rx, outbox, paused, sent, oneWay>>

\* The reply to a packet that was sent without a call.
VmRepliesOneWay(i) ==
  /\ CanArrive
  /\ i \in oneWay
  /\ oneWay' = oneWay \ {i}
  /\ wire' = Append(wire, Stray(i))
  /\ UNCHANGED <<stateVars, pending, callVars, readVars,
                 link, rx, outbox, paused, owed, answered, sent>>

VmSendsCommand ==
  /\ CanArrive
  /\ sent < MaxEvents
  /\ sent' = sent + 1
  /\ wire' = Append(wire, Command(sent'))
  /\ UNCHANGED <<stateVars, pending, callVars, readVars,
                 link, rx, outbox, paused, owed, answered, oneWay>>

VmSendsGarbage ==
  /\ CanArrive
  /\ wire' = Append(wire, Garbage)
  /\ UNCHANGED <<stateVars, pending, callVars, readVars,
                 link, rx, outbox, paused, owed, answered, sent, oneWay>>

\* The VM half-closes: the stream ends after what was sent.
VmHangsUp ==
  /\ link = "up" /\ rx = "open"
  /\ rx' = "eof"
  /\ UNCHANGED <<stateVars, pending, callVars, readVars,
                 link, outbox, paused, owed, answered, wire, sent, oneWay>>

\* The connection is reset: the reader raises at its next read, whatever it
\* has buffered, and the write buffer is gone.
LinkLost ==
  /\ link # "down"
  /\ link' = "down"
  /\ rx' = "broken"
  /\ outbox' = <<>>
  /\ UNCHANGED <<stateVars, pending, callVars, readVars, paused, owed, answered, wire, sent, oneWay>>

\* The transport of a closed connection goes down once its buffer is flushed.
LinkClosed ==
  /\ link = "closing"
  /\ outbox = <<>>
  /\ link' = "down"
  /\ rx' = IF rx = "open" THEN "eof" ELSE rx
  /\ UNCHANGED <<stateVars, pending, callVars, readVars,
                 outbox, paused, owed, answered, wire, sent, oneWay>>

------------------------------------------------------------------------------
\* What the tasks of the program do to a call already made.
CallStep(c) == Drained(c) \/ DrainFails(c) \/ Resume(c) \/ CallCancelled(c)

Environment ==
  \/ VmTakes
  \/ \E c \in Calls : VmReplies(c)
  \/ \E i \in OneWayIds : VmRepliesOneWay(i)
  \/ VmSendsCommand
  \/ VmSendsGarbage
  \/ VmHangsUp
  \/ LinkLost
  \/ LinkClosed

PacketNext ==
  \/ \E c \in Calls, i \in PacketIds : SendCommandPacket(c, i)
  \/ \E c \in Calls :
       RefuseCall(c) \/ SendFails(c) \/ CallStep(c) \/ CancelCall(c)
  \/ \E i \in OneWayIds : SendOneWay(i)
  \/ EnterReceive
  \/ Misread
  \/ DeliverReply
  \/ \E next \in {"idle", "reading"} : DeliverCommand(next)
  \/ ReceiveFails
  \/ CancelReceive
  \/ ReceiveCancelled
  \/ Close
  \/ Environment

PacketSpec == PacketInit /\ [][PacketNext]_pvars

------------------------------------------------------------------------------
(* Properties, for callers that may choose any ids                          *)

(* Every entry of the pending table belongs to a call that is still inside  *)
(* send_command_packet() with that id: no exit of a call, by reply, error,  *)
(* lost connection or cancellation in drain() or in the await, leaves an    *)
(* entry behind for a later reply to find (the finally at connection.py:201).*)
EntriesAreOwned ==
  \A i \in PacketIds : pending[i] # NoCall =>
    pid[pending[i]] = i /\ pc[pending[i]] \in Live

(* Once check() refuses calls, the pending table is empty and stays so: no  *)
(* call can slip in between marking the state and sweeping the table, so    *)
(* that nobody is left to fail it (connection.py:180-189, 206-208).         *)
SweptWhenDown == Down => pending = NoEntries

(* A future is completed at most once: a reply that races the caller's      *)
(* cancellation, an error or close() never completes a future that is done, *)
(* which asyncio would answer with InvalidStateError in the read loop       *)
(* (connection.py:171-172, 150).                                            *)
CompletedOnce ==
  [][\A c \in Calls : fut[c] \in {"result", "exception", "cancelled"} =>
       fut'[c] = fut[c] /\ got'[c] = got[c]]_pvars

(* What the two rest on: a call has a future from its registration on, its  *)
(* id is a packet's id from then on, and only such calls are known to the   *)
(* transport and the VM.                                                    *)
CallPhases ==
  \A c \in Calls :
    /\ pc[c] \in {"new", "refused"} => fut[c] = "none"
    /\ pc[c] \in Live \cup {"replied", "cancelled"} => fut[c] # "none"
    /\ fut[c] # "none" => pid[c] \in PacketIds

VmKnowsSentCalls ==
  /\ \A c \in owed \cup answered : fut[c] # "none"
  /\ \A k \in 1..Len(outbox) : fut[outbox[k]] # "none"

\* The inductive invariant.
PacketInv ==
  /\ PacketTypeOK
  /\ CallPhases
  /\ VmKnowsSentCalls
  /\ EntriesAreOwned
  /\ SweptWhenDown

(* A call still waiting for its reply is in the pending table under its id, *)
(* so that its reply, an error or close() finds it.                         *)
WaiterRegistered ==
  \A c \in Calls : pc[c] \in Live /\ Unresolved(c) => pending[pid[c]] = c

(* Once the connection is closed or in error no call is left waiting on an  *)
(* unresolved future: each was failed or cancelled.                         *)
NoOrphan ==
  Down => \A c \in Calls : pc[c] \in Live => ~Unresolved(c)

(* The reply a call returns answers that call's own packet.                 *)
OwnReply == \A c \in Calls : fut[c] = "result" => got[c] = c
==============================================================================
